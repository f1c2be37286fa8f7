--------------------------- MODULE StockDocuments ---------------------------
(***************************************************************************)
(* The two stock documents that live over several ledger writes: the       *)
(* two-step transfer between stock locations, and the four-eyes stock      *)
(* adjustment (stock-operations.ts).  Each handler changes its document in *)
(* the same MongoDB transaction as the ledger, so it is one step here.     *)
(***************************************************************************)
EXTENDS StockLedger, FiniteSets

CONSTANTS
  Transfers,      \* transfer ids
  Adjustments     \* adjustment ids

LineStates == {"PENDING", "RECEIVED", "RETURNED", "NONE"}   \* NONE: the item is not on the transfer

TransferDocs ==
  [from : Locations, to : Locations, status : {"IN_TRANSIT", "RECEIVED", "CANCELLED"},
   lines : [Items -> LineStates]]

AdjustmentDocs ==
  [item : Items, status : {"PENDING", "APPROVED", "REJECTED"}, expected : 1..MaxSeq,
   to : Statuses \union {None}, edit : Int \union {None}, by : Users, decidedBy : Users \union {None}]

ASSUME DocumentsAssumption ==
  /\ Transfers \union Adjustments \subseteq Refs      \* a ledger header refers to its document
  /\ Transfers \intersect Adjustments = {}            \* ids are unique
  /\ None \notin TransferDocs \union AdjustmentDocs

VARIABLES
  transfer,       \* per id: None, or the StockTransfer document
  adjustment      \* per id: None, or the StockAdjustment document

docVars == <<item, ledger, transfer, adjustment>>

DocsTypeOK ==
  /\ TypeOK
  /\ transfer \in [Transfers -> TransferDocs \union {None}]
  /\ adjustment \in [Adjustments -> AdjustmentDocs \union {None}]

DocsInit ==
  /\ Init
  /\ transfer = [t \in Transfers |-> None]
  /\ adjustment = [a \in Adjustments |-> None]

-----------------------------------------------------------------------------
(* Transfers *)

Pending(t) == {i \in Items : transfer[t].lines[i] = "PENDING"}

InTransit(t) == transfer[t] # None /\ transfer[t].status = "IN_TRANSIT"

StockLocation(loc) == loc \in Active /\ LocType[loc] \in Stock   \* requireStockLocation

(* settle: the transfer closes when nothing is pending any more. *)
Settled(doc) ==
  IF \E i \in Items : doc.lines[i] = "PENDING" THEN doc
  ELSE [doc EXCEPT !.status = IF \E i \in Items : doc.lines[i] = "RECEIVED" THEN "RECEIVED" ELSE "CANCELLED"]

Resolved(doc, S, state) ==
  Settled([doc EXCEPT !.lines = [i \in Items |-> IF i \in S THEN state ELSE doc.lines[i]]])

Resolve(t, S, state) == transfer' = [transfer EXCEPT ![t] = Resolved(transfer[t], S, state)]

CreateTransfer(t, from, to, S) ==
  /\ transfer[t] = None
  /\ from # to /\ StockLocation(from) /\ StockLocation(to)
  /\ \A i \in S : item[i].loc = from
  /\ Post("TRANSFER_OUT", S, [Line EXCEPT !.to = "IN_TRANSIT", !.dest = to, !.ref = t])
  /\ transfer' = [transfer EXCEPT ![t] =
                    [from |-> from, to |-> to, status |-> "IN_TRANSIT",
                     lines |-> [i \in Items |-> IF i \in S THEN "PENDING" ELSE "NONE"]]]
  /\ UNCHANGED adjustment

ReceiveAnything(t, S) ==      \* mutant: any piece in transit, not this transfer's
  /\ InTransit(t)
  /\ S # {}
  /\ Post("TRANSFER_IN", S, [Line EXCEPT !.to = "AVAILABLE", !.dest = transfer[t].to, !.ref = t])
  /\ Resolve(t, S, "RECEIVED")
  /\ UNCHANGED adjustment

ReceiveTransfer(t, S) ==
  /\ InTransit(t)
  /\ S # {} /\ S \subseteq Pending(t)
  /\ Post("TRANSFER_IN", S, [Line EXCEPT !.to = "AVAILABLE", !.dest = transfer[t].to, !.ref = t])
  /\ Resolve(t, S, "RECEIVED")
  /\ UNCHANGED adjustment

CancelTransfer(t) ==
  /\ InTransit(t)
  /\ Post("TRANSFER_IN", Pending(t), [Line EXCEPT !.to = "AVAILABLE", !.dest = transfer[t].from, !.ref = t])
  /\ Resolve(t, Pending(t), "RETURNED")
  /\ UNCHANGED adjustment

-----------------------------------------------------------------------------
(* Adjustments *)

(* The request only records the item's ledgerSeq; nothing is reserved.     *)
RequestAdjustment(a, u, i, to, edit) ==
  /\ adjustment[a] = None
  /\ Exists(i)
  /\ to # None \/ edit # None
  /\ to \notin {None, item[i].status} => Legal(item[i].status, to)
  /\ to = item[i].status => edit # None
  /\ edit # None => IF i \in Units THEN edit > 0 ELSE edit # 0
  /\ adjustment' = [adjustment EXCEPT ![a] =
                      [item |-> i, status |-> "PENDING", expected |-> item[i].seq,
                       to |-> to, edit |-> edit, by |-> u, decidedBy |-> None]]
  /\ UNCHANGED <<item, ledger, transfer>>

MovementOf(to) == IF to \in {"SCRAP", "MELTING"} THEN to ELSE "ADJUSTMENT"

Undecided(a) == adjustment[a] # None /\ adjustment[a].status = "PENDING"

ApproveUnseen(a, u) ==      \* mutant: the item may have moved since the request
  /\ Undecided(a)
  /\ adjustment[a].by # u
  /\ Post(MovementOf(adjustment[a].to), {adjustment[a].item},
          [Line EXCEPT !.to = adjustment[a].to, !.edit = adjustment[a].edit, !.ref = a])
  /\ adjustment' = [adjustment EXCEPT ![a].status = "APPROVED", ![a].decidedBy = u]
  /\ UNCHANGED transfer

(* Four eyes, and only on the item exactly as the requester saw it. *)
ApproveAdjustment(a, u) ==
  /\ Undecided(a)
  /\ adjustment[a].by # u
  /\ item[adjustment[a].item].seq = adjustment[a].expected
  /\ Post(MovementOf(adjustment[a].to), {adjustment[a].item},
          [Line EXCEPT !.to = adjustment[a].to, !.edit = adjustment[a].edit, !.ref = a])
  /\ adjustment' = [adjustment EXCEPT ![a].status = "APPROVED", ![a].decidedBy = u]
  /\ UNCHANGED transfer

RejectAdjustment(a, u) ==
  /\ Undecided(a)
  /\ adjustment' = [adjustment EXCEPT ![a].status = "REJECTED", ![a].decidedBy = u]
  /\ UNCHANGED <<item, ledger, transfer>>

-----------------------------------------------------------------------------
(* Other traffic on the same items. *)
OtherMoves ==
  /\ \/ \E i \in Items, loc \in Active, b \in 1..MaxBal : Receive("PURCHASE_RECEIPT", i, "AVAILABLE", loc, b)
     \/ \E i \in Items, r \in Refs \ (Transfers \union Adjustments) :
          \/ \E u \in Users : Reserve({i}, r, u, "open")
          \/ Release({i}, r, FALSE)
          \/ Sell({i}, r)
  /\ UNCHANGED <<transfer, adjustment>>

(* Enumerated inputs: every status an adjustment may ask for, and edits    *)
(* within the model's weights.                                             *)
RequestStatuses == (Statuses \ {"RETURNED_TO_CUSTOMER"}) \union {None}
RequestEdits    == (-MaxBal .. MaxBal) \union {None}

DocsNext ==
  \/ \E t \in Transfers :
       \/ \E from, to \in Locations, S \in (SUBSET Items) \ {{}} : CreateTransfer(t, from, to, S)
       \/ \E S \in SUBSET Items : ReceiveTransfer(t, S)
       \/ CancelTransfer(t)
  \/ \E a \in Adjustments, u \in Users :
       \/ \E i \in Items, to \in RequestStatuses, edit \in RequestEdits : RequestAdjustment(a, u, i, to, edit)
       \/ ApproveAdjustment(a, u)
       \/ RejectAdjustment(a, u)
  \/ OtherMoves

DocsSpec == DocsInit /\ [][DocsNext]_docVars

-----------------------------------------------------------------------------
(* Properties *)

EntriesOf(entries, m, r) == {k \in 1..Len(entries) : entries[k].movement = m /\ entries[k].ref = r}

(* Each piece on a transfer was dispatched by it exactly once, and was     *)
(* taken in by it exactly once, at the destination or back at the source,  *)
(* when its line says so and never otherwise.                              *)
TransferMatchesLedger ==
  \A t \in Transfers : transfer[t] # None =>
    /\ \A i \in Items :
         LET out  == EntriesOf(ledger[i], "TRANSFER_OUT", t)
             back == EntriesOf(ledger[i], "TRANSFER_IN", t)
             line == transfer[t].lines[i]
         IN  /\ Cardinality(out) = (IF line = "NONE" THEN 0 ELSE 1)
             /\ Cardinality(back) = (IF line \in {"RECEIVED", "RETURNED"} THEN 1 ELSE 0)
             /\ \A k \in back : ledger[i][k].dst = (IF line = "RECEIVED" THEN transfer[t].to ELSE transfer[t].from)
    /\ (transfer[t].status = "IN_TRANSIT") <=> (Pending(t) # {})

(* An approved adjustment was applied, once, to the item exactly as its    *)
(* requester saw it (the next entry after the one seen); a request that is *)
(* pending or rejected has touched nothing.                                *)
AdjustmentMatchesLedger ==
  \A a \in Adjustments : adjustment[a] # None =>
    \A i \in Items : {k \in 1..Len(ledger[i]) : ledger[i][k].ref = a} =
      IF adjustment[a].status = "APPROVED" /\ i = adjustment[a].item THEN {adjustment[a].expected + 1} ELSE {}

(* Said of the code, and not kept by it (see the README):                  *)
(* business-rules 2.13: a piece on an open transfer can be received or     *)
(* cancelled back, so it is still in transit.                              *)
PendingIsInTransit ==
  \A t \in Transfers : InTransit(t) => \A i \in Pending(t) : item[i].status = "IN_TRANSIT"

=============================================================================
