----------------------------- MODULE Purchasing -----------------------------
(***************************************************************************)
(* Buying: the requisition, the purchase order made from it and the goods  *)
(* receipts that turn it into stock (modules/procurement/: requisition,    *)
(* purchase-order and goods-receipt services).                             *)
(*                                                                         *)
(* Every move goes through a compare-and-set on the status (applyPo,       *)
(* applyRequisition) and is one action.  Three handlers rely on what they  *)
(* read before they write, and run in a clerk: the edit of a draft, the    *)
(* order that converts its requisition after it is stored, and the goods   *)
(* receipt, whose numbers come from a copy read before its transaction.    *)
(***************************************************************************)
EXTENDS Summation, Sequences, FiniteSetsExt

CONSTANTS
  Requisitions, Orders,
  Lines,         \* the lines of a document: positions in its array
  Terms,         \* what a document may ask for: an amount for each of its lines
  Consumables,   \* which lines of an order may be CONSUMABLE: sets of lines
  MaxEntries,    \* bound: lines of one goods receipt
  Clerks,
  None

ASSUME PurchasingAssumption ==
  /\ Lines # {} /\ Terms # {} /\ Terms \subseteq [Lines -> Nat \ {0}]
  /\ Consumables \subseteq SUBSET Lines
  /\ MaxEntries \in Nat

VARIABLES
  req,           \* PurchaseRequisition documents
  spo,           \* (supplier) PurchaseOrder documents
  stock,         \* what the PURCHASE_RECEIPT entries of an order brought in, by line
  desk,          \* what each clerk is doing, and what it has read
  rewritten,     \* history: documents saved by an edit that had read an earlier status
  overlapped     \* history: orders with a receipt whose checks missed another entry

buyingVars == <<req, spo, stock, desk, rewritten, overlapped>>

Rule(from, to) == [from |-> from, to |-> to]

RequisitionRules ==
  [ submit  |-> Rule({"DRAFT"}, "SUBMITTED"),
    approve |-> Rule({"SUBMITTED"}, "APPROVED"),
    reject  |-> Rule({"SUBMITTED"}, "REJECTED"),
    convert |-> Rule({"APPROVED"}, "CONVERTED"),
    cancel  |-> Rule({"DRAFT", "SUBMITTED", "APPROVED"}, "CANCELLED") ]

OrderRules ==
  [ submit  |-> Rule({"DRAFT"}, "SUBMITTED"),
    approve |-> Rule({"SUBMITTED"}, "APPROVED"),
    receive |-> Rule({"APPROVED", "PARTIALLY_RECEIVED"}, "PARTIALLY_RECEIVED"),
    cancel  |-> Rule({"DRAFT", "SUBMITTED", "APPROVED", "PARTIALLY_RECEIVED"}, "CANCELLED") ]

Statuses(rules) == {"DRAFT"} \union UNION {rules[a].from \union {rules[a].to} : a \in DOMAIN rules}

Entries == [line : Lines, amount : UNION {{t[l] : l \in Lines} : t \in Terms}]
Receipts == UNION {[1..n -> Entries] : n \in 1..MaxEntries}

RequisitionDocs == [status : Statuses(RequisitionRules), wanted : Terms, order : Orders \union {None}]

OrderDocs ==
  [status : Statuses(OrderRules) \union {"RECEIVED"}, requisition : Requisitions \union {None},
   ordered : Terms, consumable : Consumables, received : [Lines -> Nat]]

ASSUME BuyingDocumentsAssumption == None \notin RequisitionDocs \union OrderDocs

Nothing == [l \in Lines |-> 0]

Errands ==
  [job : {"none", "edit-requisition", "edit-order", "convert", "receive"},
   doc : Requisitions \union Orders \union {None}, other : Orders \union {None},
   receipt : Receipts \union {<<>>}, read : [Lines -> Nat], consumable : SUBSET Lines,
   target : Statuses(OrderRules) \union {"RECEIVED", None}]

Off == [job |-> "none", doc |-> None, other |-> None, receipt |-> <<>>, read |-> Nothing, consumable |-> {}, target |-> None]

BuyingTypeOK ==
  /\ req \in [Requisitions -> RequisitionDocs \union {None}]
  /\ spo \in [Orders -> OrderDocs \union {None}]
  /\ stock \in [Orders -> [Lines -> Nat]]
  /\ desk \in [Clerks -> Errands]
  /\ rewritten \subseteq Requisitions \union Orders /\ overlapped \subseteq Orders

Idle(w) == desk[w].job = "none"
Begin(w, t) == Idle(w) /\ desk' = [desk EXCEPT ![w] = t]
Doing(w, job) == desk[w].job = job
Done(w) == desk' = [desk EXCEPT ![w] = Off]

-----------------------------------------------------------------------------
(* Moves: a compare-and-set on the status                                  *)

MoveRequisition(r, a) ==
  /\ req[r] # None /\ req[r].status \in RequisitionRules[a].from
  /\ req' = [req EXCEPT ![r].status = RequisitionRules[a].to]
  /\ UNCHANGED <<spo, stock, desk, rewritten, overlapped>>

MoveOrder(p, a) ==
  /\ spo[p] # None /\ spo[p].status \in OrderRules[a].from
  /\ spo' = [spo EXCEPT ![p].status = OrderRules[a].to]
  /\ UNCHANGED <<req, stock, desk, rewritten, overlapped>>

-----------------------------------------------------------------------------
(* Drafts                                                                  *)

Stage(submit) == IF submit THEN "SUBMITTED" ELSE "DRAFT"

CreateRequisition(r, t, submit) ==
  /\ req[r] = None
  /\ req' = [req EXCEPT ![r] = [status |-> Stage(submit), wanted |-> t, order |-> None]]
  /\ UNCHANGED <<spo, stock, desk, rewritten, overlapped>>

ReadRequisitionDraft(w, r) ==
  /\ req[r] # None /\ req[r].status = "DRAFT"
  /\ Begin(w, [Off EXCEPT !.job = "edit-requisition", !.doc = r])
  /\ UNCHANGED <<req, spo, stock, rewritten, overlapped>>

ReadOrderDraft(w, p) ==
  /\ spo[p] # None /\ spo[p].status = "DRAFT"
  /\ Begin(w, [Off EXCEPT !.job = "edit-order", !.doc = p])
  /\ UNCHANGED <<req, spo, stock, rewritten, overlapped>>

(* The save replaces the lines, which mongoose versions: another edit of   *)
(* the same document that is under way fails.  A status move is not        *)
(* versioned, and does not stop it.                                        *)
Saved(w) == desk' = [v \in Clerks |-> IF desk[v].job = desk[w].job /\ desk[v].doc = desk[w].doc THEN Off ELSE desk[v]]

Resubmitted(doc, submit) == IF submit THEN [doc EXCEPT !.status = "SUBMITTED"] ELSE doc

SaveRequisitionDraft(w, t, submit) ==
  /\ Doing(w, "edit-requisition")
  /\ LET r == desk[w].doc IN
       /\ req' = [req EXCEPT ![r] = Resubmitted([@ EXCEPT !.wanted = t], submit)]
       /\ rewritten' = IF req[r].status = "DRAFT" THEN rewritten ELSE rewritten \union {r}
  /\ Saved(w)
  /\ UNCHANGED <<spo, stock, overlapped>>

SaveOrderDraft(w, t, c, submit) ==
  /\ Doing(w, "edit-order")
  /\ LET p == desk[w].doc IN
       /\ spo' = [spo EXCEPT ![p] = Resubmitted([@ EXCEPT !.ordered = t, !.consumable = c, !.received = Nothing], submit)]
       /\ rewritten' = IF spo[p].status = "DRAFT" THEN rewritten ELSE rewritten \union {p}
  /\ Saved(w)
  /\ UNCHANGED <<req, stock, overlapped>>

-----------------------------------------------------------------------------
(* The order and its requisition                                           *)

CreateOrder(w, p, r, t, c, submit) ==
  /\ spo[p] = None
  /\ r # None => req[r] # None /\ req[r].status = "APPROVED"
  /\ spo' = [spo EXCEPT ![p] = [status |-> Stage(submit), requisition |-> r, ordered |-> t, consumable |-> c,
                                received |-> Nothing]]
  /\ Idle(w)
  /\ IF r = None THEN UNCHANGED desk
                 ELSE Begin(w, [Off EXCEPT !.job = "convert", !.doc = r, !.other = p])
  /\ UNCHANGED <<req, stock, rewritten, overlapped>>

(* markRequisitionConverted; when the requisition has moved on, the caller *)
(* gets an error and the order stays, naming a requisition that is not its.*)
ConvertRequisition(w) ==
  /\ Doing(w, "convert")
  /\ LET r == desk[w].doc IN
       req' = IF req[r].status \in RequisitionRules["convert"].from
              THEN [req EXCEPT ![r].status = RequisitionRules["convert"].to, ![r].order = desk[w].other]
              ELSE req
  /\ Done(w)
  /\ UNCHANGED <<spo, stock, rewritten, overlapped>>

-----------------------------------------------------------------------------
(* Goods receipts                                                          *)

(* purchaseOrderStatusFor                                                  *)
StatusFor(ordered, received) ==
  IF \A l \in Lines : received[l] >= ordered[l] THEN "RECEIVED"
  ELSE IF \E l \in Lines : received[l] > 0 THEN "PARTIALLY_RECEIVED" ELSE "APPROVED"

OfLine(receipt, l) == {k \in DOMAIN receipt : receipt[k].line = l}
Received(receipt, l) == SumOf([k \in OfLine(receipt, l) |-> receipt[k].amount])

(* A line named twice counts once in the simulated outcome: the last entry.*)
LinesAfter(received, receipt) ==
  [l \in Lines |->
     received[l] + IF OfLine(receipt, l) = {} THEN 0 ELSE receipt[Max(OfLine(receipt, l))].amount]

AcceptsAnything(p, receipt) ==     \* mutant: a fully received line is refused, an excess is not
  \A k \in DOMAIN receipt : LET l == receipt[k].line IN
    spo[p].received[l] < spo[p].ordered[l]

(* prepareLine, entry by entry, against what the copy says is outstanding. *)
Accepts(p, receipt) ==
  \A k \in DOMAIN receipt : LET l == receipt[k].line IN
    spo[p].received[l] + receipt[k].amount <= spo[p].ordered[l]

PrepareReceipt(w, p, receipt) ==
  /\ spo[p] # None /\ spo[p].status \in OrderRules["receive"].from
  /\ Accepts(p, receipt)
  /\ Begin(w, [Off EXCEPT !.job = "receive", !.doc = p, !.receipt = receipt, !.read = spo[p].received,
                          !.consumable = spo[p].consumable,
                          !.target = StatusFor(spo[p].ordered, LinesAfter(spo[p].received, receipt))])
  /\ UNCHANGED <<req, spo, stock, rewritten, overlapped>>

(* isLedgerTracked: a CONSUMABLE line never becomes stock.                 *)
IntoStock(amounts, consumable) == [l \in Lines |-> IF l \in consumable THEN 0 ELSE amounts[l]]

PostCopy(w) ==      \* mutant: the lines are written as simulated, not incremented
  /\ Doing(w, "receive")
  /\ LET p == desk[w].doc
         receipt == desk[w].receipt
         arrived == IntoStock([l \in Lines |-> Received(receipt, l)], desk[w].consumable)
     IN IF spo[p].status \notin OrderRules["receive"].from
        THEN UNCHANGED <<spo, stock, overlapped>>
        ELSE /\ spo' = [spo EXCEPT ![p].received = LinesAfter(desk[w].read, receipt), ![p].status = desk[w].target]
             /\ stock' = [stock EXCEPT ![p] = [l \in Lines |-> @[l] + arrived[l]]]
             /\ UNCHANGED overlapped
  /\ Done(w)
  /\ UNCHANGED <<req, rewritten>>

(* The transaction: pieces and ledger entries for the lines the copy calls *)
(* ledger-tracked, the progress of every line, and the move to the target  *)
(* worked out before.  applyPo reads the status again, so only a status    *)
(* that receives nothing makes it fail.                                    *)
PostReceipt(w) ==
  /\ Doing(w, "receive")
  /\ LET p == desk[w].doc
         receipt == desk[w].receipt
         arrived == IntoStock([l \in Lines |-> Received(receipt, l)], desk[w].consumable)
     IN IF spo[p].status \notin OrderRules["receive"].from
        THEN UNCHANGED <<spo, stock, overlapped>>
        ELSE /\ spo' = [spo EXCEPT ![p].received = [l \in Lines |-> @[l] + Received(receipt, l)],
                                   ![p].status = desk[w].target]
             /\ stock' = [stock EXCEPT ![p] = [l \in Lines |-> @[l] + arrived[l]]]
             /\ overlapped' = IF desk[w].read = spo[p].received
                                 /\ \A l \in Lines : Cardinality(OfLine(receipt, l)) <= 1
                              THEN overlapped ELSE overlapped \union {p}
  /\ Done(w)
  /\ UNCHANGED <<req, rewritten>>

(* The process dies, or gives up, before its next write.                   *)
Crash(w) == ~Idle(w) /\ Done(w) /\ UNCHANGED <<req, spo, stock, rewritten, overlapped>>

-----------------------------------------------------------------------------
Ordering ==
  \/ \E r \in Requisitions, t \in Terms, submit \in BOOLEAN : CreateRequisition(r, t, submit)
  \/ \E r \in Requisitions, a \in {"submit", "approve", "reject", "cancel"} : MoveRequisition(r, a)
  \/ \E p \in Orders, a \in {"submit", "approve"} : MoveOrder(p, a)
  \/ \E w \in Clerks :
       \/ \E r \in Requisitions : ReadRequisitionDraft(w, r)
       \/ \E p \in Orders : ReadOrderDraft(w, p)
       \/ \E t \in Terms, submit \in BOOLEAN : SaveRequisitionDraft(w, t, submit)
       \/ \E t \in Terms, c \in Consumables, submit \in BOOLEAN :
            \/ SaveOrderDraft(w, t, c, submit)
            \/ \E p \in Orders, r \in Requisitions \union {None} : CreateOrder(w, p, r, t, c, submit)
       \/ ConvertRequisition(w)

Receiving ==
  \/ \E p \in Orders : MoveOrder(p, "cancel")
  \/ \E w \in Clerks :
       \/ \E p \in Orders, receipt \in Receipts : PrepareReceipt(w, p, receipt)
       \/ PostReceipt(w) \/ Crash(w)

-----------------------------------------------------------------------------
(* What a purchase order says arrived on its ledger-tracked lines is what  *)
(* its receipts put on the shelf, and nothing of its CONSUMABLE lines ever *)
(* is, whatever receipts and edits raced; only the late save of a draft    *)
(* edit, which replaces the lines, can break it.                           *)
ReceivedIsInStock ==
  \A p \in Orders \ rewritten : spo[p] # None => stock[p] = IntoStock(spo[p].received, spo[p].consumable)

(* receiveGoods promises that nothing beyond the outstanding amount is     *)
(* received and that the status never lags the lines.  That holds for an   *)
(* order unless two of its receipts overlapped or one named a line twice.  *)
StatusFollowsReceipts ==
  \A p \in Orders \ (rewritten \union overlapped) : spo[p] # None =>
    /\ \A l \in Lines : spo[p].received[l] <= spo[p].ordered[l]
    /\ spo[p].status \in {"DRAFT", "SUBMITTED", "APPROVED", "PARTIALLY_RECEIVED", "RECEIVED"} =>
         StatusFor(spo[p].ordered, spo[p].received) =
           IF spo[p].status \in {"DRAFT", "SUBMITTED"} THEN "APPROVED" ELSE spo[p].status

(* Said of the code, and not kept by it (see the README):                  *)
(* The receipt service's comments: a receipt beyond what is outstanding is *)
(* refused before anything is written, and "the compare-and-set is on the  *)
(* PO's ORIGINAL status, so a concurrent change to it aborts this whole    *)
(* transaction".                                                           *)
NothingOverReceived ==
  \A p \in Orders \ rewritten : spo[p] # None =>
    \A l \in Lines : spo[p].received[l] <= spo[p].ordered[l]
=============================================================================
