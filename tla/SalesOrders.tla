---------------------------- MODULE SalesOrders ----------------------------
(***************************************************************************)
(* The wholesale sales order of one customer: credit is enforced when an   *)
(* approved purchase order is converted (procurement.service.ts), pieces   *)
(* are held for it and sold on invoices (fulfilment.service.ts).           *)
(*                                                                         *)
(* A sales order has one line, its quantity is what was approved, and a    *)
(* piece costs 1, so that money is counted in pieces.  Credit hold and     *)
(* overdue invoices, which add reasons to ask for an override, are left    *)
(* out: the limit alone decides.                                           *)
(*                                                                         *)
(* A clerk runs one handler: it reads the order, and writes later.  A      *)
(* transaction that writes the customer document is two actions, what it   *)
(* sees and its commit: a commit makes every other such transaction start  *)
(* again (MongoDB's write conflict; withTransaction retries).              *)
(***************************************************************************)
EXTENDS Enquiries, Summation, Sequences, FiniteSetsExt, SequencesExt

CONSTANTS
  MaxPieces,     \* pieces of the design, numbered by age: pickUpTo takes the oldest
  Limit,         \* the customer's credit limit
  MaxPicks,      \* MAX_PICK_ATTEMPTS
  MaxNamed,      \* how often one request to invoice may name the line: 200 (invoiceOrderSchema)
  Clerks,
  Payments, Notes

ASSUME SalesOrdersAssumption ==
  /\ MaxPieces \in Nat /\ Limit \in Nat /\ MaxPicks \in Nat \ {0} /\ MaxNamed \in Nat \ {0}
  /\ None \notin Payments \union Notes
  /\ IsFiniteSet(Payments) /\ IsFiniteSet(Notes)

VARIABLES
  so,         \* SalesOrder documents, by the purchase order they come from (a unique index)
  piece,      \* the pieces' inventory records: status, the order holding them, the order they were sold to
  invoice,    \* Invoice documents, in the order of issue
  applied,    \* live payment allocations: what each payment pays of each invoice
  credited,   \* CreditNote documents
  ar,         \* the balance of the accounts receivable account in the journal
  desk,       \* what each clerk is doing, and what it has read
  muddled     \* history: orders written from a copy that was out of date, or left half released

salesVars == <<so, piece, invoice, applied, credited, ar, desk, muddled>>

Pieces == 1..MaxPieces
Invoices == 1..MaxPieces      \* an invoice sells at least one piece

SORules ==
  [ confirm  |-> Rule({"DRAFT"}, {"CONFIRMED"}),
    allocate |-> Rule({"CONFIRMED", "PARTIALLY_ALLOCATED", "PARTIALLY_FULFILLED"},
                      {"PARTIALLY_ALLOCATED", "ALLOCATED", "PARTIALLY_FULFILLED", "CONFIRMED"}),
    release  |-> Rule({"PARTIALLY_ALLOCATED", "ALLOCATED"}, {"CONFIRMED"}),
    invoice  |-> Rule({"PARTIALLY_ALLOCATED", "ALLOCATED", "PARTIALLY_FULFILLED"},
                      {"PARTIALLY_FULFILLED", "FULFILLED"}),
    cancel   |-> Rule({"DRAFT", "CONFIRMED", "PARTIALLY_ALLOCATED", "ALLOCATED", "PARTIALLY_FULFILLED"},
                      {"CANCELLED"}) ]

SOTransitions ==
  [ DRAFT               |-> {"CONFIRMED", "CANCELLED"},
    CONFIRMED           |-> {"PARTIALLY_ALLOCATED", "ALLOCATED", "CANCELLED"},
    PARTIALLY_ALLOCATED |-> {"PARTIALLY_ALLOCATED", "ALLOCATED", "PARTIALLY_FULFILLED", "FULFILLED",
                             "CONFIRMED", "CANCELLED"},
    ALLOCATED           |-> {"PARTIALLY_FULFILLED", "FULFILLED", "CONFIRMED", "CANCELLED"},
    PARTIALLY_FULFILLED |-> {"PARTIALLY_FULFILLED", "FULFILLED", "CANCELLED"},
    FULFILLED           |-> {},
    CANCELLED           |-> {} ]

SalesOrderDocs == [status : DOMAIN SOTransitions, held : Seq(Pieces), invoiced : Nat, override : BOOLEAN]

PieceDocs == [status : {"AVAILABLE", "RESERVED", "SOLD"},
              holder : Enquiries \union {None}, buyer : Enquiries \union {None}]

InvoiceDocs == [so : Enquiries, items : SUBSET Pieces, billed : Nat]

CreditNotes == [invoice : Invoices \union {None}, amount : Nat, status : {"ISSUED", "CANCELLED"}]

ASSUME SalesDocumentsAssumption == None \notin SalesOrderDocs /\ None \notin CreditNotes

Tasks ==
  [job : {"none", "convert", "convert-commit", "confirm", "confirm-commit", "allocate", "hold", "release", "cancel",
          "free", "invoice"},
   po : Enquiries \union {None}, held : Seq(Pieces), invoiced : Nat, picked : Seq(Pieces), n : Nat,
   allowed : BOOLEAN, over : BOOLEAN, old : BOOLEAN]

SalesTypeOK ==
  /\ so \in [Enquiries -> SalesOrderDocs \union {None}]
  /\ piece \in [Pieces -> PieceDocs]
  /\ invoice \in Seq(InvoiceDocs)
  /\ applied \in [Payments -> [Invoices -> Nat]]
  /\ credited \in [Notes -> CreditNotes \union {None}]
  /\ ar \in Int
  /\ desk \in [Clerks -> Tasks]
  /\ muddled \subseteq Enquiries

Free == [job |-> "none", po |-> None, held |-> <<>>, invoiced |-> 0, picked |-> <<>>, n |-> 0,
         allowed |-> FALSE, over |-> FALSE, old |-> FALSE]

-----------------------------------------------------------------------------
(* The order's numbers *)

Total(p) == po[p].approved.lines

StatusFor(total, allocated, invoiced) ==
  CASE invoiced >= total -> "FULFILLED"
    [] 0 < invoiced /\ invoiced < total -> "PARTIALLY_FULFILLED"
    [] invoiced = 0 /\ allocated >= total -> "ALLOCATED"
    [] invoiced = 0 /\ 0 < allocated /\ allocated < total -> "PARTIALLY_ALLOCATED"
    [] OTHER -> "CONFIRMED"

MaySo(action, p) == so[p] # None /\ so[p].status \in SORules[action].from

(* assertSoMove: a derived target must be an edge from where the order is now. *)
MayMoveSo(action, p, to) ==
  /\ MaySo(action, p) /\ to \in SORules[action].to
  /\ to = so[p].status \/ to \in SOTransitions[so[p].status]

LiveOrders == {p \in Enquiries : so[p] # None /\ so[p].status \in
                {"CONFIRMED", "PARTIALLY_ALLOCATED", "ALLOCATED", "PARTIALLY_FULFILLED"}}

InvoiceTotal(i) == invoice[i].billed
Paid(i) == SumOf([y \in Payments |-> applied[y][i]])
IssuedNotes == {n \in Notes : credited[n] # None /\ credited[n].status = "ISSUED"}
Noted(i) == SumOf([n \in {m \in IssuedNotes : credited[m].invoice = i} |-> credited[n].amount])

(* creditFor: what invoices still owe, and what live orders have promised. *)
Exposure ==
  LET owed(i) == Max({0, InvoiceTotal(i) - Paid(i) - Noted(i)})
      promised(p) == Total(p) - so[p].invoiced
  IN SumOf([i \in DOMAIN invoice |-> owed(i)]) + SumOf([p \in LiveOrders |-> promised(p)])

-----------------------------------------------------------------------------
At(w, job) == desk[w].job = job
Next1(w, fields) == desk' = [desk EXCEPT ![w] = fields]
Rest(w) == Next1(w, Free)

WithCopy == {"allocate", "hold", "release", "cancel", "invoice"}
Checked == {"convert-commit", "confirm-commit"}

(* An invoice of a muddled order, or of more pieces than are held, may bill *)
(* a piece more than it takes off what is promised; a credit check made    *)
(* just before is out of date.                                             *)
Overbills(w, p) == At(w, "invoice") /\ (desk[w].old \/ p \in muddled \/ desk[w].n > Len(desk[w].held))

(* A write of order p by w, which goes on as `fields`, puts the copies the *)
(* other clerks work from out of date; history keeps that w's own was.     *)
WritesOrder(w, p, fields) ==
  /\ desk' = [v \in Clerks |-> IF v = w THEN fields
                               ELSE [desk[v] EXCEPT !.old = \/ @
                                                            \/ desk[v].po = p /\ desk[v].job \in WithCopy
                                                            \/ Overbills(w, p) /\ desk[v].job \in Checked]]
  /\ muddled' = IF desk[w].old THEN muddled \union {p} ELSE muddled

(* Conversion and credit approval, both transactions on the customer.      *)

StartConvert(w, p, override) ==
  /\ At(w, "none")
  /\ MayPo("convert", p)
  /\ Next1(w, [Free EXCEPT !.job = "convert", !.po = p, !.allowed = override])
  /\ UNCHANGED <<so, piece, invoice, ar, muddled, po, quote>>

StartApproveCredit(w, p, canOverride) ==
  /\ At(w, "none")
  /\ MaySo("confirm", p)
  /\ Next1(w, [Free EXCEPT !.job = "confirm", !.po = p, !.allowed = canOverride])
  /\ UNCHANGED <<so, piece, invoice, ar, muddled, po, quote>>

(* checkCredit on what the transaction sees.                               *)
CheckCredit(w) ==
  /\ desk[w].job \in {"convert", "confirm"}
  /\ Next1(w, [desk[w] EXCEPT !.job = IF desk[w].job = "convert" THEN "convert-commit" ELSE "confirm-commit",
                              !.over = Exposure + Total(desk[w].po) > Limit, !.old = FALSE])
  /\ UNCHANGED <<so, piece, invoice, ar, muddled, po, quote>>

NoConflicts(w) == Rest(w)     \* mutant: the customer document is not written

(* creditSeq: what a commit does to the other transactions on the customer. *)
Conflicts(w) ==
  desk' = [v \in Clerks |->
             CASE v = w -> Free
               [] v # w /\ desk[v].job = "convert-commit" -> [desk[v] EXCEPT !.job = "convert"]
               [] v # w /\ desk[v].job = "confirm-commit" -> [desk[v] EXCEPT !.job = "confirm"]
               [] OTHER -> desk[v]]

CommitOrder(w, p) ==
  /\ At(w, "convert-commit") /\ desk[w].po = p
  /\ LET held == desk[w].over /\ ~desk[w].allowed
     IN \/ /\ so[p] = None /\ ConvertEnquiry(p)
           /\ so' = [so EXCEPT ![p] = [status |-> IF held THEN "DRAFT" ELSE "CONFIRMED", held |-> <<>>,
                                       invoiced |-> 0, override |-> desk[w].over /\ desk[w].allowed]]
           /\ Conflicts(w)
        \/ ~(MayPo("convert", p) /\ so[p] = None) /\ Rest(w) /\ UNCHANGED <<so, po, quote>>
  /\ UNCHANGED <<piece, invoice, ar, muddled>>

CommitApproval(w) ==
  /\ At(w, "confirm-commit")
  /\ LET p == desk[w].po
         granted == MaySo("confirm", p) /\ (desk[w].over => desk[w].allowed)
     IN \/ /\ granted
           /\ so' = [so EXCEPT ![p].status = "CONFIRMED", ![p].override = desk[w].over]
           /\ Conflicts(w)
        \/ ~granted /\ Rest(w) /\ UNCHANGED so
  /\ UNCHANGED <<piece, invoice, ar, muddled, po, quote>>

-----------------------------------------------------------------------------
(* Allocation: choose on the shelf, then hold in one transaction.          *)

Copy(p, job) == [Free EXCEPT !.job = job, !.po = p, !.held = so[p].held, !.invoiced = so[p].invoiced]

Needed(d) == Total(d.po) - d.invoiced - Len(d.held)

StartAllocate(w, p) ==
  /\ At(w, "none")
  /\ MaySo("allocate", p) /\ Needed(Copy(p, "allocate")) > 0
  /\ Next1(w, Copy(p, "allocate"))
  /\ UNCHANGED <<so, piece, invoice, ar, muddled, po, quote>>

(* The list of the k oldest pieces of S, oldest first: all of S if it has  *)
(* no more than k.                                                         *)
IsOldest(list, S, k) ==
  /\ \A i, j \in DOMAIN list : i < j => list[i] < list[j]
  /\ \A i \in DOMAIN list, x \in S \ Range(list) : list[i] < x
  /\ Len(list) = k \/ Range(list) = S

ListsOf(S, k) == UNION {[1..n -> S] : n \in 0..k}

PickPieces(w) ==
  /\ At(w, "allocate")
  /\ LET shelf == {x \in Pieces : piece[x].status = "AVAILABLE"} IN
       IF shelf = {} \/ desk[w].n = MaxPicks
       THEN Rest(w)        \* StockShortError
       ELSE \E list \in ListsOf(shelf, Needed(desk[w])) :
              /\ IsOldest(list, shelf, Needed(desk[w]))
              /\ Next1(w, [desk[w] EXCEPT !.job = "hold", !.picked = list, !.n = @ + 1])
  /\ UNCHANGED <<so, piece, invoice, ar, muddled, po, quote>>

NewAllocationsOnly(d) == d.picked     \* mutant: the earlier allocation is overwritten

Allocations(d) == d.held \o d.picked

HoldPieces(w) ==
  /\ At(w, "hold")
  /\ LET d == desk[w]
         p == d.po
         list == Allocations(d)
         target == StatusFor(Total(p), Len(list), d.invoiced)
         takes == \A x \in Range(d.picked) : piece[x].status = "AVAILABLE"
     IN \/ /\ takes /\ MayMoveSo("allocate", p, target)
           /\ piece' = [x \in Pieces |-> IF x \in Range(d.picked)
                                         THEN [piece[x] EXCEPT !.status = "RESERVED", !.holder = p] ELSE piece[x]]
           /\ so' = [so EXCEPT ![p].status = target, ![p].held = list]
           /\ WritesOrder(w, p, Free)
        \/ ~takes /\ Next1(w, [d EXCEPT !.job = "allocate"]) /\ UNCHANGED <<so, piece, muddled>>
        \/ takes /\ ~MayMoveSo("allocate", p, target) /\ Rest(w) /\ UNCHANGED <<so, piece, muddled>>
  /\ UNCHANGED <<invoice, ar, po, quote>>

(* Releasing and cancelling: the order first, its pieces afterwards.       *)

StartWithdraw(w, p, action) ==
  /\ At(w, "none")
  /\ so[p] # None /\ (action = "release" => MaySo("release", p))
  /\ Next1(w, Copy(p, action))
  /\ UNCHANGED <<so, piece, invoice, ar, muddled, po, quote>>

Withdraw(w) ==
  /\ desk[w].job \in {"release", "cancel"}
  /\ LET p == desk[w].po
         action == desk[w].job
         to == IF action = "cancel" THEN "CANCELLED" ELSE "CONFIRMED"
     IN \/ /\ MaySo(action, p)
           /\ so' = [so EXCEPT ![p].status = to, ![p].held = <<>>]
           /\ WritesOrder(w, p, IF desk[w].held = <<>> THEN Free ELSE [desk[w] EXCEPT !.job = "free"])
        \/ ~MaySo(action, p) /\ Rest(w) /\ UNCHANGED <<so, muddled>>
  /\ UNCHANGED <<piece, invoice, ar, po, quote>>

(* releaseItems is all or nothing; a piece listed twice is refused as well. *)
FreePieces(w) ==
  /\ At(w, "free")
  /\ LET p == desk[w].po
         list == desk[w].held
         frees == IsInjective(list) /\ \A x \in Range(list) : piece[x].holder = p
     IN piece' = [x \in Pieces |-> IF frees /\ x \in Range(list)
                                   THEN [piece[x] EXCEPT !.status = "AVAILABLE", !.holder = None] ELSE piece[x]]
  /\ Rest(w)
  /\ UNCHANGED <<so, invoice, ar, muddled, po, quote>>

-----------------------------------------------------------------------------
(* Invoicing sells the first n pieces of the copy, in one transaction.  A  *)
(* request may name the line again and again, each time for no more pieces *)
(* than are held; the quantities are added up, and the sum is billed.      *)

StartInvoice(w, p, n) ==
  /\ At(w, "none")
  /\ MaySo("invoice", p) /\ so[p].held # <<>> /\ n \in 1..(MaxNamed * Len(so[p].held))
  /\ Next1(w, [Copy(p, "invoice") EXCEPT !.n = n])
  /\ UNCHANGED <<so, piece, invoice, ar, muddled, po, quote>>

SellableUnlessForeign(x, p) == piece[x].holder \in {p, None}     \* mutant: the status is not looked at

(* A SALE for the order: from the shelf, or out of the order's own hold. *)
Sellable(x, p) == piece[x].status = "AVAILABLE" \/ (piece[x].status = "RESERVED" /\ piece[x].holder = p)

(* postSalesInvoice debits Accounts Receivable in the same transaction.    *)
PostSalesInvoice(total) == ar' = ar + total

PiecesSold(d) == Min({d.n, Len(d.held)})

SellPieces(w) ==
  /\ At(w, "invoice")
  /\ LET d == desk[w]
         p == d.po
         list == SubSeq(d.held, 1, PiecesSold(d))
         rest == SubSeq(d.held, PiecesSold(d) + 1, Len(d.held))
         target == StatusFor(Total(p), Len(rest), d.invoiced + d.n)
         sells == /\ IsInjective(list) /\ \A x \in Range(list) : Sellable(x, p)
                  /\ MayMoveSo("invoice", p, target)
     IN \/ /\ sells
           /\ piece' = [x \in Pieces |-> IF x \in Range(list) THEN [status |-> "SOLD", holder |-> None, buyer |-> p]
                                         ELSE piece[x]]
           /\ invoice' = Append(invoice, [so |-> p, items |-> Range(list), billed |-> d.n])
           /\ PostSalesInvoice(d.n)
           /\ so' = [so EXCEPT ![p].status = target, ![p].held = rest, ![p].invoiced = d.invoiced + d.n]
           /\ WritesOrder(w, p, Free)
        \/ ~sells /\ Rest(w) /\ UNCHANGED <<so, piece, invoice, ar, muddled>>
  /\ UNCHANGED <<po, quote>>

(* The process dies.  Between an order's write and its pieces' release it  *)
(* leaves pieces held that no order lists.                                 *)
ClerkDies(w) ==
  /\ ~At(w, "none")
  /\ muddled' = IF At(w, "free") THEN muddled \union {desk[w].po} ELSE muddled
  /\ Rest(w)
  /\ UNCHANGED <<so, piece, invoice, ar, po, quote>>

Commitment ==
  \E w \in Clerks :
    \/ \E p \in Enquiries : \/ \E may \in BOOLEAN : StartConvert(w, p, may) \/ StartApproveCredit(w, p, may)
                            \/ CommitOrder(w, p)
    \/ CheckCredit(w) \/ CommitApproval(w)

Fulfilment ==
  \E w \in Clerks :
    \/ \E p \in Enquiries : \/ StartAllocate(w, p)
                            \/ StartWithdraw(w, p, "release")
                            \/ \E n \in 1..(MaxNamed * MaxPieces) : StartInvoice(w, p, n)
    \/ PickPieces(w) \/ HoldPieces(w) \/ Withdraw(w) \/ FreePieces(w) \/ SellPieces(w) \/ ClerkDies(w)

Cancelling == \E w \in Clerks, p \in Enquiries : StartWithdraw(w, p, "cancel")

-----------------------------------------------------------------------------
(* A sold piece is on exactly one invoice, of the order it was sold to,    *)
(* and an invoice lists sold pieces only, whatever copies the invoicing    *)
(* handlers started from.                                                  *)
SoldOnOneInvoice ==
  \A x \in Pieces :
    LET on == {i \in DOMAIN invoice : x \in invoice[i].items} IN
      IF piece[x].status = "SOLD"
      THEN \E i \in on : on = {i} /\ invoice[i].so = piece[x].buyer
      ELSE on = {}

(* The numbers an order keeps are those of the stock: unless two handlers  *)
(* overlapped on it, or one died half-way, it lists exactly the pieces     *)
(* held for it, and never sells or holds more than was ordered.  It counts *)
(* no fewer than those sold to it, and exactly those if none of its        *)
(* invoices was asked for more pieces than were held.                      *)
HeldFor(p) == {x \in Pieces : piece[x].holder = p}
SoldTo(p) == {x \in Pieces : piece[x].buyer = p}
BilledAsSold(p) ==
  \A i \in DOMAIN invoice : invoice[i].so = p => invoice[i].billed = Cardinality(invoice[i].items)
BeingFreed(p) == \E w \in Clerks : At(w, "free") /\ desk[w].po = p

OrderMatchesStock ==
  \A p \in Enquiries :
    (so[p] # None /\ p \notin muddled /\ ~BeingFreed(p)) =>
      /\ Range(so[p].held) = HeldFor(p) /\ IsInjective(so[p].held)
      /\ so[p].invoiced >= Cardinality(SoldTo(p))
      /\ BilledAsSold(p) => so[p].invoiced = Cardinality(SoldTo(p))
      /\ Cardinality(HeldFor(p)) + Cardinality(SoldTo(p)) <= Total(p)

(* Said of the code, and not kept by it (see the README):                  *)
(* What b2b-store.ts and b2b.models.ts say of a sales order: of two racing *)
(* actions exactly one wins, and allocations are the pieces held for it.   *)
HeldPiecesAreListed ==
  \A p \in Enquiries :
    (so[p] # None /\ ~BeingFreed(p)) => HeldFor(p) \subseteq Range(so[p].held)

(* What fulfilment.service.ts says of `lines`: they invoice some of the    *)
(* pieces, never more than is held.                                        *)
NeverMoreThanHeld == \A p \in Enquiries : BilledAsSold(p)

(* An order becomes a commitment without an override only if all that the  *)
(* customer owes and has been promised, this order included, is within the *)
(* limit: two orders racing for one limit do not both get it.  (A payment  *)
(* reversed, a credit note cancelled, or an order invoiced beyond its lines *)
(* after the check's transaction has begun does not write the customer and *)
(* goes unseen: the clerk's `old`.)                                        *)
Commits(w, p) ==
  /\ desk[w].po = p /\ desk[w].job \in Checked /\ desk'[w] = Free
  /\ so'[p] # so[p] /\ so'[p].status = "CONFIRMED"

CreditHonoured ==
  [][ \A w \in Clerks, p \in Enquiries :
        (Commits(w, p) /\ ~so'[p].override /\ ~desk[w].old) => Exposure' <= Limit ]_<<so, po, desk>>
=============================================================================
