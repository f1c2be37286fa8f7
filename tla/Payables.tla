------------------------------ MODULE Payables ------------------------------
(***************************************************************************)
(* Owing the supplier: his invoices, our payments and the debit notes, and *)
(* the accounts payable they post to (modules/procurement/supplier-invoice *)
(* and supplier-payment services, modules/accounting/debit-note.service).  *)
(* One supplier.                                                           *)
(*                                                                         *)
(* Composed with Purchasing: a behaviour runs the handlers of one shift,   *)
(* from the documents the other handlers lead to.                          *)
(***************************************************************************)
EXTENDS Purchasing

CONSTANTS
  Bills,         \* supplier invoices
  Payouts,       \* supplier payments
  DebitNotes,
  Accountants,   \* workers of these handlers
  MaxSum,        \* bound: of an invoice, a payment or a note
  MaxPosts,      \* bound: allocation calls per payment
  Shifts         \* the groups of handlers that run together, and what they start from

ASSUME PayablesAssumption ==
  /\ MaxSum \in Nat /\ MaxPosts \in Nat
  /\ IsFiniteSet(Bills) /\ IsFiniteSet(Payouts) /\ IsFiniteSet(DebitNotes)

VARIABLES
  bill,          \* SupplierInvoice documents
  payout,        \* SupplierPayment documents
  spent,         \* unreversed SupplierPaymentAllocations
  posted,        \* the PAYMENT_MADE journal entries of each payment
  debited,       \* DebitNote documents
  ap,            \* the balance of the Accounts Payable account
  till,          \* what each accountant is doing, and what its transaction sees
  voidedTwice,   \* history: invoices whose posting was reversed twice
  shift

owingVars == <<bill, payout, spent, posted, debited, ap, till, voidedTwice>>
vars == <<buyingVars, owingVars, shift>>

Sums == 1..MaxSum
Shares == [Bills -> 0..MaxSum]

BillDocs == [total : Sums, cancelled : BOOLEAN]
PayoutDocs == [amount : Sums, status : {"RECORDED", "REVERSED"}]
DebitNoteDocs == [total : Sums, status : {"ISSUED", "CANCELLED"}]

ASSUME OwingDocumentsAssumption == None \notin BillDocs \union PayoutDocs \union DebitNoteDocs

Duties ==
  [job : {"none", "allocate", "allocate-commit", "cancel-bill", "cancel-note"},
   doc : Payouts \union Bills \union DebitNotes \union {None}, shares : Shares]

TypeOK ==
  /\ BuyingTypeOK
  /\ bill \in [Bills -> BillDocs \union {None}]
  /\ payout \in [Payouts -> PayoutDocs \union {None}]
  /\ spent \in [Payouts -> Shares] /\ posted \in [Payouts -> Seq(Sums)]
  /\ debited \in [DebitNotes -> DebitNoteDocs \union {None}]
  /\ ap \in Int
  /\ till \in [Accountants -> Duties] /\ voidedTwice \subseteq Bills

Away == [job |-> "none", doc |-> None, shares |-> [b \in Bills |-> 0]]

(* A shift starts from documents nothing has been received for.            *)
StartOK(s) ==
  /\ s.req \in [Requisitions -> RequisitionDocs \union {None}]
  /\ s.spo \in [Orders -> OrderDocs \union {None}]
  /\ \A p \in Orders : s.spo[p] # None =>
       s.spo[p].received = Nothing /\ s.spo[p].status \in {"DRAFT", "SUBMITTED", "APPROVED", "CANCELLED"}

ASSUME ShiftsAssumption == \A s \in Shifts : StartOK(s)

Init ==
  \E s \in Shifts :
    /\ shift = s.acts /\ req = s.req /\ spo = s.spo
    /\ stock = [p \in Orders |-> Nothing] /\ desk = [w \in Clerks |-> Off]
    /\ rewritten = {} /\ overlapped = {}
    /\ bill = [b \in Bills |-> None] /\ payout = [y \in Payouts |-> None]
    /\ spent = [y \in Payouts |-> Away.shares] /\ posted = [y \in Payouts |-> <<>>]
    /\ debited = [n \in DebitNotes |-> None] /\ ap = 0
    /\ till = [k \in Accountants |-> Away] /\ voidedTwice = {}

Paid(b) == SumOf([y \in Payouts |-> spent[y][b]])
Spent(y) == SumOf(spent[y])

Standing(k, job) == till[k].job = job
Leave(k) == till' = [till EXCEPT ![k] = Away]

-----------------------------------------------------------------------------
(* Postings to Accounts Payable, and their reversal                        *)

PostPurchaseInvoice(total) == ap' = ap + total
PostPaymentMade(amount) == ap' = ap - amount
PostDebitNote(total) == ap' = ap - total
ReverseJournal(amount) == ap' = ap - amount      \* amount: what the entry added

(* Recording: the document and its posting in one transaction              *)

CreateBill(b, total) ==
  /\ bill[b] = None
  /\ bill' = [bill EXCEPT ![b] = [total |-> total, cancelled |-> FALSE]]
  /\ PostPurchaseInvoice(total)
  /\ UNCHANGED <<payout, spent, posted, debited, till, voidedTwice>>

RecordPayout(y, amount) ==
  /\ payout[y] = None
  /\ payout' = [payout EXCEPT ![y] = [amount |-> amount, status |-> "RECORDED"]]
  /\ UNCHANGED <<bill, spent, posted, debited, ap, till, voidedTwice>>

CreateDebitNote(n, total) ==
  /\ debited[n] = None
  /\ debited' = [debited EXCEPT ![n] = [total |-> total, status |-> "ISSUED"]]
  /\ PostDebitNote(total)
  /\ UNCHANGED <<bill, payout, spent, posted, till, voidedTwice>>

-----------------------------------------------------------------------------
(* Allocation: a transaction that sees the balances, and its commit        *)

(* What the transaction must see not to be refused.                        *)
Covered(y, shares) ==
  LET paysAny == {b \in Bills : shares[b] > 0} IN
  /\ payout[y] # None /\ payout[y].status = "RECORDED"
  /\ paysAny # {}
  /\ Spent(y) + SumOf(shares) <= payout[y].amount
  /\ \A b \in paysAny : bill[b] # None /\ ~bill[b].cancelled /\ shares[b] <= bill[b].total - Paid(b)

StartAllocation(k, y, shares) ==
  /\ Standing(k, "none")
  /\ Len(posted[y]) < MaxPosts
  /\ Covered(y, shares)
  /\ till' = [till EXCEPT ![k] = [job |-> "allocate-commit", doc |-> y, shares |-> shares]]
  /\ UNCHANGED <<bill, payout, spent, posted, debited, ap, voidedTwice>>

RetryAllocation(k) ==
  /\ Standing(k, "allocate")
  /\ till' = [till EXCEPT ![k] = IF Covered(@.doc, @.shares) THEN [@ EXCEPT !.job = "allocate-commit"] ELSE Away]
  /\ UNCHANGED <<bill, payout, spent, posted, debited, ap, voidedTwice>>

TouchesBills(t, y, S) == t.job = "allocate-commit" /\ \E b \in S : t.shares[b] > 0   \* mutant: the payment is only read

(* allocationSeq: the open transaction t has written payment y or an       *)
(* invoice of S.                                                           *)
Touches(t, y, S) == t.job = "allocate-commit" /\ (t.doc = y \/ \E b \in S : t.shares[b] > 0)

(* A commit that writes payment y and the invoices of S makes the other    *)
(* transactions on them start again.                                       *)
Supersedes(k, y, S) ==
  till' = [v \in Accountants |-> CASE v = k -> Away
                                   [] v # k /\ Touches(till[v], y, S) -> [till[v] EXCEPT !.job = "allocate"]
                                   [] OTHER -> till[v]]

CommitAllocation(k) ==
  /\ Standing(k, "allocate-commit")
  /\ LET y == till[k].doc
         shares == till[k].shares
         requested == SumOf(shares)
     IN /\ spent' = [spent EXCEPT ![y] = [b \in Bills |-> @[b] + shares[b]]]
        /\ posted' = [posted EXCEPT ![y] = Append(@, requested)]
        /\ PostPaymentMade(requested)
        /\ Supersedes(k, y, {b \in Bills : shares[b] > 0})
  /\ UNCHANGED <<bill, payout, debited, voidedTwice>>

ReverseFirstPosting(k, y) ==      \* mutant: only the first journal entry found is reversed
  /\ Standing(k, "none")
  /\ payout[y] # None /\ payout[y].status = "RECORDED"
  /\ payout' = [payout EXCEPT ![y].status = "REVERSED"]
  /\ spent' = [spent EXCEPT ![y] = [b \in Bills |-> 0]]
  /\ ReverseJournal(IF posted[y] = <<>> THEN 0 ELSE -Head(posted[y]))
  /\ Supersedes(k, y, {})
  /\ UNCHANGED <<bill, posted, debited, voidedTwice>>

(* Every entry of the payment is reversed, and with them its allocations.  *)
ReversePayout(k, y) ==
  /\ Standing(k, "none")
  /\ payout[y] # None /\ payout[y].status = "RECORDED"
  /\ payout' = [payout EXCEPT ![y].status = "REVERSED"]
  /\ spent' = [spent EXCEPT ![y] = [b \in Bills |-> 0]]
  /\ ReverseJournal(-SumOf(posted[y]))
  /\ Supersedes(k, y, {})
  /\ UNCHANGED <<bill, posted, debited, voidedTwice>>

-----------------------------------------------------------------------------
(* Cancelling what was recorded                                            *)

(* Whether the invoice is unpaid is decided before the transaction.        *)
StartCancelBill(k, b) ==
  /\ Standing(k, "none")
  /\ bill[b] # None /\ ~bill[b].cancelled /\ Paid(b) = 0
  /\ till' = [till EXCEPT ![k] = [Away EXCEPT !.job = "cancel-bill", !.doc = b]]
  /\ UNCHANGED <<bill, payout, spent, posted, debited, ap, voidedTwice>>

(* The transaction saves the copy and reverses the posting; it looks at    *)
(* neither the payments nor the cancellation mark again.                   *)
CancelBill(k) ==
  /\ Standing(k, "cancel-bill")
  /\ LET b == till[k].doc IN
       /\ bill' = [bill EXCEPT ![b].cancelled = TRUE]
       /\ ReverseJournal(bill[b].total)
       /\ voidedTwice' = IF bill[b].cancelled THEN voidedTwice \union {b} ELSE voidedTwice
       /\ Supersedes(k, None, {b})
  /\ UNCHANGED <<payout, spent, posted, debited>>

StartCancelNote(k, n) ==
  /\ Standing(k, "none")
  /\ debited[n] # None /\ debited[n].status = "ISSUED"
  /\ till' = [till EXCEPT ![k] = [Away EXCEPT !.job = "cancel-note", !.doc = n]]
  /\ UNCHANGED <<bill, payout, spent, posted, debited, ap, voidedTwice>>

(* The reversal comes first; the compare-and-set undoes it when it fails.  *)
CancelDebitNote(k) ==
  /\ Standing(k, "cancel-note")
  /\ LET n == till[k].doc IN
       IF debited[n].status = "ISSUED"
       THEN /\ debited' = [debited EXCEPT ![n].status = "CANCELLED"]
            /\ ReverseJournal(-debited[n].total)
       ELSE UNCHANGED <<debited, ap>>
  /\ Leave(k)
  /\ UNCHANGED <<bill, payout, spent, posted, voidedTwice>>

-----------------------------------------------------------------------------
Billing ==
  \/ \E b \in Bills, total \in Sums : CreateBill(b, total)
  \/ \E y \in Payouts, amount \in Sums : RecordPayout(y, amount)
  \/ \E n \in DebitNotes, total \in Sums : CreateDebitNote(n, total)

Settling ==
  \E k \in Accountants :
    \/ \E y \in Payouts, shares \in Shares : StartAllocation(k, y, shares)
    \/ RetryAllocation(k) \/ CommitAllocation(k)
    \/ \E y \in Payouts : ReversePayout(k, y)
    \/ \E b \in Bills : StartCancelBill(k, b)
    \/ CancelBill(k)
    \/ \E n \in DebitNotes : StartCancelNote(k, n)
    \/ CancelDebitNote(k)

Next ==
  /\ \/ "ordering" \in shift /\ Ordering /\ UNCHANGED owingVars
     \/ "receiving" \in shift /\ Receiving /\ UNCHANGED owingVars
     \/ "paying" \in shift /\ (Billing \/ Settling) /\ UNCHANGED buyingVars
  /\ UNCHANGED shift

Spec == Init /\ [][Next]_vars

-----------------------------------------------------------------------------
(* allocateSupplierPayment: of allocations that race for one payment or    *)
(* one invoice "the loser re-reads the truth: nothing is ever              *)
(* over-applied", also when reversals and cancellations come in between.   *)
NothingOverpaid ==
  /\ \A y \in Payouts : Spent(y) > 0 => payout[y].status = "RECORDED" /\ Spent(y) <= payout[y].amount
  /\ \A b \in Bills : Paid(b) > 0 => Paid(b) <= bill[b].total

(* Accounts Payable equals what the documents say is owed: invoices that   *)
(* stand less live allocations less issued debit notes, after any sequence *)
(* of partial allocations, reversals and cancellations, unless two         *)
(* cancellations of one invoice overlapped and reversed its posting twice. *)
Owed == SumOf([b \in {c \in Bills : bill[c] # None /\ ~bill[c].cancelled} |-> bill[b].total])
Settled == SumOf([y \in Payouts |-> Spent(y)])
Debited == SumOf([n \in {m \in DebitNotes : debited[m] # None /\ debited[m].status = "ISSUED"} |-> debited[n].total])

PayablesMatchDocuments == voidedTwice = {} => ap = Owed - Settled - Debited

(* Said of the code, and not kept by it (see the README):                  *)
(* cancelSupplierInvoice's comment: "Cancel is UNPAID-only, so nothing has *)
(* been allocated against this invoice yet".  It reads what was paid       *)
(* before its transaction.                                                 *)
CancelledIsUnpaid == \A b \in Bills : (bill[b] # None /\ bill[b].cancelled) => Paid(b) = 0
=============================================================================
