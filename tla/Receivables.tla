---------------------------- MODULE Receivables ----------------------------
(***************************************************************************)
(* What the customer pays (modules/b2b/payments.service.ts), the credit    *)
(* notes that reduce what is owed (modules/accounting/credit-note.service) *)
(* and the journal both post to, composed with the enquiries and the sales *)
(* orders of the same customer.                                            *)
(*                                                                         *)
(* A behaviour runs the handlers of one shift, from a state the other      *)
(* handlers lead to: the model is the sum of instances that would be too   *)
(* large together.                                                         *)
(***************************************************************************)
EXTENDS SalesOrders

CONSTANTS
  Staff,         \* people who record and verify payments
  Cashiers,      \* workers of the payment handlers
  MaxAmount,     \* bound: of a payment or a credit note
  MaxPosts,      \* bound: allocation calls per payment
  Shifts         \* the shifts: the groups of handlers that run, and the documents they start from

ASSUME ReceivablesAssumption == MaxAmount \in Nat /\ MaxPosts \in Nat /\ None \notin Staff

VARIABLES
  payment,     \* B2BPayment documents
  posted,      \* the PAYMENT_RECEIVED journal entries of each payment
  till,        \* what each cashier is doing, and what its transaction sees
  shift        \* which handlers run, and the orders that are taken up for fulfilment

moneyVars == <<payment, posted, till>>
vars == <<enquiryVars, salesVars, moneyVars, shift>>

PaymentDocs ==
  [amount : 1..MaxAmount, by : Staff, verifiedBy : Staff \union {None},
   status : {"PENDING_VERIFICATION", "VERIFIED", "REJECTED", "REVERSED"}]

Shares == [Invoices -> 0..MaxAmount]     \* the amounts one call applies to each invoice

ASSUME PaymentDocumentsAssumption == None \notin PaymentDocs

Duties == [job : {"none", "apply", "apply-commit", "cancel-note"},
           payment : Payments \union {None}, note : Notes \union {None}, shares : Shares]

TypeOK ==
  /\ EnquiryTypeOK /\ SalesTypeOK
  /\ payment \in [Payments -> PaymentDocs \union {None}]
  /\ posted \in [Payments -> Seq(Nat \ {0})]
  /\ till \in [Cashiers -> Duties]

Away == [job |-> "none", payment |-> None, note |-> None, shares |-> [i \in Invoices |-> 0]]

(* The documents a shift starts from agree with each other.  No enquiry is *)
(* under negotiation yet, no piece is held, and no credit note is written. *)
StartEnquiriesOK(s) ==
  /\ s.po \in [Enquiries -> PurchaseOrders \union {None}] /\ s.quote \in [Quotes -> Quotations \union {None}]
  /\ \A p \in Enquiries : s.po[p] # None =>
       LET a == s.po[p].approved IN
         /\ s.po[p].status \in {"APPROVED", "CONVERTED", "CANCELLED"} /\ a # None /\ a.lines = s.po[p].lines
         /\ a.quote # None => /\ s.quote[a.quote] # None /\ s.quote[a.quote].po = p
                              /\ s.quote[a.quote].status \in {"APPROVED", "CONVERTED"}
  /\ \A q \in Quotes : s.quote[q] # None =>
       LET p == s.quote[q].po IN
         /\ s.quote[q].status \notin {"DRAFT", "QUOTED", "NEGOTIATION"}
         /\ s.po[p] # None /\ s.po[p].lines = s.quote[q].lines

StartOrdersOK(s) ==
  /\ s.so \in [Enquiries -> SalesOrderDocs \union {None}] /\ s.piece \in [Pieces -> PieceDocs]
  /\ s.invoice \in Seq(InvoiceDocs)
  /\ \A i \in DOMAIN s.invoice : s.invoice[i].items # {} /\ s.invoice[i].billed = Cardinality(s.invoice[i].items)
  /\ \A x \in Pieces :
       LET on == {i \in DOMAIN s.invoice : x \in s.invoice[i].items} IN
         /\ s.piece[x].holder = None
         /\ \/ s.piece[x].status = "AVAILABLE" /\ s.piece[x].buyer = None /\ on = {}
            \/ /\ s.piece[x].status = "SOLD" /\ s.piece[x].buyer # None /\ s.so[s.piece[x].buyer] # None
               /\ \E i \in on : on = {i} /\ s.invoice[i].so = s.piece[x].buyer
  /\ \A p \in Enquiries : s.so[p] # None =>
       /\ s.po[p] # None /\ s.po[p].status = "CONVERTED" /\ s.so[p].held = <<>>
       /\ s.so[p].invoiced = Cardinality({x \in Pieces : s.piece[x].buyer = p})
       /\ s.so[p].invoiced <= s.po[p].approved.lines

StartMoneyOK(s) ==
  /\ s.payment \in [Payments -> PaymentDocs \union {None}]
  /\ s.applied \in [Payments -> [Invoices -> Nat]] /\ s.posted \in [Payments -> Seq(Nat \ {0})]
  /\ \A y \in Payments :
       LET is(status) == s.payment[y] # None /\ s.payment[y].status = status IN
         /\ is("VERIFIED") => /\ s.payment[y].verifiedBy # s.payment[y].by
                              /\ SumOf(s.applied[y]) <= s.payment[y].amount
         /\ ~is("VERIFIED") => \A i \in Invoices : s.applied[y][i] = 0
         /\ ~is("REVERSED") => SumOf(s.posted[y]) = SumOf(s.applied[y])
  /\ \A i \in Invoices : SumOf([y \in Payments |-> s.applied[y][i]]) <=
       IF i \in DOMAIN s.invoice THEN s.invoice[i].billed ELSE 0

ASSUME ShiftsAssumption == \A s \in Shifts : StartEnquiriesOK(s) /\ StartOrdersOK(s) /\ StartMoneyOK(s)

Invoiced == SumOf([i \in DOMAIN invoice |-> InvoiceTotal(i)])
Received == SumOf([i \in Invoices |-> Paid(i)])

Init ==
  \E s \in Shifts :
    /\ shift = [acts |-> s.acts, orders |-> s.orders]
    /\ po = s.po /\ quote = s.quote /\ lapsed = {}
    /\ work = [w \in Workers |-> Idle]
    /\ so = s.so /\ piece = s.piece /\ invoice = s.invoice
    /\ payment = s.payment /\ applied = s.applied /\ posted = s.posted
    /\ credited = [n \in Notes |-> None]
    /\ ar = Invoiced - Received
    /\ desk = [w \in Clerks |-> Free] /\ muddled = {}
    /\ till = [w \in Cashiers |-> Away]

-----------------------------------------------------------------------------
(* Payments *)

Standing(w, job) == till[w].job = job
Leave(w) == till' = [till EXCEPT ![w] = Away]

(* Reported by the customer or recorded by staff: a claim that settles nothing. *)
CreatePayment(y, u, amount) ==
  /\ payment[y] = None
  /\ payment' = [payment EXCEPT ![y] = [amount |-> amount, by |-> u, verifiedBy |-> None,
                                        status |-> "PENDING_VERIFICATION"]]
  /\ UNCHANGED <<posted, till, applied, credited, ar, desk>>

DecidePayment(y, u, to) ==
  /\ payment[y] # None /\ payment[y].status = "PENDING_VERIFICATION"
  /\ to = "VERIFIED" => u # payment[y].by        \* SelfVerificationError
  /\ payment' = [payment EXCEPT ![y].status = to, ![y].verifiedBy = u]
  /\ UNCHANGED <<posted, till, applied, credited, ar, desk>>

Unapplied(y) == payment[y].amount - SumOf(applied[y])

(* What the transaction must see not to be refused.                        *)
Covered(y, shares) ==
  /\ payment[y] # None /\ payment[y].status = "VERIFIED"
  /\ SumOf(shares) \in 1..Unapplied(y)
  /\ \A i \in Invoices : shares[i] > 0 => i \in DOMAIN invoice /\ shares[i] <= InvoiceTotal(i) - Paid(i)

(* allocate: a transaction that sees the balances, and its commit.         *)
StartApply(w, y, shares) ==
  /\ Standing(w, "none")
  /\ Len(posted[y]) < MaxPosts
  /\ Covered(y, shares)
  /\ till' = [till EXCEPT ![w] = [Away EXCEPT !.job = "apply-commit", !.payment = y, !.shares = shares]]
  /\ UNCHANGED <<payment, posted, applied, credited, ar, desk>>

RetryApply(w) ==
  /\ Standing(w, "apply")
  /\ LET t == till[w] IN
       till' = [till EXCEPT ![w] = IF Covered(t.payment, t.shares) THEN [t EXCEPT !.job = "apply-commit"] ELSE Away]
  /\ UNCHANGED <<payment, posted, applied, credited, ar, desk>>

MeetOnPayment(t, y, S) == t.job = "apply-commit" /\ t.payment = y     \* mutant: invoices are only read

Meet(t, y, S) ==      \* the open transaction t has written payment y, or an invoice of S
  t.job = "apply-commit" /\ (t.payment = y \/ \E i \in S : t.shares[i] > 0)

(* allocationSeq: a commit that writes payment y and the invoices of S     *)
(* makes the other transactions on them start again.                       *)
Supersedes(w, y, S) ==
  till' = [v \in Cashiers |-> CASE v = w -> Away
                                [] v # w /\ Meet(till[v], y, S) -> [till[v] EXCEPT !.job = "apply"]
                                [] OTHER -> till[v]]

(* postPaymentReceived credits Accounts Receivable; reverseJournal posts   *)
(* the opposite of an entry, whose amount the receivables get back.        *)
PostPaymentReceived(y, amount) ==
  /\ posted' = [posted EXCEPT ![y] = Append(@, amount)]
  /\ ar' = ar - amount

ReverseJournals(amounts) == ar' = ar + SumOf(amounts)

CommitApply(w) ==
  /\ Standing(w, "apply-commit")
  /\ LET t == till[w]
         y == t.payment
         requested == SumOf(t.shares)
     IN /\ applied' = [applied EXCEPT ![y] = [i \in Invoices |-> @[i] + t.shares[i]]]
        /\ PostPaymentReceived(y, requested)
        /\ Supersedes(w, y, {i \in Invoices : t.shares[i] > 0})
  /\ UNCHANGED <<payment, credited, desk>>

(* What is owed rises although the customer document is not written: a     *)
(* credit check made just before is out of date.                           *)
OwesAgain == desk' = [w \in Clerks |-> [desk[w] EXCEPT !.old = @ \/ desk[w].job \in Checked]]

ReverseFirstPosting(w, y) ==      \* mutant: only the first journal entry found is reversed
  /\ Standing(w, "none")
  /\ payment[y] # None /\ payment[y].status = "VERIFIED"
  /\ payment' = [payment EXCEPT ![y].status = "REVERSED"]
  /\ applied' = [applied EXCEPT ![y] = [i \in Invoices |-> 0]]
  /\ ar' = ar + (IF posted[y] = <<>> THEN 0 ELSE Head(posted[y]))
  /\ Supersedes(w, y, {})
  /\ OwesAgain
  /\ UNCHANGED <<posted, credited>>

(* Every entry of the payment is reversed, and with them its allocations.  *)
ReversePayment(w, y) ==
  /\ Standing(w, "none")
  /\ payment[y] # None /\ payment[y].status = "VERIFIED"
  /\ payment' = [payment EXCEPT ![y].status = "REVERSED"]
  /\ applied' = [applied EXCEPT ![y] = [i \in Invoices |-> 0]]
  /\ ReverseJournals(posted[y])
  /\ Supersedes(w, y, {})
  /\ OwesAgain
  /\ UNCHANGED <<posted, credited>>

-----------------------------------------------------------------------------
(* Credit notes; nothing compares their amount with the invoice.           *)

CreateCreditNote(n, i, amount) ==
  /\ credited[n] = None
  /\ i # None => i \in DOMAIN invoice
  /\ credited' = [credited EXCEPT ![n] = [invoice |-> i, amount |-> amount, status |-> "ISSUED"]]
  /\ ar' = ar - amount
  /\ UNCHANGED <<payment, posted, till, applied, desk>>

StartCancelNote(w, n) ==
  /\ Standing(w, "none")
  /\ credited[n] # None /\ credited[n].status = "ISSUED"
  /\ till' = [till EXCEPT ![w] = [Away EXCEPT !.job = "cancel-note", !.note = n]]
  /\ UNCHANGED <<payment, posted, applied, credited, ar, desk>>

(* The reversal comes first; the compare-and-set undoes it when it fails.  *)
CancelCreditNote(w) ==
  /\ Standing(w, "cancel-note")
  /\ LET n == till[w].note IN
       IF credited[n].status = "ISSUED"
       THEN /\ credited' = [credited EXCEPT ![n].status = "CANCELLED"]
            /\ ReverseJournals(<<credited[n].amount>>)
            /\ OwesAgain
       ELSE UNCHANGED <<credited, ar, desk>>
  /\ Leave(w)
  /\ UNCHANGED <<payment, posted, applied>>

Receipts ==
  \/ \E y \in Payments, u \in Staff :
       \/ \E amount \in 1..MaxAmount : CreatePayment(y, u, amount)
       \/ \E to \in {"VERIFIED", "REJECTED"} : DecidePayment(y, u, to)
  \/ \E w \in Cashiers :
       \/ \E y \in Payments, shares \in Shares : StartApply(w, y, shares)
       \/ RetryApply(w) \/ CommitApply(w)

Reversals == \E w \in Cashiers, y \in Payments : ReversePayment(w, y)

CreditNoting ==
  \/ \E n \in Notes, i \in Invoices \union {None}, amount \in 1..MaxAmount : CreateCreditNote(n, i, amount)
  \/ \E w \in Cashiers : CancelCreditNote(w) \/ \E n \in Notes : StartCancelNote(w, n)

(* Bound: the orders on which a clerk begins work in this shift. *)
TakesUp(orders) == \A w \in Clerks : At(w, "none") => desk'[w].po \in orders \union {None}

Next ==
  /\ \/ "enquiry" \in shift.acts /\ EnquiryNext /\ UNCHANGED <<salesVars, moneyVars>>
     \/ "commitment" \in shift.acts /\ Commitment /\ UNCHANGED <<lapsed, work, applied, credited, moneyVars>>
     \/ /\ \/ "fulfilment" \in shift.acts /\ Fulfilment /\ TakesUp(shift.orders)
           \/ "cancelling" \in shift.acts /\ Cancelling
        /\ UNCHANGED <<lapsed, work, applied, credited, moneyVars>>
     \/ /\ \/ "receipt" \in shift.acts /\ Receipts
           \/ "reversal" \in shift.acts /\ Reversals
           \/ "note" \in shift.acts /\ CreditNoting
        /\ UNCHANGED <<enquiryVars, so, piece, invoice, muddled>>
  /\ UNCHANGED shift

(* Where enquiries are answered, time passes and the sweep runs. *)
AmongEnquiries(A) == "enquiry" \in shift.acts /\ A /\ UNCHANGED <<salesVars, moneyVars, shift>>

Fairness ==
  \A q \in Quotes : WF_vars(AmongEnquiries(Lapse(q))) /\ WF_vars(AmongEnquiries(ExpireStale(q)))

Spec == Init /\ [][Next]_vars /\ Fairness

-----------------------------------------------------------------------------
(* Whatever allocations race, a payment is never spent twice, an invoice   *)
(* never paid twice, and only money a second person has confirmed pays.    *)
NothingOverApplied ==
  /\ \A y \in Payments : (\E i \in Invoices : applied[y][i] > 0) =>
       /\ payment[y].status = "VERIFIED" /\ payment[y].verifiedBy # payment[y].by
       /\ Unapplied(y) >= 0
  /\ \A i \in DOMAIN invoice : Paid(i) <= InvoiceTotal(i)

(* The journal's receivables account always equals what the documents say  *)
(* is owed: invoices less live allocations less issued credit notes, after *)
(* any sequence of partial allocations, reversals and cancelled notes.     *)
JournalMatchesDocuments == ar = Invoiced - Received - SumOf([n \in IssuedNotes |-> credited[n].amount])
=============================================================================
