----------------------------- MODULE Enquiries -----------------------------
(***************************************************************************)
(* The wholesale enquiry: a customer's purchase order and the quotations   *)
(* the seller answers it with (modules/b2b/procurement.service.ts).        *)
(*                                                                         *)
(* A handler whose only write is a compare-and-set or one transaction that *)
(* looks again at everything it relies on is one action.  A handler that   *)
(* writes what it read earlier runs in a worker: one action reads, another *)
(* writes, and anybody may act, or the worker die, in between.             *)
(***************************************************************************)
EXTENDS Integers, FiniteSets

CONSTANTS
  Enquiries,     \* purchase orders, one per enquiry of one customer
  MaxQuotes,     \* bound: quotations written in a behaviour
  Asks,          \* what a purchase order may ask for: a number of pieces
  Workers,
  None

ASSUME EnquiriesAssumption ==
  /\ MaxQuotes \in Nat
  /\ Asks \subseteq Nat \ {0}
  /\ None \notin Enquiries \union Nat
  /\ IsFiniteSet(Enquiries)

VARIABLES
  po,        \* PurchaseOrder documents
  quote,     \* Quotation documents, by order of writing
  lapsed,    \* quotations whose validUntil has passed
  work       \* what each worker is doing, and what it has read

enquiryVars == <<po, quote, lapsed, work>>

Quotes == 1..MaxQuotes

Rule(from, to) == [from |-> from, to |-> to]

PORules ==
  [ submit      |-> Rule({"DRAFT"}, "SUBMITTED"),
    startReview |-> Rule({"SUBMITTED"}, "UNDER_REVIEW"),
    quote       |-> Rule({"SUBMITTED", "UNDER_REVIEW", "QUOTED", "NEGOTIATION", "EXPIRED"}, "QUOTED"),
    counter     |-> Rule({"QUOTED"}, "NEGOTIATION"),
    approve     |-> Rule({"SUBMITTED", "UNDER_REVIEW"}, "APPROVED"),
    accept      |-> Rule({"QUOTED"}, "APPROVED"),
    reject      |-> Rule({"SUBMITTED", "UNDER_REVIEW", "QUOTED", "NEGOTIATION"}, "REJECTED"),
    decline     |-> Rule({"QUOTED", "NEGOTIATION"}, "REJECTED"),
    expire      |-> Rule({"QUOTED", "NEGOTIATION"}, "EXPIRED"),
    convert     |-> Rule({"APPROVED"}, "CONVERTED"),
    cancel      |-> Rule({"DRAFT", "SUBMITTED", "UNDER_REVIEW", "QUOTED", "NEGOTIATION", "EXPIRED", "APPROVED"},
                         "CANCELLED") ]

QuotationRules ==
  [ issue     |-> Rule({"DRAFT"}, "QUOTED"),
    discard   |-> Rule({"DRAFT"}, "REJECTED"),
    counter   |-> Rule({"QUOTED"}, "NEGOTIATION"),
    accept    |-> Rule({"QUOTED"}, "APPROVED"),
    decline   |-> Rule({"QUOTED", "NEGOTIATION"}, "REJECTED"),
    supersede |-> Rule({"QUOTED", "NEGOTIATION"}, "SUPERSEDED"),
    expire    |-> Rule({"QUOTED", "NEGOTIATION"}, "EXPIRED"),
    convert   |-> Rule({"APPROVED"}, "CONVERTED") ]

POStatuses == {"DRAFT", "SUBMITTED", "UNDER_REVIEW", "QUOTED", "NEGOTIATION", "EXPIRED",
               "APPROVED", "CONVERTED", "REJECTED", "CANCELLED"}

QuotationStatuses == {"DRAFT", "QUOTED", "NEGOTIATION", "APPROVED", "CONVERTED", "REJECTED",
                      "SUPERSEDED", "EXPIRED"}

(* `approved`: the terms agreed, and the quotation they came from (None: DIRECT). *)
Agreements == [lines : Asks, quote : Quotes \union {None}]

PurchaseOrders == [status : POStatuses, lines : Asks, quote : Quotes \union {None},
                   approved : Agreements \union {None}]

Quotations == [po : Enquiries, version : Nat, lines : Asks, status : QuotationStatuses]

ASSUME EnquiryDocumentsAssumption ==
  None \notin Agreements /\ None \notin PurchaseOrders /\ None \notin Quotations

Jobs == {"none", "submit", "approve", "quote", "accept", "counter", "close", "closing"}

Errands == [job : Jobs, po : Enquiries \union {None}, quote : Quotes \union {None},
            lines : Asks \union {0}, version : Nat, todo : SUBSET (Quotes \X QuotationStatuses)]

EnquiryTypeOK ==
  /\ po \in [Enquiries -> PurchaseOrders \union {None}]
  /\ quote \in [Quotes -> Quotations \union {None}]
  /\ lapsed \subseteq Quotes
  /\ work \in [Workers -> Errands]

Idle == [job |-> "none", po |-> None, quote |-> None, lines |-> 0, version |-> 0, todo |-> {}]

EnquiryInit ==
  /\ po = [p \in Enquiries |-> None]
  /\ quote = [q \in Quotes |-> None]
  /\ lapsed = {}
  /\ work = [w \in Workers |-> Idle]

-----------------------------------------------------------------------------
(* applyPo and applyQuotation: a named action, refused from any other status. *)

MayPo(action, p) == po[p] # None /\ po[p].status \in PORules[action].from
MayQuote(action, q) == quote[q] # None /\ quote[q].status \in QuotationRules[action].from

AppliedPo(action, p) == [po[p] EXCEPT !.status = PORules[action].to]
AppliedQuote(action, q) == [quote[q] EXCEPT !.status = QuotationRules[action].to]

Written(p) == {q \in Quotes : quote[q] # None /\ quote[q].po = p}
Live(q) == quote[q] # None /\ quote[q].status \in {"QUOTED", "NEGOTIATION"}
Open(q) == quote[q] # None /\ quote[q].status \in {"DRAFT", "QUOTED", "NEGOTIATION"}

Doing(w, job) == work[w].job = job
Stop(w) == work' = [work EXCEPT ![w] = Idle]

-----------------------------------------------------------------------------
(* The customer *)

CreatePurchaseOrder(p, ask, submit) ==
  /\ po[p] = None
  /\ po' = [po EXCEPT ![p] = [status |-> IF submit THEN "SUBMITTED" ELSE "DRAFT", lines |-> ask,
                              quote |-> None, approved |-> None]]
  /\ UNCHANGED <<quote, lapsed, work>>

(* With input.submit it goes on to submitPurchaseOrder, a handler of its own here. *)
UpdateDraft(p, ask) ==
  /\ po[p] # None /\ po[p].status = "DRAFT"
  /\ po' = [po EXCEPT ![p].lines = ask]
  /\ UNCHANGED <<quote, lapsed, work>>

(* submitPurchaseOrder prices the lines it read and writes those lines. *)
ReadDraft(w, p) ==
  /\ Doing(w, "none")
  /\ MayPo("submit", p)
  /\ work' = [work EXCEPT ![w] = [Idle EXCEPT !.job = "submit", !.po = p, !.lines = po[p].lines]]
  /\ UNCHANGED <<po, quote, lapsed>>

Submit(w) ==
  /\ Doing(w, "submit")
  /\ LET p == work[w].po IN
       \/ /\ MayPo("submit", p)
          /\ po' = [po EXCEPT ![p] = [AppliedPo("submit", p) EXCEPT !.lines = work[w].lines]]
       \/ ~MayPo("submit", p) /\ UNCHANGED po
  /\ Stop(w)
  /\ UNCHANGED <<quote, lapsed>>

(* The customer withdraws it, or the seller turns it down; the quotations  *)
(* are closed afterwards, outside any transaction.                         *)
EndPurchaseOrder(w, p, action) ==
  /\ action \in {"cancel", "reject"}
  /\ Doing(w, "none")
  /\ MayPo(action, p)
  /\ po' = [po EXCEPT ![p] = AppliedPo(action, p)]
  /\ work' = [work EXCEPT ![w] = [Idle EXCEPT !.job = "close", !.po = p]]
  /\ UNCHANGED <<quote, lapsed>>

(* closeQuotations: one query, then one write per quotation it returned.   *)
ListOpenQuotations(w) ==
  /\ Doing(w, "close")
  /\ work' = [work EXCEPT ![w].job = "closing",
                          ![w].todo = {<<q, quote[q].status>> : q \in {r \in Written(work[w].po) : Open(r)}}]
  /\ UNCHANGED <<po, quote, lapsed>>

CloseQuotation(w) ==
  /\ Doing(w, "closing")
  /\ \/ /\ work[w].todo = {}
        /\ Stop(w) /\ UNCHANGED quote
     \/ \E t \in work[w].todo :
          LET q == t[1]
              action == IF t[2] = "DRAFT" THEN "discard" ELSE "decline"
          IN \/ /\ MayQuote(action, q)
                /\ quote' = [quote EXCEPT ![q] = AppliedQuote(action, q)]
                /\ work' = [work EXCEPT ![w].todo = @ \ {t}]
             \/ ~MayQuote(action, q) /\ Stop(w) /\ UNCHANGED quote     \* applyQuotation throws
  /\ UNCHANGED <<po, lapsed>>

(* acceptQuotation and counterQuotation look at the validity first.        *)
ReadQuotation(w, q, job) ==
  /\ job \in {"accept", "counter"}
  /\ Doing(w, "none")
  /\ MayQuote(job, q) /\ q \notin lapsed
  /\ job = "accept" => po[quote[q].po].quote = q
  /\ work' = [work EXCEPT ![w] = [Idle EXCEPT !.job = job, !.quote = q, !.po = quote[q].po,
                                              !.lines = quote[q].lines]]
  /\ UNCHANGED <<po, quote, lapsed>>

AcceptQuotation(w) ==
  /\ Doing(w, "accept")
  /\ LET q == work[w].quote
         p == work[w].po
     IN \/ /\ MayQuote("accept", q) /\ MayPo("accept", p)
           /\ quote' = [quote EXCEPT ![q] = AppliedQuote("accept", q)]
           /\ po' = [po EXCEPT ![p] = [AppliedPo("accept", p) EXCEPT
                                         !.approved = [lines |-> work[w].lines, quote |-> q]]]
        \/ ~(MayQuote("accept", q) /\ MayPo("accept", p)) /\ UNCHANGED <<po, quote>>
  /\ Stop(w)
  /\ UNCHANGED lapsed

CounterQuotation(w) ==
  /\ Doing(w, "counter")
  /\ LET q == work[w].quote
         p == work[w].po
     IN \/ /\ MayQuote("counter", q) /\ MayPo("counter", p)
           /\ quote' = [quote EXCEPT ![q] = AppliedQuote("counter", q)]
           /\ po' = [po EXCEPT ![p] = AppliedPo("counter", p)]
        \/ ~(MayQuote("counter", q) /\ MayPo("counter", p)) /\ UNCHANGED <<po, quote>>
  /\ Stop(w)
  /\ UNCHANGED lapsed

DeclineQuotation(q) ==
  /\ MayQuote("decline", q) /\ MayPo("decline", quote[q].po)
  /\ quote' = [quote EXCEPT ![q] = AppliedQuote("decline", q)]
  /\ po' = [po EXCEPT ![quote[q].po] = AppliedPo("decline", quote[q].po)]
  /\ UNCHANGED <<lapsed, work>>

-----------------------------------------------------------------------------
(* The seller *)

StartReview(p) ==
  /\ MayPo("startReview", p)
  /\ po' = [po EXCEPT ![p] = AppliedPo("startReview", p)]
  /\ UNCHANGED <<quote, lapsed, work>>

ReadPurchaseOrderAnyStatus(w, p, job) ==    \* mutant: no check before the work
  /\ job \in {"approve", "quote"}
  /\ Doing(w, "none")
  /\ po[p] # None
  /\ work' = [work EXCEPT ![w] = [Idle EXCEPT !.job = job, !.po = p, !.lines = po[p].lines,
                                              !.version = Cardinality(Written(p)) + 1]]
  /\ UNCHANGED <<po, quote, lapsed>>

(* approvePurchaseOrder and issueQuotation price the lines they read; the  *)
(* quotation's version is counted then too.                                *)
ReadPurchaseOrder(w, p, job) ==
  /\ job \in {"approve", "quote"}
  /\ Doing(w, "none")
  /\ MayPo(job, p)
  /\ work' = [work EXCEPT ![w] = [Idle EXCEPT !.job = job, !.po = p, !.lines = po[p].lines,
                                              !.version = Cardinality(Written(p)) + 1]]
  /\ UNCHANGED <<po, quote, lapsed>>

ApprovePurchaseOrder(w) ==
  /\ Doing(w, "approve")
  /\ LET p == work[w].po IN
       \/ /\ MayPo("approve", p)
          /\ po' = [po EXCEPT ![p] = [AppliedPo("approve", p) EXCEPT
                                        !.approved = [lines |-> work[w].lines, quote |-> None]]]
       \/ ~MayPo("approve", p) /\ UNCHANGED po
  /\ Stop(w)
  /\ UNCHANGED <<quote, lapsed>>

(* What a newer version on p leaves of the quotations: the live ones are superseded. *)
Superseded(p) ==
  [q \in Quotes |-> IF q \in Written(p) /\ Live(q) THEN AppliedQuote("supersede", q) ELSE quote[q]]

(* The unique index on (purchase order, version) lets one of two racing    *)
(* drafts through.                                                         *)
VersionTaken(p, v) == \E q \in Written(p) : quote[q].version = v

NewQuotation(w, status) ==
  [po |-> work[w].po, version |-> work[w].version, lines |-> work[w].lines, status |-> status]

IssueQuotation(w, issue) ==
  /\ Doing(w, "quote")
  /\ LET p == work[w].po
         allowed == ~VersionTaken(p, work[w].version) /\ (issue => MayPo("quote", p))
     IN \/ /\ allowed
           /\ \E q \in Quotes :
                /\ quote[q] = None /\ \A r \in Quotes : r < q => quote[r] # None
                /\ IF issue
                   THEN /\ quote' = [Superseded(p) EXCEPT ![q] = NewQuotation(w, "QUOTED")]
                        /\ po' = [po EXCEPT ![p] = [AppliedPo("quote", p) EXCEPT !.quote = q]]
                   ELSE /\ quote' = [quote EXCEPT ![q] = NewQuotation(w, "DRAFT")]
                        /\ UNCHANGED po
        \/ ~allowed /\ UNCHANGED <<po, quote>>
  /\ Stop(w)
  /\ UNCHANGED lapsed

IssueDraftBesideLive(q) ==      \* mutant: the earlier version is not superseded
  /\ MayQuote("issue", q) /\ MayPo("quote", quote[q].po)
  /\ quote' = [quote EXCEPT ![q] = AppliedQuote("issue", q)]
  /\ po' = [po EXCEPT ![quote[q].po] = [AppliedPo("quote", quote[q].po) EXCEPT !.quote = q]]
  /\ UNCHANGED <<lapsed, work>>

IssueDraftQuotation(q) ==
  /\ MayQuote("issue", q) /\ MayPo("quote", quote[q].po)
  /\ quote' = [Superseded(quote[q].po) EXCEPT ![q] = AppliedQuote("issue", q)]
  /\ po' = [po EXCEPT ![quote[q].po] = [AppliedPo("quote", quote[q].po) EXCEPT !.quote = q]]
  /\ UNCHANGED <<lapsed, work>>

DiscardDraftQuotation(q) ==
  /\ MayQuote("discard", q)
  /\ quote' = [quote EXCEPT ![q] = AppliedQuote("discard", q)]
  /\ UNCHANGED <<po, lapsed, work>>

(* convertPurchaseOrder's writes here, in the transaction that makes the   *)
(* sales order; SalesOrders says when that transaction commits.            *)
ConvertEnquiry(p) ==
  /\ MayPo("convert", p)
  /\ po' = [po EXCEPT ![p] = AppliedPo("convert", p)]
  /\ LET q == po[p].approved.quote IN
       quote' = IF q = None THEN quote ELSE [quote EXCEPT ![q] = AppliedQuote("convert", q)]

-----------------------------------------------------------------------------
(* The clock *)

Lapse(q) ==
  /\ quote[q] # None
  /\ lapsed' = lapsed \union {q}
  /\ UNCHANGED <<po, quote, work>>

ExpireWithItsOrder(q) ==     \* mutant: refused unless the purchase order can expire too
  /\ MayQuote("expire", q) /\ q \in lapsed /\ MayPo("expire", quote[q].po)
  /\ quote' = [quote EXCEPT ![q] = AppliedQuote("expire", q)]
  /\ po' = [po EXCEPT ![quote[q].po] = AppliedPo("expire", quote[q].po)]
  /\ UNCHANGED <<lapsed, work>>

(* One transaction of expireStale's loop.  A quotation that has moved since *)
(* the list was read ends the loop; the next sweep takes up the rest.       *)
ExpireStale(q) ==
  /\ MayQuote("expire", q) /\ q \in lapsed
  /\ quote' = [quote EXCEPT ![q] = AppliedQuote("expire", q)]
  /\ LET p == quote[q].po IN
       po' = IF po[p].quote = q /\ MayPo("expire", p)
             THEN [po EXCEPT ![p] = AppliedPo("expire", p)] ELSE po
  /\ UNCHANGED <<lapsed, work>>

(* The process dies: what it had read is lost, what it had written stays.  *)
Crash(w) ==
  /\ ~Doing(w, "none")
  /\ Stop(w)
  /\ UNCHANGED <<po, quote, lapsed>>

CustomerActs ==
  \/ \E p \in Enquiries, a \in Asks :
       \/ UpdateDraft(p, a)
       \/ \E submit \in BOOLEAN : CreatePurchaseOrder(p, a, submit)
  \/ \E w \in Workers, p \in Enquiries : ReadDraft(w, p) \/ EndPurchaseOrder(w, p, "cancel")
  \/ \E w \in Workers, q \in Quotes, job \in {"accept", "counter"} : ReadQuotation(w, q, job)
  \/ \E w \in Workers : Submit(w) \/ AcceptQuotation(w) \/ CounterQuotation(w)
  \/ \E q \in Quotes : DeclineQuotation(q)

SellerActs ==
  \/ \E p \in Enquiries : StartReview(p)
  \/ \E w \in Workers, p \in Enquiries :
       \/ EndPurchaseOrder(w, p, "reject")
       \/ \E job \in {"approve", "quote"} : ReadPurchaseOrder(w, p, job)
  \/ \E w \in Workers : ApprovePurchaseOrder(w) \/ \E issue \in BOOLEAN : IssueQuotation(w, issue)
  \/ \E q \in Quotes : IssueDraftQuotation(q) \/ DiscardDraftQuotation(q)

SystemActs ==
  \/ \E w \in Workers : ListOpenQuotations(w) \/ CloseQuotation(w) \/ Crash(w)
  \/ \E q \in Quotes : Lapse(q) \/ ExpireStale(q)

EnquiryNext == CustomerActs \/ SellerActs \/ SystemActs

(* Time passes, and server.ts sweeps every minute. *)
EnquiryFairness ==
  \A q \in Quotes : WF_enquiryVars(Lapse(q)) /\ WF_enquiryVars(ExpireStale(q))

EnquirySpec == EnquiryInit /\ [][EnquiryNext]_enquiryVars /\ EnquiryFairness

-----------------------------------------------------------------------------
Ended(p) == po[p].status \in {"REJECTED", "CANCELLED"}

(* However two sellers, the customer and the clock interleave, a quotation *)
(* the customer can still answer is the one its purchase order points at,  *)
(* and the two agree on where the negotiation stands; only a purchase      *)
(* order that has ended may leave one open behind it.                      *)
OneNegotiation ==
  /\ \A q \in Quotes : Live(q) =>
       LET p == quote[q].po IN
         Ended(p) \/ (po[p].quote = q /\ po[p].status = quote[q].status)
  /\ \A p \in Enquiries : po[p] # None /\ po[p].status \in {"QUOTED", "NEGOTIATION"} =>
       po[p].quote # None /\ Live(po[p].quote) /\ quote[po[p].quote].po = p

(* What is agreed is what the customer asked for, although approval and    *)
(* quotation both work from a copy of the purchase order read before: the  *)
(* terms approved are the lines of the purchase order, or of the quotation *)
(* accepted for it, and that one stays accepted.                           *)
AgreedAsAsked ==
  \A p \in Enquiries :
    (po[p] # None /\ po[p].approved # None) =>
      LET a == po[p].approved IN
        /\ a.lines = po[p].lines
        /\ a.quote # None => /\ quote[a.quote].po = p /\ quote[a.quote].lines = a.lines
                             /\ quote[a.quote].status \in {"APPROVED", "CONVERTED"}

(* A quotation the customer can answer does not stay open for ever, not    *)
(* even when its purchase order ended and the handler died before closing  *)
(* it.                                                                     *)
QuotationsSettle == \A q \in Quotes : Live(q) ~> ~Live(q)
=============================================================================
