-------------------------- MODULE ReceivablesProofs --------------------------
(* Proofs about the wholesale trade with one customer.  Enquiries: one      *)
(* negotiation at a time, and agreements that are what was asked, for any   *)
(* number of purchase orders, quotations and workers, and for any larger    *)
(* model whose other steps only convert.  Receivables: composed with sales  *)
(* orders and payments, the enquiries still keep what they keep alone.      *)
EXTENDS Receivables, SummationProofs

-----------------------------------------------------------------------------
(* The inductive invariant.  A quotation lives beside a submitted purchase  *)
(* order whose lines it copies; what a worker has read cannot have changed  *)
(* since, except for a draft; and what was agreed stays agreed.             *)

QuoteOK(q) ==
  quote[q] # None =>
    /\ po[quote[q].po] # None
    /\ po[quote[q].po].status # "DRAFT"
    /\ po[quote[q].po].lines = quote[q].lines
    /\ Live(q) => \/ Ended(quote[q].po)
                  \/ /\ po[quote[q].po].quote = q
                     /\ po[quote[q].po].status = quote[q].status

Accepted(p, q) ==
  /\ quote[q] # None
  /\ quote[q].po = p /\ quote[q].lines = po[p].lines
  /\ quote[q].status \in {"APPROVED", "CONVERTED"}

PoOK(p) ==
  po[p] # None =>
    /\ po[p].status \in {"QUOTED", "NEGOTIATION"} =>
         po[p].quote # None /\ Live(po[p].quote) /\ quote[po[p].quote].po = p
    /\ po[p].status = "APPROVED" => po[p].approved # None
    /\ po[p].approved # None =>
         /\ po[p].status \in {"APPROVED", "CONVERTED", "CANCELLED"}
         /\ po[p].approved.lines = po[p].lines
         /\ po[p].approved.quote # None => Accepted(p, po[p].approved.quote)

(* What worker w has read of a purchase order or a quotation still holds.   *)
WorkOK(w) ==
  LET d == work[w] IN
    /\ d.job # "none" => d.po \in Enquiries /\ po[d.po] # None
    /\ d.job \in {"submit", "approve", "quote", "accept", "counter"} => d.lines \in Asks
    /\ d.job \in {"approve", "quote", "accept", "counter"} =>
         po[d.po].status # "DRAFT" /\ po[d.po].lines = d.lines
    /\ d.job \in {"accept", "counter"} =>
         d.quote \in Quotes /\ quote[d.quote] # None /\ quote[d.quote].po = d.po
    /\ d.job \in {"close", "closing"} => Ended(d.po)
    /\ \A t \in d.todo : d.job = "closing" /\ quote[t[1]] # None /\ quote[t[1]].po = d.po

EnquiryOK ==
  /\ EnquiryTypeOK
  /\ \A q \in Quotes : QuoteOK(q)
  /\ \A p \in Enquiries : PoOK(p)
  /\ \A w \in Workers : WorkOK(w)

(* A step of the enquiries, or of a model that composes them.               *)
EnquiryStep ==
  \/ EnquiryNext
  \/ (\E p \in Enquiries : ConvertEnquiry(p)) /\ UNCHANGED <<lapsed, work>>
  \/ UNCHANGED enquiryVars

LEMMA OKImplies == EnquiryOK => OneNegotiation /\ AgreedAsAsked
<1> SUFFICES ASSUME EnquiryOK PROVE OneNegotiation /\ AgreedAsAsked
  OBVIOUS
<1>1. ASSUME NEW q \in Quotes, Live(q)
      PROVE  LET p == quote[q].po IN Ended(p) \/ (po[p].quote = q /\ po[p].status = quote[q].status)
  BY <1>1 DEF EnquiryOK, QuoteOK, Live
<1>2. ASSUME NEW p \in Enquiries, po[p] # None, po[p].status \in {"QUOTED", "NEGOTIATION"}
      PROVE  po[p].quote # None /\ Live(po[p].quote) /\ quote[po[p].quote].po = p
  BY <1>2 DEF EnquiryOK, PoOK
<1>3. ASSUME NEW p \in Enquiries, po[p] # None, po[p].approved # None
      PROVE  LET a == po[p].approved IN
        /\ a.lines = po[p].lines
        /\ a.quote # None => /\ quote[a.quote].po = p /\ quote[a.quote].lines = a.lines
                             /\ quote[a.quote].status \in {"APPROVED", "CONVERTED"}
  BY <1>3 DEF EnquiryOK, PoOK, Accepted
<1> QED BY <1>1, <1>2, <1>3 DEF OneNegotiation, AgreedAsAsked

-----------------------------------------------------------------------------
(* A named action changes a status, to one of the statuses, and no more.    *)

LEMMA RuleStatuses ==
  /\ \A a \in DOMAIN PORules : PORules[a].to \in POStatuses
  /\ \A a \in DOMAIN QuotationRules : QuotationRules[a].to \in QuotationStatuses
BY DEF PORules, QuotationRules, Rule, POStatuses, QuotationStatuses

LEMMA AppliedPoIs ==
  ASSUME EnquiryTypeOK, NEW p \in Enquiries, NEW a \in DOMAIN PORules, po[p] # None
  PROVE  /\ AppliedPo(a, p) \in PurchaseOrders
         /\ AppliedPo(a, p).status = PORules[a].to
         /\ AppliedPo(a, p).lines = po[p].lines
         /\ AppliedPo(a, p).quote = po[p].quote
         /\ AppliedPo(a, p).approved = po[p].approved
BY RuleStatuses DEF EnquiryTypeOK, PurchaseOrders, AppliedPo

LEMMA AppliedQuoteIs ==
  ASSUME EnquiryTypeOK, NEW q \in Quotes, NEW a \in DOMAIN QuotationRules, quote[q] # None
  PROVE  /\ AppliedQuote(a, q) \in Quotations
         /\ AppliedQuote(a, q).status = QuotationRules[a].to
         /\ AppliedQuote(a, q).lines = quote[q].lines
         /\ AppliedQuote(a, q).po = quote[q].po
BY RuleStatuses DEF EnquiryTypeOK, Quotations, AppliedQuote

LEMMA NoneIsNo ==
  /\ None \notin PurchaseOrders /\ None \notin Quotations /\ None \notin Agreements
  /\ \A q \in Quotes : q # None
  /\ \A p \in Enquiries : p # None
<1>1. \A q \in Quotes : q # None
  BY EnquiriesAssumption DEF Quotes
<1> QED BY <1>1, EnquiriesAssumption, EnquiryDocumentsAssumption

-----------------------------------------------------------------------------
(* A step concerns one purchase order and its quotations; nothing else is   *)
(* written, and nothing a worker may have read is taken back.               *)

Within(p) ==
  /\ \A r \in Enquiries : r # p => po'[r] = po[r]
  /\ \A q \in Quotes : quote'[q] # quote[q] =>
       /\ quote'[q] # None /\ quote'[q].po = p
       /\ quote[q] # None => quote[q].po = p

(* What may never happen to a purchase order, and to a quotation.           *)
PoKept(p) ==
  po[p] # None =>
    /\ po'[p] # None
    /\ po[p].status # "DRAFT" => po'[p].status # "DRAFT" /\ po'[p].lines = po[p].lines
    /\ Ended(p) => Ended(p)'

QuoteKept(q) ==
  quote[q] # None => quote'[q] # None /\ quote'[q].po = quote[q].po /\ quote'[q].lines = quote[q].lines

Kept == (\A p \in Enquiries : PoKept(p)) /\ (\A q \in Quotes : QuoteKept(q))

(* A worker whose errand is unchanged, or over, is as right as it was.      *)
LEMMA WorkStays ==
  ASSUME EnquiryOK, Kept, NEW w \in Workers, work'[w] \in {work[w], Idle}
  PROVE  WorkOK(w)'
<1>0. WorkOK(w) /\ work[w] \in Errands
  BY DEF EnquiryOK, EnquiryTypeOK
<1>1. CASE work'[w] = Idle
  BY <1>1 DEF WorkOK, Idle
<1>2. CASE work'[w] = work[w]
  <2>1. ASSUME NEW t \in work[w].todo
        PROVE  quote'[t[1]] # None /\ quote'[t[1]].po = work[w].po
    <3>1. t[1] \in Quotes
      BY <1>0 DEF Errands
    <3> QED BY <1>0, <3>1 DEF WorkOK, Kept, QuoteKept
  <2>2. PoKept(work[w].po) \/ work[w].job = "none"
    BY <1>0 DEF WorkOK, Kept
  <2>3. work[w].job \in {"accept", "counter"} => QuoteKept(work[w].quote)
    BY <1>0 DEF WorkOK, Kept
  <2> QED BY <1>0, <1>2, <2>1, <2>2, <2>3 DEF WorkOK, PoKept, QuoteKept
<1> QED BY <1>1, <1>2

(* Only the purchase order a step concerns, and its quotations, need a look. *)
LEMMA Elsewhere ==
  ASSUME EnquiryOK, NEW p \in Enquiries, Within(p), PoOK(p)',
         \A q \in Quotes : quote'[q] # None /\ quote'[q].po = p => QuoteOK(q)'
  PROVE  (\A q \in Quotes : QuoteOK(q)') /\ (\A r \in Enquiries : PoOK(r)')
<1>1. ASSUME NEW q \in Quotes
      PROVE  QuoteOK(q)'
  <2>1. CASE quote'[q] # quote[q] \/ quote'[q] = None \/ quote'[q].po = p
    BY <2>1 DEF Within, QuoteOK
  <2>2. CASE quote'[q] = quote[q] /\ quote'[q] # None /\ quote'[q].po # p
    <3>1. quote[q].po \in Enquiries
      BY <2>2 DEF EnquiryOK, EnquiryTypeOK, Quotations
    <3>2. po'[quote[q].po] = po[quote[q].po]
      BY <2>2, <3>1 DEF Within
    <3> QED BY <2>2, <3>2 DEF EnquiryOK, QuoteOK, Live, Ended
  <2> QED BY <2>1, <2>2
<1>2. ASSUME NEW r \in Enquiries
      PROVE  PoOK(r)'
  <2>1. CASE r = p
    BY <2>1
  <2>2. CASE r # p
    <3>1. po'[r] = po[r] /\ PoOK(r)
      BY <2>2 DEF Within, EnquiryOK
    <3>2. \A q \in Quotes : quote[q] # None /\ quote[q].po = r => quote'[q] = quote[q]
      BY <2>2 DEF Within
    <3>3. po[r] # None => /\ po[r].quote # None => po[r].quote \in Quotes
                          /\ po[r].approved # None /\ po[r].approved.quote # None => po[r].approved.quote \in Quotes
      BY DEF EnquiryOK, EnquiryTypeOK, PurchaseOrders, Agreements
    <3> QED BY <3>1, <3>2, <3>3 DEF PoOK, Accepted, Live
  <2> QED BY <2>1, <2>2
<1> QED BY <1>1, <1>2

WorkMoves ==
  /\ work' \in [Workers -> Errands]
  /\ \A w \in Workers : work'[w] \in {work[w], Idle} \/ WorkOK(w)'

(* What each action below is shown to do to the purchase order it concerns. *)
StepOK(p) ==
  /\ po' \in [Enquiries -> PurchaseOrders \union {None}]
  /\ quote' \in [Quotes -> Quotations \union {None}]
  /\ lapsed' \subseteq Quotes
  /\ Within(p) /\ PoKept(p) /\ PoOK(p)'
  /\ \A q \in Quotes : quote'[q] # None /\ quote'[q].po = p => QuoteOK(q)' /\ QuoteKept(q)

LEMMA StepKeepsOK ==
  ASSUME EnquiryOK, NEW p \in Enquiries, StepOK(p), WorkMoves
  PROVE  EnquiryOK'
<1>1. (\A q \in Quotes : QuoteOK(q)') /\ (\A r \in Enquiries : PoOK(r)')
  BY Elsewhere DEF StepOK
<1>2. \A r \in Enquiries : PoKept(r)
  BY DEF StepOK, Within, PoKept, Ended
<1>3. \A q \in Quotes : QuoteKept(q)
  BY DEF StepOK, Within, QuoteKept
<1>4. \A w \in Workers : WorkOK(w)'
  BY <1>2, <1>3, WorkStays DEF Kept, WorkMoves
<1> QED BY <1>1, <1>4 DEF EnquiryOK, EnquiryTypeOK, StepOK, WorkMoves

(* A step that writes no document.                                          *)
LEMMA QuietStep ==
  ASSUME EnquiryOK, UNCHANGED <<po, quote>>, lapsed' \subseteq Quotes, WorkMoves
  PROVE  EnquiryOK'
<1>1. Kept
  BY DEF Kept, PoKept, QuoteKept, Ended
<1>2. \A w \in Workers : WorkOK(w)'
  BY <1>1, WorkStays DEF WorkMoves
<1>3. (\A q \in Quotes : QuoteOK(q)') /\ (\A p \in Enquiries : PoOK(p)')
  BY DEF EnquiryOK, QuoteOK, PoOK, Accepted, Live, Ended
<1> QED BY <1>2, <1>3 DEF EnquiryOK, EnquiryTypeOK, WorkMoves

LEMMA WorkEnds ==
  ASSUME EnquiryOK, (\E w \in Workers : Stop(w)) \/ UNCHANGED work
  PROVE  WorkMoves
<1>1. Idle \in Errands
  BY DEF Idle, Errands, Jobs
<1> QED BY <1>1 DEF Stop, WorkMoves, EnquiryOK, EnquiryTypeOK

-----------------------------------------------------------------------------
(* Steps that write only the purchase order.                                *)

PoMoves(p, x) == po' = [po EXCEPT ![p] = x] /\ UNCHANGED <<quote, lapsed>>

LEMMA PoMovesFrame ==
  ASSUME EnquiryOK, NEW p \in Enquiries, NEW x \in PurchaseOrders, PoMoves(p, x)
  PROVE  /\ po' \in [Enquiries -> PurchaseOrders \union {None}]
         /\ quote' \in [Quotes -> Quotations \union {None}]
         /\ lapsed' \subseteq Quotes
         /\ Within(p) /\ po'[p] = x /\ po'[p] # None
         /\ \A q \in Quotes : QuoteKept(q)
BY NoneIsNo DEF PoMoves, EnquiryOK, EnquiryTypeOK, Within, QuoteKept

(* A purchase order nobody has answered has no quotation.                   *)
LEMMA CreateStep ==
  ASSUME EnquiryOK, NEW p \in Enquiries, NEW ask \in Asks, NEW submit \in BOOLEAN,
         CreatePurchaseOrder(p, ask, submit) \/ UpdateDraft(p, ask)
  PROVE  StepOK(p)
<1>1. \A q \in Quotes : quote[q] # None => quote[q].po # p
  BY DEF EnquiryOK, QuoteOK, CreatePurchaseOrder, UpdateDraft
<1>2. CASE CreatePurchaseOrder(p, ask, submit)
  <2> DEFINE x == [status |-> IF submit THEN "SUBMITTED" ELSE "DRAFT", lines |-> ask,
                   quote |-> None, approved |-> None]
  <2>1. x \in PurchaseOrders
    BY DEF PurchaseOrders, POStatuses
  <2>2. PoMoves(p, x)
    BY <1>2 DEF CreatePurchaseOrder, PoMoves
  <2>3. po[p] = None
    BY <1>2 DEF CreatePurchaseOrder
  <2>4. x.status \in {"SUBMITTED", "DRAFT"} /\ x.approved = None
    OBVIOUS
  <2> HIDE DEF x
  <2> QED BY <1>1, <2>1, <2>2, <2>3, <2>4, PoMovesFrame DEF StepOK, PoKept, PoOK, QuoteOK, PoMoves
<1>3. CASE UpdateDraft(p, ask)
  <2> DEFINE x == [po[p] EXCEPT !.lines = ask]
  <2>0. po[p] # None /\ po[p].status = "DRAFT" /\ po[p] \in PurchaseOrders
    BY <1>3 DEF UpdateDraft, EnquiryOK, EnquiryTypeOK
  <2>1. x \in PurchaseOrders /\ x.status = "DRAFT" /\ x.approved = po[p].approved
    BY <2>0 DEF PurchaseOrders
  <2>2. PoMoves(p, x)
    BY <1>3 DEF UpdateDraft, PoMoves
  <2>3. po[p].approved = None
    BY <2>0 DEF EnquiryOK, PoOK
  <2> HIDE DEF x
  <2> QED BY <1>1, <2>0, <2>1, <2>2, <2>3, PoMovesFrame DEF StepOK, PoKept, PoOK, QuoteOK, PoMoves, Ended
<1> QED BY <1>2, <1>3

LEMMA SubmitStep ==
  ASSUME EnquiryOK, NEW w \in Workers, NEW p \in Enquiries, p = work[w].po, Submit(w), MayPo("submit", p)
  PROVE  StepOK(p)
<1> DEFINE x == [AppliedPo("submit", p) EXCEPT !.lines = work[w].lines]
<1>0. work[w].lines \in Asks
  BY DEF Submit, Doing, EnquiryOK, WorkOK
<1>1. po[p] # None /\ po[p].status = "DRAFT" /\ po[p] \in PurchaseOrders
  BY DEF MayPo, PORules, Rule, EnquiryOK, EnquiryTypeOK
<1>2. \A q \in Quotes : quote[q] # None => quote[q].po # p
  BY <1>1 DEF EnquiryOK, QuoteOK
<1>3. po[p].approved = None
  BY <1>1 DEF EnquiryOK, PoOK
<1>4. x \in PurchaseOrders /\ x.status = "SUBMITTED" /\ x.approved = None
  <2>1. AppliedPo("submit", p) \in PurchaseOrders /\ AppliedPo("submit", p).status = "SUBMITTED"
        /\ AppliedPo("submit", p).approved = None
    BY <1>1, <1>3, AppliedPoIs DEF EnquiryOK, PORules, Rule
  <2> QED BY <1>0, <2>1 DEF PurchaseOrders
<1>5. PoMoves(p, x)
  BY DEF Submit, PoMoves
<1> HIDE DEF x
<1> QED BY <1>1, <1>2, <1>4, <1>5, PoMovesFrame DEF StepOK, PoKept, PoOK, QuoteOK, PoMoves, Ended

(* Review, and approval on the customer's own terms: nobody has a live      *)
(* quotation beside an order that is only submitted.                        *)
LEMMA ReviewStep ==
  ASSUME EnquiryOK, NEW p \in Enquiries, NEW x \in PurchaseOrders, MayPo("approve", p), PoMoves(p, x),
         x.lines = po[p].lines,
         \/ x.status = "UNDER_REVIEW" /\ x.approved = None
         \/ x.status = "APPROVED" /\ x.approved # None /\ x.approved.lines = x.lines /\ x.approved.quote = None
  PROVE  StepOK(p)
<1>1. po[p] # None /\ po[p].status \in {"SUBMITTED", "UNDER_REVIEW"}
  BY DEF MayPo, PORules, Rule
<1>2. po'[p] = x /\ quote' = quote
  BY PoMovesFrame DEF PoMoves
<1>3. PoOK(p)'
  BY <1>2 DEF PoOK
<1>4. \A q \in Quotes : quote[q] # None /\ quote[q].po = p => ~Live(q)
  BY <1>1 DEF EnquiryOK, QuoteOK, Live, Ended
<1>5. \A q \in Quotes : quote'[q] # None /\ quote'[q].po = p => QuoteOK(q)'
  BY <1>1, <1>2, <1>4, PoMovesFrame DEF EnquiryOK, QuoteOK, Live
<1>6. PoKept(p)
  BY <1>1, <1>2, PoMovesFrame DEF PoKept, Ended
<1> QED BY <1>3, <1>5, <1>6, PoMovesFrame DEF StepOK

LEMMA StartReviewStep ==
  ASSUME EnquiryOK, NEW p \in Enquiries, StartReview(p)
  PROVE  StepOK(p)
<1>1. po[p] # None /\ po[p].status = "SUBMITTED"
  BY DEF StartReview, MayPo, PORules, Rule
<1> DEFINE x == AppliedPo("startReview", p)
<1>2. x \in PurchaseOrders /\ x.lines = po[p].lines /\ x.status = "UNDER_REVIEW" /\ x.approved = po[p].approved
  BY <1>1, AppliedPoIs DEF EnquiryOK, PORules, Rule
<1>3. x.approved = None
  BY <1>1, <1>2 DEF EnquiryOK, PoOK
<1>4. PoMoves(p, x) /\ MayPo("approve", p)
  BY <1>1 DEF StartReview, PoMoves, MayPo, PORules, Rule
<1> HIDE DEF x
<1> QED BY <1>2, <1>3, <1>4, ReviewStep

LEMMA ApproveStep ==
  ASSUME EnquiryOK, NEW w \in Workers, NEW p \in Enquiries, p = work[w].po, ApprovePurchaseOrder(w), MayPo("approve", p)
  PROVE  StepOK(p)
<1> DEFINE a == [lines |-> work[w].lines, quote |-> None]
           x == [AppliedPo("approve", p) EXCEPT !.approved = a]
<1>1. po[p] # None /\ work[w].lines \in Asks /\ po[p].lines = work[w].lines
  BY DEF ApprovePurchaseOrder, Doing, EnquiryOK, WorkOK
<1>2. a \in Agreements /\ a # None
  BY <1>1, NoneIsNo DEF Agreements
<1>3. /\ AppliedPo("approve", p) \in PurchaseOrders
      /\ AppliedPo("approve", p).lines = po[p].lines /\ AppliedPo("approve", p).status = "APPROVED"
  BY <1>1, AppliedPoIs DEF EnquiryOK, PORules, Rule
<1>4. PoMoves(p, x)
  BY DEF ApprovePurchaseOrder, PoMoves
<1>5. a.lines = work[w].lines /\ a.quote = None
  OBVIOUS
<1> HIDE DEF a
<1>6. x \in PurchaseOrders /\ x.lines = po[p].lines /\ x.status = "APPROVED" /\ x.approved = a
  BY <1>2, <1>3 DEF PurchaseOrders
<1> HIDE DEF x
<1> QED BY <1>1, <1>2, <1>4, <1>5, <1>6, ReviewStep

(* Ending a purchase order leaves its quotations as they are.               *)
LEMMA EndStep ==
  ASSUME EnquiryOK, NEW p \in Enquiries, NEW a \in {"cancel", "reject"}, MayPo(a, p), PoMoves(p, AppliedPo(a, p))
  PROVE  StepOK(p) /\ Ended(p)'
<1>1. po[p] # None /\ po[p].status # "CONVERTED" /\ a \in DOMAIN PORules
  BY DEF MayPo, PORules, Rule
<1> DEFINE x == AppliedPo(a, p)
<1>2. /\ x \in PurchaseOrders /\ x.lines = po[p].lines /\ x.approved = po[p].approved
      /\ x.status = PORules[a].to
  BY <1>1, AppliedPoIs DEF EnquiryOK
<1>3. x.status \in {"CANCELLED", "REJECTED"}
  BY <1>2 DEF PORules, Rule
<1>4. po[p].approved # None => x.status = "CANCELLED"
  BY <1>1, <1>2 DEF EnquiryOK, PoOK, MayPo, PORules, Rule
<1> HIDE DEF x
<1>5. PoMoves(p, x)
  BY DEF x
<1>6. po'[p] = x /\ po'[p] # None /\ quote' = quote
  BY <1>2, <1>5, PoMovesFrame DEF PoMoves
<1>7. PoOK(p)'
  BY <1>1, <1>2, <1>3, <1>4, <1>6 DEF EnquiryOK, PoOK, Accepted
<1>8. \A q \in Quotes : quote'[q] # None /\ quote'[q].po = p => QuoteOK(q)'
  BY <1>2, <1>3, <1>6 DEF EnquiryOK, QuoteOK, Ended
<1>9. PoKept(p) /\ Ended(p)'
  BY <1>2, <1>3, <1>6 DEF PoKept, Ended
<1> QED BY <1>2, <1>5, <1>7, <1>8, <1>9, PoMovesFrame DEF StepOK

-----------------------------------------------------------------------------
(* Steps that write a quotation.                                            *)

QuoteMoves(q, y) == quote' = [quote EXCEPT ![q] = y] /\ UNCHANGED lapsed

(* Closing a quotation nobody can answer: a draft, or one of an ended order. *)
LEMMA CloseStep ==
  ASSUME EnquiryOK, NEW q \in Quotes, NEW p \in Enquiries, NEW y \in Quotations,
         Open(q), quote[q].po = p, quote[q].status = "DRAFT" \/ Ended(p),
         QuoteMoves(q, y), UNCHANGED po,
         y.po = p, y.lines = quote[q].lines, y.status \in {"REJECTED", "EXPIRED"}
  PROVE  StepOK(p)
<1>1. quote[q] # None /\ quote[q].status \in {"DRAFT", "QUOTED", "NEGOTIATION"}
  BY DEF Open
<1>2. /\ quote'[q] = y /\ quote'[q] # None
      /\ \A r \in Quotes : r # q => quote'[r] = quote[r]
      /\ quote' \in [Quotes -> Quotations \union {None}]
  BY NoneIsNo DEF QuoteMoves, EnquiryOK, EnquiryTypeOK
<1>3. PoOK(p)'
  <2>0. po[p] # None => /\ po[p].quote # None => po[p].quote \in Quotes
                        /\ po[p].approved # None /\ po[p].approved.quote # None => po[p].approved.quote \in Quotes
    BY DEF EnquiryOK, EnquiryTypeOK, PurchaseOrders, Agreements
  <2>1. PoOK(p)
    BY DEF EnquiryOK
  <2>2. po[p] # None /\ po[p].status \in {"QUOTED", "NEGOTIATION"} => po[p].quote # q
    BY <1>1, <2>1 DEF PoOK, Live, Ended
  <2>3. po[p] # None /\ po[p].approved # None => po[p].approved.quote # q
    BY <1>1, <2>1, NoneIsNo DEF PoOK, Accepted
  <2> QED BY <1>2, <2>0, <2>1, <2>2, <2>3 DEF PoOK, Accepted, Live
<1>4. \A r \in Quotes : quote'[r] # None /\ quote'[r].po = p => QuoteOK(r)' /\ QuoteKept(r)
  BY <1>1, <1>2 DEF EnquiryOK, QuoteOK, QuoteKept, Live, Ended
<1>5. PoKept(p) /\ Within(p)
  BY <1>1, <1>2 DEF PoKept, Ended, Within
<1> QED BY <1>2, <1>3, <1>4, <1>5 DEF StepOK, EnquiryOK, EnquiryTypeOK, QuoteMoves

(* Answering, or letting lapse, the one live quotation.                     *)
Follows(q, x, y) ==
  \/ x.status = "NEGOTIATION" /\ y.status = "NEGOTIATION" /\ x.quote = q /\ x.approved = None
  \/ x.status \in {"REJECTED", "EXPIRED"} /\ y.status \in {"REJECTED", "EXPIRED"} /\ x.approved = None
  \/ /\ x.status = "APPROVED" /\ y.status = "APPROVED" /\ x.approved # None
     /\ x.approved.quote = q /\ x.approved.lines = x.lines

LEMMA AnswerStep ==
  ASSUME EnquiryOK, NEW q \in Quotes, NEW p \in Enquiries, NEW x \in PurchaseOrders, NEW y \in Quotations,
         Live(q), quote[q].po = p, po[p].status \in {"QUOTED", "NEGOTIATION"},
         QuoteMoves(q, y), po' = [po EXCEPT ![p] = x],
         x.lines = po[p].lines, y.po = p, y.lines = quote[q].lines, Follows(q, x, y)
  PROVE  StepOK(p)
<1>0. QuoteOK(q)
  BY DEF EnquiryOK
<1>1. /\ quote[q] # None /\ quote[q].lines = po[p].lines
      /\ po[p] # None
  BY <1>0 DEF Live, QuoteOK
<1>2. /\ quote'[q] = y /\ quote'[q] # None
      /\ \A r \in Quotes : r # q => quote'[r] = quote[r]
      /\ quote' \in [Quotes -> Quotations \union {None}]
      /\ po'[p] = x /\ po'[p] # None
      /\ \A r \in Enquiries : r # p => po'[r] = po[r]
      /\ po' \in [Enquiries -> PurchaseOrders \union {None}]
  BY NoneIsNo DEF QuoteMoves, EnquiryOK, EnquiryTypeOK
<1>3. \A r \in Quotes : quote[r] # None /\ quote[r].po = p /\ r # q => ~Live(r)
  BY <1>0, <1>1 DEF EnquiryOK, QuoteOK, Ended
<1>4. PoOK(p)'
  BY <1>1, <1>2, NoneIsNo DEF PoOK, Accepted, Live, Follows
<1>5. ASSUME NEW r \in Quotes, quote'[r] # None, quote'[r].po = p
      PROVE  QuoteOK(r)' /\ QuoteKept(r)
  <2>1. CASE r = q
    BY <1>1, <1>2, <2>1 DEF QuoteOK, QuoteKept, Live, Ended, Follows
  <2>2. CASE r # q
    <3>1. quote'[r] = quote[r] /\ ~Live(r) /\ QuoteOK(r)
      BY <1>2, <1>3, <1>5, <2>2 DEF EnquiryOK
    <3> QED BY <1>2, <1>5, <3>1 DEF QuoteOK, QuoteKept, Live, Follows
  <2> QED BY <2>1, <2>2
<1>6. PoKept(p) /\ Within(p)
  BY <1>1, <1>2 DEF PoKept, Ended, Within, Follows
<1> QED BY <1>2, <1>4, <1>5, <1>6 DEF StepOK, EnquiryOK, EnquiryTypeOK, QuoteMoves

(* A version is put to the customer; what was live before is superseded.    *)
LEMMA IssueStep ==
  ASSUME EnquiryOK, NEW q \in Quotes, NEW p \in Enquiries, NEW x \in PurchaseOrders, NEW y \in Quotations,
         quote[q] = None \/ quote[q].po = p, MayPo("quote", p),
         quote' = [Superseded(p) EXCEPT ![q] = y], UNCHANGED lapsed, po' = [po EXCEPT ![p] = x],
         x.lines = po[p].lines, x.status = "QUOTED", x.quote = q, x.approved = po[p].approved,
         y.po = p, y.lines = po[p].lines, y.status = "QUOTED"
  PROVE  StepOK(p)
<1>1. po[p] # None /\ po[p].status \in {"SUBMITTED", "UNDER_REVIEW", "QUOTED", "NEGOTIATION", "EXPIRED"}
  BY DEF MayPo, PORules, Rule
<1>2. /\ quote'[q] = y /\ quote'[q] # None
      /\ \A r \in Quotes : r # q => quote'[r] = Superseded(p)[r]
      /\ po'[p] = x /\ po'[p] # None
      /\ \A r \in Enquiries : r # p => po'[r] = po[r]
      /\ po' \in [Enquiries -> PurchaseOrders \union {None}]
  BY NoneIsNo DEF EnquiryOK, EnquiryTypeOK, Superseded
<1>3. ASSUME NEW r \in Quotes, r # q, quote'[r] # quote[r]
      PROVE  /\ quote[r] # None /\ quote[r].po = p
             /\ quote'[r] \in Quotations /\ quote'[r].po = p /\ quote'[r].lines = quote[r].lines
             /\ quote'[r].status = "SUPERSEDED"
  <2>1. quote[r] # None /\ quote[r].po = p /\ quote'[r] = AppliedQuote("supersede", r)
    BY <1>2, <1>3 DEF Superseded, Written
  <2> QED BY <2>1, AppliedQuoteIs DEF EnquiryOK, QuotationRules, Rule
<1>4. ASSUME NEW r \in Quotes, r # q, quote'[r] = quote[r], quote[r] # None, quote[r].po = p
      PROVE  ~Live(r)
  <2>1. SUFFICES ASSUME Live(r) PROVE FALSE
    OBVIOUS
  <2>2. quote[r] = AppliedQuote("supersede", r)
    BY <1>2, <1>4, <2>1 DEF Superseded, Written
  <2>3. quote[r].status = "SUPERSEDED"
    BY <1>4, <2>2, AppliedQuoteIs DEF EnquiryOK, QuotationRules, Rule
  <2> QED BY <2>1, <2>3 DEF Live
<1>5. quote' \in [Quotes -> Quotations \union {None}]
  BY <1>2, <1>3 DEF EnquiryOK, EnquiryTypeOK, Superseded
<1>6. PoOK(p)'
  <2>1. po[p].approved = None
    BY <1>1 DEF EnquiryOK, PoOK
  <2> QED BY <1>2, <2>1, NoneIsNo DEF PoOK, Live
<1>7. ASSUME NEW r \in Quotes, quote'[r] # None, quote'[r].po = p
      PROVE  QuoteOK(r)' /\ QuoteKept(r)
  <2>1. CASE r = q
    <3>1. QuoteOK(r)'
      BY <1>2, <2>1 DEF QuoteOK, Live, Ended
    <3>2. QuoteKept(r)
      BY <1>2, <2>1 DEF EnquiryOK, QuoteOK, QuoteKept
    <3> QED BY <3>1, <3>2
  <2>2. CASE r # q /\ quote'[r] # quote[r]
    BY <1>2, <1>3, <2>2, NoneIsNo DEF EnquiryOK, QuoteOK, QuoteKept, Live
  <2>3. CASE r # q /\ quote'[r] = quote[r]
    <3>1. ~Live(r) /\ QuoteOK(r)
      BY <1>4, <1>7, <2>3 DEF EnquiryOK
    <3> QED BY <1>2, <1>7, <2>3, <3>1 DEF QuoteOK, QuoteKept, Live
  <2> QED BY <2>1, <2>2, <2>3
<1>8. PoKept(p) /\ Within(p)
  BY <1>1, <1>2, <1>3, NoneIsNo DEF PoKept, Ended, Within
<1> QED BY <1>2, <1>5, <1>6, <1>7, <1>8 DEF StepOK, EnquiryOK, EnquiryTypeOK

(* A version is written and kept back.                                      *)
LEMMA DraftStep ==
  ASSUME EnquiryOK, NEW q \in Quotes, NEW p \in Enquiries, NEW y \in Quotations,
         quote[q] = None, QuoteMoves(q, y), UNCHANGED po,
         po[p] # None, po[p].status # "DRAFT", y.po = p, y.lines = po[p].lines, y.status = "DRAFT"
  PROVE  StepOK(p)
<1>1. /\ quote'[q] = y /\ quote'[q] # None
      /\ \A r \in Quotes : r # q => quote'[r] = quote[r]
      /\ quote' \in [Quotes -> Quotations \union {None}]
  BY NoneIsNo DEF QuoteMoves, EnquiryOK, EnquiryTypeOK
<1>2. /\ po[p].quote # None => po[p].quote \in Quotes
      /\ po[p].approved # None /\ po[p].approved.quote # None => po[p].approved.quote \in Quotes
  BY DEF EnquiryOK, EnquiryTypeOK, PurchaseOrders, Agreements
<1>3. PoOK(p)'
  <2>1. PoOK(p)
    BY DEF EnquiryOK
  <2> QED BY <1>1, <1>2, <2>1 DEF PoOK, Accepted, Live
<1>4. \A r \in Quotes : quote'[r] # None /\ quote'[r].po = p => QuoteOK(r)' /\ QuoteKept(r)
  BY <1>1 DEF EnquiryOK, QuoteOK, QuoteKept, Live, Ended
<1>5. PoKept(p) /\ Within(p)
  BY <1>1 DEF PoKept, Ended, Within
<1> QED BY <1>1, <1>3, <1>4, <1>5 DEF StepOK, EnquiryOK, EnquiryTypeOK, QuoteMoves

-----------------------------------------------------------------------------
(* Every action is one of these steps, or writes no document.               *)

StepOKSomewhere == \E p \in Enquiries : StepOK(p)
DocumentsKept == UNCHANGED <<po, quote>> /\ lapsed' \subseteq Quotes

Fine == (StepOKSomewhere \/ DocumentsKept) /\ WorkMoves

LEMMA FineKeepsOK == EnquiryOK /\ Fine => EnquiryOK'
BY StepKeepsOK, QuietStep DEF Fine, StepOKSomewhere, DocumentsKept

(* A worker takes up an errand: it remembers what it has just read.         *)
LEMMA ErrandTaken ==
  ASSUME EnquiryOK, NEW w \in Workers, NEW d \in Errands, work' = [work EXCEPT ![w] = d],
         WorkOK(w)', DocumentsKept
  PROVE  Fine
BY DEF Fine, WorkMoves, EnquiryOK, EnquiryTypeOK

LEMMA LapsedIsTyped == EnquiryOK /\ UNCHANGED <<po, quote, lapsed>> => DocumentsKept
BY DEF EnquiryOK, EnquiryTypeOK, DocumentsKept

LEMMA ReadDraftFine ==
  ASSUME EnquiryOK, NEW w \in Workers, NEW p \in Enquiries, ReadDraft(w, p)
  PROVE  Fine
<1> DEFINE d == [Idle EXCEPT !.job = "submit", !.po = p, !.lines = po[p].lines]
<1>1. po[p] # None /\ po[p].lines \in Asks
  BY DEF ReadDraft, MayPo, EnquiryOK, EnquiryTypeOK, PurchaseOrders
<1>2. d \in Errands
  BY <1>1 DEF Errands, Idle, Jobs
<1>3. work' = [work EXCEPT ![w] = d] /\ UNCHANGED <<po, quote, lapsed>>
  BY DEF ReadDraft
<1>4. d.job = "submit" /\ d.po = p /\ d.lines = po[p].lines /\ d.todo = {}
  BY DEF Idle
<1> HIDE DEF d
<1>5. work'[w] = d
  BY <1>3 DEF EnquiryOK, EnquiryTypeOK
<1>6. WorkOK(w)'
  BY <1>1, <1>3, <1>4, <1>5 DEF WorkOK
<1> QED BY <1>2, <1>3, <1>6, ErrandTaken, LapsedIsTyped

LEMMA WrittenIsFinite == \A p : Cardinality(Written(p)) \in Nat
<1>1. IsFiniteSet(Quotes)
  BY EnquiriesAssumption, FS_Interval DEF Quotes
<1> SUFFICES ASSUME NEW p PROVE Cardinality(Written(p)) \in Nat
  OBVIOUS
<1>2. Written(p) \subseteq Quotes
  BY DEF Written
<1> QED BY <1>1, <1>2, FS_Subset, FS_CardinalityType

LEMMA ReadPurchaseOrderFine ==
  ASSUME EnquiryOK, NEW w \in Workers, NEW p \in Enquiries, NEW job \in {"approve", "quote"},
         ReadPurchaseOrder(w, p, job)
  PROVE  Fine
<1> DEFINE n == Cardinality(Written(p)) + 1
           d == [Idle EXCEPT !.job = job, !.po = p, !.lines = po[p].lines, !.version = n]
<1>1. po[p] # None /\ po[p].lines \in Asks /\ po[p].status # "DRAFT"
  BY DEF ReadPurchaseOrder, MayPo, PORules, Rule, EnquiryOK, EnquiryTypeOK, PurchaseOrders
<1>2. n \in Nat
  BY WrittenIsFinite
<1>3. work' = [work EXCEPT ![w] = d] /\ UNCHANGED <<po, quote, lapsed>>
  BY DEF ReadPurchaseOrder
<1> HIDE DEF n
<1>4. d \in Errands
  BY <1>1, <1>2 DEF Errands, Idle, Jobs
<1>5. d.job = job /\ d.po = p /\ d.lines = po[p].lines /\ d.todo = {}
  BY DEF Idle
<1> HIDE DEF d
<1>6. work'[w] = d
  BY <1>3 DEF EnquiryOK, EnquiryTypeOK
<1>7. WorkOK(w)'
  BY <1>1, <1>3, <1>5, <1>6 DEF WorkOK
<1> QED BY <1>3, <1>4, <1>7, ErrandTaken, LapsedIsTyped

LEMMA ReadQuotationFine ==
  ASSUME EnquiryOK, NEW w \in Workers, NEW q \in Quotes, NEW job \in {"accept", "counter"},
         ReadQuotation(w, q, job)
  PROVE  Fine
<1> DEFINE p == quote[q].po
           d == [Idle EXCEPT !.job = job, !.quote = q, !.po = p, !.lines = quote[q].lines]
<1>1. quote[q] # None /\ quote[q] \in Quotations
  BY DEF ReadQuotation, MayQuote, EnquiryOK, EnquiryTypeOK
<1>2. p \in Enquiries /\ quote[q].lines \in Asks
  BY <1>1 DEF Quotations
<1>3. po[p] # None /\ po[p].lines = quote[q].lines /\ po[p].status # "DRAFT"
  BY <1>1 DEF EnquiryOK, QuoteOK
<1>4. work' = [work EXCEPT ![w] = d] /\ UNCHANGED <<po, quote, lapsed>>
  BY DEF ReadQuotation
<1>5. d \in Errands
  BY <1>2 DEF Errands, Idle, Jobs
<1>6. d.job = job /\ d.po = p /\ d.lines = quote[q].lines /\ d.quote = q /\ d.todo = {}
  BY DEF Idle
<1> HIDE DEF d
<1>7. work'[w] = d
  BY <1>4 DEF EnquiryOK, EnquiryTypeOK
<1>8. WorkOK(w)'
  BY <1>1, <1>2, <1>3, <1>4, <1>6, <1>7 DEF WorkOK
<1> QED BY <1>4, <1>5, <1>8, ErrandTaken, LapsedIsTyped

LEMMA EndFine ==
  ASSUME EnquiryOK, NEW w \in Workers, NEW p \in Enquiries, NEW a \in {"cancel", "reject"},
         EndPurchaseOrder(w, p, a)
  PROVE  Fine
<1> DEFINE d == [Idle EXCEPT !.job = "close", !.po = p]
<1>1. StepOK(p) /\ Ended(p)'
  BY EndStep DEF EndPurchaseOrder, PoMoves
<1>2. po'[p] # None
  <2>1. po[p] # None
    BY DEF EndPurchaseOrder, MayPo
  <2> QED BY <1>1, <2>1 DEF StepOK, PoKept
<1>3. d \in Errands
  BY DEF Errands, Idle, Jobs
<1>4. d.job = "close" /\ d.po = p /\ d.todo = {}
  BY DEF Idle
<1>5. work' = [work EXCEPT ![w] = d]
  BY DEF EndPurchaseOrder
<1> HIDE DEF d
<1>6. work'[w] = d
  BY <1>5 DEF EnquiryOK, EnquiryTypeOK
<1>7. WorkOK(w)'
  BY <1>1, <1>2, <1>4, <1>6 DEF WorkOK
<1>8. WorkMoves
  BY <1>3, <1>5, <1>7 DEF WorkMoves, EnquiryOK, EnquiryTypeOK
<1> QED BY <1>1, <1>8 DEF Fine, StepOKSomewhere

LEMMA ListFine ==
  ASSUME EnquiryOK, NEW w \in Workers, ListOpenQuotations(w)
  PROVE  Fine
<1> DEFINE T == {<<q, quote[q].status>> : q \in {r \in Written(work[w].po) : Open(r)}}
           d == [work[w] EXCEPT !.job = "closing", !.todo = T]
<1>1. ASSUME NEW t \in T
      PROVE  t \in Quotes \X QuotationStatuses /\ quote[t[1]] # None /\ quote[t[1]].po = work[w].po
  BY DEF Written, EnquiryOK, EnquiryTypeOK, Quotations
<1>2. T \in SUBSET (Quotes \X QuotationStatuses)
  BY <1>1
<1>3. work[w] \in Errands /\ WorkOK(w) /\ work[w].job = "close"
  BY DEF ListOpenQuotations, Doing, EnquiryOK, EnquiryTypeOK
<1>4. work' = [work EXCEPT ![w] = d] /\ UNCHANGED <<po, quote, lapsed>>
  BY DEF ListOpenQuotations
<1> HIDE DEF T
<1>5. d \in Errands /\ d.job = "closing" /\ d.po = work[w].po /\ d.todo = T
  BY <1>2, <1>3 DEF Errands, Jobs
<1> HIDE DEF d
<1>6. work'[w] = d
  BY <1>4 DEF EnquiryOK, EnquiryTypeOK
<1>7. WorkOK(w)'
  <2>1. \A t \in T : quote'[t[1]] # None /\ quote'[t[1]].po = work[w].po
    BY <1>1, <1>4
  <2> QED BY <1>3, <1>4, <1>5, <1>6, <2>1 DEF WorkOK, Ended
<1> QED BY <1>4, <1>5, <1>7, ErrandTaken, LapsedIsTyped

(* A worker goes on with fewer quotations to close.                         *)
LEMMA CloseFine ==
  ASSUME EnquiryOK, NEW w \in Workers, CloseQuotation(w)
  PROVE  Fine
<1>0. work[w] \in Errands /\ WorkOK(w) /\ work[w].job = "closing" /\ UNCHANGED <<po, lapsed>>
  BY DEF CloseQuotation, Doing, EnquiryOK, EnquiryTypeOK
<1>1. CASE Stop(w) /\ UNCHANGED quote
  BY <1>0, <1>1, LapsedIsTyped, WorkEnds DEF Fine
<1>2. ASSUME NEW t \in work[w].todo, NEW a \in {"discard", "decline"}, MayQuote(a, t[1]),
             quote' = [quote EXCEPT ![t[1]] = AppliedQuote(a, t[1])],
             work' = [work EXCEPT ![w].todo = @ \ {t}]
      PROVE  Fine
  <2> DEFINE q == t[1]
             p == quote[q].po
             y == AppliedQuote(a, q)
             d == [work[w] EXCEPT !.todo = @ \ {t}]
  <2>1. q \in Quotes /\ a \in DOMAIN QuotationRules /\ quote[q] # None
    BY <1>0, <1>2 DEF Errands, QuotationRules, WorkOK
  <2>2. p = work[w].po /\ Ended(p) /\ p \in Enquiries
    BY <1>0 DEF WorkOK
  <2>3. y \in Quotations /\ y.po = p /\ y.lines = quote[q].lines /\ y.status = "REJECTED"
    BY <1>2, <2>1, AppliedQuoteIs DEF EnquiryOK, QuotationRules, Rule
  <2>4. Open(q)
    BY <1>2, <2>1 DEF MayQuote, QuotationRules, Rule, Open
  <2>5. QuoteMoves(q, y)
    BY <1>0, <1>2 DEF QuoteMoves
  <2>6. d \in Errands /\ d.job = "closing" /\ d.po = work[w].po /\ d.todo \subseteq work[w].todo
    BY <1>0 DEF Errands
  <2>7. work' = [work EXCEPT ![w] = d]
    BY <1>2
  <2> HIDE DEF d, y
  <2>a. PICK r \in Enquiries : r = p
    BY <2>2
  <2>8. StepOK(r)
    BY <1>0, <2>1, <2>2, <2>3, <2>4, <2>5, <2>a, CloseStep
  <2>9. work'[w] = d
    BY <2>7 DEF EnquiryOK, EnquiryTypeOK
  <2>10. \A u \in d.todo : u[1] \in Quotes /\ quote[u[1]] # None /\ quote[u[1]].po = work[w].po
    BY <1>0, <2>6 DEF WorkOK, Errands
  <2>11. \A u \in d.todo : quote'[u[1]] # None /\ quote'[u[1]].po = work[w].po
    BY <2>3, <2>5, <2>10, NoneIsNo DEF QuoteMoves, EnquiryOK, EnquiryTypeOK
  <2>12. WorkOK(w)'
    BY <1>0, <2>6, <2>9, <2>11 DEF WorkOK, Ended
  <2>13. WorkMoves
    BY <2>6, <2>7, <2>12 DEF WorkMoves, EnquiryOK, EnquiryTypeOK
  <2> QED BY <2>8, <2>13 DEF Fine, StepOKSomewhere
<1> QED BY <1>1, <1>2 DEF CloseQuotation

LEMMA AcceptStep ==
  ASSUME EnquiryOK, NEW w \in Workers, NEW q \in Quotes, NEW p \in Enquiries, q = work[w].quote, p = work[w].po,
         AcceptQuotation(w), MayQuote("accept", q), MayPo("accept", p)
  PROVE  StepOK(p)
<1> DEFINE a == [lines |-> work[w].lines, quote |-> q]
           x == [AppliedPo("accept", p) EXCEPT !.approved = a]
           y == AppliedQuote("accept", q)
<1>1. /\ po[p] # None /\ po[p].status = "QUOTED"
      /\ quote[q] # None /\ quote[q].status = "QUOTED"
  BY DEF MayPo, MayQuote, PORules, QuotationRules, Rule
<1>2. work[w].lines \in Asks /\ work[w].lines = po[p].lines /\ quote[q].po = p
  BY DEF AcceptQuotation, Doing, EnquiryOK, WorkOK
<1>3. a \in Agreements /\ a.lines = po[p].lines /\ a.quote = q
  BY <1>2 DEF Agreements
<1>4. /\ AppliedPo("accept", p) \in PurchaseOrders
      /\ AppliedPo("accept", p).lines = po[p].lines /\ AppliedPo("accept", p).status = "APPROVED"
  BY <1>1, AppliedPoIs DEF EnquiryOK, PORules, Rule
<1>5. y \in Quotations /\ y.po = p /\ y.lines = quote[q].lines /\ y.status = "APPROVED"
  BY <1>1, <1>2, AppliedQuoteIs DEF EnquiryOK, QuotationRules, Rule
<1>6. QuoteMoves(q, y) /\ po' = [po EXCEPT ![p] = x]
  BY DEF AcceptQuotation, QuoteMoves
<1> HIDE DEF a, y
<1>7. x \in PurchaseOrders /\ x.lines = po[p].lines /\ x.status = "APPROVED" /\ x.approved = a
  BY <1>3, <1>4 DEF PurchaseOrders
<1> HIDE DEF x
<1>8. Follows(q, x, y)
  BY <1>3, <1>5, <1>7, NoneIsNo DEF Follows
<1>9. Live(q)
  BY <1>1 DEF Live
<1> QED BY <1>1, <1>2, <1>5, <1>6, <1>7, <1>8, <1>9, AnswerStep

(* The live quotation and its purchase order move together, by the actions  *)
(* a on the one and b on the other.                                         *)
LEMMA TogetherStep ==
  ASSUME EnquiryOK, NEW q \in Quotes, NEW p \in Enquiries, p = quote[q].po,
         NEW a \in {"counter", "decline", "expire"}, MayQuote(a, q), MayPo(a, p),
         QuoteMoves(q, AppliedQuote(a, q)), po' = [po EXCEPT ![p] = AppliedPo(a, p)]
  PROVE  StepOK(p)
<1> DEFINE x == AppliedPo(a, p)
           y == AppliedQuote(a, q)
<1>1. /\ po[p] # None /\ po[p].status \in {"QUOTED", "NEGOTIATION"} /\ a \in DOMAIN PORules
      /\ quote[q] # None /\ Live(q) /\ a \in DOMAIN QuotationRules
  BY DEF MayPo, MayQuote, PORules, QuotationRules, Rule, Live
<1>2. /\ x \in PurchaseOrders /\ x.lines = po[p].lines /\ x.quote = po[p].quote
      /\ x.approved = po[p].approved /\ x.status = PORules[a].to
  BY <1>1, AppliedPoIs DEF EnquiryOK
<1>3. y \in Quotations /\ y.po = p /\ y.lines = quote[q].lines /\ y.status = QuotationRules[a].to
  BY <1>1, AppliedQuoteIs DEF EnquiryOK
<1>4. po[p].approved = None /\ po[p].quote = q
  BY <1>1 DEF EnquiryOK, PoOK, QuoteOK, Ended
<1> HIDE DEF x, y
<1>5. Follows(q, x, y)
  BY <1>2, <1>3, <1>4 DEF Follows, PORules, QuotationRules, Rule
<1>6. QuoteMoves(q, y) /\ po' = [po EXCEPT ![p] = x]
  BY DEF x, y
<1> QED BY <1>1, <1>2, <1>3, <1>5, <1>6, AnswerStep

LEMMA CounterStep ==
  ASSUME EnquiryOK, NEW w \in Workers, NEW q \in Quotes, NEW p \in Enquiries, q = work[w].quote, p = work[w].po,
         CounterQuotation(w), MayQuote("counter", q), MayPo("counter", p)
  PROVE  StepOK(p)
<1>1. quote[q].po = p
  BY DEF CounterQuotation, Doing, EnquiryOK, WorkOK
<1> QED BY <1>1, TogetherStep DEF CounterQuotation, QuoteMoves

LEMMA DeclineStep ==
  ASSUME EnquiryOK, NEW q \in Quotes, NEW p \in Enquiries, p = quote[q].po, DeclineQuotation(q)
  PROVE  StepOK(p)
BY TogetherStep DEF DeclineQuotation, QuoteMoves

LEMMA ExpireStep ==
  ASSUME EnquiryOK, NEW q \in Quotes, NEW p \in Enquiries, p = quote[q].po, ExpireStale(q)
  PROVE  StepOK(p)
<1>1. CASE po[p].quote = q /\ MayPo("expire", p)
  BY <1>1, TogetherStep DEF ExpireStale, QuoteMoves
<1>2. CASE ~(po[p].quote = q /\ MayPo("expire", p))
  <2> DEFINE y == AppliedQuote("expire", q)
  <2>1. quote[q] # None /\ Live(q) /\ quote[q].status \in {"QUOTED", "NEGOTIATION"}
    BY DEF ExpireStale, MayQuote, QuotationRules, Rule, Live
  <2>2. y \in Quotations /\ y.po = p /\ y.lines = quote[q].lines /\ y.status = "EXPIRED"
    BY <2>1, AppliedQuoteIs DEF EnquiryOK, QuotationRules, Rule
  <2>3. Ended(p)
    BY <1>2, <2>1 DEF EnquiryOK, QuoteOK, MayPo, PORules, Rule
  <2>4. QuoteMoves(q, y) /\ UNCHANGED po
    BY <1>2 DEF ExpireStale, QuoteMoves
  <2> HIDE DEF y
  <2>5. Open(q)
    BY <2>1 DEF Live, Open
  <2> QED BY <2>2, <2>3, <2>4, <2>5, CloseStep
<1> QED BY <1>1, <1>2

LEMMA DiscardStep ==
  ASSUME EnquiryOK, NEW q \in Quotes, NEW p \in Enquiries, p = quote[q].po, DiscardDraftQuotation(q)
  PROVE  StepOK(p)
<1> DEFINE y == AppliedQuote("discard", q)
<1>1. quote[q] # None /\ Open(q) /\ quote[q].status = "DRAFT"
  BY DEF DiscardDraftQuotation, MayQuote, QuotationRules, Rule, Open
<1>2. y \in Quotations /\ y.po = p /\ y.lines = quote[q].lines /\ y.status = "REJECTED"
  BY <1>1, AppliedQuoteIs DEF EnquiryOK, QuotationRules, Rule
<1>3. QuoteMoves(q, y) /\ UNCHANGED po
  BY DEF DiscardDraftQuotation, QuoteMoves
<1> HIDE DEF y
<1> QED BY <1>1, <1>2, <1>3, CloseStep

(* A purchase order that is quoted: its pointer and status, nothing else.   *)
LEMMA QuotedPoIs ==
  ASSUME EnquiryOK, NEW p \in Enquiries, NEW q \in Quotes, po[p] # None
  PROVE  LET x == [AppliedPo("quote", p) EXCEPT !.quote = q] IN
           /\ x \in PurchaseOrders /\ x.lines = po[p].lines /\ x.status = "QUOTED"
           /\ x.quote = q /\ x.approved = po[p].approved
<1>1. /\ AppliedPo("quote", p) \in PurchaseOrders /\ AppliedPo("quote", p).lines = po[p].lines
      /\ AppliedPo("quote", p).status = "QUOTED" /\ AppliedPo("quote", p).approved = po[p].approved
  BY AppliedPoIs DEF EnquiryOK, PORules, Rule
<1> QED BY <1>1 DEF PurchaseOrders

LEMMA IssueDraftStep ==
  ASSUME EnquiryOK, NEW q \in Quotes, NEW p \in Enquiries, p = quote[q].po, IssueDraftQuotation(q)
  PROVE  StepOK(p)
<1> DEFINE x == [AppliedPo("quote", p) EXCEPT !.quote = q]
           y == AppliedQuote("issue", q)
<1>1. quote[q] # None /\ po[p] # None /\ MayPo("quote", p) /\ quote[q].lines = po[p].lines
  BY DEF IssueDraftQuotation, MayQuote, MayPo, EnquiryOK, QuoteOK
<1>2. y \in Quotations /\ y.po = p /\ y.lines = po[p].lines /\ y.status = "QUOTED"
  BY <1>1, AppliedQuoteIs DEF EnquiryOK, QuotationRules, Rule
<1>3. /\ x \in PurchaseOrders /\ x.lines = po[p].lines /\ x.status = "QUOTED"
      /\ x.quote = q /\ x.approved = po[p].approved
  BY <1>1, QuotedPoIs
<1>4. quote' = [Superseded(p) EXCEPT ![q] = y] /\ UNCHANGED lapsed /\ po' = [po EXCEPT ![p] = x]
  BY DEF IssueDraftQuotation
<1> HIDE DEF x, y
<1> QED BY <1>1, <1>2, <1>3, <1>4, IssueStep

LEMMA IssueQuotationStep ==
  ASSUME EnquiryOK, NEW w \in Workers, NEW issue \in BOOLEAN, NEW p \in Enquiries, p = work[w].po,
         IssueQuotation(w, issue)
  PROVE  StepOK(p) \/ UNCHANGED <<po, quote, lapsed>>
<1>1. /\ po[p] # None /\ po[p].status # "DRAFT" /\ po[p].lines = work[w].lines
      /\ work[w].lines \in Asks /\ work[w].version \in Nat
  BY DEF IssueQuotation, Doing, EnquiryOK, EnquiryTypeOK, Errands, WorkOK
<1>2. \A status \in {"DRAFT", "QUOTED"} :
        LET y == NewQuotation(w, status) IN
          y \in Quotations /\ y.po = p /\ y.lines = po[p].lines /\ y.status = status
  BY <1>1 DEF NewQuotation, Quotations, QuotationStatuses
<1>3. ASSUME NEW q \in Quotes, quote[q] = None, issue, MayPo("quote", p), UNCHANGED lapsed,
             quote' = [Superseded(p) EXCEPT ![q] = NewQuotation(w, "QUOTED")],
             po' = [po EXCEPT ![p] = [AppliedPo("quote", p) EXCEPT !.quote = q]]
      PROVE  StepOK(p)
  <2> DEFINE x == [AppliedPo("quote", p) EXCEPT !.quote = q]
             y == NewQuotation(w, "QUOTED")
  <2>1. y \in Quotations /\ y.po = p /\ y.lines = po[p].lines /\ y.status = "QUOTED"
    BY <1>2
  <2>2. /\ x \in PurchaseOrders /\ x.lines = po[p].lines /\ x.status = "QUOTED"
        /\ x.quote = q /\ x.approved = po[p].approved
    BY <1>1, QuotedPoIs
  <2>3. quote' = [Superseded(p) EXCEPT ![q] = y] /\ po' = [po EXCEPT ![p] = x]
    BY <1>3
  <2> HIDE DEF x, y
  <2> QED BY <1>3, <2>1, <2>2, <2>3, IssueStep
<1>4. ASSUME NEW q \in Quotes, quote[q] = None, UNCHANGED <<po, lapsed>>,
             quote' = [quote EXCEPT ![q] = NewQuotation(w, "DRAFT")]
      PROVE  StepOK(p)
  <2> DEFINE y == NewQuotation(w, "DRAFT")
  <2>1. y \in Quotations /\ y.po = p /\ y.lines = po[p].lines /\ y.status = "DRAFT"
    BY <1>2
  <2>2. QuoteMoves(q, y)
    BY <1>4 DEF QuoteMoves
  <2> HIDE DEF y
  <2> QED BY <1>1, <1>4, <2>1, <2>2, DraftStep
<1> QED BY <1>3, <1>4 DEF IssueQuotation

(* Conversion writes both, and both have long been settled.                 *)
LEMMA ConvertStep ==
  ASSUME EnquiryOK, NEW p \in Enquiries, ConvertEnquiry(p), UNCHANGED lapsed
  PROVE  StepOK(p)
<1> DEFINE x == AppliedPo("convert", p)
<1>1. po[p] # None /\ po[p].status = "APPROVED" /\ PoOK(p)
  BY DEF ConvertEnquiry, MayPo, PORules, Rule, EnquiryOK
<1>2. x \in PurchaseOrders /\ x.lines = po[p].lines /\ x.status = "CONVERTED" /\ x.approved = po[p].approved
  BY <1>1, AppliedPoIs DEF EnquiryOK, PORules, Rule
<1>3. po' = [po EXCEPT ![p] = x]
  BY DEF ConvertEnquiry
<1> HIDE DEF x
<1>4. /\ po'[p] = x /\ po'[p] # None
      /\ \A r \in Enquiries : r # p => po'[r] = po[r]
      /\ po' \in [Enquiries -> PurchaseOrders \union {None}]
  BY <1>2, <1>3, NoneIsNo DEF EnquiryOK, EnquiryTypeOK
<1>5. po[p].approved # None /\ po[p].approved.quote # None => po[p].approved.quote \in Quotes
  BY <1>1 DEF EnquiryOK, EnquiryTypeOK, PurchaseOrders, Agreements
<1>6. \A q \in Quotes : quote[q] # None /\ quote[q].po = p => ~Live(q)
  BY <1>1 DEF EnquiryOK, QuoteOK, Live, Ended
<1>7. CASE po[p].approved.quote = None
  <2>1. quote' = quote
    BY <1>7 DEF ConvertEnquiry
  <2>2. PoOK(p)'
    BY <1>1, <1>2, <1>4, <2>1 DEF PoOK, Accepted
  <2>3. \A q \in Quotes : quote'[q] # None /\ quote'[q].po = p => QuoteOK(q)' /\ QuoteKept(q)
    BY <1>1, <1>2, <1>4, <1>6, <2>1 DEF EnquiryOK, QuoteOK, QuoteKept, Live
  <2>4. PoKept(p) /\ Within(p)
    BY <1>1, <1>2, <1>4, <2>1 DEF PoKept, Ended, Within
  <2> QED BY <1>4, <2>1, <2>2, <2>3, <2>4 DEF StepOK, EnquiryOK, EnquiryTypeOK
<1>8. CASE po[p].approved.quote # None
  <2> DEFINE y == AppliedQuote("convert", po[p].approved.quote)
  <2>1. PICK q \in Quotes : q = po[p].approved.quote
    BY <1>1, <1>5, <1>8 DEF PoOK
  <2>2. quote' = [quote EXCEPT ![q] = y]
    BY <1>8, <2>1 DEF ConvertEnquiry
  <2>3. Accepted(p, q)
    BY <1>1, <1>8, <2>1 DEF PoOK
  <2>4. y \in Quotations /\ y.po = p /\ y.lines = quote[q].lines /\ y.status = "CONVERTED"
    BY <2>1, <2>3, AppliedQuoteIs DEF Accepted, EnquiryOK, QuotationRules, Rule
  <2> HIDE DEF y
  <2>5. /\ quote'[q] = y /\ quote'[q] # None
        /\ \A r \in Quotes : r # q => quote'[r] = quote[r]
        /\ quote' \in [Quotes -> Quotations \union {None}]
    BY <2>2, <2>4, NoneIsNo DEF EnquiryOK, EnquiryTypeOK
  <2>6. PoOK(p)'
    BY <1>1, <1>2, <1>4, <2>1, <2>3, <2>4, <2>5 DEF PoOK, Accepted
  <2>7. \A r \in Quotes : quote'[r] # None /\ quote'[r].po = p => QuoteOK(r)' /\ QuoteKept(r)
    BY <1>1, <1>2, <1>4, <1>6, <2>3, <2>4, <2>5 DEF EnquiryOK, QuoteOK, QuoteKept, Live, Accepted
  <2>8. PoKept(p) /\ Within(p)
    BY <1>1, <1>2, <1>4, <2>3, <2>4, <2>5 DEF PoKept, Ended, Within, Accepted
  <2> QED BY <1>4, <2>5, <2>6, <2>7, <2>8 DEF StepOK, EnquiryOK, EnquiryTypeOK
<1> QED BY <1>7, <1>8

-----------------------------------------------------------------------------
(* The steps together.                                                      *)

LEMMA CustomerFine == EnquiryOK /\ CustomerActs => Fine
<1> SUFFICES ASSUME EnquiryOK, CustomerActs PROVE Fine
  OBVIOUS
<1>1. ASSUME NEW p \in Enquiries, NEW a \in Asks, NEW submit \in BOOLEAN,
             UpdateDraft(p, a) \/ CreatePurchaseOrder(p, a, submit)
      PROVE  Fine
  <2>1. UNCHANGED work
    BY <1>1 DEF UpdateDraft, CreatePurchaseOrder
  <2> QED BY <1>1, <2>1, CreateStep, WorkEnds DEF Fine, StepOKSomewhere
<1>2. ASSUME NEW w \in Workers, Submit(w)
      PROVE  Fine
  <2>1. PICK p \in Enquiries : p = work[w].po
    BY <1>2 DEF Submit, Doing, EnquiryOK, WorkOK
  <2>2. WorkMoves
    BY <1>2, WorkEnds DEF Submit
  <2>3. CASE MayPo("submit", p)
    BY <1>2, <2>1, <2>2, <2>3, SubmitStep DEF Fine, StepOKSomewhere
  <2>4. CASE ~MayPo("submit", p)
    BY <1>2, <2>1, <2>2, <2>4, LapsedIsTyped DEF Submit, Fine
  <2> QED BY <2>3, <2>4
<1>3. ASSUME NEW w \in Workers, AcceptQuotation(w)
      PROVE  Fine
  <2>1. PICK p \in Enquiries, q \in Quotes : p = work[w].po /\ q = work[w].quote
    BY <1>3 DEF AcceptQuotation, Doing, EnquiryOK, WorkOK
  <2>2. WorkMoves
    BY <1>3, WorkEnds DEF AcceptQuotation
  <2>3. CASE MayQuote("accept", q) /\ MayPo("accept", p)
    BY <1>3, <2>1, <2>2, <2>3, AcceptStep DEF Fine, StepOKSomewhere
  <2>4. CASE ~(MayQuote("accept", q) /\ MayPo("accept", p))
    BY <1>3, <2>1, <2>2, <2>4, LapsedIsTyped DEF AcceptQuotation, Fine
  <2> QED BY <2>3, <2>4
<1>4. ASSUME NEW w \in Workers, CounterQuotation(w)
      PROVE  Fine
  <2>1. PICK p \in Enquiries, q \in Quotes : p = work[w].po /\ q = work[w].quote
    BY <1>4 DEF CounterQuotation, Doing, EnquiryOK, WorkOK
  <2>2. WorkMoves
    BY <1>4, WorkEnds DEF CounterQuotation
  <2>3. CASE MayQuote("counter", q) /\ MayPo("counter", p)
    BY <1>4, <2>1, <2>2, <2>3, CounterStep DEF Fine, StepOKSomewhere
  <2>4. CASE ~(MayQuote("counter", q) /\ MayPo("counter", p))
    BY <1>4, <2>1, <2>2, <2>4, LapsedIsTyped DEF CounterQuotation, Fine
  <2> QED BY <2>3, <2>4
<1>5. ASSUME NEW q \in Quotes, DeclineQuotation(q)
      PROVE  Fine
  <2>1. PICK p \in Enquiries : p = quote[q].po
    BY <1>5 DEF DeclineQuotation, MayQuote, EnquiryOK, EnquiryTypeOK, Quotations
  <2>2. WorkMoves
    BY <1>5, WorkEnds DEF DeclineQuotation
  <2> QED BY <1>5, <2>1, <2>2, DeclineStep DEF Fine, StepOKSomewhere
<1>6. ASSUME NEW w \in Workers, NEW p \in Enquiries, ReadDraft(w, p) \/ EndPurchaseOrder(w, p, "cancel")
      PROVE  Fine
  BY <1>6, ReadDraftFine, EndFine
<1>7. ASSUME NEW w \in Workers, NEW q \in Quotes, NEW job \in {"accept", "counter"}, ReadQuotation(w, q, job)
      PROVE  Fine
  BY <1>7, ReadQuotationFine
<1> QED BY <1>1, <1>2, <1>3, <1>4, <1>5, <1>6, <1>7 DEF CustomerActs

LEMMA SellerFine == EnquiryOK /\ SellerActs => Fine
<1> SUFFICES ASSUME EnquiryOK, SellerActs PROVE Fine
  OBVIOUS
<1>1. ASSUME NEW p \in Enquiries, StartReview(p)
      PROVE  Fine
  <2>1. WorkMoves
    BY <1>1, WorkEnds DEF StartReview
  <2> QED BY <1>1, <2>1, StartReviewStep DEF Fine, StepOKSomewhere
<1>2. ASSUME NEW w \in Workers, NEW p \in Enquiries, EndPurchaseOrder(w, p, "reject")
      PROVE  Fine
  BY <1>2, EndFine
<1>3. ASSUME NEW w \in Workers, NEW p \in Enquiries, NEW job \in {"approve", "quote"}, ReadPurchaseOrder(w, p, job)
      PROVE  Fine
  BY <1>3, ReadPurchaseOrderFine
<1>4. ASSUME NEW w \in Workers, ApprovePurchaseOrder(w)
      PROVE  Fine
  <2>1. PICK p \in Enquiries : p = work[w].po
    BY <1>4 DEF ApprovePurchaseOrder, Doing, EnquiryOK, WorkOK
  <2>2. WorkMoves
    BY <1>4, WorkEnds DEF ApprovePurchaseOrder
  <2>3. CASE MayPo("approve", p)
    BY <1>4, <2>1, <2>2, <2>3, ApproveStep DEF Fine, StepOKSomewhere
  <2>4. CASE ~MayPo("approve", p)
    BY <1>4, <2>1, <2>2, <2>4, LapsedIsTyped DEF ApprovePurchaseOrder, Fine
  <2> QED BY <2>3, <2>4
<1>5. ASSUME NEW w \in Workers, NEW issue \in BOOLEAN, IssueQuotation(w, issue)
      PROVE  Fine
  <2>1. PICK p \in Enquiries : p = work[w].po
    BY <1>5 DEF IssueQuotation, Doing, EnquiryOK, WorkOK
  <2>2. WorkMoves
    BY <1>5, WorkEnds DEF IssueQuotation
  <2>3. StepOK(p) \/ UNCHANGED <<po, quote, lapsed>>
    BY <1>5, <2>1, IssueQuotationStep
  <2> QED BY <2>2, <2>3, LapsedIsTyped DEF Fine, StepOKSomewhere
<1>6. ASSUME NEW q \in Quotes, IssueDraftQuotation(q) \/ DiscardDraftQuotation(q)
      PROVE  Fine
  <2>1. PICK p \in Enquiries : p = quote[q].po
    BY <1>6 DEF IssueDraftQuotation, DiscardDraftQuotation, MayQuote, EnquiryOK, EnquiryTypeOK, Quotations
  <2>2. UNCHANGED work
    BY <1>6 DEF IssueDraftQuotation, DiscardDraftQuotation
  <2> QED BY <1>6, <2>1, <2>2, IssueDraftStep, DiscardStep, WorkEnds DEF Fine, StepOKSomewhere
<1> QED BY <1>1, <1>2, <1>3, <1>4, <1>5, <1>6 DEF SellerActs

LEMMA SystemFine == EnquiryOK /\ SystemActs => Fine
<1> SUFFICES ASSUME EnquiryOK, SystemActs PROVE Fine
  OBVIOUS
<1>1. ASSUME NEW w \in Workers, Crash(w)
      PROVE  Fine
  BY <1>1, WorkEnds, LapsedIsTyped DEF Crash, Fine
<1>2. ASSUME NEW q \in Quotes, Lapse(q)
      PROVE  Fine
  <2>1. lapsed' \subseteq Quotes
    BY <1>2 DEF Lapse, EnquiryOK, EnquiryTypeOK
  <2> QED BY <1>2, <2>1, WorkEnds DEF Lapse, Fine, DocumentsKept
<1>3. ASSUME NEW q \in Quotes, ExpireStale(q)
      PROVE  Fine
  <2>1. PICK p \in Enquiries : p = quote[q].po
    BY <1>3 DEF ExpireStale, MayQuote, EnquiryOK, EnquiryTypeOK, Quotations
  <2>2. WorkMoves
    BY <1>3, WorkEnds DEF ExpireStale
  <2> QED BY <1>3, <2>1, <2>2, ExpireStep DEF Fine, StepOKSomewhere
<1> QED BY <1>1, <1>2, <1>3, ListFine, CloseFine DEF SystemActs

LEMMA EnquiryStepKeepsOK == EnquiryOK /\ EnquiryStep => EnquiryOK'
<1> SUFFICES ASSUME EnquiryOK, EnquiryStep PROVE Fine
  BY FineKeepsOK
<1>1. CASE EnquiryNext
  BY <1>1, CustomerFine, SellerFine, SystemFine DEF EnquiryNext
<1>2. CASE (\E p \in Enquiries : ConvertEnquiry(p)) /\ UNCHANGED <<lapsed, work>>
  BY <1>2, ConvertStep, WorkEnds DEF Fine, StepOKSomewhere
<1>3. CASE UNCHANGED enquiryVars
  BY <1>3, WorkEnds, LapsedIsTyped DEF enquiryVars, Fine
<1> QED BY <1>1, <1>2, <1>3 DEF EnquiryStep

LEMMA InitOK == EnquiryInit => EnquiryOK
<1> SUFFICES ASSUME EnquiryInit PROVE EnquiryOK
  OBVIOUS
<1>1. Idle \in Errands
  BY DEF Idle, Errands, Jobs
<1>2. EnquiryTypeOK
  BY <1>1 DEF EnquiryInit, EnquiryTypeOK
<1>3. ASSUME NEW w \in Workers
      PROVE  WorkOK(w)
  BY DEF EnquiryInit, WorkOK, Idle
<1> QED BY <1>2, <1>3 DEF EnquiryInit, EnquiryOK, QuoteOK, PoOK

(* However many orders, quotations and workers there are, and whatever they *)
(* read before they write: a quotation the customer can answer is the one   *)
(* its purchase order points at, and what is agreed is what was asked for.  *)
THEOREM EnquiriesAgree == EnquirySpec => [](OneNegotiation /\ AgreedAsAsked)
<1>1. EnquiryOK /\ [EnquiryNext]_enquiryVars => EnquiryOK'
  BY EnquiryStepKeepsOK DEF EnquiryStep
<1> QED BY <1>1, InitOK, OKImplies, PTL DEF EnquirySpec

-----------------------------------------------------------------------------
(* The enquiries beside sales orders and payments.                          *)

(* Of what sells to and is paid by the customer, only a conversion writes   *)
(* the enquiry, and it is the conversion the enquiries know of.             *)
LEMMA CommitmentSteps ==
  ASSUME Commitment, UNCHANGED <<lapsed, work>>
  PROVE  EnquiryStep
<1>1. ASSUME UNCHANGED <<po, quote>>
      PROVE  EnquiryStep
  BY <1>1 DEF EnquiryStep, enquiryVars
<1>2. ASSUME NEW w \in Clerks, NEW p \in Enquiries, CommitOrder(w, p)
      PROVE  EnquiryStep
  BY <1>1, <1>2 DEF CommitOrder, EnquiryStep
<1> QED BY <1>1, <1>2 DEF Commitment, StartConvert, StartApproveCredit, CheckCredit, CommitApproval

LEMMA FulfilmentSteps ==
  ASSUME Fulfilment \/ Cancelling, UNCHANGED <<lapsed, work>>
  PROVE  EnquiryStep
<1>1. UNCHANGED <<po, quote>>
  BY ZenonT(40) DEF Fulfilment, Cancelling, StartAllocate, StartWithdraw, StartInvoice, PickPieces, HoldPieces, Withdraw,
         FreePieces, SellPieces, ClerkDies
<1> QED BY <1>1 DEF EnquiryStep, enquiryVars

LEMMA WholesaleSteps == [Next]_vars => EnquiryStep
<1> SUFFICES ASSUME [Next]_vars PROVE EnquiryStep
  OBVIOUS
<1>1. CASE EnquiryNext \/ UNCHANGED enquiryVars
  BY <1>1 DEF EnquiryStep
<1>2. UNCHANGED vars => UNCHANGED enquiryVars
  BY DEF vars
<1> QED BY <1>1, <1>2, CommitmentSteps, FulfilmentSteps DEF Next

-----------------------------------------------------------------------------
(* The inductive invariant of the sales orders *)

(* A piece is on the shelf, held for an order, or sold to one.             *)
PieceOK(x) ==
  /\ piece[x].status = "RESERVED" <=> piece[x].holder # None
  /\ piece[x].status = "SOLD" <=> piece[x].buyer # None
  /\ piece[x].holder # None => so[piece[x].holder] # None
  /\ piece[x].buyer # None => so[piece[x].buyer] # None

OrderOK(p) == so[p] # None => po[p] # None /\ po[p].status = "CONVERTED" /\ po[p].approved # None

(* What an order nobody muddled counts.  An invoice of more pieces than are *)
(* held leaves none held.                                                  *)
CountsOK(p) ==
  /\ Cardinality(SoldTo(p)) <= so[p].invoiced
  /\ BilledAsSold(p) => so[p].invoiced = Cardinality(SoldTo(p))
  /\ Len(so[p].held) + Cardinality(SoldTo(p)) <= Total(p)
  /\ so[p].held # <<>> => Len(so[p].held) + so[p].invoiced <= Total(p)

(* The pieces held for an order nobody muddled are those it lists and those *)
(* that are on their way back to the shelf, each of them once.             *)
Freeing(w, p) == At(w, "free") /\ desk[w].po = p

NumbersOK(p) ==
  (so[p] # None /\ p \notin muddled) =>
    /\ IsInjective(so[p].held) /\ Range(so[p].held) \subseteq HeldFor(p)
    /\ CountsOK(p)
    /\ \A w \in Clerks : Freeing(w, p) =>
         /\ IsInjective(desk[w].held) /\ Range(desk[w].held) \subseteq HeldFor(p) \ Range(so[p].held)
         /\ \A v \in Clerks \ {w} : Freeing(v, p) => Range(desk[v].held) \intersect Range(desk[w].held) = {}
    /\ \A x \in HeldFor(p) \ Range(so[p].held) : \E w \in Clerks : Freeing(w, p) /\ x \in Range(desk[w].held)

(* What a clerk works from: a copy of the order, as long as nobody wrote   *)
(* the order since, and no more pieces than it still needs.                *)
TaskOK(t) ==
  /\ t.job \notin {"none", "convert", "convert-commit"} => so[t.po] # None
  /\ t.job # "none" => t.po \in Enquiries
  /\ (t.job \in WithCopy /\ ~t.old) => t.held = so[t.po].held /\ t.invoiced = so[t.po].invoiced
  /\ t.job = "hold" => IsInjective(t.picked) /\ Len(t.picked) <= Needed(t)
  /\ t.job = "invoice" => t.n \in Nat \ {0} /\ t.held # <<>>

InvoicesOK == \A i \in DOMAIN invoice : invoice[i].items # {}

SalesOK ==
  /\ SalesTypeOK
  /\ \A x \in Pieces : PieceOK(x)
  /\ \A p \in Enquiries : OrderOK(p) /\ NumbersOK(p)
  /\ \A w \in Clerks : TaskOK(desk[w])
  /\ InvoicesOK /\ SoldOnOneInvoice

(* The inductive invariant of the money *)

PaymentIs(y, status) == payment[y] # None /\ payment[y].status = status

(* A payment pays once it is verified, no more than it is, and its journal *)
(* entries add up to what it pays until it is reversed.                    *)
PaymentOK(y) ==
  /\ PaymentIs(y, "VERIFIED") => payment[y].verifiedBy # payment[y].by /\ SumOf(applied[y]) <= payment[y].amount
  /\ ~PaymentIs(y, "VERIFIED") => \A i \in Invoices : applied[y][i] = 0
  /\ ~PaymentIs(y, "REVERSED") => SumOf(posted[y]) = SumOf(applied[y])

PaidOK(i) == Paid(i) <= IF i \in DOMAIN invoice THEN InvoiceTotal(i) ELSE 0

(* What a transaction has seen of the balances is still so when it commits.*)
TillOK(t) ==
  /\ t.job \in {"apply", "apply-commit"} => t.payment \in Payments
  /\ t.job = "apply-commit" => Covered(t.payment, t.shares)
  /\ t.job = "cancel-note" => t.note \in Notes /\ credited[t.note] # None

MoneyOK ==
  /\ payment \in [Payments -> PaymentDocs \union {None}]
  /\ posted \in [Payments -> Seq(Nat \ {0})]
  /\ till \in [Cashiers -> Duties]
  /\ \A y \in Payments : PaymentOK(y)
  /\ \A i \in Invoices : PaidOK(i)
  /\ \A k \in Cashiers : TillOK(till[k])
  /\ JournalMatchesDocuments

IInv == EnquiryOK /\ SalesOK /\ MoneyOK

(* The inductive invariant of the credit checks *)

AgreedStatuses == {"APPROVED", "CONVERTED", "CANCELLED"}

(* A live order is not invoiced beyond its lines, whatever copies its       *)
(* handlers worked from: one that would be is FULFILLED.                   *)
PromiseOK(p) == so[p] # None /\ so[p].status \notin {"FULFILLED", "CANCELLED"} => so[p].invoiced <= Total(p)

TermsOK(t) ==
  t.job \in {"convert", "convert-commit"} =>
    po[t.po] # None /\ po[t.po].status \in AgreedStatuses /\ po[t.po].approved # None

(* What a credit check has allowed is still within the limit.              *)
CreditOK(t) == (t.job \in Checked /\ ~t.old /\ ~t.over) => Exposure + Total(t.po) <= Limit

CreditInv ==
  /\ IInv
  /\ \A p \in Enquiries : PromiseOK(p)
  /\ \A w \in Clerks : TermsOK(desk[w]) /\ CreditOK(desk[w])

-----------------------------------------------------------------------------
(* What the enquiries leave alone *)

LEMMA OnlyEndsAgreed ==
  /\ \A a \in DOMAIN PORules \ {"convert", "cancel"} : PORules[a].from \intersect AgreedStatuses = {}
  /\ \A a \in {"convert", "cancel"} : PORules[a].to \in AgreedStatuses /\ "CONVERTED" \notin PORules[a].from
BY DEF PORules, Rule, AgreedStatuses

(* No handler changes the terms of an approved purchase order, nor writes   *)
(* one that became a sales order.                                          *)
TermsStay ==
  \A p \in Enquiries : (po[p] # None /\ po[p].status \in AgreedStatuses) =>
    /\ po'[p] # None /\ po'[p].status \in AgreedStatuses /\ po'[p].approved = po[p].approved
    /\ po[p].status = "CONVERTED" => po'[p] = po[p]

ConvertedStays == \A p \in Enquiries : (po[p] # None /\ po[p].status = "CONVERTED") => po'[p] = po[p]

LEMMA OtherPoWritten ==
  ASSUME NEW p, \A q \in Enquiries : q # p => po'[q] = po[q], po[p] = None \/ po[p].status \notin AgreedStatuses
  PROVE  TermsStay
BY DEF TermsStay

LEMMA ActionWritten ==
  ASSUME NEW p, NEW a \in DOMAIN PORules \ {"convert", "cancel"}, MayPo(a, p), \A q \in Enquiries : q # p => po'[q] = po[q]
  PROVE  TermsStay
<1>1. po[p] # None /\ po[p].status \notin AgreedStatuses
  BY OnlyEndsAgreed DEF MayPo
<1> QED BY <1>1, OtherPoWritten

LEMMA EndingWritten ==
  ASSUME EnquiryTypeOK, NEW p \in Enquiries, NEW a \in {"convert", "cancel"}, MayPo(a, p), po' = [po EXCEPT ![p] = AppliedPo(a, p)]
  PROVE  TermsStay
<1>1. po[p] # None /\ po[p].status # "CONVERTED" /\ a \in DOMAIN PORules
  BY OnlyEndsAgreed DEF MayPo, PORules
<1>2. po'[p] = AppliedPo(a, p) /\ \A q \in Enquiries : q # p => po'[q] = po[q]
  BY DEF EnquiryTypeOK
<1>3. po'[p] # None /\ po'[p].approved = po[p].approved /\ po'[p].status \in AgreedStatuses
  BY <1>1, <1>2, AppliedPoIs, NoneIsNo, OnlyEndsAgreed
<1> QED BY <1>1, <1>2, <1>3 DEF TermsStay

LEMMA PoActions ==
  {"submit", "startReview", "quote", "counter", "approve", "accept", "reject", "decline", "expire"}
    \subseteq DOMAIN PORules \ {"convert", "cancel"}
BY DEF PORules

LEMMA CustomerKeepsTerms == EnquiryTypeOK /\ CustomerActs => TermsStay
<1> SUFFICES ASSUME EnquiryTypeOK, CustomerActs PROVE TermsStay
  OBVIOUS
<1> USE DEF EnquiryTypeOK
<1>0. UNCHANGED po => TermsStay
  BY DEF TermsStay
<1>1. ASSUME NEW p \in Enquiries, NEW a \in Asks, UpdateDraft(p, a) \/ \E submit \in BOOLEAN : CreatePurchaseOrder(p, a, submit)
      PROVE  TermsStay
  BY <1>1, OtherPoWritten DEF AgreedStatuses, UpdateDraft, CreatePurchaseOrder
<1>2. ASSUME NEW w \in Workers, NEW p \in Enquiries, ReadDraft(w, p) \/ EndPurchaseOrder(w, p, "cancel")
      PROVE  TermsStay
  BY <1>0, <1>2, EndingWritten DEF ReadDraft, EndPurchaseOrder
<1>3. ASSUME NEW w \in Workers, NEW q \in Quotes, NEW job \in {"accept", "counter"}, ReadQuotation(w, q, job)
      PROVE  TermsStay
  BY <1>0, <1>3 DEF ReadQuotation
<1>4. ASSUME NEW w \in Workers, Submit(w)
      PROVE  TermsStay
  BY <1>0, <1>4, PoActions, ActionWritten DEF Submit
<1>5. ASSUME NEW w \in Workers, AcceptQuotation(w)
      PROVE  TermsStay
  BY <1>0, <1>5, PoActions, ActionWritten DEF AcceptQuotation
<1>6. ASSUME NEW w \in Workers, CounterQuotation(w)
      PROVE  TermsStay
  BY <1>0, <1>6, PoActions, ActionWritten DEF CounterQuotation
<1>7. ASSUME NEW q \in Quotes, DeclineQuotation(q)
      PROVE  TermsStay
  BY <1>7, PoActions, ActionWritten DEF DeclineQuotation
<1> QED BY <1>1, <1>2, <1>3, <1>4, <1>5, <1>6, <1>7 DEF CustomerActs

LEMMA SellerKeepsTerms == EnquiryTypeOK /\ SellerActs => TermsStay
<1> SUFFICES ASSUME EnquiryTypeOK, SellerActs PROVE TermsStay
  OBVIOUS
<1> USE DEF EnquiryTypeOK
<1>0. UNCHANGED po => TermsStay
  BY DEF TermsStay
<1>1. ASSUME NEW p \in Enquiries, StartReview(p)
      PROVE  TermsStay
  BY <1>1, PoActions, ActionWritten DEF StartReview
<1>2. ASSUME NEW w \in Workers, NEW p \in Enquiries, EndPurchaseOrder(w, p, "reject")
      PROVE  TermsStay
  BY <1>2, PoActions, ActionWritten DEF EndPurchaseOrder
<1>3. ASSUME NEW w \in Workers, NEW p \in Enquiries, NEW job, ReadPurchaseOrder(w, p, job)
      PROVE  TermsStay
  BY <1>0, <1>3 DEF ReadPurchaseOrder
<1>4. ASSUME NEW w \in Workers, ApprovePurchaseOrder(w)
      PROVE  TermsStay
  BY <1>0, <1>4, PoActions, ActionWritten DEF ApprovePurchaseOrder
<1>5. ASSUME NEW w \in Workers, NEW issue \in BOOLEAN, IssueQuotation(w, issue)
      PROVE  TermsStay
  <2>1. CASE UNCHANGED po
    BY <1>0, <2>1
  <2>2. CASE ~UNCHANGED po
    <3>1. MayPo("quote", work[w].po) /\ \E q : po' = [po EXCEPT ![work[w].po] = [AppliedPo("quote", work[w].po) EXCEPT !.quote = q]]
      BY <1>5, <2>2 DEF IssueQuotation
    <3> QED BY <3>1, PoActions, ActionWritten
  <2> QED BY <2>1, <2>2
<1>6. ASSUME NEW q \in Quotes, IssueDraftQuotation(q) \/ DiscardDraftQuotation(q)
      PROVE  TermsStay
  BY <1>0, <1>6, PoActions, ActionWritten DEF IssueDraftQuotation, DiscardDraftQuotation
<1> QED BY <1>1, <1>2, <1>3, <1>4, <1>5, <1>6 DEF SellerActs

LEMMA SystemKeepsTerms == EnquiryTypeOK /\ SystemActs => TermsStay
<1> SUFFICES ASSUME EnquiryTypeOK, SystemActs PROVE TermsStay
  OBVIOUS
<1> USE DEF EnquiryTypeOK
<1>0. UNCHANGED po => TermsStay
  BY DEF TermsStay
<1>1. ASSUME NEW w \in Workers, ListOpenQuotations(w) \/ CloseQuotation(w) \/ Crash(w)
      PROVE  TermsStay
  BY <1>0, <1>1 DEF ListOpenQuotations, CloseQuotation, Crash
<1>2. ASSUME NEW q \in Quotes, Lapse(q)
      PROVE  TermsStay
  BY <1>0, <1>2 DEF Lapse
<1>3. ASSUME NEW q \in Quotes, ExpireStale(q)
      PROVE  TermsStay
  BY <1>0, <1>3, PoActions, ActionWritten DEF ExpireStale
<1> QED BY <1>1, <1>2, <1>3 DEF SystemActs

LEMMA StepKeepsTerms == EnquiryTypeOK /\ EnquiryStep => TermsStay
<1> SUFFICES ASSUME EnquiryTypeOK, EnquiryStep PROVE TermsStay
  OBVIOUS
<1>1. ASSUME NEW p \in Enquiries, ConvertEnquiry(p)
      PROVE  TermsStay
  BY <1>1, EndingWritten DEF ConvertEnquiry
<1>2. UNCHANGED enquiryVars => TermsStay
  BY DEF TermsStay, enquiryVars
<1> QED BY <1>1, <1>2, CustomerKeepsTerms, SellerKeepsTerms, SystemKeepsTerms DEF EnquiryStep, EnquiryNext

LEMMA StepLeavesConverted == EnquiryTypeOK /\ EnquiryStep => ConvertedStays
BY StepKeepsTerms DEF TermsStay, ConvertedStays, AgreedStatuses

-----------------------------------------------------------------------------
(* Lists of pieces *)

LEMMA ListMembers ==
  ASSUME NEW S, NEW s \in Seq(S)
  PROVE  /\ Len(s) \in Nat /\ DOMAIN s = 1..Len(s) /\ Range(s) \subseteq S
         /\ \A i \in 1..Len(s) : s[i] \in Range(s)
         /\ \A x \in Range(s) : \E i \in 1..Len(s) : s[i] = x
         /\ IsInjective(s) <=> \A i, j \in 1..Len(s) : s[i] = s[j] => i = j
<1>1. Len(s) \in Nat /\ DOMAIN s = 1..Len(s)
  BY LenProperties
<1>2. Range(s) \subseteq S
  BY RangeOfSeq
<1>3. Range(s) = {s[i] : i \in 1..Len(s)}
  BY RangeEquality
<1>4. IsInjective(s) <=> \A i, j \in 1..Len(s) : s[i] = s[j] => i = j
  BY <1>1 DEF IsInjective
<1> QED BY <1>1, <1>2, <1>3, <1>4

(* A list without repetition has as many members as entries.               *)
LEMMA ListCounts ==
  ASSUME NEW S, NEW s \in Seq(S), IsInjective(s)
  PROVE  IsFiniteSet(Range(s)) /\ Cardinality(Range(s)) = Len(s)
<1>1. PICK D : D = 1..Len(s)
  OBVIOUS
<1>2. PICK R : R = Range(s)
  OBVIOUS
<1>3. Len(s) \in Nat
  BY ListMembers
<1>4. IsFiniteSet(D) /\ Cardinality(D) = Len(s)
  BY <1>1, <1>3, FS_Interval
<1>5. s \in [D -> R]
  <2>1. s \in [1..Len(s) -> S]
    BY LenProperties
  <2>2. \A i \in 1..Len(s) : s[i] \in Range(s)
    BY ListMembers
  <2> QED BY <1>1, <1>2, <2>1, <2>2
<1>6. \A x \in R : \E i \in D : s[i] = x
  BY <1>1, <1>2, ListMembers
<1>7. s \in Bijection(D, R)
  BY <1>5, <1>6 DEF Bijection, Injection, Surjection, IsInjective
<1>8. ExistsBijection(D, R)
  BY <1>7 DEF ExistsBijection
<1>9. IsFiniteSet(R) /\ Cardinality(R) = Cardinality(D)
  BY <1>4, <1>8, FS_Bijection
<1> QED BY <1>2, <1>4, <1>9

(* Two lists joined.                                                       *)
LEMMA ListsJoin ==
  ASSUME NEW S, NEW s \in Seq(S), NEW t \in Seq(S)
  PROVE  /\ s \o t \in Seq(S) /\ Len(s \o t) = Len(s) + Len(t) /\ Range(s \o t) = Range(s) \union Range(t)
         /\ IsInjective(s) /\ IsInjective(t) /\ Range(s) \intersect Range(t) = {} => IsInjective(s \o t)
<1>1. PICK u : u = s \o t
  OBVIOUS
<1>2. /\ u \in Seq(S) /\ Len(u) = Len(s) + Len(t)
      /\ \A i \in 1..Len(s) + Len(t) : u[i] = IF i <= Len(s) THEN s[i] ELSE t[i - Len(s)]
  BY <1>1, ConcatProperties
<1>3. Range(u) = Range(s) \union Range(t)
  BY <1>1, RangeConcatenation
<1>4. ASSUME IsInjective(s), IsInjective(t), Range(s) \intersect Range(t) = {}
      PROVE  IsInjective(u)
  <2>1. Len(s) \in Nat /\ Len(t) \in Nat
    BY ListMembers
  <2>2. ASSUME NEW i \in 1..Len(u), NEW j \in 1..Len(u), u[i] = u[j]
        PROVE  i = j
    <3>1. CASE i <= Len(s) /\ j <= Len(s)
      <4>1. i \in 1..Len(s) /\ j \in 1..Len(s) /\ s[i] = s[j]
        BY <1>2, <2>1, <2>2, <3>1
      <4> QED BY <1>4, <4>1, ListMembers
    <3>2. CASE i > Len(s) /\ j > Len(s)
      <4>1. i - Len(s) \in 1..Len(t) /\ j - Len(s) \in 1..Len(t) /\ t[i - Len(s)] = t[j - Len(s)]
        BY <1>2, <2>1, <2>2, <3>2
      <4>2. i - Len(s) = j - Len(s)
        BY <1>4, <4>1, ListMembers
      <4> QED BY <2>1, <4>2
    <3>3. CASE i <= Len(s) /\ j > Len(s)
      <4>1. i \in 1..Len(s) /\ j - Len(s) \in 1..Len(t) /\ s[i] = t[j - Len(s)]
        BY <1>2, <2>1, <2>2, <3>3
      <4> QED BY <1>4, <4>1, ListMembers
    <3>4. CASE i > Len(s) /\ j <= Len(s)
      <4>1. j \in 1..Len(s) /\ i - Len(s) \in 1..Len(t) /\ s[j] = t[i - Len(s)]
        BY <1>2, <2>1, <2>2, <3>4
      <4> QED BY <1>4, <4>1, ListMembers
    <3> QED BY <1>2, <2>1, <3>1, <3>2, <3>3, <3>4
  <2> QED BY <1>2, <2>2, ListMembers
<1> QED BY <1>1, <1>2, <1>3, <1>4

(* A list parted after its n-th entry.                                     *)
LEMMA ListParts ==
  ASSUME NEW S, NEW s \in Seq(S), NEW n \in 1..Len(s)
  PROVE  /\ SubSeq(s, 1, n) \in Seq(S) /\ SubSeq(s, n + 1, Len(s)) \in Seq(S)
         /\ Len(SubSeq(s, 1, n)) = n /\ Len(SubSeq(s, n + 1, Len(s))) = Len(s) - n
         /\ Range(s) = Range(SubSeq(s, 1, n)) \union Range(SubSeq(s, n + 1, Len(s)))
         /\ IsInjective(s) => /\ IsInjective(SubSeq(s, 1, n)) /\ IsInjective(SubSeq(s, n + 1, Len(s)))
                              /\ Range(SubSeq(s, 1, n)) \intersect Range(SubSeq(s, n + 1, Len(s))) = {}
<1>1. PICK a : a = SubSeq(s, 1, n)
  OBVIOUS
<1>2. PICK b : b = SubSeq(s, n + 1, Len(s))
  OBVIOUS
<1>3. Len(s) \in Nat /\ n \in Nat /\ n >= 1 /\ n <= Len(s)
  BY ListMembers
<1>4. \A i \in 1..Len(s) : s[i] \in S
  BY ElementOfSeq
<1>5. a \in Seq(S) /\ Len(a) = n /\ \A i \in 1..n : a[i] = s[i]
  <2>1. \A i \in 1..n : s[i] \in S
    BY <1>3, <1>4
  <2>2. /\ a \in Seq(S) /\ Len(a) = IF 1 <= n THEN n - 1 + 1 ELSE 0
        /\ \A i \in 1..n - 1 + 1 : a[i] = s[1 + i - 1]
    BY <1>1, <1>3, <2>1, SubSeqProperties
  <2> QED BY <1>3, <2>2
<1>6. b \in Seq(S) /\ Len(b) = Len(s) - n /\ \A i \in 1..Len(s) - n : b[i] = s[n + i]
  <2>1. \A i \in n + 1..Len(s) : s[i] \in S
    BY <1>3, <1>4
  <2>2. /\ b \in Seq(S) /\ Len(b) = IF n + 1 <= Len(s) THEN Len(s) - (n + 1) + 1 ELSE 0
        /\ \A i \in 1..Len(s) - (n + 1) + 1 : b[i] = s[n + 1 + i - 1]
    BY <1>2, <1>3, <2>1, SubSeqProperties
  <2> QED BY <1>3, <2>2
<1>7. Range(s) = Range(a) \union Range(b)
  <2>1. Range(a) \subseteq Range(s) /\ Range(b) \subseteq Range(s)
    <3>1. ASSUME NEW x \in Range(a) PROVE x \in Range(s)
      BY <1>3, <1>5, ListMembers
    <3>2. ASSUME NEW x \in Range(b) PROVE x \in Range(s)
      <4>1. PICK i \in 1..Len(b) : b[i] = x
        BY <1>6, ListMembers
      <4>2. n + i \in 1..Len(s) /\ s[n + i] = x
        BY <1>3, <1>6, <4>1
      <4> QED BY <4>2, ListMembers
    <3> QED BY <3>1, <3>2
  <2>2. ASSUME NEW x \in Range(s) PROVE x \in Range(a) \union Range(b)
    <3>1. PICK i \in 1..Len(s) : s[i] = x
      BY ListMembers
    <3>2. CASE i <= n
      <4>1. i \in 1..Len(a) /\ a[i] = x
        BY <1>3, <1>5, <3>1, <3>2
      <4> QED BY <1>5, <4>1, ListMembers
    <3>3. CASE i > n
      <4>1. i - n \in 1..Len(b) /\ b[i - n] = x
        BY <1>3, <1>6, <3>1, <3>3
      <4> QED BY <1>6, <4>1, ListMembers
    <3> QED BY <1>3, <3>2, <3>3
  <2> QED BY <2>1, <2>2
<1>8. ASSUME IsInjective(s)
      PROVE  IsInjective(a) /\ IsInjective(b) /\ Range(a) \intersect Range(b) = {}
  <2>0. \A i, j \in 1..Len(s) : s[i] = s[j] => i = j
    BY <1>8, ListMembers
  <2>1. IsInjective(a)
    <3>1. \A i, j \in 1..Len(a) : a[i] = a[j] => i = j
      BY <1>3, <1>5, <2>0
    <3> QED BY <1>5, <3>1, ListMembers
  <2>2. IsInjective(b)
    <3>1. ASSUME NEW i \in 1..Len(b), NEW j \in 1..Len(b), b[i] = b[j]
          PROVE  i = j
      <4>1. n + i \in 1..Len(s) /\ n + j \in 1..Len(s) /\ s[n + i] = s[n + j]
        BY <1>3, <1>6, <3>1
      <4>2. n + i = n + j
        BY <2>0, <4>1
      <4> QED BY <1>3, <4>2
    <3> QED BY <1>6, <3>1, ListMembers
  <2>3. ASSUME NEW x \in Range(a), x \in Range(b)
        PROVE  FALSE
    <3>1. PICK i \in 1..Len(a) : a[i] = x
      BY <1>5, ListMembers
    <3>2. PICK j \in 1..Len(b) : b[j] = x
      BY <1>6, <2>3, ListMembers
    <3>3. i \in 1..Len(s) /\ n + j \in 1..Len(s) /\ s[i] = s[n + j] /\ i <= n /\ n + j > n
      BY <1>3, <1>5, <1>6, <3>1, <3>2
    <3>4. i = n + j
      BY <2>0, <3>3
    <3> QED BY <1>3, <3>3, <3>4
  <2> QED BY <2>1, <2>2, <2>3
<1> QED BY <1>1, <1>2, <1>5, <1>6, <1>7, <1>8

-----------------------------------------------------------------------------
(* What a handler leaves to the others *)

(* A clerk who did not act has at most to start again, and may learn that   *)
(* its copy is out of date.                                                *)
Ages(t, u) ==
  /\ u.po = t.po /\ u.held = t.held /\ u.invoiced = t.invoiced /\ u.picked = t.picked /\ u.n = t.n
  /\ \/ u.job = t.job
     \/ t.job = "convert-commit" /\ u.job = "convert"
     \/ t.job = "confirm-commit" /\ u.job = "confirm"
  /\ t.old => u.old

OrdersStay == \A p \in Enquiries : so[p] # None => so'[p] # None /\ po'[p].approved.lines = po[p].approved.lines

CopyStays(u) ==
  (u.job \in WithCopy /\ ~u.old) => so'[u.po].held = so[u.po].held /\ so'[u.po].invoiced = so[u.po].invoiced

LEMMA TaskAges ==
  ASSUME NEW t, NEW u, TaskOK(t), Ages(t, u), OrdersStay, CopyStays(u)
  PROVE  TaskOK(u)'
<1>1. t.job \notin {"none", "convert", "convert-commit"} => so'[u.po] # None /\ Total(t.po)' = Total(t.po)
  BY DEF TaskOK, Ages, OrdersStay, Total
<1>2. u.job \notin {"none", "convert", "convert-commit"} => so'[u.po] # None
  BY <1>1 DEF Ages
<1>3. u.job # "none" => u.po \in Enquiries
  BY DEF Ages, TaskOK
<1>4. (u.job \in WithCopy /\ ~u.old) => u.held = so'[u.po].held /\ u.invoiced = so'[u.po].invoiced
  BY DEF Ages, TaskOK, CopyStays, WithCopy
<1>5. u.job = "hold" => IsInjective(u.picked) /\ Len(u.picked) <= Needed(u)'
  <2> SUFFICES ASSUME u.job = "hold" PROVE IsInjective(u.picked) /\ Len(u.picked) <= Needed(u)'
    OBVIOUS
  <2>1. t.job = "hold"
    BY DEF Ages
  <2>2. Needed(u)' = Needed(t)
    BY <1>1, <2>1 DEF Needed, Ages
  <2> QED BY <2>1, <2>2 DEF Ages, TaskOK
<1>6. u.job = "invoice" => u.n \in Nat \ {0} /\ u.held # <<>>
  BY DEF Ages, TaskOK
<1> QED BY <1>2, <1>3, <1>4, <1>5, <1>6 DEF TaskOK

LEMMA FreeingAges ==
  ASSUME NEW v, NEW q, Ages(desk[v], desk'[v])
  PROVE  (Freeing(v, q)' <=> Freeing(v, q)) /\ desk'[v].held = desk[v].held
BY DEF Freeing, At, Ages

(* No invoice is withdrawn or rewritten.                                   *)
InvoicesStay == \A i \in DOMAIN invoice : i \in DOMAIN invoice' /\ invoice'[i] = invoice[i]

LEMMA CountsKept ==
  ASSUME NEW p, CountsOK(p), InvoicesStay, SoldTo(p)' = SoldTo(p), Total(p)' = Total(p),
         so'[p].held = so[p].held, so'[p].invoiced = so[p].invoiced
  PROVE  CountsOK(p)'
<1>1. BilledAsSold(p)' => BilledAsSold(p)
  BY DEF BilledAsSold, InvoicesStay
<1> QED BY <1>1 DEF CountsOK

LEMMA NumbersKept ==
  ASSUME NEW p, NumbersOK(p), p \in muddled => p \in muddled', InvoicesStay,
         so'[p] # None => so[p] # None /\ so'[p].held = so[p].held /\ so'[p].invoiced = so[p].invoiced
                          /\ Total(p)' = Total(p),
         HeldFor(p)' = HeldFor(p), SoldTo(p)' = SoldTo(p),
         \A v \in Clerks : (Freeing(v, p)' <=> Freeing(v, p)) /\ (Freeing(v, p) => desk'[v].held = desk[v].held)
  PROVE  NumbersOK(p)'
<1> SUFFICES ASSUME so'[p] # None, p \notin muddled' PROVE NumbersOK(p)'
  BY DEF NumbersOK
<1>1. so[p] # None /\ p \notin muddled
  OBVIOUS
<1>2. so'[p].held = so[p].held /\ so'[p].invoiced = so[p].invoiced /\ Total(p)' = Total(p)
  OBVIOUS
<1>3. IsInjective(so'[p].held) /\ Range(so'[p].held) \subseteq HeldFor(p)' /\ CountsOK(p)'
  BY <1>1, <1>2, CountsKept DEF NumbersOK
<1>4. ASSUME NEW w \in Clerks, Freeing(w, p)'
      PROVE  /\ IsInjective(desk'[w].held) /\ Range(desk'[w].held) \subseteq HeldFor(p)' \ Range(so'[p].held)
             /\ \A v \in Clerks \ {w} : Freeing(v, p)' => Range(desk'[v].held) \intersect Range(desk'[w].held) = {}
  <2>1. Freeing(w, p) /\ desk'[w].held = desk[w].held
    BY <1>4
  <2>2. IsInjective(desk'[w].held) /\ Range(desk'[w].held) \subseteq HeldFor(p)' \ Range(so'[p].held)
    BY <1>1, <1>2, <2>1 DEF NumbersOK
  <2>3. ASSUME NEW v \in Clerks \ {w}, Freeing(v, p)'
        PROVE  Range(desk'[v].held) \intersect Range(desk'[w].held) = {}
    <3>1. Freeing(v, p) /\ desk'[v].held = desk[v].held
      BY <2>3
    <3> QED BY <1>1, <2>1, <3>1 DEF NumbersOK
  <2> QED BY <2>2, <2>3
<1>5. ASSUME NEW x \in HeldFor(p)' \ Range(so'[p].held)
      PROVE  \E w \in Clerks : Freeing(w, p)' /\ x \in Range(desk'[w].held)
  <2>1. x \in HeldFor(p) \ Range(so[p].held)
    BY <1>2, <1>5
  <2>2. PICK w \in Clerks : Freeing(w, p) /\ x \in Range(desk[w].held)
    BY <1>1, <2>1 DEF NumbersOK
  <2> QED BY <2>2
<1> QED BY <1>3, <1>4, <1>5 DEF NumbersOK

(* Clerk w acts, for order p: what becomes of the rest.                    *)
Around(w, p) ==
  /\ \A q \in Enquiries \ {p} : so'[q] = so[q]
  /\ OrdersStay /\ InvoicesStay
  /\ \A v \in Clerks \ {w} : Ages(desk[v], desk'[v])
  /\ muddled \subseteq muddled'
  /\ \A q \in Enquiries \ {p}, x \in Pieces :
       (piece'[x].holder = q <=> piece[x].holder = q) /\ (piece'[x].buyer = q <=> piece[x].buyer = q)
  /\ \A q \in Enquiries \ {p} : ~Freeing(w, q) /\ ~Freeing(w, q)'

LEMMA OthersKept ==
  ASSUME SalesOK, NEW w, NEW p, Around(w, p), NEW q \in Enquiries \ {p}
  PROVE  NumbersOK(q)'
<1>1. NumbersOK(q)
  BY DEF SalesOK
<1>2. HeldFor(q)' = HeldFor(q) /\ SoldTo(q)' = SoldTo(q)
  BY DEF Around, HeldFor, SoldTo
<1>3. so'[q] # None => so[q] # None /\ Total(q)' = Total(q)
  BY DEF Around, OrdersStay, Total
<1>4. ASSUME NEW v \in Clerks
      PROVE  (Freeing(v, q)' <=> Freeing(v, q)) /\ (Freeing(v, q) => desk'[v].held = desk[v].held)
  <2>1. CASE v = w
    BY <2>1 DEF Around
  <2>2. CASE v # w
    BY <2>2, FreeingAges DEF Around
  <2> QED BY <2>1, <2>2
<1>5. so'[q] = so[q] /\ (q \in muddled => q \in muddled') /\ InvoicesStay
  BY DEF Around
<1> QED BY <1>1, <1>2, <1>3, <1>4, <1>5, NumbersKept

LEMMA DesksAge ==
  ASSUME SalesOK, NEW w, OrdersStay, \A v \in Clerks \ {w} : Ages(desk[v], desk'[v]) /\ CopyStays(desk'[v]),
         w \in Clerks => TaskOK(desk[w])'
  PROVE  \A v \in Clerks : TaskOK(desk[v])'
<1> SUFFICES ASSUME NEW v \in Clerks, v # w PROVE TaskOK(desk[v])'
  OBVIOUS
<1>1. PICK t : t = desk[v]
  OBVIOUS
<1>2. PICK u : u = desk'[v]
  OBVIOUS
<1>3. TaskOK(t) /\ Ages(t, u) /\ CopyStays(u)
  BY <1>1, <1>2 DEF SalesOK
<1>4. TaskOK(u)'
  BY <1>3, TaskAges
<1> QED BY <1>2, <1>4

LEMMA FreeIsTask == Free \in Tasks /\ Free.job = "none" /\ TaskOK(Free) /\ TaskOK(Free)'
<1>1. Free \in Tasks
  <2>1. <<>> \in Seq(Pieces)
    BY EmptySeq
  <2> QED BY <2>1 DEF Free, Tasks
<1> QED BY <1>1 DEF Free, TaskOK, WithCopy

LEMMA PiecesKept ==
  ASSUME SalesOK, piece' = piece, OrdersStay
  PROVE  \A x \in Pieces : PieceOK(x)'
<1>1. \A x \in Pieces : piece[x] \in PieceDocs /\ PieceOK(x)
  BY DEF SalesOK, SalesTypeOK
<1> QED BY <1>1 DEF PieceOK, PieceDocs, OrdersStay

LEMMA OrdersKept ==
  ASSUME SalesOK, \A p \in Enquiries : so'[p] # None => so[p] # None /\ po'[p] = po[p]
  PROVE  \A p \in Enquiries : OrderOK(p)'
BY DEF SalesOK, OrderOK

LEMMA InvoicesKept ==
  ASSUME SalesOK, piece' = piece, invoice' = invoice
  PROVE  InvoicesOK' /\ SoldOnOneInvoice'
BY DEF SalesOK, InvoicesOK, SoldOnOneInvoice

(* Clerk w takes up u, or puts down what it had, and nothing is written.   *)
LEMMA ClerkMoves ==
  ASSUME SalesOK, NEW w \in Clerks, NEW u \in Tasks, desk' = [desk EXCEPT ![w] = u],
         UNCHANGED <<so, piece, invoice, applied, credited, ar, muddled, po>>,
         ~At(w, "free"), u.job # "free", TaskOK(u)
  PROVE  SalesOK'
<1>0. desk \in [Clerks -> Tasks]
  BY DEF SalesOK, SalesTypeOK
<1>1. OrdersStay
  BY DEF OrdersStay
<1>2. \A v \in Clerks : desk'[v] = IF v = w THEN u ELSE desk[v]
  BY <1>0
<1>3. \A v \in Clerks \ {w} : Ages(desk[v], desk'[v]) /\ CopyStays(desk'[v])
  BY <1>2 DEF Ages, CopyStays
<1>4. TaskOK(u)'
  <2>1. Ages(u, u) /\ CopyStays(u)
    BY DEF Ages, CopyStays
  <2> QED BY <1>1, <2>1, TaskAges
<1>5. TaskOK(desk[w])'
  BY <1>2, <1>4
<1>6. \A v \in Clerks : TaskOK(desk[v])'
  BY <1>1, <1>3, <1>5, DesksAge
<1>7. \A q \in Enquiries : ~Freeing(w, q) /\ ~Freeing(w, q)'
  BY <1>2 DEF Freeing, At
<1>8. ASSUME NEW q \in Enquiries
      PROVE  NumbersOK(q)'
  <2>1. NumbersOK(q)
    BY DEF SalesOK
  <2>2. HeldFor(q)' = HeldFor(q) /\ SoldTo(q)' = SoldTo(q) /\ Total(q)' = Total(q)
    BY DEF HeldFor, SoldTo, Total
  <2>3. \A v \in Clerks : (Freeing(v, q)' <=> Freeing(v, q)) /\ (Freeing(v, q) => desk'[v].held = desk[v].held)
    BY <1>2, <1>7 DEF Freeing, At
  <2>4. InvoicesStay
    BY DEF InvoicesStay
  <2> QED BY <2>1, <2>2, <2>3, <2>4, NumbersKept
<1>9. SalesTypeOK'
  BY DEF SalesOK, SalesTypeOK
<1>10. \A x \in Pieces : PieceOK(x)'
  BY <1>1, PiecesKept
<1>11. \A q \in Enquiries : OrderOK(q)'
  BY OrdersKept
<1>12. InvoicesOK' /\ SoldOnOneInvoice'
  BY InvoicesKept
<1> QED BY <1>6, <1>8, <1>9, <1>10, <1>11, <1>12 DEF SalesOK

LEMMA ClerkRests ==
  ASSUME SalesOK, NEW w \in Clerks, Rest(w), UNCHANGED <<so, piece, invoice, applied, credited, ar, muddled, po>>,
         ~At(w, "free")
  PROVE  SalesOK'
<1>1. desk' = [desk EXCEPT ![w] = Free]
  BY DEF Rest, Next1
<1> QED BY <1>1, FreeIsTask, ClerkMoves

LEMMA StartConvertStep ==
  ASSUME SalesOK, NEW w \in Clerks, NEW p \in Enquiries, NEW may \in BOOLEAN,
         StartConvert(w, p, may), UNCHANGED <<applied, credited>>
  PROVE  SalesOK'
<1>1. PICK u : u = [Free EXCEPT !.job = "convert", !.po = p, !.allowed = may]
  OBVIOUS
<1>2. u = [job |-> "convert", po |-> p, held |-> <<>>, invoiced |-> 0, picked |-> <<>>, n |-> 0,
           allowed |-> may, over |-> FALSE, old |-> FALSE]
  BY <1>1 DEF Free
<1>3. u \in Tasks
  <2>1. <<>> \in Seq(Pieces)
    BY EmptySeq
  <2> QED BY <1>2, <2>1 DEF Tasks
<1>4. u.job = "convert" /\ u.po = p
  BY <1>2
<1>5. TaskOK(u)
  BY <1>4 DEF TaskOK, WithCopy
<1>6. desk' = [desk EXCEPT ![w] = u] /\ ~At(w, "free") /\ UNCHANGED <<so, piece, invoice, applied, credited, ar, muddled, po>>
  BY <1>1 DEF StartConvert, At, Next1
<1> QED BY <1>3, <1>4, <1>5, <1>6, ClerkMoves

LEMMA StartApproveCreditStep ==
  ASSUME SalesOK, NEW w \in Clerks, NEW p \in Enquiries, NEW may \in BOOLEAN,
         StartApproveCredit(w, p, may), UNCHANGED <<applied, credited>>
  PROVE  SalesOK'
<1>1. PICK u : u = [Free EXCEPT !.job = "confirm", !.po = p, !.allowed = may]
  OBVIOUS
<1>2. u = [job |-> "confirm", po |-> p, held |-> <<>>, invoiced |-> 0, picked |-> <<>>, n |-> 0,
           allowed |-> may, over |-> FALSE, old |-> FALSE]
  BY <1>1 DEF Free
<1>3. u \in Tasks
  <2>1. <<>> \in Seq(Pieces)
    BY EmptySeq
  <2> QED BY <1>2, <2>1 DEF Tasks
<1>4. u.job = "confirm" /\ u.po = p /\ so[p] # None
  BY <1>2 DEF StartApproveCredit, MaySo
<1>5. TaskOK(u)
  BY <1>4 DEF TaskOK, WithCopy
<1>6. desk' = [desk EXCEPT ![w] = u] /\ ~At(w, "free") /\ UNCHANGED <<so, piece, invoice, applied, credited, ar, muddled, po>>
  BY <1>1 DEF StartApproveCredit, At, Next1
<1> QED BY <1>3, <1>4, <1>5, <1>6, ClerkMoves

LEMMA CheckCreditStep ==
  ASSUME SalesOK, NEW w \in Clerks, CheckCredit(w), UNCHANGED <<applied, credited>>
  PROVE  SalesOK'
<1>1. PICK t : t = desk[w]
  OBVIOUS
<1>2. t \in Tasks /\ TaskOK(t) /\ t.job \in {"convert", "confirm"}
  BY <1>1 DEF SalesOK, SalesTypeOK, CheckCredit
<1>3. PICK over : over \in BOOLEAN /\ over = (Exposure + Total(t.po) > Limit)
  <2>1. PICK e : e = Exposure + Total(t.po)
    OBVIOUS
  <2>2. PICK over : over = (e > Limit)
    OBVIOUS
  <2>3. over \in BOOLEAN
    BY <2>2
  <2>4. over = (Exposure + Total(t.po) > Limit)
    BY <2>1, <2>2, Zenon
  <2> QED BY <2>3, <2>4, Zenon
<1>4. PICK job : job = IF t.job = "convert" THEN "convert-commit" ELSE "confirm-commit"
  OBVIOUS
<1>5. PICK u : u = [t EXCEPT !.job = job, !.over = over, !.old = FALSE]
  OBVIOUS
<1>6. u \in Tasks
  <2>1. [t EXCEPT !.job = job] \in Tasks
    BY <1>2, <1>4 DEF Tasks
  <2>2. \A d \in Tasks : [d EXCEPT !.over = over] \in Tasks
    BY <1>3 DEF Tasks
  <2>3. \A d \in Tasks : [d EXCEPT !.old = FALSE] \in Tasks
    BY DEF Tasks
  <2> QED BY <1>5, <2>1, <2>2, <2>3, Zenon
<1>7. u.job = job /\ u.po = t.po
  BY <1>2, <1>5 DEF Tasks
<1>8. TaskOK(u)
  BY <1>2, <1>4, <1>7 DEF TaskOK, WithCopy
<1>9. desk' = [desk EXCEPT ![w] = u]
  BY <1>1, <1>3, <1>4, <1>5, Zenon DEF CheckCredit, Next1
<1>10. ~At(w, "free") /\ UNCHANGED <<so, piece, invoice, applied, credited, ar, muddled, po>>
  BY DEF CheckCredit, At
<1>11. u.job # "free"
  BY <1>4, <1>7
<1> QED BY <1>6, <1>8, <1>9, <1>10, <1>11, ClerkMoves

-----------------------------------------------------------------------------
(* Commitment: the order is made, or its credit approved *)

LEMMA TaskJob ==
  ASSUME NEW t \in Tasks, NEW job \in {"convert", "confirm"}, NEW u, u = [t EXCEPT !.job = job]
  PROVE  /\ u \in Tasks /\ u.job = job
         /\ u.po = t.po /\ u.held = t.held /\ u.invoiced = t.invoiced /\ u.picked = t.picked /\ u.n = t.n
         /\ u.old = t.old
BY DEF Tasks

LEMMA ConflictsAge ==
  ASSUME desk \in [Clerks -> Tasks], NEW w \in Clerks, Conflicts(w)
  PROVE  /\ desk' \in [Clerks -> Tasks] /\ desk'[w] = Free
         /\ \A v \in Clerks \ {w} : /\ Ages(desk[v], desk'[v])
                                    /\ desk'[v].job \in WithCopy => desk'[v] = desk[v]
<1>1. desk'[w] = Free
  BY DEF Conflicts
<1>2. ASSUME NEW v \in Clerks \ {w}
      PROVE  desk'[v] \in Tasks /\ Ages(desk[v], desk'[v]) /\ (desk'[v].job \in WithCopy => desk'[v] = desk[v])
  <2>1. PICK t \in Tasks : t = desk[v]
    OBVIOUS
  <2>2. PICK u : u = desk'[v]
    OBVIOUS
  <2>3. CASE t.job = "convert-commit"
    <3>1. u = [t EXCEPT !.job = "convert"]
      BY <2>1, <2>2, <2>3 DEF Conflicts
    <3> QED BY <2>1, <2>2, <2>3, <3>1, TaskJob DEF Ages, WithCopy
  <2>4. CASE t.job = "confirm-commit"
    <3>1. u = [t EXCEPT !.job = "confirm"]
      BY <2>1, <2>2, <2>4 DEF Conflicts
    <3> QED BY <2>1, <2>2, <2>4, <3>1, TaskJob DEF Ages, WithCopy
  <2>5. CASE t.job # "convert-commit" /\ t.job # "confirm-commit"
    <3>1. u = t
      BY <2>1, <2>2, <2>5 DEF Conflicts
    <3> QED BY <2>1, <2>2, <3>1 DEF Ages
  <2> QED BY <2>3, <2>4, <2>5
<1>3. desk' \in [Clerks -> Tasks]
  <2>1. \A v \in Clerks : desk'[v] \in Tasks
    BY <1>1, <1>2, FreeIsTask
  <2>2. desk' = [v \in Clerks |-> desk'[v]]
    BY DEF Conflicts
  <2> QED BY <2>1, <2>2
<1> QED BY <1>1, <1>2, <1>3

(* What has been agreed to is a number of pieces.                          *)
LEMMA TotalIsNat ==
  ASSUME EnquiryTypeOK, NEW p \in Enquiries, po[p] # None, po[p].approved # None
  PROVE  Total(p) \in Nat /\ Total(p) > 0
<1>1. po[p].approved.lines \in Asks
  BY DEF EnquiryTypeOK, PurchaseOrders, Agreements
<1>2. PICK n : n = po[p].approved.lines
  OBVIOUS
<1>3. n \in Nat /\ n > 0
  <2>1. Asks \subseteq Nat \ {0}
    BY EnquiriesAssumption
  <2>2. n \in Nat /\ n # 0
    BY <1>1, <1>2, <2>1
  <2> QED BY <2>2
<1> QED BY <1>2, <1>3 DEF Total

LEMMA TotalIsNatNext ==
  ASSUME EnquiryTypeOK', NEW p \in Enquiries, po'[p] # None, po'[p].approved # None
  PROVE  Total(p)' \in Nat /\ Total(p)' > 0
<1>1. po'[p].approved.lines \in Asks
  BY DEF EnquiryTypeOK, PurchaseOrders, Agreements
<1>2. PICK n : n = po'[p].approved.lines
  OBVIOUS
<1>3. n \in Nat /\ n > 0
  <2>1. Asks \subseteq Nat \ {0}
    BY EnquiriesAssumption
  <2>2. n \in Nat /\ n # 0
    BY <1>1, <1>2, <2>1
  <2> QED BY <2>2
<1> QED BY <1>2, <1>3 DEF Total

(* An order nobody has made has no pieces, and nobody is at work on it.    *)
LEMMA UnmadeIsEmpty ==
  ASSUME SalesOK, NEW p \in Enquiries, so[p] = None
  PROVE  /\ HeldFor(p) = {} /\ SoldTo(p) = {}
         /\ \A v \in Clerks : desk[v].job \notin {"none", "convert", "convert-commit"} => desk[v].po # p
<1>1. \A x \in Pieces : PieceOK(x)
  BY DEF SalesOK
<1>2. HeldFor(p) = {} /\ SoldTo(p) = {}
  BY <1>1, NoneIsNo DEF PieceOK, HeldFor, SoldTo
<1>3. \A v \in Clerks : TaskOK(desk[v])
  BY DEF SalesOK
<1> QED BY <1>2, <1>3 DEF TaskOK

LEMMA ConvertingKeeps ==
  ASSUME EnquiryOK, NEW p \in Enquiries, ConvertEnquiry(p)
  PROVE  /\ po'[p] # None /\ po'[p].status = "CONVERTED" /\ po'[p].approved # None
         /\ \A q \in Enquiries \ {p} : po'[q] = po[q]
<1>1. po[p] # None /\ po[p].status = "APPROVED"
  BY DEF ConvertEnquiry, MayPo, PORules, Rule
<1>2. po[p].approved # None
  BY <1>1 DEF EnquiryOK, PoOK
<1>3. "convert" \in DOMAIN PORules /\ PORules["convert"].to = "CONVERTED"
  BY DEF PORules, Rule
<1>4. PICK x : x = AppliedPo("convert", p)
  OBVIOUS
<1>5. x \in PurchaseOrders /\ x.status = "CONVERTED" /\ x.approved = po[p].approved
  BY <1>1, <1>3, <1>4, AppliedPoIs DEF EnquiryOK
<1>6. po' = [po EXCEPT ![p] = x] /\ po \in [Enquiries -> PurchaseOrders \union {None}]
  BY <1>4 DEF ConvertEnquiry, EnquiryOK, EnquiryTypeOK
<1> QED BY <1>2, <1>5, <1>6, NoneIsNo

LEMMA NewOrder ==
  ASSUME NEW d, NEW held \in BOOLEAN, NEW override \in BOOLEAN,
         d = [status |-> IF held THEN "DRAFT" ELSE "CONFIRMED", held |-> <<>>, invoiced |-> 0, override |-> override]
  PROVE  d \in SalesOrderDocs /\ d # None /\ d.held = <<>> /\ d.invoiced = 0
<1>1. <<>> \in Seq(Pieces)
  BY EmptySeq
<1>2. d \in SalesOrderDocs
  BY <1>1 DEF SalesOrderDocs, SOTransitions
<1> QED BY <1>2, SalesDocumentsAssumption

LEMMA NoPiecesListed == IsInjective(<<>>) /\ Range(<<>>) = {} /\ Len(<<>>) = 0
BY DEF IsInjective, Range

LEMMA EnquiriesAgain ==
  ASSUME EnquiryOK, EnquiryStep
  PROVE  EnquiryOK' /\ EnquiryTypeOK'
BY EnquiryStepKeepsOK DEF EnquiryOK

LEMMA CommitOrderStep ==
  ASSUME EnquiryOK, SalesOK, EnquiryOK', NEW w \in Clerks, NEW p \in Enquiries, CommitOrder(w, p),
         UNCHANGED <<applied, credited>>
  PROVE  SalesOK'
<1>1. CASE UNCHANGED so /\ Rest(w) /\ UNCHANGED po
  <2>1. ~At(w, "free")
    BY DEF CommitOrder, At
  <2> QED BY <1>1, <2>1, ClerkRests DEF CommitOrder
<1>2. CASE so[p] = None /\ ConvertEnquiry(p) /\ Conflicts(w)
  <2>1. PICK held \in BOOLEAN, override \in BOOLEAN :
          so' = [so EXCEPT ![p] = [status |-> IF held THEN "DRAFT" ELSE "CONFIRMED", held |-> <<>>,
                                   invoiced |-> 0, override |-> override]]
    <3>1. desk[w] \in Tasks
      BY DEF SalesOK, SalesTypeOK
    <3>2. desk[w].over \in BOOLEAN /\ desk[w].allowed \in BOOLEAN
      BY <3>1 DEF Tasks
    <3>3. PICK held : held = (desk[w].over /\ ~desk[w].allowed)
      OBVIOUS
    <3>4. PICK override : override = (desk[w].over /\ desk[w].allowed)
      OBVIOUS
    <3>5. held \in BOOLEAN /\ override \in BOOLEAN
      BY <3>2, <3>3, <3>4
    <3>6. MayPo("convert", p)
      BY <1>2 DEF ConvertEnquiry
    <3>7. so' = [so EXCEPT ![p] = [status |-> IF held THEN "DRAFT" ELSE "CONFIRMED", held |-> <<>>,
                                   invoiced |-> 0, override |-> override]]
      BY <1>2, <3>3, <3>4, <3>6, Zenon DEF CommitOrder
    <3> QED BY <3>5, <3>7
  <2>2. PICK d : d = [status |-> IF held THEN "DRAFT" ELSE "CONFIRMED", held |-> <<>>,
                      invoiced |-> 0, override |-> override]
    OBVIOUS
  <2>3. d \in SalesOrderDocs /\ d # None /\ d.held = <<>> /\ d.invoiced = 0
    BY <2>2, NewOrder
  <2>4. so \in [Enquiries -> SalesOrderDocs \union {None}] /\ desk \in [Clerks -> Tasks] /\ so' = [so EXCEPT ![p] = d]
    BY <2>1, <2>2 DEF SalesOK, SalesTypeOK
  <2>5. so'[p] = d /\ \A q \in Enquiries \ {p} : so'[q] = so[q]
    BY <2>4
  <2>6. UNCHANGED <<piece, invoice, ar, muddled>>
    BY DEF CommitOrder
  <2>7. /\ desk' \in [Clerks -> Tasks] /\ desk'[w] = Free
        /\ \A v \in Clerks \ {w} : Ages(desk[v], desk'[v]) /\ (desk'[v].job \in WithCopy => desk'[v] = desk[v])
    BY <1>2, <2>4, ConflictsAge
  <2>8. /\ po'[p] # None /\ po'[p].status = "CONVERTED" /\ po'[p].approved # None
        /\ \A q \in Enquiries \ {p} : po'[q] = po[q]
    BY <1>2, ConvertingKeeps
  <2>9. OrdersStay
    BY <1>2, <2>5, <2>8 DEF OrdersStay
  <2>10. /\ HeldFor(p) = {} /\ SoldTo(p) = {}
         /\ \A v \in Clerks : desk[v].job \notin {"none", "convert", "convert-commit"} => desk[v].po # p
    BY <1>2, UnmadeIsEmpty
  <2>11. \A v \in Clerks \ {w} : CopyStays(desk'[v])
    <3> SUFFICES ASSUME NEW v \in Clerks \ {w}, desk'[v].job \in WithCopy PROVE so'[desk'[v].po] = so[desk'[v].po]
      BY DEF CopyStays
    <3>1. desk'[v] = desk[v] /\ TaskOK(desk[v])
      BY <2>7 DEF SalesOK
    <3>2. desk[v].po # p /\ desk[v].po \in Enquiries
      BY <2>10, <3>1 DEF WithCopy, TaskOK
    <3> QED BY <2>5, <3>1, <3>2
  <2>12. \A v \in Clerks : TaskOK(desk[v])'
    <3>1. TaskOK(desk[w])'
      BY <2>7, FreeIsTask
    <3> QED BY <2>7, <2>9, <2>11, <3>1, DesksAge
  <2>13. At(w, "convert-commit") /\ desk'[w].job = "none"
    BY <2>7, FreeIsTask DEF CommitOrder
  <2>14. Around(w, p)
    <3>1. \A q \in Enquiries : ~Freeing(w, q) /\ ~Freeing(w, q)'
      BY <2>13 DEF Freeing, At
    <3>2. InvoicesStay
      BY <2>6 DEF InvoicesStay
    <3> QED BY <2>5, <2>6, <2>7, <2>9, <3>1, <3>2 DEF Around
  <2>15. NumbersOK(p)'
    <3>1. HeldFor(p)' = {} /\ SoldTo(p)' = {}
      BY <2>6, <2>10 DEF HeldFor, SoldTo
    <3>2. Cardinality(SoldTo(p)') = 0
      BY <3>1, FS_EmptySet
    <3>3. ASSUME NEW v \in Clerks PROVE ~Freeing(v, p)'
      <4>1. CASE v = w
        BY <2>13, <4>1 DEF Freeing, At
      <4>2. CASE v # w
        BY <2>7, <2>10, <4>2 DEF Freeing, At, Ages
      <4> QED BY <4>1, <4>2
    <3>4. Total(p)' \in Nat
      BY <2>8, TotalIsNatNext DEF EnquiryOK
    <3>5. so'[p].held = <<>> /\ so'[p].invoiced = 0
      BY <2>3, <2>5
    <3>6. CountsOK(p)'
      BY <3>2, <3>4, <3>5, NoPiecesListed DEF CountsOK
    <3> QED BY <3>1, <3>3, <3>5, <3>6, NoPiecesListed DEF NumbersOK
  <2>16. \A q \in Enquiries : NumbersOK(q)'
    BY <2>14, <2>15, OthersKept
  <2>17. \A q \in Enquiries : OrderOK(q)'
    BY <2>5, <2>8 DEF SalesOK, OrderOK
  <2>18. SalesTypeOK'
    BY <2>3, <2>4, <2>6, <2>7 DEF SalesOK, SalesTypeOK
  <2>19. (\A x \in Pieces : PieceOK(x)') /\ InvoicesOK' /\ SoldOnOneInvoice'
    BY <2>6, <2>9, PiecesKept, InvoicesKept
  <2> QED BY <2>12, <2>16, <2>17, <2>18, <2>19 DEF SalesOK
<1> QED BY <1>1, <1>2 DEF CommitOrder

LEMMA CommitApprovalStep ==
  ASSUME SalesOK, NEW w \in Clerks, CommitApproval(w), UNCHANGED <<applied, credited>>
  PROVE  SalesOK'
<1>0. PICK p : p = desk[w].po
  OBVIOUS
<1>1. desk[w] \in Tasks /\ TaskOK(desk[w]) /\ At(w, "confirm-commit") /\ ~At(w, "free")
  BY DEF SalesOK, SalesTypeOK, CommitApproval, At
<1>2. p \in Enquiries /\ so[p] # None
  BY <1>0, <1>1 DEF TaskOK, At
<1>3. CASE UNCHANGED so /\ Rest(w)
  BY <1>1, <1>3, ClerkRests DEF CommitApproval
<1>4. CASE ~(UNCHANGED so /\ Rest(w))
  <2>1. Conflicts(w) /\ so' = [so EXCEPT ![p].status = "CONFIRMED", ![p].override = desk[w].over]
    BY <1>0, <1>4 DEF CommitApproval
  <2>2. PICK c : c = [so[p] EXCEPT !.status = "CONFIRMED"]
    OBVIOUS
  <2>3. PICK d : d = [c EXCEPT !.override = desk[w].over]
    OBVIOUS
  <2>4. so \in [Enquiries -> SalesOrderDocs \union {None}] /\ desk \in [Clerks -> Tasks]
    BY DEF SalesOK, SalesTypeOK
  <2>5. c \in SalesOrderDocs /\ c.held = so[p].held /\ c.invoiced = so[p].invoiced
    BY <1>2, <2>2, <2>4 DEF SalesOrderDocs, SOTransitions
  <2>6. d \in SalesOrderDocs /\ d.held = so[p].held /\ d.invoiced = so[p].invoiced
    <3>1. desk[w].over \in BOOLEAN
      BY <1>1 DEF Tasks
    <3> QED BY <2>3, <2>5, <3>1 DEF SalesOrderDocs
  <2>7. so' = [so EXCEPT ![p] = d]
    BY <2>1, <2>2, <2>3, <2>4, <1>2
  <2>8. d # None
    BY <2>6, SalesDocumentsAssumption
  <2>9. so'[p] = d /\ \A q \in Enquiries \ {p} : so'[q] = so[q]
    BY <1>2, <2>4, <2>7
  <2>10. UNCHANGED <<piece, invoice, ar, muddled, po>>
    BY DEF CommitApproval
  <2>11. /\ desk' \in [Clerks -> Tasks] /\ desk'[w] = Free
         /\ \A v \in Clerks \ {w} : Ages(desk[v], desk'[v])
    BY <2>1, <2>4, ConflictsAge
  <2>12. OrdersStay
    BY <2>8, <2>9, <2>10 DEF OrdersStay
  <2>13. \A q \in Enquiries : so'[q].held = so[q].held /\ so'[q].invoiced = so[q].invoiced /\ (so'[q] # None => so[q] # None)
    BY <1>2, <2>6, <2>9
  <2>14. \A v \in Clerks : TaskOK(desk[v])'
    <3>1. TaskOK(desk[w])'
      BY <2>11, FreeIsTask
    <3>2. \A v \in Clerks \ {w} : CopyStays(desk'[v])
      <4> SUFFICES ASSUME NEW v \in Clerks \ {w}, desk'[v].job \in WithCopy PROVE desk'[v].po \in Enquiries
        BY <2>13 DEF CopyStays
      <4>1. TaskOK(desk[v]) /\ Ages(desk[v], desk'[v])
        BY <2>11 DEF SalesOK
      <4> QED BY <4>1 DEF Ages, TaskOK, WithCopy
    <3> QED BY <2>11, <2>12, <3>1, <3>2, DesksAge
  <2>15. \A q \in Enquiries : ~Freeing(w, q) /\ ~Freeing(w, q)'
    BY <1>1, <2>11, FreeIsTask DEF Freeing, At
  <2>16. ASSUME NEW q \in Enquiries PROVE NumbersOK(q)'
    <3>1. NumbersOK(q)
      BY DEF SalesOK
    <3>2. HeldFor(q)' = HeldFor(q) /\ SoldTo(q)' = SoldTo(q) /\ Total(q)' = Total(q)
      BY <2>10 DEF HeldFor, SoldTo, Total
    <3>3. \A v \in Clerks : (Freeing(v, q)' <=> Freeing(v, q)) /\ (Freeing(v, q) => desk'[v].held = desk[v].held)
      BY <2>11, <2>15, FreeingAges
    <3>4. InvoicesStay
      BY <2>10 DEF InvoicesStay
    <3> QED BY <2>10, <2>13, <3>1, <3>2, <3>3, <3>4, NumbersKept
  <2>17. \A q \in Enquiries : OrderOK(q)'
    BY <2>10, <2>13, OrdersKept
  <2>18. SalesTypeOK'
    BY <2>4, <2>6, <2>7, <2>10, <2>11 DEF SalesOK, SalesTypeOK
  <2>19. (\A x \in Pieces : PieceOK(x)') /\ InvoicesOK' /\ SoldOnOneInvoice'
    BY <2>10, <2>12, PiecesKept, InvoicesKept
  <2> QED BY <2>14, <2>16, <2>17, <2>18, <2>19 DEF SalesOK
<1> QED BY <1>3, <1>4

-----------------------------------------------------------------------------
(* Handlers that read the order *)

LEMMA CopyIs ==
  ASSUME SalesOK, NEW p \in Enquiries, so[p] # None, NEW job \in {"allocate", "release", "cancel", "invoice"},
         NEW u, u = Copy(p, job)
  PROVE  /\ u \in Tasks /\ u.job = job /\ u.po = p /\ u.held = so[p].held /\ u.invoiced = so[p].invoiced
         /\ job # "invoice" => TaskOK(u)
<1>1. PICK held : held = so[p].held
  OBVIOUS
<1>2. PICK invoiced : invoiced = so[p].invoiced
  OBVIOUS
<1>3. u = [job |-> job, po |-> p, held |-> held, invoiced |-> invoiced, picked |-> <<>>, n |-> 0,
           allowed |-> FALSE, over |-> FALSE, old |-> FALSE]
  BY <1>1, <1>2 DEF Copy, Free
<1>4. held \in Seq(Pieces) /\ invoiced \in Nat
  BY <1>1, <1>2 DEF SalesOK, SalesTypeOK, SalesOrderDocs
<1>5. u \in Tasks
  <2>1. <<>> \in Seq(Pieces)
    BY EmptySeq
  <2> QED BY <1>3, <1>4, <2>1 DEF Tasks
<1>6. u.job = job /\ u.po = p /\ u.held = so[p].held /\ u.invoiced = so[p].invoiced
  BY <1>1, <1>2, <1>3
<1>7. job # "invoice" => TaskOK(u)
  BY <1>6 DEF TaskOK
<1> QED BY <1>5, <1>6, <1>7

LEMMA StartAllocateStep ==
  ASSUME SalesOK, NEW w \in Clerks, NEW p \in Enquiries, StartAllocate(w, p), UNCHANGED <<applied, credited>>
  PROVE  SalesOK'
<1>1. PICK u : u = Copy(p, "allocate")
  OBVIOUS
<1>2. so[p] # None /\ desk' = [desk EXCEPT ![w] = u] /\ ~At(w, "free")
      /\ UNCHANGED <<so, piece, invoice, applied, credited, ar, muddled, po>>
  BY <1>1 DEF StartAllocate, MaySo, Next1, At
<1>3. u \in Tasks /\ u.job = "allocate" /\ TaskOK(u)
  BY <1>1, <1>2, CopyIs
<1> QED BY <1>2, <1>3, ClerkMoves

LEMMA StartWithdrawStep ==
  ASSUME SalesOK, NEW w \in Clerks, NEW p \in Enquiries, NEW action \in {"release", "cancel"},
         StartWithdraw(w, p, action), UNCHANGED <<applied, credited>>
  PROVE  SalesOK'
<1>1. PICK u : u = Copy(p, action)
  OBVIOUS
<1>2. so[p] # None /\ desk' = [desk EXCEPT ![w] = u] /\ ~At(w, "free")
      /\ UNCHANGED <<so, piece, invoice, applied, credited, ar, muddled, po>>
  BY <1>1 DEF StartWithdraw, Next1, At
<1>3. u \in Tasks /\ u.job = action /\ TaskOK(u)
  BY <1>1, <1>2, CopyIs
<1> QED BY <1>2, <1>3, ClerkMoves

LEMMA StartInvoiceStep ==
  ASSUME SalesOK, NEW w \in Clerks, NEW p \in Enquiries, NEW n \in Nat \ {0}, StartInvoice(w, p, n),
         UNCHANGED <<applied, credited>>
  PROVE  SalesOK'
<1>1. PICK t : t = Copy(p, "invoice")
  OBVIOUS
<1>2. PICK u : u = [t EXCEPT !.n = n]
  OBVIOUS
<1>3. so[p] # None /\ so[p].held # <<>> /\ desk' = [desk EXCEPT ![w] = u] /\ ~At(w, "free")
      /\ UNCHANGED <<so, piece, invoice, applied, credited, ar, muddled, po>>
  BY <1>1, <1>2 DEF StartInvoice, MaySo, Next1, At
<1>4. t \in Tasks /\ t.job = "invoice" /\ t.po = p /\ t.held = so[p].held /\ t.invoiced = so[p].invoiced
  BY <1>1, <1>3, CopyIs
<1>5. u \in Tasks /\ u.job = "invoice" /\ u.po = p /\ u.held = so[p].held /\ u.invoiced = so[p].invoiced /\ u.n = n
  BY <1>2, <1>4 DEF Tasks
<1>6. TaskOK(u)
  BY <1>3, <1>5 DEF TaskOK
<1> QED BY <1>3, <1>5, <1>6, ClerkMoves

(* A request bills one piece at least.                                     *)
LEMMA BilledIsNat == \A n \in 1..(MaxNamed * MaxPieces) : n \in Nat \ {0}
OBVIOUS

LEMMA PiecesCount ==
  ASSUME NEW S, S \subseteq Pieces
  PROVE  Cardinality(S) \in Nat
<1>1. IsFiniteSet(Pieces)
  BY SalesOrdersAssumption, FS_Interval DEF Pieces
<1> QED BY <1>1, FS_Subset, FS_CardinalityType

(* The oldest pieces are each listed once.                                 *)
LEMMA OldestOnce ==
  ASSUME NEW S, S \subseteq Pieces, NEW k \in Int, NEW list \in ListsOf(S, k), IsOldest(list, S, k)
  PROVE  list \in Seq(S) /\ list \in Seq(Pieces) /\ IsInjective(list) /\ Len(list) <= k
<1>1. PICK n \in 0..k : list \in [1..n -> S]
  BY DEF ListsOf
<1>2. n \in Nat /\ n <= k
  BY <1>1
<1>3. list \in Seq(S) /\ Len(list) = n
  BY <1>1, <1>2
<1>4. list \in Seq(Pieces)
  BY <1>3, SeqMonotonic
<1>5. \A i \in 1..n : list[i] \in Int
  <2>1. \A x \in Pieces : x \in Int
    BY SalesOrdersAssumption DEF Pieces
  <2>2. \A i \in 1..n : list[i] \in S
    BY <1>1
  <2> QED BY <2>1, <2>2
<1>6. \A i, j \in 1..n : i < j => list[i] < list[j]
  BY <1>1 DEF IsOldest
<1>7. \A i, j \in 1..n : list[i] = list[j] => i = j
  BY <1>2, <1>5, <1>6
<1>8. IsInjective(list)
  BY <1>1, <1>7 DEF IsInjective
<1> QED BY <1>2, <1>3, <1>4, <1>8

LEMMA NeededIsInt ==
  ASSUME EnquiryOK, SalesOK, NEW t \in Tasks, TaskOK(t), t.job \notin {"none", "convert", "convert-commit"}
  PROVE  Needed(t) \in Int /\ Len(t.held) \in Nat /\ t.invoiced \in Nat /\ Total(t.po) \in Nat
<1>1. t.po \in Enquiries /\ so[t.po] # None
  BY DEF TaskOK
<1>2. po[t.po] # None /\ po[t.po].approved # None
  BY <1>1 DEF SalesOK, OrderOK
<1>3. Total(t.po) \in Nat
  BY <1>1, <1>2, TotalIsNat DEF EnquiryOK
<1>4. t.held \in Seq(Pieces) /\ t.invoiced \in Nat
  BY DEF Tasks
<1>5. Len(t.held) \in Nat
  BY <1>4, ListMembers
<1> QED BY <1>3, <1>4, <1>5 DEF Needed

LEMMA PickPiecesStep ==
  ASSUME EnquiryOK, SalesOK, NEW w \in Clerks, PickPieces(w), UNCHANGED <<applied, credited>>
  PROVE  SalesOK'
<1>1. ~At(w, "free") /\ UNCHANGED <<so, piece, invoice, applied, credited, ar, muddled, po>>
  BY DEF PickPieces, At
<1>2. CASE Rest(w)
  BY <1>1, <1>2, ClerkRests
<1>3. CASE ~Rest(w)
  <2>1. PICK t : t = desk[w]
    OBVIOUS
  <2>2. t \in Tasks /\ TaskOK(t) /\ t.job = "allocate"
    BY <2>1 DEF SalesOK, SalesTypeOK, PickPieces, At
  <2>3. PICK shelf : shelf = {x \in Pieces : piece[x].status = "AVAILABLE"}
    OBVIOUS
  <2>4. PICK k : k = Needed(t)
    OBVIOUS
  <2>5. PICK list \in ListsOf(shelf, k) :
          IsOldest(list, shelf, k) /\ Next1(w, [t EXCEPT !.job = "hold", !.picked = list, !.n = @ + 1])
    BY <1>3, <2>1, <2>3, <2>4 DEF PickPieces
  <2>6. k \in Int
    BY <2>2, <2>4, NeededIsInt
  <2>7. list \in Seq(Pieces) /\ IsInjective(list) /\ Len(list) <= k
    BY <2>3, <2>5, <2>6, OldestOnce
  <2>8. PICK a : a = [t EXCEPT !.job = "hold"]
    OBVIOUS
  <2>9. PICK b : b = [a EXCEPT !.picked = list]
    OBVIOUS
  <2>10. PICK u : u = [b EXCEPT !.n = t.n + 1]
    OBVIOUS
  <2>11. a \in Tasks /\ a.job = "hold" /\ a.po = t.po /\ a.held = t.held /\ a.invoiced = t.invoiced /\ a.old = t.old /\ a.n = t.n
    BY <2>2, <2>8 DEF Tasks
  <2>12. b \in Tasks /\ b.job = "hold" /\ b.po = t.po /\ b.held = t.held /\ b.invoiced = t.invoiced /\ b.old = t.old
         /\ b.picked = list /\ b.n = t.n
    BY <2>7, <2>9, <2>11 DEF Tasks
  <2>13. u \in Tasks /\ u.job = "hold" /\ u.po = t.po /\ u.held = t.held /\ u.invoiced = t.invoiced /\ u.old = t.old
         /\ u.picked = list
    <3>1. t.n + 1 \in Nat
      BY <2>2 DEF Tasks
    <3> QED BY <2>10, <2>12, <3>1 DEF Tasks
  <2>14. u = [t EXCEPT !.job = "hold", !.picked = list, !.n = @ + 1]
    BY <2>2, <2>8, <2>9, <2>10 DEF Tasks
  <2>15. TaskOK(u)
    <3>1. Needed(u) = k
      BY <2>4, <2>13 DEF Needed
    <3> QED BY <2>2, <2>7, <2>13, <3>1 DEF TaskOK, WithCopy
  <2>16. desk' = [desk EXCEPT ![w] = u]
    BY <2>5, <2>14, Zenon DEF Next1
  <2> QED BY <1>1, <2>13, <2>15, <2>16, ClerkMoves
<1> QED BY <1>2, <1>3

-----------------------------------------------------------------------------
(* Handlers that write the order *)

LEMMA TaskAged ==
  ASSUME NEW t \in Tasks, NEW old \in BOOLEAN, t.old => old, NEW u, u = [t EXCEPT !.old = old]
  PROVE  u \in Tasks /\ Ages(t, u) /\ u.job = t.job /\ u.old = old
BY DEF Tasks, Ages

LEMMA OthersTold ==
  ASSUME desk \in [Clerks -> Tasks], NEW w \in Clerks, NEW p, NEW u \in Tasks, WritesOrder(w, p, u)
  PROVE  /\ desk' \in [Clerks -> Tasks] /\ desk'[w] = u
         /\ \A v \in Clerks \ {w} : /\ Ages(desk[v], desk'[v]) /\ desk'[v].job = desk[v].job
                                    /\ desk'[v].job \in WithCopy /\ ~desk'[v].old => desk'[v].po # p
                                    /\ desk'[v].job \in Checked /\ ~desk'[v].old => ~Overbills(w, p)
         /\ muddled \subseteq muddled' /\ muddled' \subseteq muddled \union {p}
         /\ p \notin muddled' => p \notin muddled /\ ~desk[w].old
<1>1. desk'[w] = u /\ desk' = [v \in Clerks |-> desk'[v]]
  BY DEF WritesOrder
<1>2. ASSUME NEW v \in Clerks \ {w}
      PROVE  /\ desk'[v] \in Tasks /\ Ages(desk[v], desk'[v]) /\ desk'[v].job = desk[v].job
             /\ desk'[v].job \in WithCopy /\ ~desk'[v].old => desk'[v].po # p
             /\ desk'[v].job \in Checked /\ ~desk'[v].old => ~Overbills(w, p)
  <2>1. PICK t \in Tasks : t = desk[v]
    OBVIOUS
  <2>2. PICK old : old = (t.old \/ (t.po = p /\ t.job \in WithCopy) \/ (Overbills(w, p) /\ t.job \in Checked))
    OBVIOUS
  <2>3. old \in BOOLEAN
    BY <2>2
  <2>4. t.old => old
    BY <2>2
  <2>5. PICK c : c = desk'[v]
    OBVIOUS
  <2>6. c = [t EXCEPT !.old = old]
    <3>1. c = [desk[v] EXCEPT !.old = \/ desk[v].old
                                      \/ desk[v].po = p /\ desk[v].job \in WithCopy
                                      \/ Overbills(w, p) /\ desk[v].job \in Checked]
      BY <2>5 DEF WritesOrder
    <3> QED BY <2>1, <2>2, <3>1, Zenon
  <2>7. c \in Tasks /\ Ages(t, c) /\ c.job = t.job /\ c.old = old
    BY <2>3, <2>4, <2>6, TaskAged
  <2>8. (c.job \in WithCopy /\ ~c.old => c.po # p) /\ (c.job \in Checked /\ ~c.old => ~Overbills(w, p))
    BY <2>2, <2>7 DEF Ages
  <2> QED BY <2>1, <2>5, <2>7, <2>8
<1>3. desk' \in [Clerks -> Tasks]
  BY <1>1, <1>2
<1>4. /\ muddled \subseteq muddled' /\ muddled' \subseteq muddled \union {p}
      /\ p \notin muddled' => p \notin muddled /\ ~desk[w].old
  BY DEF WritesOrder
<1> QED BY <1>1, <1>2, <1>3, <1>4

(* What holds after any of them, but for the numbers of the order written. *)
OrderWrittenOK(w, p, d, u) ==
  /\ desk' \in [Clerks -> Tasks] /\ so' \in [Enquiries -> SalesOrderDocs \union {None}] /\ muddled' \subseteq Enquiries
  /\ desk'[w] = u /\ \A v \in Clerks \ {w} : Ages(desk[v], desk'[v])
  /\ so'[p] = d /\ OrdersStay
  /\ \A v \in Clerks : TaskOK(desk[v])'
  /\ \A q \in Enquiries : OrderOK(q)'
  /\ \A q \in Enquiries \ {p} : NumbersOK(q)'
  /\ p \notin muddled' => p \notin muddled /\ ~desk[w].old

LEMMA OrderWritten ==
  ASSUME SalesOK, NEW w \in Clerks, NEW p \in Enquiries, so[p] # None, NEW d \in SalesOrderDocs,
         so' = [so EXCEPT ![p] = d], po' = po, NEW u \in Tasks, WritesOrder(w, p, u), desk[w].po = p,
         u.job = "none" \/ u.po = p, TaskOK(u)', InvoicesStay,
         \A q \in Enquiries \ {p}, x \in Pieces :
           (piece'[x].holder = q <=> piece[x].holder = q) /\ (piece'[x].buyer = q <=> piece[x].buyer = q)
  PROVE  OrderWrittenOK(w, p, d, u)
<1>0. so \in [Enquiries -> SalesOrderDocs \union {None}] /\ desk \in [Clerks -> Tasks] /\ muddled \subseteq Enquiries
  BY DEF SalesOK, SalesTypeOK
<1>1. d # None
  BY SalesDocumentsAssumption
<1>2. so'[p] = d /\ (\A q \in Enquiries \ {p} : so'[q] = so[q]) /\ so' \in [Enquiries -> SalesOrderDocs \union {None}]
  BY <1>0
<1>3. OrdersStay
  BY <1>1, <1>2 DEF OrdersStay
<1>4. /\ desk' \in [Clerks -> Tasks] /\ desk'[w] = u
      /\ \A v \in Clerks \ {w} : /\ Ages(desk[v], desk'[v]) /\ desk'[v].job = desk[v].job
                                 /\ desk'[v].job \in WithCopy /\ ~desk'[v].old => desk'[v].po # p
      /\ muddled \subseteq muddled' /\ muddled' \subseteq muddled \union {p}
      /\ p \notin muddled' => p \notin muddled /\ ~desk[w].old
  BY <1>0, OthersTold
<1>5. \A v \in Clerks \ {w} : CopyStays(desk'[v])
  <2> SUFFICES ASSUME NEW v \in Clerks \ {w}, desk'[v].job \in WithCopy, ~desk'[v].old
               PROVE  so'[desk'[v].po] = so[desk'[v].po]
    BY DEF CopyStays
  <2>1. TaskOK(desk[v]) /\ desk'[v].po # p /\ desk[v].po = desk'[v].po /\ desk[v].job # "none"
    BY <1>4 DEF SalesOK, Ages, WithCopy
  <2>2. desk'[v].po \in Enquiries \ {p}
    BY <2>1 DEF TaskOK
  <2> QED BY <1>2, <2>2
<1>6. \A v \in Clerks : TaskOK(desk[v])'
  <2>1. TaskOK(desk[w])'
    BY <1>4
  <2> QED BY <1>3, <1>4, <1>5, <2>1, DesksAge
<1>7. \A q \in Enquiries : OrderOK(q)'
  BY <1>2, OrdersKept
<1>8. Around(w, p)
  <2>1. \A q \in Enquiries \ {p} : ~Freeing(w, q) /\ ~Freeing(w, q)'
    BY <1>4 DEF Freeing, At
  <2> QED BY <1>2, <1>3, <1>4, <2>1 DEF Around
<1>9. \A q \in Enquiries \ {p} : NumbersOK(q)'
  BY <1>8, OthersKept
<1> QED BY <1>0, <1>2, <1>3, <1>4, <1>6, <1>7, <1>9 DEF OrderWrittenOK

LEMMA StatusForIs ==
  ASSUME NEW total, NEW a, NEW i
  PROVE  StatusFor(total, a, i) \in DOMAIN SOTransitions
BY DEF StatusFor, SOTransitions

LEMMA PieceFields ==
  ASSUME SalesOK, NEW x \in Pieces
  PROVE  /\ piece[x] \in PieceDocs
         /\ piece[x].status = "AVAILABLE" => piece[x].holder = None /\ piece[x].buyer = None
         /\ piece[x].status = "RESERVED" => piece[x].holder # None /\ piece[x].buyer = None
         /\ piece[x].status = "SOLD" => piece[x].holder = None /\ piece[x].buyer # None
BY DEF SalesOK, SalesTypeOK, PieceOK

LEMMA HoldPiecesStep ==
  ASSUME EnquiryOK, SalesOK, NEW w \in Clerks, HoldPieces(w), UNCHANGED <<applied, credited>>
  PROVE  SalesOK'
<1>1. PICK t : t = desk[w]
  OBVIOUS
<1>2. t \in Tasks /\ TaskOK(t) /\ t.job = "hold" /\ ~At(w, "free") /\ UNCHANGED <<invoice, ar, po, quote>>
  BY <1>1 DEF SalesOK, SalesTypeOK, HoldPieces, At
<1>3. PICK p : p = t.po
  OBVIOUS
<1>4. p \in Enquiries /\ so[p] # None
  BY <1>2, <1>3 DEF TaskOK
<1>5. PICK list : list = Allocations(t)
  OBVIOUS
<1>6. PICK target : target = StatusFor(Total(p), Len(list), t.invoiced)
  OBVIOUS
<1>7. CASE UNCHANGED <<so, piece, muddled>> /\ Next1(w, [t EXCEPT !.job = "allocate"])
  <2>1. PICK u : u = [t EXCEPT !.job = "allocate"]
    OBVIOUS
  <2>2. u \in Tasks /\ u.job = "allocate" /\ u.po = t.po /\ u.held = t.held /\ u.invoiced = t.invoiced /\ u.old = t.old
    BY <1>2, <2>1 DEF Tasks
  <2>3. TaskOK(u)
    BY <1>2, <2>2 DEF TaskOK, WithCopy
  <2>4. desk' = [desk EXCEPT ![w] = u]
    BY <1>7, <2>1 DEF Next1
  <2> QED BY <1>2, <1>7, <2>2, <2>3, <2>4, ClerkMoves
<1>8. CASE UNCHANGED <<so, piece, muddled>> /\ Rest(w)
  BY <1>2, <1>8, ClerkRests
<1>9. CASE /\ \A x \in Range(t.picked) : piece[x].status = "AVAILABLE"
           /\ piece' = [x \in Pieces |-> IF x \in Range(t.picked)
                                         THEN [piece[x] EXCEPT !.status = "RESERVED", !.holder = p] ELSE piece[x]]
           /\ so' = [so EXCEPT ![p].status = target, ![p].held = list]
           /\ WritesOrder(w, p, Free)
  <2>1. t.held \in Seq(Pieces) /\ t.picked \in Seq(Pieces) /\ t.invoiced \in Nat
    BY <1>2 DEF Tasks
  <2>2. /\ list \in Seq(Pieces) /\ Len(list) = Len(t.held) + Len(t.picked)
        /\ Range(list) = Range(t.held) \union Range(t.picked)
        /\ IsInjective(t.held) /\ IsInjective(t.picked) /\ Range(t.held) \intersect Range(t.picked) = {} =>
             IsInjective(list)
    BY <1>5, <2>1, ListsJoin DEF Allocations
  <2>3. PICK d : d = [[so[p] EXCEPT !.status = target] EXCEPT !.held = list]
    OBVIOUS
  <2>4. so[p] \in SalesOrderDocs /\ so \in [Enquiries -> SalesOrderDocs \union {None}]
    BY <1>4 DEF SalesOK, SalesTypeOK
  <2>5. d \in SalesOrderDocs /\ d.held = list /\ d.invoiced = so[p].invoiced
    <3>1. target \in DOMAIN SOTransitions
      BY <1>6, StatusForIs
    <3>2. PICK c : c = so[p]
      OBVIOUS
    <3>3. PICK b : b = [c EXCEPT !.status = target]
      OBVIOUS
    <3>4. d = [b EXCEPT !.held = list]
      BY <2>3, <3>2, <3>3
    <3>5. c \in SalesOrderDocs
      BY <2>4, <3>2
    <3>6. b \in SalesOrderDocs /\ b.invoiced = c.invoiced
      BY <3>1, <3>3, <3>5 DEF SalesOrderDocs
    <3>7. d \in SalesOrderDocs /\ d.held = list /\ d.invoiced = c.invoiced
      BY <2>2, <3>4, <3>6 DEF SalesOrderDocs
    <3> QED BY <3>2, <3>7
  <2>6. so' = [so EXCEPT ![p] = d]
    BY <1>4, <1>9, <2>3, <2>4
  <2>7. PICK picked : picked = Range(t.picked)
    OBVIOUS
  <2>8. picked \subseteq Pieces /\ \A x \in picked : piece[x].holder = None /\ piece[x].buyer = None
    <3>1. picked \subseteq Pieces
      BY <2>1, <2>7, ListMembers
    <3> QED BY <1>9, <2>7, <3>1, PieceFields
  <2>9. ASSUME NEW x \in Pieces
        PROVE  /\ x \notin picked => piece'[x] = piece[x]
               /\ x \in picked => piece'[x] \in PieceDocs /\ piece'[x].status = "RESERVED" /\ piece'[x].holder = p
                                  /\ piece'[x].buyer = None
    <3>1. x \notin picked => piece'[x] = piece[x]
      BY <1>9, <2>7
    <3>2. ASSUME x \in picked
          PROVE  piece'[x] \in PieceDocs /\ piece'[x].status = "RESERVED" /\ piece'[x].holder = p
                 /\ piece'[x].buyer = None
      <4>1. PICK c : c = piece[x]
        OBVIOUS
      <4>2. PICK e : e = piece'[x]
        OBVIOUS
      <4>3. e = [c EXCEPT !.status = "RESERVED", !.holder = p]
        BY <1>9, <2>7, <3>2, <4>1, <4>2
      <4>4. c \in PieceDocs /\ c.buyer = None
        BY <2>8, <3>2, <4>1, PieceFields
      <4>5. PICK b : b = [c EXCEPT !.status = "RESERVED"]
        OBVIOUS
      <4>6. e = [b EXCEPT !.holder = p]
        BY <4>3, <4>5
      <4>7. b \in PieceDocs /\ b.status = "RESERVED" /\ b.buyer = c.buyer
        BY <4>4, <4>5 DEF PieceDocs
      <4>8. e \in PieceDocs /\ e.status = "RESERVED" /\ e.holder = p /\ e.buyer = c.buyer
        BY <1>4, <4>6, <4>7 DEF PieceDocs
      <4> QED BY <4>2, <4>4, <4>8
    <3> QED BY <3>1, <3>2
  <2>10. p # None
    BY <1>4, NoneIsNo
  <2>11. \A q \in Enquiries \ {p}, x \in Pieces :
           (piece'[x].holder = q <=> piece[x].holder = q) /\ (piece'[x].buyer = q <=> piece[x].buyer = q)
    BY <2>8, <2>9, NoneIsNo
  <2>12. OrderWrittenOK(w, p, d, Free)
    <3>1. Free \in Tasks /\ Free.job = "none" /\ TaskOK(Free)'
      BY FreeIsTask
    <3>2. po' = po /\ desk[w].po = p /\ WritesOrder(w, p, Free)
      BY <1>1, <1>2, <1>3, <1>9
    <3>3. InvoicesStay
      BY <1>2 DEF InvoicesStay
    <3> QED BY <1>4, <2>5, <2>6, <2>11, <3>1, <3>2, <3>3, OrderWritten
  <2>13. desk'[w] = Free /\ so'[p] = d /\ OrdersStay /\ \A v \in Clerks \ {w} : Ages(desk[v], desk'[v])
    BY <2>12 DEF OrderWrittenOK
  <2>14. HeldFor(p)' = HeldFor(p) \union picked /\ SoldTo(p)' = SoldTo(p)
    BY <2>8, <2>9, <2>10 DEF HeldFor, SoldTo
  <2>15. HeldFor(p) \intersect picked = {}
    BY <2>8, <2>10 DEF HeldFor
  <2>16. ASSUME NEW v \in Clerks PROVE (Freeing(v, p)' <=> Freeing(v, p)) /\ (Freeing(v, p) => desk'[v].held = desk[v].held)
    <3>1. CASE v = w
      BY <1>1, <1>2, <2>13, <3>1, FreeIsTask DEF Freeing, At
    <3>2. CASE v # w
      BY <2>13, <3>2, FreeingAges
    <3> QED BY <3>1, <3>2
  <2>17. NumbersOK(p)'
    <3> SUFFICES ASSUME p \notin muddled' PROVE NumbersOK(p)'
      BY DEF NumbersOK
    <3>1. p \notin muddled /\ ~t.old
      BY <1>1, <2>12 DEF OrderWrittenOK
    <3>2. t.held = so[p].held /\ t.invoiced = so[p].invoiced
      BY <1>2, <1>3, <3>1 DEF TaskOK, WithCopy
    <3>3. t.held = so[p].held /\ t.invoiced = so[p].invoiced /\ IsInjective(t.picked) /\ Len(t.picked) <= Needed(t)
      BY <1>2, <3>2 DEF TaskOK
    <3>4. /\ IsInjective(so[p].held) /\ Range(so[p].held) \subseteq HeldFor(p)
          /\ CountsOK(p)
      BY <1>4, <3>1 DEF SalesOK, NumbersOK
    <3>5. IsInjective(list)
      BY <2>2, <2>7, <2>15, <3>3, <3>4
    <3>6. Range(list) = Range(so[p].held) \union picked
      BY <2>2, <2>7, <3>3
    <3>7. Len(list) + d.invoiced <= Total(p)'
      <4>1. Total(p)' = Total(p)
        BY <1>2 DEF Total
      <4>2. Needed(t) = Total(p) - t.invoiced - Len(t.held)
        BY <1>3 DEF Needed
      <4>3. Len(t.held) \in Nat /\ Total(p) \in Nat
        BY <1>2, <1>3, NeededIsInt
      <4>4. Len(t.picked) \in Nat
        BY <2>1, ListMembers
      <4>5. Len(list) = Len(t.held) + Len(t.picked) /\ d.invoiced = t.invoiced /\ t.invoiced \in Nat
        BY <2>1, <2>2, <2>5, <3>3
      <4>6. Len(t.picked) <= Total(p) - t.invoiced - Len(t.held)
        BY <3>3, <4>2
      <4>7. PICK a, b, i, k : a = Len(t.held) /\ b = Len(t.picked) /\ i = t.invoiced /\ k = Total(p)
        OBVIOUS
      <4>8. a \in Nat /\ b \in Nat /\ i \in Nat /\ k \in Nat /\ b <= k - i - a
        BY <4>3, <4>4, <4>5, <4>6, <4>7
      <4>9. (a + b) + i <= k
        BY <4>8
      <4> QED BY <4>1, <4>5, <4>7, <4>9
    <3>8. /\ IsInjective(so'[p].held) /\ Range(so'[p].held) \subseteq HeldFor(p)'
          /\ CountsOK(p)'
      <4>1. so'[p].held = list /\ so'[p].invoiced = so[p].invoiced
        BY <2>5, <2>13, <3>3
      <4>2. BilledAsSold(p)' => BilledAsSold(p)
        BY <1>2 DEF BilledAsSold
      <4>3. Len(list) \in Nat /\ so[p].invoiced \in Nat /\ Total(p)' \in Nat
        <5>1. Total(p)' = Total(p) /\ Total(p) \in Nat
          BY <1>2, <1>3, NeededIsInt DEF Total
        <5>2. Len(list) \in Nat
          BY <2>2, ListMembers
        <5>3. t.invoiced \in Nat
          BY <2>1
        <5> QED BY <3>3, <5>1, <5>2, <5>3
      <4>4. Cardinality(SoldTo(p)) \in Nat
        BY PiecesCount DEF SoldTo
      <4>5. Len(list) + so[p].invoiced <= Total(p)'
        BY <3>7, <4>1, <2>13
      <4>6. CountsOK(p)'
        BY <2>14, <3>4, <4>1, <4>2, <4>3, <4>4, <4>5 DEF CountsOK
      <4> QED BY <2>14, <3>4, <3>5, <3>6, <4>1, <4>6
    <3>9. ASSUME NEW v \in Clerks, Freeing(v, p)'
          PROVE  /\ IsInjective(desk'[v].held) /\ Range(desk'[v].held) \subseteq HeldFor(p)' \ Range(so'[p].held)
                 /\ \A o \in Clerks \ {v} : Freeing(o, p)' => Range(desk'[o].held) \intersect Range(desk'[v].held) = {}
      <4>1. Freeing(v, p) /\ desk'[v].held = desk[v].held
        BY <2>16, <3>9
      <4>2. IsInjective(desk[v].held) /\ Range(desk[v].held) \subseteq HeldFor(p) \ Range(so[p].held)
        BY <1>4, <3>1, <4>1 DEF SalesOK, NumbersOK
      <4>3. Range(desk[v].held) \subseteq HeldFor(p)' \ Range(list)
        BY <2>14, <2>15, <3>6, <4>2
      <4>4. ASSUME NEW o \in Clerks \ {v}, Freeing(o, p)'
            PROVE  Range(desk'[o].held) \intersect Range(desk'[v].held) = {}
        <5>1. Freeing(o, p) /\ desk'[o].held = desk[o].held
          BY <2>16, <4>4
        <5> QED BY <1>4, <3>1, <4>1, <5>1 DEF SalesOK, NumbersOK
      <4> QED BY <2>5, <2>13, <4>1, <4>2, <4>3, <4>4
    <3>10. ASSUME NEW x \in HeldFor(p)' \ Range(so'[p].held)
           PROVE  \E v \in Clerks : Freeing(v, p)' /\ x \in Range(desk'[v].held)
      <4>1. x \in HeldFor(p) \ Range(so[p].held)
        BY <2>5, <2>13, <2>14, <3>6, <3>10
      <4>2. PICK v \in Clerks : Freeing(v, p) /\ x \in Range(desk[v].held)
        BY <1>4, <3>1, <4>1 DEF SalesOK, NumbersOK
      <4> QED BY <2>16, <4>2
    <3> QED BY <3>8, <3>9, <3>10 DEF NumbersOK
  <2>18. \A x \in Pieces : piece'[x] \in PieceDocs /\ PieceOK(x)'
    <3> SUFFICES ASSUME NEW x \in Pieces PROVE piece'[x] \in PieceDocs /\ PieceOK(x)'
      OBVIOUS
    <3>1. CASE x \in picked
      <4>1. so'[p] # None
        BY <1>4, <2>13 DEF OrdersStay
      <4> QED BY <2>9, <2>10, <3>1, <4>1 DEF PieceOK
    <3>2. CASE x \notin picked
      <4>1. piece'[x] = piece[x] /\ piece[x] \in PieceDocs /\ PieceOK(x)
        BY <2>9, <3>2 DEF SalesOK, SalesTypeOK
      <4> QED BY <2>13, <4>1 DEF PieceOK, PieceDocs, OrdersStay
    <3> QED BY <3>1, <3>2
  <2>19. SalesTypeOK'
    <3>1. piece' \in [Pieces -> PieceDocs]
      BY <1>9, <2>18
    <3> QED BY <1>2, <2>12, <3>1 DEF SalesOK, SalesTypeOK, OrderWrittenOK
  <2>20. InvoicesOK' /\ SoldOnOneInvoice'
    <3>1. InvoicesOK' /\ SoldOnOneInvoice /\ invoice' = invoice
      BY <1>2 DEF SalesOK, InvoicesOK
    <3>2. \A x \in Pieces : (piece'[x].status = "SOLD" <=> piece[x].status = "SOLD") /\ piece'[x].buyer = piece[x].buyer
      BY <1>9, <2>7, <2>8, <2>9
    <3> QED BY <3>1, <3>2 DEF SoldOnOneInvoice
  <2> QED BY <2>12, <2>17, <2>18, <2>19, <2>20 DEF SalesOK, OrderWrittenOK
<1> QED BY <1>1, <1>3, <1>5, <1>6, <1>7, <1>8, <1>9 DEF HoldPieces

LEMMA WithdrawStep ==
  ASSUME EnquiryOK, SalesOK, NEW w \in Clerks, Withdraw(w), UNCHANGED <<applied, credited>>
  PROVE  SalesOK'
<1>1. PICK t : t = desk[w]
  OBVIOUS
<1>2. t \in Tasks /\ TaskOK(t) /\ t.job \in {"release", "cancel"} /\ ~At(w, "free")
      /\ UNCHANGED <<piece, invoice, ar, po, quote>>
  BY <1>1 DEF SalesOK, SalesTypeOK, Withdraw, At
<1>3. PICK p : p = t.po
  OBVIOUS
<1>4. p \in Enquiries /\ so[p] # None
  BY <1>2, <1>3 DEF TaskOK
<1>5. PICK to : to = IF t.job = "cancel" THEN "CANCELLED" ELSE "CONFIRMED"
  OBVIOUS
<1>6. PICK u : u = IF t.held = <<>> THEN Free ELSE [t EXCEPT !.job = "free"]
  OBVIOUS
<1>7. CASE UNCHANGED <<so, muddled>> /\ Rest(w)
  BY <1>2, <1>7, ClerkRests
<1>8. CASE so' = [so EXCEPT ![p].status = to, ![p].held = <<>>] /\ WritesOrder(w, p, u)
  <2>1. <<>> \in Seq(Pieces)
    BY EmptySeq
  <2>2. PICK c : c = so[p]
    OBVIOUS
  <2>3. PICK b : b = [c EXCEPT !.status = to]
    OBVIOUS
  <2>4. PICK d : d = [b EXCEPT !.held = <<>>]
    OBVIOUS
  <2>5. c \in SalesOrderDocs /\ so \in [Enquiries -> SalesOrderDocs \union {None}]
    BY <1>4, <2>2 DEF SalesOK, SalesTypeOK
  <2>6. b \in SalesOrderDocs /\ b.invoiced = c.invoiced
    BY <1>5, <2>3, <2>5 DEF SalesOrderDocs, SOTransitions
  <2>7. d \in SalesOrderDocs /\ d.held = <<>> /\ d.invoiced = so[p].invoiced
    BY <2>1, <2>2, <2>4, <2>6 DEF SalesOrderDocs
  <2>8. so' = [so EXCEPT ![p] = d]
    BY <1>4, <1>8, <2>2, <2>3, <2>4, <2>5
  <2>9. d # None
    BY <2>7, SalesDocumentsAssumption
  <2>10. u \in Tasks /\ (u.job = "none" \/ u.po = p) /\ TaskOK(u)'
    <3>1. CASE t.held = <<>>
      BY <1>6, <3>1, FreeIsTask
    <3>2. CASE t.held # <<>>
      <4>1. u = [t EXCEPT !.job = "free"]
        BY <1>6, <3>2
      <4>2. u \in Tasks /\ u.job = "free" /\ u.po = p
        BY <1>2, <1>3, <4>1 DEF Tasks
      <4>3. so'[p] # None
        BY <1>4, <2>5, <2>8, <2>9
      <4> QED BY <1>4, <4>2, <4>3 DEF TaskOK, WithCopy
    <3> QED BY <3>1, <3>2
  <2>11. u.job = "free" => u.po = p /\ u.held = t.held
    <3>1. CASE t.held = <<>>
      BY <1>6, <3>1, FreeIsTask
    <3>2. CASE t.held # <<>>
      <4>1. u = [t EXCEPT !.job = "free"]
        BY <1>6, <3>2
      <4> QED BY <1>2, <1>3, <4>1 DEF Tasks
    <3> QED BY <3>1, <3>2
  <2>12. t.held # <<>> => u.job = "free" /\ u.po = p
    <3> SUFFICES ASSUME t.held # <<>> PROVE u.job = "free" /\ u.po = p
      OBVIOUS
    <3>1. u = [t EXCEPT !.job = "free"]
      BY <1>6
    <3> QED BY <1>2, <1>3, <3>1 DEF Tasks
  <2>13. OrderWrittenOK(w, p, d, u)
    <3>1. po' = po /\ desk[w].po = p /\ WritesOrder(w, p, u)
      BY <1>1, <1>2, <1>3, <1>8
    <3>2. \A q \in Enquiries \ {p}, x \in Pieces :
            (piece'[x].holder = q <=> piece[x].holder = q) /\ (piece'[x].buyer = q <=> piece[x].buyer = q)
      BY <1>2
    <3>3. InvoicesStay
      BY <1>2 DEF InvoicesStay
    <3> QED BY <1>4, <2>7, <2>8, <2>10, <3>1, <3>2, <3>3, OrderWritten
  <2>14. desk'[w] = u /\ so'[p] = d /\ OrdersStay /\ \A v \in Clerks \ {w} : Ages(desk[v], desk'[v])
    BY <2>13 DEF OrderWrittenOK
  <2>15. HeldFor(p)' = HeldFor(p) /\ SoldTo(p)' = SoldTo(p) /\ Total(p)' = Total(p)
    BY <1>2 DEF HeldFor, SoldTo, Total
  <2>16. \A v \in Clerks \ {w} : (Freeing(v, p)' <=> Freeing(v, p)) /\ desk'[v].held = desk[v].held
    BY <2>14, FreeingAges
  <2>17. NumbersOK(p)'
    <3> SUFFICES ASSUME p \notin muddled' PROVE NumbersOK(p)'
      BY DEF NumbersOK
    <3>1. p \notin muddled /\ ~t.old
      BY <1>1, <2>13 DEF OrderWrittenOK
    <3>2. t.held = so[p].held
      BY <1>2, <1>3, <3>1 DEF TaskOK, WithCopy
    <3>3. IsInjective(so[p].held) /\ Range(so[p].held) \subseteq HeldFor(p) /\ CountsOK(p)
      BY <1>4, <3>1 DEF SalesOK, NumbersOK
    <3>4. CountsOK(p)'
      <4>1. so'[p].held = <<>> /\ so'[p].invoiced = so[p].invoiced /\ Len(so'[p].held) = 0
        BY <2>2, <2>7, <2>14, NoPiecesListed
      <4>2. BilledAsSold(p)' => BilledAsSold(p)
        BY <1>2 DEF BilledAsSold
      <4>3. Len(so[p].held) \in Nat /\ Total(p) \in Nat
        <5>1. PICK l : l = so[p].held
          OBVIOUS
        <5>2. l \in Seq(Pieces)
          BY <2>2, <2>5, <5>1 DEF SalesOrderDocs
        <5> QED BY <1>2, <1>3, <5>1, <5>2, NeededIsInt, ListMembers
      <4>4. Cardinality(SoldTo(p)) \in Nat
        BY PiecesCount DEF SoldTo
      <4> QED BY <2>15, <3>3, <4>1, <4>2, <4>3, <4>4 DEF CountsOK
    <3>5. IsInjective(so'[p].held) /\ Range(so'[p].held) = {}
      BY <2>7, <2>14, NoPiecesListed
    <3>6. ASSUME NEW v \in Clerks \ {w}, Freeing(v, p)'
          PROVE  /\ Freeing(v, p) /\ desk'[v].held = desk[v].held /\ IsInjective(desk[v].held)
                 /\ Range(desk[v].held) \subseteq HeldFor(p) \ Range(so[p].held)
      BY <1>4, <2>16, <3>1, <3>6 DEF SalesOK, NumbersOK
    <3>7. Freeing(w, p)' => desk'[w].held = so[p].held
      BY <2>11, <2>14, <3>2 DEF Freeing, At
    <3>8. ASSUME NEW v \in Clerks, Freeing(v, p)'
          PROVE  /\ IsInjective(desk'[v].held) /\ Range(desk'[v].held) \subseteq HeldFor(p)' \ Range(so'[p].held)
                 /\ \A o \in Clerks \ {v} : Freeing(o, p)' => Range(desk'[o].held) \intersect Range(desk'[v].held) = {}
      <4>1. IsInjective(desk'[v].held) /\ Range(desk'[v].held) \subseteq HeldFor(p)' \ Range(so'[p].held)
        <5>1. CASE v = w
          BY <2>15, <3>3, <3>5, <3>7, <3>8, <5>1
        <5>2. CASE v # w
          BY <2>15, <3>5, <3>6, <3>8, <5>2
        <5> QED BY <5>1, <5>2
      <4>2. ASSUME NEW o \in Clerks \ {v}, Freeing(o, p)'
            PROVE  Range(desk'[o].held) \intersect Range(desk'[v].held) = {}
        <5>1. CASE v # w /\ o # w
          <6>1. Freeing(o, p) /\ Freeing(v, p) /\ desk'[o].held = desk[o].held /\ desk'[v].held = desk[v].held
            BY <3>6, <3>8, <4>2, <5>1
          <6> QED BY <1>4, <3>1, <6>1 DEF SalesOK, NumbersOK
        <5>2. CASE v = w
          <6>1. Range(desk'[o].held) \intersect Range(so[p].held) = {}
            BY <3>6, <4>2, <5>2
          <6> QED BY <3>7, <3>8, <5>2, <6>1
        <5>3. CASE o = w
          <6>1. Range(desk'[v].held) \intersect Range(so[p].held) = {}
            BY <3>6, <3>8, <5>3
          <6> QED BY <3>7, <4>2, <5>3, <6>1
        <5> QED BY <5>1, <5>2, <5>3
      <4> QED BY <4>1, <4>2
    <3>9. ASSUME NEW x \in HeldFor(p)' \ Range(so'[p].held)
          PROVE  \E v \in Clerks : Freeing(v, p)' /\ x \in Range(desk'[v].held)
      <4>1. x \in HeldFor(p)
        BY <2>15, <3>9
      <4>2. CASE x \in Range(so[p].held)
        <5>1. t.held # <<>>
          BY <3>2, <4>2, NoPiecesListed
        <5>2. Freeing(w, p)'
          BY <2>12, <2>14, <5>1 DEF Freeing, At
        <5> QED BY <3>7, <4>2, <5>2
      <4>3. CASE x \notin Range(so[p].held)
        <5>1. PICK v \in Clerks : Freeing(v, p) /\ x \in Range(desk[v].held)
          BY <1>4, <3>1, <4>1, <4>3 DEF SalesOK, NumbersOK
        <5>2. v # w
          BY <1>2, <5>1 DEF Freeing
        <5> QED BY <2>16, <5>1, <5>2
      <4> QED BY <4>2, <4>3
    <3> QED BY <2>15, <3>4, <3>5, <3>8, <3>9 DEF NumbersOK
  <2>18. SalesTypeOK'
    BY <1>2, <2>13 DEF SalesOK, SalesTypeOK, OrderWrittenOK
  <2>19. (\A x \in Pieces : PieceOK(x)') /\ InvoicesOK' /\ SoldOnOneInvoice'
    BY <1>2, <2>14, PiecesKept, InvoicesKept
  <2> QED BY <2>13, <2>17, <2>18, <2>19 DEF SalesOK, OrderWrittenOK
<1> QED BY <1>1, <1>3, <1>5, <1>6, <1>7, <1>8 DEF Withdraw

LEMMA RestIs ==
  ASSUME SalesTypeOK, NEW w \in Clerks, Rest(w)
  PROVE  /\ desk' \in [Clerks -> Tasks] /\ desk'[w] = Free
         /\ \A v \in Clerks \ {w} : desk'[v] = desk[v] /\ Ages(desk[v], desk'[v])
         /\ \A q : ~Freeing(w, q)'
<1>1. desk' = [desk EXCEPT ![w] = Free] /\ desk \in [Clerks -> Tasks]
  BY DEF Rest, Next1, SalesTypeOK
<1>2. desk' \in [Clerks -> Tasks] /\ desk'[w] = Free /\ \A v \in Clerks \ {w} : desk'[v] = desk[v]
  BY <1>1, FreeIsTask
<1> QED BY <1>2, FreeIsTask DEF Ages, Freeing, At

LEMMA FreePiecesStep ==
  ASSUME SalesOK, NEW w \in Clerks, FreePieces(w), UNCHANGED <<applied, credited>>
  PROVE  SalesOK'
<1>1. PICK t : t = desk[w]
  OBVIOUS
<1>2. t \in Tasks /\ TaskOK(t) /\ t.job = "free" /\ UNCHANGED <<so, invoice, ar, muddled, po, quote>>
  BY <1>1 DEF SalesOK, SalesTypeOK, FreePieces, At
<1>3. PICK p : p = t.po
  OBVIOUS
<1>4. p \in Enquiries /\ so[p] # None /\ p # None
  BY <1>2, <1>3, NoneIsNo DEF TaskOK
<1>5. /\ desk' \in [Clerks -> Tasks] /\ desk'[w] = Free
      /\ \A v \in Clerks \ {w} : desk'[v] = desk[v] /\ Ages(desk[v], desk'[v])
      /\ \A q : ~Freeing(w, q)'
  BY RestIs DEF SalesOK, FreePieces
<1>6. Freeing(w, p) /\ \A q \in Enquiries \ {p} : ~Freeing(w, q)
  BY <1>1, <1>2, <1>3 DEF Freeing, At
<1>7. PICK freed : /\ freed = {} \/ (freed = Range(t.held) /\ \A x \in Range(t.held) : piece[x].holder = p)
                   /\ (IsInjective(t.held) /\ \A x \in Range(t.held) : piece[x].holder = p) => freed = Range(t.held)
                   /\ piece' = [x \in Pieces |-> IF x \in freed
                                                 THEN [piece[x] EXCEPT !.status = "AVAILABLE", !.holder = None]
                                                 ELSE piece[x]]
  <2>1. CASE IsInjective(t.held) /\ \A x \in Range(t.held) : piece[x].holder = p
    <3>1. piece' = [x \in Pieces |-> IF x \in Range(t.held)
                                     THEN [piece[x] EXCEPT !.status = "AVAILABLE", !.holder = None] ELSE piece[x]]
      BY <1>1, <1>3, <2>1 DEF FreePieces
    <3> QED BY <2>1, <3>1
  <2>2. CASE ~(IsInjective(t.held) /\ \A x \in Range(t.held) : piece[x].holder = p)
    <3>1. piece' = [x \in Pieces |-> piece[x]]
      BY <1>1, <1>3, <2>2 DEF FreePieces
    <3>2. piece' = [x \in Pieces |-> IF x \in {}
                                     THEN [piece[x] EXCEPT !.status = "AVAILABLE", !.holder = None] ELSE piece[x]]
      BY <3>1
    <3>3. PICK none : none = {}
      OBVIOUS
    <3>4. piece' = [x \in Pieces |-> IF x \in none
                                     THEN [piece[x] EXCEPT !.status = "AVAILABLE", !.holder = None] ELSE piece[x]]
      BY <3>2, <3>3, Zenon
    <3> QED BY <2>2, <3>3, <3>4, Zenon
  <2> QED BY <2>1, <2>2
<1>8. freed \subseteq Pieces /\ \A x \in freed : piece[x].holder = p
  <2>1. t.held \in Seq(Pieces)
    BY <1>2 DEF Tasks
  <2>2. Range(t.held) \subseteq Pieces
    BY <2>1, ListMembers
  <2> QED BY <1>7, <2>2
<1>9. \A x \in freed : piece[x].status = "RESERVED" /\ piece[x].buyer = None
  BY <1>4, <1>8, PieceFields DEF PieceDocs
<1>10. ASSUME NEW x \in Pieces
       PROVE  /\ x \notin freed => piece'[x] = piece[x]
              /\ x \in freed => piece'[x] \in PieceDocs /\ piece'[x].status = "AVAILABLE" /\ piece'[x].holder = None
                                /\ piece'[x].buyer = None
  <2>1. x \notin freed => piece'[x] = piece[x]
    BY <1>7
  <2>2. ASSUME x \in freed
        PROVE  piece'[x] \in PieceDocs /\ piece'[x].status = "AVAILABLE" /\ piece'[x].holder = None
               /\ piece'[x].buyer = None
    <3>1. PICK c : c = piece[x]
      OBVIOUS
    <3>2. PICK b : b = [c EXCEPT !.status = "AVAILABLE"]
      OBVIOUS
    <3>3. PICK e : e = [b EXCEPT !.holder = None]
      OBVIOUS
    <3>4. piece'[x] = e
      BY <1>7, <2>2, <3>1, <3>2, <3>3
    <3>5. c \in PieceDocs /\ c.buyer = None
      BY <1>9, <2>2, <3>1, PieceFields
    <3>6. b \in PieceDocs /\ b.status = "AVAILABLE" /\ b.buyer = None
      BY <3>2, <3>5 DEF PieceDocs
    <3>7. e \in PieceDocs /\ e.status = "AVAILABLE" /\ e.holder = None /\ e.buyer = None
      BY <3>3, <3>6 DEF PieceDocs
    <3> QED BY <3>4, <3>7
  <2> QED BY <2>1, <2>2
<1>11. OrdersStay
  BY <1>2 DEF OrdersStay
<1>12. Around(w, p) /\ InvoicesStay
  <2>1. \A q \in Enquiries \ {p}, x \in Pieces :
          (piece'[x].holder = q <=> piece[x].holder = q) /\ (piece'[x].buyer = q <=> piece[x].buyer = q)
    BY <1>8, <1>9, <1>10, NoneIsNo
  <2>2. InvoicesStay
    BY <1>2 DEF InvoicesStay
  <2> QED BY <1>2, <1>5, <1>6, <1>11, <2>1, <2>2 DEF Around
<1>13. \A v \in Clerks : TaskOK(desk[v])'
  <2>1. TaskOK(desk[w])'
    BY <1>5, FreeIsTask
  <2>2. \A v \in Clerks \ {w} : CopyStays(desk'[v])
    BY <1>2 DEF CopyStays
  <2> QED BY <1>5, <1>11, <2>1, <2>2, DesksAge
<1>14. HeldFor(p)' = HeldFor(p) \ freed /\ SoldTo(p)' = SoldTo(p) /\ Total(p)' = Total(p)
  <2>1. HeldFor(p)' = HeldFor(p) \ freed
    BY <1>4, <1>10 DEF HeldFor
  <2>2. SoldTo(p)' = SoldTo(p)
    BY <1>9, <1>10 DEF SoldTo
  <2>3. Total(p)' = Total(p)
    BY <1>2 DEF Total
  <2> QED BY <2>1, <2>2, <2>3
<1>15. NumbersOK(p)'
  <2> SUFFICES ASSUME p \notin muddled' PROVE NumbersOK(p)'
    BY DEF NumbersOK
  <2>1. p \notin muddled
    BY <1>2
  <2>2. IsInjective(so[p].held) /\ Range(so[p].held) \subseteq HeldFor(p) /\ CountsOK(p)
    BY <1>4, <2>1 DEF SalesOK, NumbersOK
  <2>3. IsInjective(t.held) /\ Range(t.held) \subseteq HeldFor(p) \ Range(so[p].held)
    BY <1>1, <1>4, <1>6, <2>1 DEF SalesOK, NumbersOK
  <2>4. freed = Range(t.held)
    BY <1>7, <2>3 DEF HeldFor
  <2>5. IsInjective(so'[p].held) /\ Range(so'[p].held) \subseteq HeldFor(p)' /\ CountsOK(p)'
    BY <1>2, <1>12, <1>14, <2>2, <2>3, <2>4, CountsKept
  <2>6. ASSUME NEW v \in Clerks, Freeing(v, p)'
        PROVE  /\ IsInjective(desk'[v].held) /\ Range(desk'[v].held) \subseteq HeldFor(p)' \ Range(so'[p].held)
               /\ \A o \in Clerks \ {v} : Freeing(o, p)' => Range(desk'[o].held) \intersect Range(desk'[v].held) = {}
    <3>1. v # w /\ Freeing(v, p) /\ desk'[v].held = desk[v].held
      BY <1>5, <2>6, FreeingAges
    <3>2. IsInjective(desk[v].held) /\ Range(desk[v].held) \subseteq HeldFor(p) \ Range(so[p].held)
      BY <1>4, <2>1, <3>1 DEF SalesOK, NumbersOK
    <3>3. Range(desk[v].held) \intersect Range(t.held) = {}
      BY <1>1, <1>4, <1>6, <2>1, <3>1 DEF SalesOK, NumbersOK
    <3>4. ASSUME NEW o \in Clerks \ {v}, Freeing(o, p)'
          PROVE  Range(desk'[o].held) \intersect Range(desk'[v].held) = {}
      <4>1. Freeing(o, p) /\ desk'[o].held = desk[o].held
        BY <1>5, <3>4, FreeingAges
      <4> QED BY <1>4, <2>1, <3>1, <4>1 DEF SalesOK, NumbersOK
    <3> QED BY <1>2, <1>14, <2>4, <3>1, <3>2, <3>3, <3>4
  <2>7. ASSUME NEW x \in HeldFor(p)' \ Range(so'[p].held)
        PROVE  \E v \in Clerks : Freeing(v, p)' /\ x \in Range(desk'[v].held)
    <3>1. x \in HeldFor(p) \ Range(so[p].held) /\ x \notin Range(t.held)
      BY <1>2, <1>14, <2>4, <2>7
    <3>2. PICK v \in Clerks : Freeing(v, p) /\ x \in Range(desk[v].held)
      BY <1>4, <2>1, <3>1 DEF SalesOK, NumbersOK
    <3>3. v # w
      BY <1>1, <3>1, <3>2
    <3> QED BY <1>5, <3>2, <3>3, FreeingAges
  <2> QED BY <2>5, <2>6, <2>7 DEF NumbersOK
<1>16. \A q \in Enquiries : NumbersOK(q)'
  BY <1>12, <1>15, OthersKept
<1>17. \A q \in Enquiries : OrderOK(q)'
  BY <1>2, OrdersKept
<1>18. \A x \in Pieces : piece'[x] \in PieceDocs /\ PieceOK(x)'
  <2> SUFFICES ASSUME NEW x \in Pieces PROVE piece'[x] \in PieceDocs /\ PieceOK(x)'
    OBVIOUS
  <2>1. CASE x \in freed
    BY <1>10, <2>1 DEF PieceOK
  <2>2. CASE x \notin freed
    <3>1. piece'[x] = piece[x] /\ piece[x] \in PieceDocs /\ PieceOK(x)
      BY <1>10, <2>2 DEF SalesOK, SalesTypeOK
    <3> QED BY <1>2, <3>1 DEF PieceOK
  <2> QED BY <2>1, <2>2
<1>19. SalesTypeOK'
  <2>1. piece' \in [Pieces -> PieceDocs]
    BY <1>7, <1>18
  <2> QED BY <1>2, <1>5, <2>1 DEF SalesOK, SalesTypeOK
<1>20. InvoicesOK' /\ SoldOnOneInvoice'
  <2>1. InvoicesOK' /\ SoldOnOneInvoice /\ invoice' = invoice
    BY <1>2 DEF SalesOK, InvoicesOK
  <2>2. \A x \in Pieces : (piece'[x].status = "SOLD" <=> piece[x].status = "SOLD") /\ piece'[x].buyer = piece[x].buyer
    BY <1>9, <1>10
  <2> QED BY <2>1, <2>2 DEF SoldOnOneInvoice
<1> QED BY <1>13, <1>16, <1>17, <1>18, <1>19, <1>20 DEF SalesOK

LEMMA ClerkDiesStep ==
  ASSUME SalesOK, NEW w \in Clerks, ClerkDies(w), UNCHANGED <<applied, credited>>
  PROVE  SalesOK'
<1>1. Rest(w) /\ UNCHANGED <<so, piece, invoice, ar, po, quote>>
  BY DEF ClerkDies
<1>2. CASE ~At(w, "free")
  BY <1>1, <1>2, ClerkRests DEF ClerkDies
<1>3. CASE At(w, "free")
  <2>1. PICK p : p = desk[w].po
    OBVIOUS
  <2>2. p \in Enquiries /\ muddled' = muddled \union {p}
    BY <1>3, <2>1 DEF SalesOK, TaskOK, At, ClerkDies
  <2>3. /\ desk' \in [Clerks -> Tasks] /\ desk'[w] = Free
        /\ \A v \in Clerks \ {w} : desk'[v] = desk[v] /\ Ages(desk[v], desk'[v])
        /\ \A q : ~Freeing(w, q)'
    BY <1>1, RestIs DEF SalesOK
  <2>4. OrdersStay
    BY <1>1 DEF OrdersStay
  <2>5. Around(w, p)
    <3>1. \A q \in Enquiries \ {p} : ~Freeing(w, q)
      BY <2>1 DEF Freeing
    <3>2. InvoicesStay
      BY <1>1 DEF InvoicesStay
    <3> QED BY <1>1, <2>2, <2>3, <2>4, <3>1, <3>2 DEF Around
  <2>6. NumbersOK(p)'
    BY <2>2 DEF NumbersOK
  <2>7. \A q \in Enquiries : NumbersOK(q)'
    BY <2>5, <2>6, OthersKept
  <2>8. \A v \in Clerks : TaskOK(desk[v])'
    <3>1. TaskOK(desk[w])'
      BY <2>3, FreeIsTask
    <3>2. \A v \in Clerks \ {w} : CopyStays(desk'[v])
      BY <1>1 DEF CopyStays
    <3> QED BY <2>3, <2>4, <3>1, <3>2, DesksAge
  <2>9. SalesTypeOK'
    BY <1>1, <2>2, <2>3 DEF SalesOK, SalesTypeOK
  <2>10. (\A x \in Pieces : PieceOK(x)') /\ (\A q \in Enquiries : OrderOK(q)') /\ InvoicesOK' /\ SoldOnOneInvoice'
    BY <1>1, <2>4, PiecesKept, OrdersKept, InvoicesKept
  <2> QED BY <2>7, <2>8, <2>9, <2>10 DEF SalesOK
<1> QED BY <1>2, <1>3

LEMMA SoldCount ==
  ASSUME NEW S, S \subseteq Pieces, NEW T, T \subseteq Pieces, S \intersect T = {}
  PROVE  Cardinality(S \union T) = Cardinality(S) + Cardinality(T) /\ Cardinality(S) \in Nat /\ Cardinality(T) \in Nat
<1>1. PICK P : P = Pieces
  OBVIOUS
<1>2. IsFiniteSet(P)
  BY <1>1, SalesOrdersAssumption, FS_Interval DEF Pieces
<1>3. IsFiniteSet(S) /\ IsFiniteSet(T)
  BY <1>1, <1>2, FS_Subset
<1>4. Cardinality(S \union T) = Cardinality(S) + Cardinality(T) - Cardinality(S \intersect T)
  BY <1>3, FS_Union
<1>5. Cardinality(S) \in Nat /\ Cardinality(T) \in Nat
  BY <1>3, FS_CardinalityType
<1>6. Cardinality(S \intersect T) = 0
  BY FS_EmptySet
<1> QED BY <1>4, <1>5, <1>6

(* What an invoice does to the invoices.                                   *)
LEMMA InvoiceAdded ==
  ASSUME SalesTypeOK, NEW inv \in InvoiceDocs, invoice' = Append(invoice, inv), NEW m, m = Len(invoice)
  PROVE  /\ m \in Nat /\ DOMAIN invoice = 1..m /\ DOMAIN invoice' = 1..(m + 1) /\ invoice' \in Seq(InvoiceDocs)
         /\ invoice'[m + 1] = inv /\ \A i \in 1..m : invoice'[i] = invoice[i]
<1>1. invoice \in Seq(InvoiceDocs)
  BY DEF SalesTypeOK
<1>2. m \in Nat /\ DOMAIN invoice = 1..m
  BY <1>1, LenProperties
<1>3. /\ invoice' \in Seq(InvoiceDocs) /\ Len(invoice') = m + 1 /\ invoice'[m + 1] = inv
      /\ \A i \in 1..m : invoice'[i] = invoice[i]
  BY <1>1, AppendProperties
<1>4. DOMAIN invoice' = 1..(m + 1)
  BY <1>3, LenProperties
<1> QED BY <1>2, <1>3, <1>4

(* A sale, as it concerns the pieces and the invoices alone.               *)
LEMMA InvoicesAfterSale ==
  ASSUME SalesOK, NEW p \in Enquiries, NEW sold, sold \subseteq Pieces, sold # {},
         \A x \in sold : piece[x].status # "SOLD",
         \A x \in Pieces \ sold : piece'[x] = piece[x],
         \A x \in sold : piece'[x].status = "SOLD" /\ piece'[x].buyer = p,
         NEW n \in Nat, NEW inv, inv = [so |-> p, items |-> sold, billed |-> n], invoice' = Append(invoice, inv)
  PROVE  invoice' \in Seq(InvoiceDocs) /\ InvoicesOK' /\ SoldOnOneInvoice'
<1>1. PICK m : m = Len(invoice)
  OBVIOUS
<1>2. inv \in InvoiceDocs /\ inv.so = p /\ inv.items = sold
  BY DEF InvoiceDocs
<1>3. /\ m \in Nat /\ DOMAIN invoice = 1..m /\ DOMAIN invoice' = 1..(m + 1) /\ invoice' \in Seq(InvoiceDocs)
      /\ invoice'[m + 1] = inv /\ \A i \in 1..m : invoice'[i] = invoice[i]
  BY <1>1, <1>2, InvoiceAdded DEF SalesOK
<1>4. InvoicesOK'
  <2> SUFFICES ASSUME NEW i \in 1..(m + 1) PROVE invoice'[i].items # {}
    BY <1>3 DEF InvoicesOK
  <2>1. CASE i = m + 1
    BY <1>2, <1>3, <2>1
  <2>2. CASE i # m + 1
    <3>1. i \in 1..m
      BY <1>3, <2>2
    <3> QED BY <1>3, <3>1 DEF SalesOK, InvoicesOK
  <2> QED BY <2>1, <2>2
<1>5. ASSUME NEW x \in Pieces
      PROVE  LET on == {i \in DOMAIN invoice' : x \in invoice'[i].items} IN
               IF piece'[x].status = "SOLD"
               THEN \E i \in on : on = {i} /\ invoice'[i].so = piece'[x].buyer
               ELSE on = {}
  <2>1. PICK before : before = {i \in DOMAIN invoice : x \in invoice[i].items}
    OBVIOUS
  <2>2. PICK on : on = {i \in DOMAIN invoice' : x \in invoice'[i].items}
    OBVIOUS
  <2>3. IF piece[x].status = "SOLD"
        THEN \E i \in before : before = {i} /\ invoice[i].so = piece[x].buyer
        ELSE before = {}
    BY <2>1 DEF SalesOK, SoldOnOneInvoice
  <2>4. before \subseteq 1..m /\ \A i \in 1..m : i \in on <=> i \in before
    <3>1. \A i \in 1..m : i \in 1..(m + 1)
      BY <1>3
    <3> QED BY <1>3, <2>1, <2>2, <3>1
  <2>5. on \subseteq 1..(m + 1) /\ (m + 1 \in on <=> x \in sold)
    <3>1. m + 1 \in 1..(m + 1)
      BY <1>3
    <3> QED BY <1>2, <1>3, <2>2, <3>1
  <2>6. \A i \in 1..(m + 1) : i = m + 1 \/ i \in 1..m
    BY <1>3
  <2>7. CASE x \in sold
    <3>1. before = {}
      BY <2>3, <2>7
    <3>2. on = {m + 1}
      BY <2>4, <2>5, <2>6, <2>7, <3>1
    <3>3. invoice'[m + 1].so = piece'[x].buyer /\ piece'[x].status = "SOLD"
      BY <1>2, <1>3, <2>7
    <3> QED BY <2>2, <3>2, <3>3
  <2>8. CASE x \notin sold
    <3>1. on = before
      BY <2>4, <2>5, <2>6, <2>8
    <3>2. piece'[x] = piece[x]
      BY <2>8
    <3>3. \A i \in before : invoice'[i].so = invoice[i].so
      BY <1>3, <2>4
    <3> QED BY <2>2, <2>3, <3>1, <3>2, <3>3
  <2> QED BY <2>7, <2>8
<1>6. SoldOnOneInvoice'
  BY <1>5 DEF SoldOnOneInvoice
<1> QED BY <1>3, <1>4, <1>6

(* No more pieces are sold than are billed, and all of them if it is fewer. *)
LEMMA PiecesSoldIs ==
  ASSUME NEW t, t.held \in Seq(Pieces), t.held # <<>>, t.n \in Nat \ {0}
  PROVE  /\ PiecesSold(t) \in 1..Len(t.held) /\ PiecesSold(t) <= t.n
         /\ PiecesSold(t) = Len(t.held) \/ PiecesSold(t) = t.n
         /\ t.n <= Len(t.held) => PiecesSold(t) = t.n
<1>1. PICK n, e : n = t.n /\ e = Len(t.held)
  OBVIOUS
<1>2. n \in Nat \ {0} /\ e \in Nat \ {0}
  <2>1. PICK l : l = t.held
    OBVIOUS
  <2>2. Len(l) \in Nat /\ (Len(l) = 0 => l = <<>>)
    BY <2>1, ListMembers, EmptySeq
  <2> QED BY <1>1, <2>1, <2>2
<1>3. PICK k : k = IF n <= e THEN n ELSE e
  OBVIOUS
<1>4. k \in {n, e} /\ \A y \in {n, e} : k <= y
  BY <1>2, <1>3
<1>5. \A x \in {n, e} : (\A y \in {n, e} : x <= y) => x = k
  BY <1>2, <1>3
<1>6. Min({n, e}) = k
  BY <1>4, <1>5 DEF Min
<1>7. PiecesSold(t) = k
  BY <1>1, <1>6 DEF PiecesSold
<1> QED BY <1>1, <1>2, <1>3, <1>7

(* The sale clerk w makes: its first k pieces, each once, and none sold;   *)
(* n pieces are billed.                                                    *)
Sells(w, p, sold, list, rest, k, n) ==
  /\ list = SubSeq(desk[w].held, 1, k) /\ rest = SubSeq(desk[w].held, k + 1, Len(desk[w].held))
  /\ IsInjective(list) /\ sold = Range(list) /\ \A x \in sold : Sellable(x, p)
  /\ piece' = [x \in Pieces |-> IF x \in sold THEN [status |-> "SOLD", holder |-> None, buyer |-> p] ELSE piece[x]]
  /\ invoice' = Append(invoice, [so |-> p, items |-> sold, billed |-> n])
  /\ ar' = ar + n
  /\ WritesOrder(w, p, Free)

LEMMA SellPiecesIs ==
  ASSUME SalesOK, NEW w \in Clerks, SellPieces(w)
  PROVE  \/ Rest(w) /\ UNCHANGED <<so, piece, invoice, ar, muddled, po, quote>>
         \/ \E target, sold, list, rest :
              /\ Sells(w, desk[w].po, sold, list, rest, PiecesSold(desk[w]), desk[w].n) /\ target \in DOMAIN SOTransitions
              /\ so' = [so EXCEPT ![desk[w].po].status = target, ![desk[w].po].held = rest,
                                  ![desk[w].po].invoiced = desk[w].invoiced + desk[w].n]
              /\ UNCHANGED <<po, quote>>
<1>1. PICK t : t = desk[w]
  OBVIOUS
<1>2. PICK p : p = t.po
  OBVIOUS
<1>3. PICK list : list = SubSeq(t.held, 1, PiecesSold(t))
  OBVIOUS
<1>4. PICK rest : rest = SubSeq(t.held, PiecesSold(t) + 1, Len(t.held))
  OBVIOUS
<1>5. PICK sold : sold = Range(list)
  OBVIOUS
<1>6. PICK target : target = StatusFor(Total(p), Len(rest), t.invoiced + t.n)
  OBVIOUS
<1>7. UNCHANGED <<po, quote>>
  BY DEF SellPieces
<1>8. \/ /\ IsInjective(list) /\ \A x \in sold : Sellable(x, p)
         /\ piece' = [x \in Pieces |-> IF x \in sold THEN [status |-> "SOLD", holder |-> None, buyer |-> p] ELSE piece[x]]
         /\ invoice' = Append(invoice, [so |-> p, items |-> sold, billed |-> t.n])
         /\ PostSalesInvoice(t.n)
         /\ so' = [so EXCEPT ![p].status = target, ![p].held = rest, ![p].invoiced = t.invoiced + t.n]
         /\ WritesOrder(w, p, Free)
      \/ Rest(w) /\ UNCHANGED <<so, piece, invoice, ar, muddled>>
  BY <1>1, <1>2, <1>3, <1>4, <1>5, <1>6, Zenon DEF SellPieces
<1>9. target \in DOMAIN SOTransitions
  BY <1>6, StatusForIs
<1>10. CASE Rest(w) /\ UNCHANGED <<so, piece, invoice, ar, muddled>>
  BY <1>7, <1>10
<1>11. CASE ~(Rest(w) /\ UNCHANGED <<so, piece, invoice, ar, muddled>>)
  <2>1. Sells(w, p, sold, list, rest, PiecesSold(t), t.n)
    BY <1>1, <1>3, <1>4, <1>5, <1>8, <1>11, Zenon DEF Sells, PostSalesInvoice
  <2>2. so' = [so EXCEPT ![p].status = target, ![p].held = rest, ![p].invoiced = t.invoiced + t.n]
    BY <1>8, <1>11, Zenon
  <2> QED BY <1>1, <1>2, <1>7, <1>9, <2>1, <2>2, Zenon
<1> QED BY <1>10, <1>11

LEMMA SellPiecesStep ==
  ASSUME EnquiryOK, SalesOK, NEW w \in Clerks, SellPieces(w), UNCHANGED <<applied, credited>>
  PROVE  SalesOK'
<1>1. PICK t : t = desk[w]
  OBVIOUS
<1>2. t \in Tasks /\ TaskOK(t) /\ t.job = "invoice" /\ ~At(w, "free")
  BY <1>1 DEF SalesOK, SalesTypeOK, SellPieces, At
<1>3. PICK p : p = t.po
  OBVIOUS
<1>4. p \in Enquiries /\ so[p] # None /\ p # None
  BY <1>2, <1>3, NoneIsNo DEF TaskOK
<1>5. PICK n, k : n = t.n /\ k = PiecesSold(t)
  OBVIOUS
<1>6. CASE Rest(w) /\ UNCHANGED <<so, piece, invoice, ar, muddled, po, quote>>
  BY <1>2, <1>6, ClerkRests
<1>7. ASSUME NEW target, NEW sold, NEW list, NEW rest, Sells(w, p, sold, list, rest, k, n), target \in DOMAIN SOTransitions,
             so' = [so EXCEPT ![p].status = target, ![p].held = rest, ![p].invoiced = t.invoiced + n],
             UNCHANGED <<po, quote>>
      PROVE  SalesOK'
  <2>0. /\ t.held \in Seq(Pieces) /\ t.held # <<>> /\ t.invoiced \in Nat /\ n \in Nat
        /\ k \in 1..Len(t.held) /\ k \in Nat /\ k <= n /\ (k = Len(t.held) \/ k = n)
    <3>1. t.held \in Seq(Pieces) /\ t.held # <<>> /\ t.invoiced \in Nat /\ t.n \in Nat \ {0}
      BY <1>2 DEF Tasks, TaskOK
    <3> QED BY <1>5, <3>1, PiecesSoldIs
  <2>1. list = SubSeq(t.held, 1, k) /\ rest = SubSeq(t.held, k + 1, Len(t.held)) /\ sold = Range(list) /\ IsInjective(list)
    BY <1>1, <1>7 DEF Sells
  <2>2. /\ list \in Seq(Pieces) /\ rest \in Seq(Pieces) /\ Len(list) = k /\ Len(rest) = Len(t.held) - k
        /\ Range(t.held) = sold \union Range(rest)
        /\ IsInjective(t.held) => IsInjective(rest) /\ sold \intersect Range(rest) = {}
    BY <2>0, <2>1, ListParts
  <2>3. Cardinality(sold) = k /\ sold \subseteq Pieces /\ sold # {}
    <3>1. Cardinality(sold) = k
      BY <2>1, <2>2, ListCounts
    <3>2. PICK l : l = list
      OBVIOUS
    <3>3. Range(l) \subseteq Pieces
      BY <2>2, <3>2, ListMembers
    <3>4. sold \subseteq Pieces
      BY <2>1, <3>2, <3>3
    <3>5. sold = {} => Cardinality(sold) = 0
      BY FS_EmptySet, Zenon
    <3>6. k # 0
      BY <2>0
    <3> QED BY <3>1, <3>4, <3>5, <3>6
  <2>4. \A x \in sold : piece[x].status # "SOLD" /\ piece[x].buyer = None /\ piece[x].holder \in {None, p}
    BY <1>7, <2>3, PieceFields DEF Sells, Sellable
  <2>5. /\ \A x \in sold : piece'[x] = [status |-> "SOLD", holder |-> None, buyer |-> p]
        /\ \A x \in Pieces \ sold : piece'[x] = piece[x]
        /\ piece' = [x \in Pieces |-> piece'[x]]
    BY <1>7, <2>3 DEF Sells
  <2>6. \A x \in sold : piece'[x] \in PieceDocs /\ piece'[x].status = "SOLD" /\ piece'[x].holder = None /\ piece'[x].buyer = p
    BY <1>4, <2>5 DEF PieceDocs
  <2>7. PICK c : c = so[p]
    OBVIOUS
  <2>8. PICK a : a = [c EXCEPT !.status = target]
    OBVIOUS
  <2>9. PICK b : b = [a EXCEPT !.held = rest]
    OBVIOUS
  <2>10. PICK d : d = [b EXCEPT !.invoiced = t.invoiced + n]
    OBVIOUS
  <2>11. c \in SalesOrderDocs /\ so \in [Enquiries -> SalesOrderDocs \union {None}]
    BY <1>4, <2>7 DEF SalesOK, SalesTypeOK
  <2>12. a \in SalesOrderDocs
    BY <1>7, <2>8, <2>11 DEF SalesOrderDocs
  <2>13. b \in SalesOrderDocs /\ b.held = rest
    BY <2>2, <2>9, <2>12 DEF SalesOrderDocs
  <2>14. d \in SalesOrderDocs /\ d.held = rest /\ d.invoiced = t.invoiced + n
    <3>1. t.invoiced + n \in Nat
      BY <2>0
    <3> QED BY <2>10, <2>13, <3>1 DEF SalesOrderDocs
  <2>15. so' = [so EXCEPT ![p] = d]
    <3>1. so' = [so EXCEPT ![p] = [so[p] EXCEPT !.status = target, !.held = rest, !.invoiced = t.invoiced + n]]
      BY <1>4, <1>7, <2>11
    <3>2. d = [so[p] EXCEPT !.status = target, !.held = rest, !.invoiced = t.invoiced + n]
      BY <2>7, <2>8, <2>9, <2>10, <2>11 DEF SalesOrderDocs
    <3> QED BY <3>1, <3>2
  <2>16. OrderWrittenOK(w, p, d, Free)
    <3>0. InvoicesStay
      <4>1. PICK inv : inv = [so |-> p, items |-> sold, billed |-> n]
        OBVIOUS
      <4>2. inv \in InvoiceDocs
        BY <1>4, <2>0, <2>3, <4>1 DEF InvoiceDocs
      <4>3. invoice' = Append(invoice, inv)
        BY <1>7, <4>1 DEF Sells
      <4> QED BY <4>2, <4>3, InvoiceAdded DEF InvoicesStay, SalesOK
    <3>1. Free \in Tasks /\ Free.job = "none" /\ TaskOK(Free)'
      BY FreeIsTask
    <3>2. po' = po /\ desk[w].po = p /\ WritesOrder(w, p, Free)
      BY <1>1, <1>3, <1>7 DEF Sells
    <3>3. \A q \in Enquiries \ {p}, x \in Pieces :
            (piece'[x].holder = q <=> piece[x].holder = q) /\ (piece'[x].buyer = q <=> piece[x].buyer = q)
      BY <2>4, <2>5, <2>6, NoneIsNo
    <3> QED BY <1>4, <2>14, <2>15, <3>0, <3>1, <3>2, <3>3, OrderWritten
  <2>17. desk'[w] = Free /\ so'[p] = d /\ OrdersStay /\ \A v \in Clerks \ {w} : Ages(desk[v], desk'[v])
    BY <2>16 DEF OrderWrittenOK
  <2>18. ASSUME NEW v \in Clerks PROVE (Freeing(v, p)' <=> Freeing(v, p)) /\ (Freeing(v, p) => desk'[v].held = desk[v].held)
    <3>1. CASE v = w
      BY <1>1, <1>2, <2>17, <3>1, FreeIsTask DEF Freeing, At
    <3>2. CASE v # w
      BY <2>17, <3>2, FreeingAges
    <3> QED BY <3>1, <3>2
  <2>19. HeldFor(p)' = HeldFor(p) \ sold
    BY <1>4, <2>5, <2>6 DEF HeldFor
  <2>20. SoldTo(p)' = SoldTo(p) \union sold /\ SoldTo(p) \intersect sold = {}
    BY <1>4, <2>3, <2>4, <2>5, <2>6 DEF SoldTo
  <2>21. NumbersOK(p)'
    <3> SUFFICES ASSUME p \notin muddled' PROVE NumbersOK(p)'
      BY DEF NumbersOK
    <3>1. p \notin muddled /\ ~t.old
      BY <1>1, <2>16 DEF OrderWrittenOK
    <3>2. t.held = so[p].held /\ t.invoiced = so[p].invoiced
      BY <1>2, <1>3, <3>1 DEF TaskOK, WithCopy
    <3>3. IsInjective(so[p].held) /\ Range(so[p].held) \subseteq HeldFor(p) /\ CountsOK(p)
      BY <1>4, <3>1 DEF SalesOK, NumbersOK
    <3>4. IsInjective(rest) /\ sold \intersect Range(rest) = {} /\ Range(so[p].held) = sold \union Range(rest)
      BY <2>2, <3>2, <3>3
    <3>5. Cardinality(SoldTo(p)') = Cardinality(SoldTo(p)) + k /\ Cardinality(SoldTo(p)) \in Nat
      <4>1. SoldTo(p) \subseteq Pieces
        BY DEF SoldTo
      <4>2. PICK S : S = SoldTo(p)
        OBVIOUS
      <4>3. Cardinality(S \union sold) = Cardinality(S) + Cardinality(sold) /\ Cardinality(S) \in Nat
        BY <2>3, <2>20, <4>1, <4>2, SoldCount
      <4> QED BY <2>3, <2>20, <4>2, <4>3
    <3>6. BilledAsSold(p)' => BilledAsSold(p) /\ n = k
      <4>1. PICK inv, m : inv = [so |-> p, items |-> sold, billed |-> n] /\ m = Len(invoice)
        OBVIOUS
      <4>2. inv \in InvoiceDocs /\ inv.so = p /\ inv.items = sold /\ inv.billed = n
        BY <1>4, <2>0, <2>3, <4>1 DEF InvoiceDocs
      <4>3. invoice' = Append(invoice, inv)
        BY <1>7, <4>1 DEF Sells
      <4>4. /\ m \in Nat /\ DOMAIN invoice = 1..m /\ DOMAIN invoice' = 1..(m + 1)
            /\ invoice'[m + 1] = inv /\ \A i \in 1..m : invoice'[i] = invoice[i]
        BY <4>1, <4>2, <4>3, InvoiceAdded DEF SalesOK
      <4>5. m + 1 \in 1..(m + 1) /\ \A i \in 1..m : i \in 1..(m + 1)
        BY <4>4
      <4>6. BilledAsSold(p)' => BilledAsSold(p)
        BY <4>4, <4>5 DEF BilledAsSold
      <4>7. BilledAsSold(p)' => n = Cardinality(sold)
        BY <4>2, <4>4, <4>5 DEF BilledAsSold
      <4> QED BY <2>3, <4>6, <4>7
    <3>7. CountsOK(p)'
      <4>1. Total(p)' = Total(p)
        BY <1>7 DEF Total
      <4>2. Total(p) \in Nat /\ Len(t.held) \in Nat
        BY <1>2, <1>3, NeededIsInt
      <4>3. PICK e, i, o, c1 : e = Len(t.held) /\ i = t.invoiced /\ o = Total(p) /\ c1 = Cardinality(SoldTo(p))
        OBVIOUS
      <4>4. e \in Nat /\ i \in Nat /\ o \in Nat /\ c1 \in Nat /\ c1 <= i /\ e + c1 <= o /\ e + i <= o
        BY <2>0, <3>2, <3>3, <3>5, <4>2, <4>3 DEF CountsOK
      <4>5. c1 + k <= i + n /\ (e - k) + (c1 + k) <= o
        BY <2>0, <4>4
      <4>6. rest # <<>> => (e - k) + (i + n) <= o
        <5>1. k = e => Len(rest) = 0
          BY <2>2, <4>3, <4>4
        <5>2. Len(rest) = 0 => rest = <<>>
          BY <2>2, EmptySeq
        <5>3. rest # <<>> => k = n
          BY <2>0, <4>3, <5>1, <5>2
        <5> QED BY <2>0, <4>4, <5>3
      <4>7. BilledAsSold(p)' => i + n = c1 + k
        BY <3>2, <3>3, <3>6, <4>3 DEF CountsOK
      <4>8. so'[p].held = rest /\ so'[p].invoiced = i + n /\ Len(rest) = e - k /\ Cardinality(SoldTo(p)') = c1 + k
        BY <2>2, <2>14, <2>17, <3>5, <4>3
      <4> QED BY <4>1, <4>3, <4>5, <4>6, <4>7, <4>8 DEF CountsOK
    <3>10. IsInjective(so'[p].held) /\ Range(so'[p].held) \subseteq HeldFor(p)'
      BY <2>14, <2>17, <2>19, <3>3, <3>4
    <3>8. ASSUME NEW v \in Clerks, Freeing(v, p)'
          PROVE  /\ IsInjective(desk'[v].held) /\ Range(desk'[v].held) \subseteq HeldFor(p)' \ Range(so'[p].held)
                 /\ \A o \in Clerks \ {v} : Freeing(o, p)' => Range(desk'[o].held) \intersect Range(desk'[v].held) = {}
      <4>1. Freeing(v, p) /\ desk'[v].held = desk[v].held
        BY <2>18, <3>8
      <4>2. IsInjective(desk[v].held) /\ Range(desk[v].held) \subseteq HeldFor(p) \ Range(so[p].held)
        BY <1>4, <3>1, <4>1 DEF SalesOK, NumbersOK
      <4>3. Range(desk[v].held) \subseteq HeldFor(p)' \ Range(rest)
        BY <2>19, <3>4, <4>2
      <4>4. ASSUME NEW o \in Clerks \ {v}, Freeing(o, p)'
            PROVE  Range(desk'[o].held) \intersect Range(desk'[v].held) = {}
        <5>1. Freeing(o, p) /\ desk'[o].held = desk[o].held
          BY <2>18, <4>4
        <5> QED BY <1>4, <3>1, <4>1, <5>1 DEF SalesOK, NumbersOK
      <4> QED BY <2>14, <2>17, <4>1, <4>2, <4>3, <4>4
    <3>9. ASSUME NEW x \in HeldFor(p)' \ Range(so'[p].held)
          PROVE  \E v \in Clerks : Freeing(v, p)' /\ x \in Range(desk'[v].held)
      <4>1. x \in HeldFor(p) \ Range(so[p].held)
        BY <2>14, <2>17, <2>19, <3>4, <3>9
      <4>2. PICK v \in Clerks : Freeing(v, p) /\ x \in Range(desk[v].held)
        BY <1>4, <3>1, <4>1 DEF SalesOK, NumbersOK
      <4> QED BY <2>18, <4>2
    <3> QED BY <3>7, <3>8, <3>9, <3>10 DEF NumbersOK
  <2>22. \A x \in Pieces : piece'[x] \in PieceDocs /\ PieceOK(x)'
    <3> SUFFICES ASSUME NEW x \in Pieces PROVE piece'[x] \in PieceDocs /\ PieceOK(x)'
      OBVIOUS
    <3>1. CASE x \in sold
      <4>1. so'[p] # None
        BY <1>4, <2>17 DEF OrdersStay
      <4> QED BY <1>4, <2>6, <3>1, <4>1 DEF PieceOK
    <3>2. CASE x \notin sold
      <4>1. piece'[x] = piece[x] /\ piece[x] \in PieceDocs /\ PieceOK(x)
        BY <2>5, <3>2 DEF SalesOK, SalesTypeOK
      <4> QED BY <2>17, <4>1 DEF PieceOK, PieceDocs, OrdersStay
    <3> QED BY <3>1, <3>2
  <2>23. invoice' \in Seq(InvoiceDocs) /\ InvoicesOK' /\ SoldOnOneInvoice'
    <3>1. PICK inv : inv = [so |-> p, items |-> sold, billed |-> n]
      OBVIOUS
    <3>2. invoice' = Append(invoice, inv)
      BY <1>7, <3>1 DEF Sells
    <3> QED BY <1>4, <2>0, <2>3, <2>4, <2>5, <2>6, <3>1, <3>2, InvoicesAfterSale
  <2>24. SalesTypeOK'
    <3>1. piece' \in [Pieces -> PieceDocs]
      BY <2>5, <2>22
    <3>2. ar' \in Int
      <4>1. ar \in Int /\ ar' = ar + n
        BY <1>7 DEF Sells, SalesOK, SalesTypeOK
      <4> QED BY <2>0, <4>1
    <3> QED BY <2>16, <2>23, <3>1, <3>2 DEF SalesOK, SalesTypeOK, OrderWrittenOK
  <2> QED BY <2>16, <2>21, <2>22, <2>23, <2>24 DEF SalesOK, OrderWrittenOK
<1>8. \/ Rest(w) /\ UNCHANGED <<so, piece, invoice, ar, muddled, po, quote>>
      \/ \E target, sold, list, rest :
           /\ Sells(w, p, sold, list, rest, k, n) /\ target \in DOMAIN SOTransitions
           /\ so' = [so EXCEPT ![p].status = target, ![p].held = rest, ![p].invoiced = t.invoiced + n]
           /\ UNCHANGED <<po, quote>>
  BY <1>1, <1>3, <1>5, SellPiecesIs, Zenon
<1> QED BY <1>6, <1>7, <1>8

(* A step that writes no order and no piece: the enquiries', or the money's. *)
LEMMA SalesKept ==
  ASSUME SalesOK, SalesTypeOK', ConvertedStays, UNCHANGED <<so, piece, invoice, muddled>>,
         \A v \in Clerks : Ages(desk[v], desk'[v])
  PROVE  SalesOK'
<1>1. \A p \in Enquiries : so[p] # None => po'[p] = po[p]
  BY DEF SalesOK, OrderOK, ConvertedStays
<1>2. OrdersStay
  BY <1>1 DEF OrdersStay
<1>3. (\A x \in Pieces : PieceOK(x)') /\ (\A p \in Enquiries : OrderOK(p)') /\ InvoicesOK' /\ SoldOnOneInvoice'
  BY <1>1, <1>2, PiecesKept, OrdersKept, InvoicesKept
<1>4. ASSUME NEW v \in Clerks PROVE TaskOK(desk[v])'
  <2>1. PICK t, u : t = desk[v] /\ u = desk'[v]
    OBVIOUS
  <2>2. TaskOK(t) /\ Ages(t, u) /\ CopyStays(u)
    BY <2>1 DEF SalesOK, CopyStays
  <2>3. TaskOK(u)'
    BY <1>2, <2>2, TaskAges
  <2> QED BY <2>1, <2>3
<1>5. ASSUME NEW p \in Enquiries PROVE NumbersOK(p)'
  <2>1. HeldFor(p)' = HeldFor(p) /\ SoldTo(p)' = SoldTo(p)
    BY DEF HeldFor, SoldTo
  <2>2. so'[p] # None => so[p] # None /\ Total(p)' = Total(p)
    BY <1>1 DEF Total
  <2>3. \A v \in Clerks : (Freeing(v, p)' <=> Freeing(v, p)) /\ (Freeing(v, p) => desk'[v].held = desk[v].held)
    BY FreeingAges
  <2>4. NumbersOK(p) /\ InvoicesStay
    BY DEF SalesOK, InvoicesStay
  <2> QED BY <2>1, <2>2, <2>3, <2>4, NumbersKept
<1> QED BY <1>3, <1>4, <1>5 DEF SalesOK

LEMMA CommitmentKeepsSales ==
  ASSUME EnquiryOK, SalesOK, EnquiryOK', Commitment, UNCHANGED <<applied, credited>>
  PROVE  SalesOK'
<1>1. PICK w \in Clerks :
        \/ \E p \in Enquiries : \/ \E may \in BOOLEAN : StartConvert(w, p, may) \/ StartApproveCredit(w, p, may)
                                \/ CommitOrder(w, p)
        \/ CheckCredit(w) \/ CommitApproval(w)
  BY DEF Commitment
<1> QED BY <1>1, StartConvertStep, StartApproveCreditStep, CommitOrderStep, CheckCreditStep, CommitApprovalStep

LEMMA FulfilmentKeepsSales ==
  ASSUME EnquiryOK, SalesOK, Fulfilment \/ Cancelling, UNCHANGED <<applied, credited>>
  PROVE  SalesOK'
<1>1. PICK w \in Clerks :
        \/ \E p \in Enquiries : \/ StartAllocate(w, p)
                                \/ \E action \in {"release", "cancel"} : StartWithdraw(w, p, action)
                                \/ \E n \in 1..(MaxNamed * MaxPieces) : StartInvoice(w, p, n)
        \/ PickPieces(w) \/ HoldPieces(w) \/ Withdraw(w) \/ FreePieces(w) \/ SellPieces(w) \/ ClerkDies(w)
  BY DEF Fulfilment, Cancelling
<1>2. CASE \E p \in Enquiries : \/ StartAllocate(w, p)
                                \/ \E action \in {"release", "cancel"} : StartWithdraw(w, p, action)
                                \/ \E n \in 1..(MaxNamed * MaxPieces) : StartInvoice(w, p, n)
  BY <1>2, StartAllocateStep, StartWithdrawStep, StartInvoiceStep, BilledIsNat
<1>3. CASE PickPieces(w) \/ HoldPieces(w) \/ Withdraw(w) \/ FreePieces(w) \/ SellPieces(w) \/ ClerkDies(w)
  BY <1>3, PickPiecesStep, HoldPiecesStep, WithdrawStep, FreePiecesStep, SellPiecesStep, ClerkDiesStep
<1> QED BY <1>1, <1>2, <1>3

LEMMA EnquiriesKeepSales ==
  ASSUME EnquiryOK, SalesOK, EnquiryStep, UNCHANGED salesVars
  PROVE  SalesOK'
<1>1. ConvertedStays
  BY StepLeavesConverted DEF EnquiryOK
<1>2. UNCHANGED <<so, piece, invoice, applied, credited, ar, desk, muddled>>
  BY DEF salesVars
<1>3. SalesTypeOK'
  BY <1>2 DEF SalesOK, SalesTypeOK
<1>4. \A v \in Clerks : Ages(desk[v], desk'[v])
  BY <1>2 DEF Ages
<1> QED BY <1>1, <1>2, <1>3, <1>4, SalesKept

(* What the payments and credit notes leave of the clerks' work: at most a  *)
(* credit check that is out of date.                                       *)
LEMMA OwingAges ==
  ASSUME desk \in [Clerks -> Tasks], OwesAgain \/ UNCHANGED desk
  PROVE  desk' \in [Clerks -> Tasks] /\ \A v \in Clerks : Ages(desk[v], desk'[v])
<1>1. CASE UNCHANGED desk
  BY <1>1 DEF Ages
<1>2. CASE OwesAgain
  <2>1. ASSUME NEW v \in Clerks PROVE desk'[v] \in Tasks /\ Ages(desk[v], desk'[v])
    <3>1. PICK t : t = desk[v]
      OBVIOUS
    <3>2. PICK old : old = (t.old \/ t.job \in Checked)
      OBVIOUS
    <3>3. t \in Tasks /\ t.old \in BOOLEAN
      BY <3>1 DEF Tasks
    <3>4. old \in BOOLEAN /\ (t.old => old)
      BY <3>2, <3>3
    <3>5. PICK u : u = [t EXCEPT !.old = old]
      OBVIOUS
    <3>6. desk'[v] = u
      BY <1>2, <3>1, <3>2, <3>5, Zenon DEF OwesAgain
    <3>7. u \in Tasks /\ Ages(t, u)
      BY <3>3, <3>4, <3>5, TaskAged
    <3> QED BY <3>1, <3>6, <3>7
  <2>2. desk' = [v \in Clerks |-> desk'[v]]
    BY <1>2 DEF OwesAgain
  <2> QED BY <2>1, <2>2
<1> QED BY <1>1, <1>2

LEMMA MoneyKeepsSales ==
  ASSUME SalesOK, UNCHANGED <<po, so, piece, invoice, muddled>>, OwesAgain \/ UNCHANGED desk,
         applied' \in [Payments -> [Invoices -> Nat]], credited' \in [Notes -> CreditNotes \union {None}], ar' \in Int
  PROVE  SalesOK'
<1>1. desk \in [Clerks -> Tasks]
  BY DEF SalesOK, SalesTypeOK
<1>2. desk' \in [Clerks -> Tasks] /\ \A v \in Clerks : Ages(desk[v], desk'[v])
  BY <1>1, OwingAges
<1>3. SalesTypeOK'
  BY <1>2 DEF SalesOK, SalesTypeOK
<1>4. ConvertedStays
  BY DEF ConvertedStays
<1> QED BY <1>2, <1>3, <1>4, SalesKept

-----------------------------------------------------------------------------
(* The money: what is invoiced, paid and credited                           *)

MoneyTypeOK ==
  /\ payment \in [Payments -> PaymentDocs \union {None}]
  /\ posted \in [Payments -> Seq(Nat \ {0})]
  /\ till \in [Cashiers -> Duties]
  /\ applied \in [Payments -> [Invoices -> Nat]]
  /\ credited \in [Notes -> CreditNotes \union {None}]
  /\ ar \in Int
  /\ invoice \in Seq(InvoiceDocs)

Credits == SumOf([n \in IssuedNotes |-> credited[n].amount])

LEMMA InvoicesFinite == IsFiniteSet(Invoices)
BY SalesOrdersAssumption, FS_Interval DEF Invoices

LEMMA AmountsSum ==
  ASSUME NEW s \in [Invoices -> Nat]
  PROVE  SumOf(s) \in Nat /\ \A i \in Invoices : s[i] <= SumOf(s)
BY InvoicesFinite, SumIsNat, SumBoundsParts

LEMMA SharesAreAmounts == Shares \subseteq [Invoices -> Nat]
BY ReceivablesAssumption DEF Shares

LEMMA TotalsAreNat ==
  ASSUME invoice \in Seq(InvoiceDocs), NEW i \in DOMAIN invoice
  PROVE  InvoiceTotal(i) \in Nat
<1>1. invoice[i] \in InvoiceDocs
  OBVIOUS
<1> QED BY <1>1 DEF InvoiceDocs, InvoiceTotal

LEMMA PaidIsNat ==
  ASSUME applied \in [Payments -> [Invoices -> Nat]]
  PROVE  /\ \A y \in Payments : SumOf(applied[y]) \in Nat
         /\ \A i \in Invoices : Paid(i) \in Nat
         /\ Received \in Nat
<1>1. \A y \in Payments : SumOf(applied[y]) \in Nat
  BY AmountsSum
<1>2. ASSUME NEW i \in Invoices PROVE Paid(i) \in Nat
  <2>1. PICK f : f = [y \in Payments |-> applied[y][i]]
    OBVIOUS
  <2>2. f \in [Payments -> Nat]
    BY <2>1
  <2> QED BY <2>1, <2>2, SalesOrdersAssumption, SumIsNat DEF Paid
<1>3. Received \in Nat
  <2>1. PICK f : f = [i \in Invoices |-> Paid(i)]
    OBVIOUS
  <2>2. f \in [Invoices -> Nat]
    BY <1>2, <2>1
  <2> QED BY <2>1, <2>2, AmountsSum DEF Received
<1> QED BY <1>1, <1>2, <1>3

LEMMA PaidIsNatNext ==
  ASSUME applied' \in [Payments -> [Invoices -> Nat]], NEW i \in Invoices
  PROVE  Paid(i)' \in Nat
<1>1. PICK f : f = [y \in Payments |-> applied'[y][i]]
  OBVIOUS
<1>2. f \in [Payments -> Nat]
  BY <1>1
<1> QED BY <1>1, <1>2, SalesOrdersAssumption, SumIsNat DEF Paid

(* s becomes what payment y pays of each invoice.                          *)
LEMMA AppliedChanges ==
  ASSUME applied \in [Payments -> [Invoices -> Nat]], NEW y \in Payments, NEW s \in [Invoices -> Nat],
         applied' = [applied EXCEPT ![y] = s]
  PROVE  /\ applied' \in [Payments -> [Invoices -> Nat]]
         /\ applied'[y] = s /\ \A z \in Payments \ {y} : applied'[z] = applied[z]
         /\ \A i \in Invoices : Paid(i)' = Paid(i) - applied[y][i] + s[i]
         /\ Received' = Received - SumOf(applied[y]) + SumOf(s)
<1>1. /\ applied' \in [Payments -> [Invoices -> Nat]]
      /\ applied'[y] = s /\ \A z \in Payments \ {y} : applied'[z] = applied[z]
  OBVIOUS
<1>2. ASSUME NEW i \in Invoices PROVE Paid(i)' = Paid(i) - applied[y][i] + s[i]
  <2>1. PICK f : f = [z \in Payments |-> applied[z][i]]
    OBVIOUS
  <2>2. PICK g : g = [z \in Payments |-> applied'[z][i]]
    OBVIOUS
  <2>3. f \in [Payments -> Nat] /\ g \in [Payments -> Nat]
    BY <1>1, <2>1, <2>2
  <2>4. \A z \in Payments \ {y} : g[z] = f[z]
    BY <1>1, <2>1, <2>2
  <2>5. f[y] = applied[y][i] /\ g[y] = s[i]
    BY <1>1, <2>1, <2>2
  <2>6. IsFiniteSet(Payments)
    BY SalesOrdersAssumption
  <2>7. SumOf(g) = SumOf(f) - f[y] + g[y]
    BY <2>3, <2>4, <2>6, SumChangedAt
  <2> QED BY <2>1, <2>2, <2>5, <2>7 DEF Paid
<1>3. Received' = Received - SumOf(applied[y]) + SumOf(s)
  <2>1. PICK f : f = [i \in Invoices |-> Paid(i)]
    OBVIOUS
  <2>2. PICK a : a = applied[y]
    OBVIOUS
  <2>3. PICK g : g = [i \in Invoices |-> f[i] - a[i] + s[i]]
    OBVIOUS
  <2>4. PICK h : h = [i \in Invoices |-> f[i] + s[i]]
    OBVIOUS
  <2>5. f \in [Invoices -> Nat] /\ a \in [Invoices -> Nat]
    BY <2>1, <2>2, PaidIsNat
  <2>6. \A i \in Invoices : g[i] \in Nat
    BY <1>1, <1>2, <2>1, <2>2, <2>3, PaidIsNatNext
  <2>7. g \in [Invoices -> Nat] /\ h \in [Invoices -> Nat]
    BY <2>3, <2>4, <2>5, <2>6
  <2>8. SumOf(h) = SumOf(f) + SumOf(s)
    <3>1. \A i \in Invoices : h[i] = f[i] + s[i]
      BY <2>4
    <3> QED BY <2>5, <2>7, <3>1, InvoicesFinite, SumAdds
  <2>9. \A i \in Invoices : h[i] = g[i] + a[i]
    BY <2>3, <2>4, <2>5, <2>7
  <2>10. SumOf(h) = SumOf(g) + SumOf(a)
    BY <2>5, <2>7, <2>9, InvoicesFinite, SumAdds
  <2>11. Received' = SumOf(g)
    BY <1>2, <2>1, <2>2, <2>3 DEF Received
  <2>12. SumOf(f) \in Nat /\ SumOf(a) \in Nat /\ SumOf(s) \in Nat /\ SumOf(g) \in Nat
    BY <2>5, <2>7, AmountsSum
  <2>13. SumOf(g) = SumOf(f) - SumOf(a) + SumOf(s)
    <3>1. PICK u, v, x, z : u = SumOf(f) /\ v = SumOf(a) /\ x = SumOf(s) /\ z = SumOf(g)
      OBVIOUS
    <3>2. u \in Nat /\ v \in Nat /\ x \in Nat /\ z \in Nat /\ u + x = z + v
      BY <2>8, <2>10, <2>12, <3>1
    <3>3. z = u - v + x
      BY <3>2
    <3> QED BY <3>1, <3>3
  <2> QED BY <2>1, <2>2, <2>11, <2>13 DEF Received
<1> QED BY <1>1, <1>2, <1>3

LEMMA BalancesKept ==
  /\ applied' = applied => Received' = Received /\ \A i \in Invoices : Paid(i)' = Paid(i)
  /\ credited' = credited => Credits' = Credits
  /\ invoice' = invoice => Invoiced' = Invoiced /\ \A i \in DOMAIN invoice : InvoiceTotal(i)' = InvoiceTotal(i)
BY DEF Received, Paid, Credits, IssuedNotes, Invoiced, InvoiceTotal

(* The credit notes that stand, when one is written or cancelled.          *)

LEMMA CreditsAre ==
  ASSUME NEW S, S = IssuedNotes
  PROVE  Credits = SumOf([n \in S |-> credited[n].amount])
BY DEF Credits

LEMMA CreditsNext ==
  ASSUME NEW S, S = {n \in Notes : credited'[n] # None /\ credited'[n].status = "ISSUED"}
  PROVE  Credits' = SumOf([n \in S |-> credited'[n].amount])
BY DEF Credits, IssuedNotes

LEMMA NoteFields ==
  ASSUME credited \in [Notes -> CreditNotes \union {None}], NEW n \in Notes, credited[n] # None
  PROVE  credited[n] \in CreditNotes /\ credited[n].amount \in Nat /\ credited[n].status \in {"ISSUED", "CANCELLED"}
BY DEF CreditNotes

LEMMA CreditsAreNat ==
  ASSUME credited \in [Notes -> CreditNotes \union {None}]
  PROVE  Credits \in Nat
<1>1. PICK S : S = IssuedNotes
  OBVIOUS
<1>2. PICK f : f = [n \in S |-> credited[n].amount]
  OBVIOUS
<1>3. S \subseteq Notes /\ \A n \in S : credited[n] # None
  BY <1>1 DEF IssuedNotes
<1>4. f \in [S -> Nat]
  BY <1>2, <1>3, NoteFields
<1>5. IsFiniteSet(S)
  BY <1>3, SalesOrdersAssumption, FS_Subset
<1>6. SumOf(f) \in Nat
  BY <1>4, <1>5, SumIsNat
<1> QED BY <1>1, <1>2, <1>6, CreditsAre

LEMMA CreditsMore ==
  ASSUME credited \in [Notes -> CreditNotes \union {None}], NEW n \in Notes, credited[n] = None,
         NEW d \in CreditNotes, d.status = "ISSUED", credited' = [credited EXCEPT ![n] = d]
  PROVE  Credits' = Credits + d.amount
<1>1. PICK S : S = IssuedNotes
  OBVIOUS
<1>2. PICK T : T = {m \in Notes : credited'[m] # None /\ credited'[m].status = "ISSUED"}
  OBVIOUS
<1>3. PICK f : f = [m \in S |-> credited[m].amount]
  OBVIOUS
<1>4. PICK g : g = [m \in T |-> credited'[m].amount]
  OBVIOUS
<1>5. d # None /\ d.amount \in Nat
  BY SalesDocumentsAssumption DEF CreditNotes
<1>6. credited'[n] = d /\ \A m \in Notes \ {n} : credited'[m] = credited[m]
  OBVIOUS
<1>7. n \notin S /\ T = S \union {n} /\ S \subseteq Notes /\ \A m \in S : credited[m] # None
  BY <1>1, <1>2, <1>5, <1>6 DEF IssuedNotes
<1>8. IsFiniteSet(S)
  BY <1>7, SalesOrdersAssumption, FS_Subset
<1>9. \A m \in S : g[m] = f[m]
  BY <1>3, <1>4, <1>6, <1>7
<1>10. f \in [S -> Nat]
  BY <1>3, <1>7, NoteFields
<1>11. g[n] = d.amount
  BY <1>4, <1>6, <1>7
<1>12. g \in [T -> Nat]
  BY <1>4, <1>5, <1>7, <1>9, <1>10, <1>11
<1>13. SumOf(g) = SumOf(f) + g[n]
  <2>1. n \notin S /\ T = S \union {n}
    BY <1>7
  <2> QED BY <1>8, <1>9, <1>10, <1>12, <2>1, SumExtended
<1>14. Credits = SumOf(f) /\ Credits' = SumOf(g)
  BY <1>1, <1>2, <1>3, <1>4, CreditsAre, CreditsNext
<1> QED BY <1>11, <1>13, <1>14

LEMMA CreditsLess ==
  ASSUME credited \in [Notes -> CreditNotes \union {None}], NEW n \in Notes, credited[n] # None,
         credited[n].status = "ISSUED", NEW d \in CreditNotes, d.status = "CANCELLED",
         credited' = [credited EXCEPT ![n] = d]
  PROVE  Credits' = Credits - credited[n].amount
<1>1. PICK S : S = {m \in Notes : credited'[m] # None /\ credited'[m].status = "ISSUED"}
  OBVIOUS
<1>2. PICK T : T = IssuedNotes
  OBVIOUS
<1>3. PICK f : f = [m \in S |-> credited'[m].amount]
  OBVIOUS
<1>4. PICK g : g = [m \in T |-> credited[m].amount]
  OBVIOUS
<1>6. credited'[n] = d /\ \A m \in Notes \ {n} : credited'[m] = credited[m]
  OBVIOUS
<1>7. n \notin S /\ T = S \union {n} /\ S \subseteq Notes /\ \A m \in T : credited[m] # None
  BY <1>1, <1>2, <1>6 DEF IssuedNotes
<1>8. IsFiniteSet(S)
  BY <1>7, SalesOrdersAssumption, FS_Subset
<1>9. \A m \in S : g[m] = f[m]
  BY <1>3, <1>4, <1>6, <1>7
<1>10. g \in [T -> Nat]
  BY <1>4, <1>7, NoteFields
<1>11. g[n] = credited[n].amount
  BY <1>4, <1>7
<1>12. f \in [S -> Nat]
  BY <1>3, <1>7, <1>9, <1>10
<1>13. SumOf(g) = SumOf(f) + g[n]
  BY <1>7, <1>8, <1>9, <1>10, <1>12, SumExtended
<1>14. Credits' = SumOf(f) /\ Credits = SumOf(g)
  BY <1>1, <1>2, <1>3, <1>4, CreditsAre, CreditsNext
<1>15. SumOf(f) \in Nat /\ g[n] \in Nat
  BY <1>7, <1>8, <1>10, <1>12, SumIsNat
<1> QED BY <1>11, <1>13, <1>14, <1>15

-----------------------------------------------------------------------------
(* What a cashier is at, while the others write *)

PaymentSpared(y) == payment[y] # None => payment'[y] = payment[y] /\ SumOf(applied'[y]) <= SumOf(applied[y])

InvoiceSpared(i) ==
  i \in DOMAIN invoice => i \in DOMAIN invoice' /\ InvoiceTotal(i)' = InvoiceTotal(i) /\ Paid(i)' <= Paid(i)

NotesStay == \A n \in Notes : credited[n] # None => credited'[n] # None

LEMMA CoveredKept ==
  ASSUME MoneyTypeOK, MoneyTypeOK', NEW y \in Payments, NEW shares \in Shares, Covered(y, shares), PaymentSpared(y),
         \A i \in Invoices : shares[i] > 0 => InvoiceSpared(i)
  PROVE  Covered(y, shares)'
<1>1. /\ payment[y] # None /\ payment[y].status = "VERIFIED" /\ SumOf(shares) \in 1..Unapplied(y)
      /\ \A i \in Invoices : shares[i] > 0 => i \in DOMAIN invoice /\ shares[i] <= InvoiceTotal(i) - Paid(i)
  BY DEF Covered
<1>2. payment'[y] = payment[y] /\ SumOf(applied'[y]) <= SumOf(applied[y])
  BY <1>1 DEF PaymentSpared
<1>3. SumOf(shares) \in 1..Unapplied(y)'
  <2>1. PICK m, n, k, a : m = SumOf(applied'[y]) /\ n = SumOf(applied[y]) /\ k = SumOf(shares) /\ a = payment[y].amount
    OBVIOUS
  <2>2. payment[y] \in PaymentDocs
    BY <1>1 DEF MoneyTypeOK
  <2>3. a \in Nat
    BY <2>1, <2>2, ReceivablesAssumption DEF PaymentDocs
  <2>4. m \in Nat /\ n \in Nat
    BY <2>1, AmountsSum DEF MoneyTypeOK
  <2>5. k \in 1..(a - n) /\ m <= n
    BY <1>1, <1>2, <2>1 DEF Unapplied
  <2>6. k \in 1..(a - m)
    BY <2>3, <2>4, <2>5
  <2>7. Unapplied(y)' = a - m
    BY <1>2, <2>1 DEF Unapplied
  <2> QED BY <2>1, <2>6, <2>7
<1>4. ASSUME NEW i \in Invoices, shares[i] > 0
      PROVE  i \in DOMAIN invoice' /\ shares[i] <= InvoiceTotal(i)' - Paid(i)'
  <2>1. i \in DOMAIN invoice /\ shares[i] <= InvoiceTotal(i) - Paid(i)
    BY <1>1, <1>4
  <2>2. i \in DOMAIN invoice' /\ InvoiceTotal(i)' = InvoiceTotal(i) /\ Paid(i)' <= Paid(i)
    BY <1>4, <2>1 DEF InvoiceSpared
  <2>3. PICK s, t, m, n : s = shares[i] /\ t = InvoiceTotal(i) /\ m = Paid(i)' /\ n = Paid(i)
    OBVIOUS
  <2>4. s \in Nat
    BY <2>3, SharesAreAmounts
  <2>5. t \in Nat
    BY <2>1, <2>3, TotalsAreNat DEF MoneyTypeOK
  <2>6. m \in Nat /\ n \in Nat
    BY <2>3, PaidIsNat, PaidIsNatNext DEF MoneyTypeOK
  <2>7. s <= t - m
    BY <2>1, <2>2, <2>3, <2>4, <2>5, <2>6
  <2> QED BY <2>2, <2>3, <2>7
<1> QED BY <1>1, <1>2, <1>3, <1>4 DEF Covered

LEMMA TillPersists ==
  ASSUME MoneyTypeOK, MoneyTypeOK', NotesStay, NEW t \in Duties, TillOK(t),
         t.job = "apply-commit" => PaymentSpared(t.payment) /\ \A i \in Invoices : t.shares[i] > 0 => InvoiceSpared(i)
  PROVE  TillOK(t)'
<1>1. t.job = "apply-commit" => Covered(t.payment, t.shares)'
  BY CoveredKept DEF TillOK, Duties
<1> QED BY <1>1 DEF TillOK, NotesStay

LEMMA TillsPersist ==       \* only k does anything, and it is where its own step leads
  ASSUME MoneyTypeOK, MoneyTypeOK', NotesStay, \A v \in Cashiers : TillOK(till[v]), NEW k, NEW t \in Duties,
         \A v \in Cashiers : till'[v] = IF v = k THEN t ELSE till[v],
         TillOK(t)',
         \A y \in Payments : PaymentSpared(y), \A i \in Invoices : InvoiceSpared(i)
  PROVE  \A v \in Cashiers : TillOK(till[v])'
<1> SUFFICES ASSUME NEW v \in Cashiers PROVE TillOK(till[v])'
  OBVIOUS
<1>1. CASE v = k
  BY <1>1
<1>2. CASE v # k
  <2>1. PICK u : u = till[v]
    OBVIOUS
  <2>2. u \in Duties /\ TillOK(u)
    BY <2>1 DEF MoneyTypeOK
  <2>3. TillOK(u)'
    BY <2>2, TillPersists DEF TillOK
  <2> QED BY <1>2, <2>1, <2>3
<1> QED BY <1>1, <1>2

LEMMA AwayIsDuty == Away \in Duties /\ Away.job = "none"
BY ReceivablesAssumption DEF Away, Duties, Shares

LEMMA ApplyAgain ==
  ASSUME NEW u \in Duties, NEW j \in {"apply", "apply-commit"}, NEW d, d = [u EXCEPT !.job = j]
  PROVE  d \in Duties /\ d.job = j /\ d.payment = u.payment /\ d.shares = u.shares
BY DEF Duties

(* A commit by k that wrote payment y and the invoices of S.               *)
LEMMA Superseding ==
  ASSUME MoneyTypeOK, NEW k, NEW y, NEW S, Supersedes(k, y, S)
  PROVE  /\ till' \in [Cashiers -> Duties]
         /\ \A v \in Cashiers :
              \/ till'[v] = Away
              \/ till'[v].job = "apply" /\ till[v].job = "apply-commit" /\ till'[v].payment = till[v].payment
              \/ till'[v] = till[v] /\ ~Meet(till[v], y, S)
<1>1. \A v \in Cashiers :
        till'[v] = IF v = k THEN Away
                   ELSE IF Meet(till[v], y, S) THEN [till[v] EXCEPT !.job = "apply"] ELSE till[v]
  BY DEF Supersedes
<1>2. till' = [v \in Cashiers |-> till'[v]]
  BY DEF Supersedes
<1>3. ASSUME NEW v \in Cashiers
      PROVE  /\ till'[v] \in Duties
             /\ \/ till'[v] = Away
                \/ till'[v].job = "apply" /\ till[v].job = "apply-commit" /\ till'[v].payment = till[v].payment
                \/ till'[v] = till[v] /\ ~Meet(till[v], y, S)
  <2>1. PICK u : u = till[v]
    OBVIOUS
  <2>2. u \in Duties
    BY <2>1 DEF MoneyTypeOK
  <2>3. CASE v = k
    BY <1>1, <2>3, AwayIsDuty
  <2>4. CASE v # k /\ Meet(u, y, S)
    <3>1. PICK d : d = [u EXCEPT !.job = "apply"]
      OBVIOUS
    <3>2. d \in Duties /\ d.job = "apply" /\ d.payment = u.payment
      BY <2>2, <3>1, ApplyAgain
    <3>3. till'[v] = d /\ u.job = "apply-commit"
      BY <1>1, <2>1, <2>4, <3>1 DEF Meet
    <3> QED BY <2>1, <3>2, <3>3
  <2>5. CASE v # k /\ ~Meet(u, y, S)
    BY <1>1, <2>1, <2>2, <2>5
  <2> QED BY <2>3, <2>4, <2>5
<1> QED BY <1>2, <1>3

LEMMA TillsAfterCommit ==
  ASSUME MoneyTypeOK, MoneyTypeOK', NotesStay, \A v \in Cashiers : TillOK(till[v]), NEW k, NEW y, NEW S, Supersedes(k, y, S),
         \A z \in Payments : z # y => PaymentSpared(z),
         \A i \in Invoices : i \notin S => InvoiceSpared(i)
  PROVE  \A v \in Cashiers : TillOK(till[v])'
<1> SUFFICES ASSUME NEW v \in Cashiers PROVE TillOK(till[v])'
  OBVIOUS
<1>1. PICK u : u = till[v]
  OBVIOUS
<1>2. PICK w : w = till'[v]
  OBVIOUS
<1>3. u \in Duties /\ TillOK(u)
  BY <1>1 DEF MoneyTypeOK
<1>4. CASE w = Away
  BY <1>2, <1>4, AwayIsDuty DEF TillOK
<1>5. CASE w.job = "apply" /\ u.job = "apply-commit" /\ w.payment = u.payment
  BY <1>2, <1>3, <1>5 DEF TillOK
<1>6. CASE w = u /\ ~Meet(u, y, S)
  <2>1. ASSUME u.job = "apply-commit"
        PROVE  PaymentSpared(u.payment) /\ \A i \in Invoices : u.shares[i] > 0 => InvoiceSpared(i)
    <3>1. u.payment # y /\ u.payment \in Payments
      BY <1>3, <1>6, <2>1 DEF Meet, TillOK
    <3>2. \A i \in Invoices : u.shares[i] > 0 => i \notin S
      BY <1>6, <2>1 DEF Meet
    <3> QED BY <3>1, <3>2
  <2>2. TillOK(u)'
    BY <1>3, <2>1, TillPersists
  <2> QED BY <1>2, <1>6, <2>2
<1> QED BY <1>1, <1>2, <1>4, <1>5, <1>6, Superseding

(* Nothing a transaction relies on is written.                             *)
LEMMA AllSpared ==
  ASSUME MoneyTypeOK, UNCHANGED <<applied, invoice>>
  PROVE  /\ \A y \in Payments : (payment[y] # None => payment'[y] = payment[y]) => PaymentSpared(y)
         /\ \A i \in Invoices : InvoiceSpared(i)
<1>1. ASSUME NEW y \in Payments PROVE SumOf(applied'[y]) <= SumOf(applied[y])
  BY PaidIsNat DEF MoneyTypeOK
<1>2. ASSUME NEW i \in Invoices PROVE InvoiceSpared(i)
  <2>1. Paid(i)' = Paid(i) /\ Paid(i) \in Nat
    BY BalancesKept, PaidIsNat DEF MoneyTypeOK
  <2>2. Paid(i)' <= Paid(i)
    BY <2>1
  <2>3. i \in DOMAIN invoice => InvoiceTotal(i)' = InvoiceTotal(i)
    BY BalancesKept
  <2> QED BY <2>2, <2>3 DEF InvoiceSpared
<1> QED BY <1>1, <1>2 DEF PaymentSpared

-----------------------------------------------------------------------------
(* The money, when orders are made and invoiced                             *)

LEMMA JournalIs == JournalMatchesDocuments <=> ar = Invoiced - Received - Credits
BY DEF JournalMatchesDocuments, Credits

LEMMA JournalIsNext == JournalMatchesDocuments' <=> ar' = Invoiced' - Received' - Credits'
BY DEF JournalMatchesDocuments, Credits

LEMMA MoneyTypes == MoneyOK /\ SalesTypeOK => MoneyTypeOK
BY DEF MoneyOK, SalesTypeOK, MoneyTypeOK

LEMMA InvoicedIsNat ==
  ASSUME invoice \in Seq(InvoiceDocs)
  PROVE  Invoiced \in Nat
<1>1. PICK m : m = Len(invoice)
  OBVIOUS
<1>2. m \in Nat /\ DOMAIN invoice = 1..m
  BY <1>1
<1>3. PICK f : f = [i \in 1..m |-> InvoiceTotal(i)]
  OBVIOUS
<1>4. f \in [1..m -> Nat]
  BY <1>2, <1>3, TotalsAreNat
<1>5. IsFiniteSet(1..m)
  BY <1>2, FS_Interval
<1>6. SumOf(f) \in Nat
  BY <1>4, <1>5, SumIsNat
<1> QED BY <1>2, <1>3, <1>6 DEF Invoiced

LEMMA MoneyUnmoved ==
  ASSUME MoneyOK, UNCHANGED <<payment, posted, till, applied, credited, invoice, ar>>
  PROVE  MoneyOK'
<1>1. \A i \in Invoices : Paid(i)' = Paid(i) /\ (i \in DOMAIN invoice => InvoiceTotal(i)' = InvoiceTotal(i))
  BY BalancesKept
<1>2. \A i \in Invoices : PaidOK(i)'
  BY <1>1 DEF MoneyOK, PaidOK
<1>3. \A y \in Payments : PaymentOK(y)'
  BY DEF MoneyOK, PaymentOK, PaymentIs
<1>4. ASSUME NEW v \in Cashiers PROVE TillOK(till[v])'
  <2>1. PICK t : t = till[v]
    OBVIOUS
  <2>2. TillOK(t)
    BY <2>1 DEF MoneyOK
  <2>3. (\A i \in Invoices : t.shares[i] > 0 => i \in DOMAIN invoice /\ t.shares[i] <= InvoiceTotal(i) - Paid(i))
          => (\A i \in Invoices : t.shares[i] > 0 => i \in DOMAIN invoice' /\ t.shares[i] <= InvoiceTotal(i)' - Paid(i)')
    BY <1>1
  <2>4. Covered(t.payment, t.shares) => Covered(t.payment, t.shares)'
    BY <2>3 DEF Covered, Unapplied
  <2>5. TillOK(t)'
    BY <2>2, <2>4 DEF TillOK
  <2> QED BY <2>1, <2>5
<1>5. JournalMatchesDocuments'
  BY BalancesKept, JournalIs, JournalIsNext DEF MoneyOK
<1> QED BY <1>2, <1>3, <1>4, <1>5 DEF MoneyOK

(* An invoice more, for what the journal is debited.                       *)
LEMMA InvoicedMore ==
  ASSUME SalesTypeOK, NEW inv \in InvoiceDocs, invoice' = Append(invoice, inv)
  PROVE  Invoiced' = Invoiced + inv.billed
<1>1. PICK m : m = Len(invoice)
  OBVIOUS
<1>2. /\ m \in Nat /\ DOMAIN invoice = 1..m /\ DOMAIN invoice' = 1..(m + 1) /\ invoice' \in Seq(InvoiceDocs)
      /\ invoice'[m + 1] = inv /\ \A i \in 1..m : invoice'[i] = invoice[i]
  BY <1>1, InvoiceAdded
<1>3. PICK e : e = [i \in 1..m |-> invoice[i].billed]
  OBVIOUS
<1>4. PICK f : f = [i \in 1..(m + 1) |-> invoice'[i].billed]
  OBVIOUS
<1>5. e \in [1..m -> Nat]
  BY <1>2, <1>3, TotalsAreNat DEF InvoiceTotal, SalesTypeOK
<1>6. f \in [1..(m + 1) -> Nat]
  <2>1. ASSUME NEW i \in 1..(m + 1) PROVE invoice'[i].billed \in Nat
    <3>1. invoice'[i] \in InvoiceDocs
      BY <1>2, <2>1
    <3> QED BY <3>1 DEF InvoiceDocs
  <2> QED BY <1>4, <2>1
<1>7. \A y \in 1..m : f[y] = e[y]
  BY <1>2, <1>3, <1>4
<1>8. SumOf(f) = SumOf(e) + f[m + 1]
  BY <1>2, <1>5, <1>6, <1>7, SumNumbered
<1>9. f[m + 1] = inv.billed
  BY <1>2, <1>4
<1>10. Invoiced = SumOf(e) /\ Invoiced' = SumOf(f)
  BY <1>2, <1>3, <1>4 DEF Invoiced, InvoiceTotal
<1> QED BY <1>8, <1>9, <1>10

LEMMA MoneyAfterSale ==
  ASSUME MoneyOK, SalesTypeOK, NEW inv \in InvoiceDocs, invoice' = Append(invoice, inv),
         ar' = ar + inv.billed, UNCHANGED <<payment, posted, till, applied, credited>>
  PROVE  MoneyOK'
<1>1. PICK m : m = Len(invoice)
  OBVIOUS
<1>2. /\ m \in Nat /\ DOMAIN invoice = 1..m /\ DOMAIN invoice' = 1..(m + 1) /\ invoice' \in Seq(InvoiceDocs)
      /\ invoice'[m + 1] = inv /\ \A i \in 1..m : invoice'[i] = invoice[i]
  BY <1>1, InvoiceAdded
<1>3. Received' = Received /\ Credits' = Credits /\ \A i \in Invoices : Paid(i)' = Paid(i) /\ Paid(i) \in Nat
  BY BalancesKept, PaidIsNat DEF SalesTypeOK
<1>4. \A i \in 1..m : InvoiceTotal(i)' = InvoiceTotal(i)
  BY <1>2 DEF InvoiceTotal
<1>5. PICK n : n = inv.billed
  OBVIOUS
<1>6. n \in Nat /\ InvoiceTotal(m + 1)' = n
  BY <1>2, <1>5 DEF InvoiceTotal, InvoiceDocs
<1>7. ASSUME NEW i \in Invoices PROVE PaidOK(i)'
  <2>1. Paid(i) <= IF i \in DOMAIN invoice THEN InvoiceTotal(i) ELSE 0
    BY DEF MoneyOK, PaidOK
  <2>2. CASE i \in 1..m
    BY <1>2, <1>3, <1>4, <2>1, <2>2 DEF PaidOK
  <2>3. CASE i \notin 1..m
    <3>1. Paid(i)' = 0
      BY <1>2, <1>3, <2>1, <2>3
    <3>2. i \in 1..(m + 1) => i = m + 1
      BY <1>2, <2>3
    <3>3. i \in DOMAIN invoice' => 0 <= InvoiceTotal(i)'
      BY <1>2, <1>6, <3>2
    <3> QED BY <3>1, <3>3 DEF PaidOK
  <2> QED BY <2>2, <2>3
<1>8. \A y \in Payments : PaymentOK(y)'
  BY DEF MoneyOK, PaymentOK, PaymentIs
<1>9. MoneyTypeOK /\ MoneyTypeOK'
  <2>1. MoneyTypeOK
    BY MoneyTypes
  <2>2. ar' \in Int
    BY <1>5, <1>6, <2>1 DEF MoneyTypeOK
  <2> QED BY <1>2, <2>1, <2>2 DEF MoneyTypeOK
<1>10. ASSUME NEW v \in Cashiers PROVE TillOK(till[v])'
  <2>1. PICK t : t = till[v]
    OBVIOUS
  <2>2. t \in Duties /\ TillOK(t)
    BY <2>1 DEF MoneyOK
  <2>3. NotesStay
    BY DEF NotesStay
  <2>4. ASSUME NEW i \in Invoices PROVE InvoiceSpared(i)
    <3>1. i \in 1..m => i \in 1..(m + 1)
      BY <1>2
    <3>2. Paid(i)' <= Paid(i)
      BY <1>3
    <3> QED BY <1>2, <1>4, <3>1, <3>2 DEF InvoiceSpared
  <2>5. \A y \in Payments : PaymentSpared(y)
    <3>1. \A y \in Payments : SumOf(applied'[y]) <= SumOf(applied[y])
      BY <1>9, PaidIsNat DEF MoneyTypeOK
    <3> QED BY <3>1 DEF PaymentSpared
  <2>6. TillOK(t)'
    BY <1>9, <2>2, <2>3, <2>4, <2>5, TillPersists DEF TillOK
  <2> QED BY <2>1, <2>6
<1>11. JournalMatchesDocuments'
  <2>1. Invoiced' = Invoiced + n
    BY <1>5, InvoicedMore
  <2>2. PICK a, b, r, c : a = ar /\ b = Invoiced /\ r = Received /\ c = Credits
    OBVIOUS
  <2>3. b \in Nat /\ r \in Nat /\ c \in Nat
    BY <1>9, <2>2, InvoicedIsNat, PaidIsNat, CreditsAreNat DEF MoneyTypeOK
  <2>4. a = b - r - c
    BY <2>2, JournalIs DEF MoneyOK
  <2>5. a + n = (b + n) - r - c
    BY <1>6, <2>3, <2>4
  <2>6. ar' = Invoiced' - Received' - Credits'
    BY <1>3, <1>5, <2>1, <2>2, <2>5
  <2> QED BY <2>6, JournalIsNext
<1> QED BY <1>7, <1>8, <1>9, <1>10, <1>11 DEF MoneyOK, MoneyTypeOK

LEMMA CommitmentKeepsMoney ==
  ASSUME MoneyOK, Commitment, UNCHANGED <<applied, credited, payment, posted, till>>
  PROVE  MoneyOK'
<1>1. UNCHANGED <<invoice, ar>>
  BY DEF Commitment, StartConvert, StartApproveCredit, CommitOrder, CheckCredit, CommitApproval
<1> QED BY <1>1, MoneyUnmoved

LEMMA SellPiecesKeepsMoney ==
  ASSUME SalesOK, MoneyOK, NEW w \in Clerks, SellPieces(w), UNCHANGED <<applied, credited, payment, posted, till>>
  PROVE  MoneyOK'
<1>1. PICK t : t = desk[w]
  OBVIOUS
<1>2. t \in Tasks /\ TaskOK(t) /\ t.job = "invoice" /\ t.po \in Enquiries
  BY <1>1 DEF SalesOK, SalesTypeOK, SellPieces, At, TaskOK
<1>3. PICK n, k : n = t.n /\ k = PiecesSold(t)
  OBVIOUS
<1>4. CASE UNCHANGED <<invoice, ar>>
  BY <1>4, MoneyUnmoved
<1>5. ASSUME NEW sold, NEW list, NEW rest, Sells(w, t.po, sold, list, rest, k, n)
      PROVE  MoneyOK'
  <2>1. t.held \in Seq(Pieces) /\ n \in Nat /\ k \in 1..Len(t.held)
    BY <1>2, <1>3, PiecesSoldIs DEF Tasks, TaskOK
  <2>2. list = SubSeq(t.held, 1, k) /\ sold = Range(list)
    BY <1>1, <1>5 DEF Sells
  <2>3. PICK l : l = list
    OBVIOUS
  <2>4. l \in Seq(Pieces)
    BY <2>1, <2>2, <2>3, ListParts
  <2>5. Range(l) \subseteq Pieces
    BY <2>4, ListMembers
  <2>6. PICK inv : inv = [so |-> t.po, items |-> sold, billed |-> n]
    OBVIOUS
  <2>7. inv \in InvoiceDocs /\ inv.billed = n
    BY <1>2, <2>1, <2>2, <2>3, <2>5, <2>6 DEF InvoiceDocs
  <2>8. invoice' = Append(invoice, inv) /\ ar' = ar + inv.billed
    BY <1>5, <2>6, <2>7 DEF Sells
  <2> QED BY <2>7, <2>8, MoneyAfterSale DEF SalesOK
<1>6. UNCHANGED <<invoice, ar>> \/ \E sold, list, rest : Sells(w, t.po, sold, list, rest, k, n)
  BY <1>1, <1>3, SellPiecesIs, Zenon
<1> QED BY <1>4, <1>5, <1>6

LEMMA FulfilmentKeepsMoney ==
  ASSUME SalesOK, MoneyOK, Fulfilment \/ Cancelling, UNCHANGED <<applied, credited, payment, posted, till>>
  PROVE  MoneyOK'
<1>1. CASE \E w \in Clerks : SellPieces(w)
  BY <1>1, SellPiecesKeepsMoney
<1>2. CASE ~\E w \in Clerks : SellPieces(w)
  <2>1. UNCHANGED <<invoice, ar>>
    BY <1>2, ZenonT(40) DEF Fulfilment, Cancelling, StartAllocate, StartWithdraw, StartInvoice, PickPieces, HoldPieces, Withdraw,
         FreePieces, ClerkDies
  <2> QED BY <2>1, MoneyUnmoved
<1> QED BY <1>1, <1>2

-----------------------------------------------------------------------------
(* The money, when it is received, applied, reversed or credited            *)

MoneyStaysOK == MoneyOK' /\ MoneyTypeOK'

LEMMA MoneyIsOK ==
  MoneyOK' <=> /\ payment' \in [Payments -> PaymentDocs \union {None}]
               /\ posted' \in [Payments -> Seq(Nat \ {0})]
               /\ till' \in [Cashiers -> Duties]
               /\ \A y \in Payments : PaymentOK(y)'
               /\ \A i \in Invoices : PaidOK(i)'
               /\ \A k \in Cashiers : TillOK(till[k])'
               /\ JournalMatchesDocuments'
BY DEF MoneyOK

LEMMA MoneyStays ==
  ASSUME MoneyTypeOK', \A y \in Payments : PaymentOK(y)', \A i \in Invoices : PaidOK(i)',
         \A k \in Cashiers : TillOK(till[k])', JournalMatchesDocuments'
  PROVE  MoneyStaysOK
BY MoneyIsOK DEF MoneyStaysOK, MoneyTypeOK

LEMMA PaidKept ==
  ASSUME MoneyOK, UNCHANGED <<applied, invoice>>
  PROVE  \A i \in Invoices : PaidOK(i)'
BY BalancesKept DEF MoneyOK, PaidOK

LEMMA PaymentsKept ==
  ASSUME MoneyOK, UNCHANGED <<payment, posted, applied>>
  PROVE  \A y \in Payments : PaymentOK(y)'
BY DEF MoneyOK, PaymentOK, PaymentIs

LEMMA JournalKept ==
  ASSUME MoneyOK, UNCHANGED <<applied, invoice, credited, ar>>
  PROVE  JournalMatchesDocuments'
BY BalancesKept, JournalIs, JournalIsNext DEF MoneyOK

(* Payment y is written, which no transaction was about to apply.          *)
LEMMA TillsAround ==
  ASSUME MoneyOK, MoneyTypeOK, MoneyTypeOK', NEW y \in Payments, ~PaymentIs(y, "VERIFIED"),
         \A z \in Payments \ {y} : payment'[z] = payment[z], UNCHANGED <<till, applied, invoice, credited>>
  PROVE  \A v \in Cashiers : TillOK(till[v])'
<1> SUFFICES ASSUME NEW v \in Cashiers PROVE TillOK(till[v])'
  OBVIOUS
<1>1. PICK t : t = till[v]
  OBVIOUS
<1>2. t \in Duties /\ TillOK(t)
  BY <1>1 DEF MoneyOK
<1>3. NotesStay
  BY DEF NotesStay
<1>4. ASSUME t.job = "apply-commit"
      PROVE  PaymentSpared(t.payment) /\ \A i \in Invoices : t.shares[i] > 0 => InvoiceSpared(i)
  <2>1. t.payment \in Payments /\ t.payment # y
    BY <1>2, <1>4 DEF TillOK, Covered, PaymentIs
  <2>2. payment'[t.payment] = payment[t.payment]
    BY <2>1
  <2> QED BY <2>1, <2>2, AllSpared
<1>5. TillOK(t)'
  BY <1>2, <1>3, <1>4, TillPersists
<1> QED BY <1>1, <1>5

LEMMA CreatePaymentStep ==
  ASSUME SalesTypeOK, MoneyOK, NEW y \in Payments, NEW u \in Staff, NEW amount \in 1..MaxAmount,
         CreatePayment(y, u, amount), UNCHANGED invoice
  PROVE  MoneyStaysOK
<1>1. MoneyTypeOK
  BY MoneyTypes
<1>2. PICK d : d = [amount |-> amount, by |-> u, verifiedBy |-> None, status |-> "PENDING_VERIFICATION"]
  OBVIOUS
<1>3. d \in PaymentDocs /\ d # None
  <2>1. d \in PaymentDocs
    BY <1>2 DEF PaymentDocs
  <2> QED BY <2>1, PaymentDocumentsAssumption
<1>4. d.status = "PENDING_VERIFICATION"
  BY <1>2
<1>5. payment[y] = None /\ payment' = [payment EXCEPT ![y] = d] /\ UNCHANGED <<posted, till, applied, credited, ar>>
  BY <1>2 DEF CreatePayment
<1>6. payment'[y] = d /\ \A z \in Payments \ {y} : payment'[z] = payment[z]
  BY <1>1, <1>5 DEF MoneyTypeOK
<1>7. MoneyTypeOK'
  BY <1>1, <1>3, <1>5 DEF MoneyTypeOK
<1>8. ASSUME NEW z \in Payments PROVE PaymentOK(z)'
  <2>1. PaymentOK(z)
    BY DEF MoneyOK
  <2>2. CASE z = y
    BY <1>3, <1>4, <1>5, <1>6, <2>1, <2>2 DEF PaymentOK, PaymentIs
  <2>3. CASE z # y
    BY <1>5, <1>6, <2>1, <2>3 DEF PaymentOK, PaymentIs
  <2> QED BY <2>2, <2>3
<1>9. \A v \in Cashiers : TillOK(till[v])'
  BY <1>1, <1>5, <1>6, <1>7, TillsAround DEF PaymentIs
<1> QED BY <1>5, <1>7, <1>8, <1>9, PaidKept, JournalKept, MoneyStays

LEMMA DecidePaymentStep ==
  ASSUME SalesTypeOK, MoneyOK, NEW y \in Payments, NEW u \in Staff, NEW to \in {"VERIFIED", "REJECTED"},
         DecidePayment(y, u, to), UNCHANGED invoice
  PROVE  MoneyStaysOK
<1>1. MoneyTypeOK
  BY MoneyTypes
<1>2. PICK c : c = payment[y]
  OBVIOUS
<1>3. c \in PaymentDocs /\ c # None /\ c.status = "PENDING_VERIFICATION" /\ (to = "VERIFIED" => u # c.by)
  BY <1>1, <1>2 DEF DecidePayment, MoneyTypeOK
<1>4. PICK a : a = [c EXCEPT !.status = to]
  OBVIOUS
<1>5. PICK d : d = [a EXCEPT !.verifiedBy = u]
  OBVIOUS
<1>6. a \in PaymentDocs /\ a.status = to /\ a.by = c.by /\ a.amount = c.amount
  BY <1>3, <1>4 DEF PaymentDocs
<1>7. d \in PaymentDocs /\ d.status = to /\ d.by = c.by /\ d.amount = c.amount /\ d.verifiedBy = u
  BY <1>5, <1>6 DEF PaymentDocs
<1>8. d # None
  BY <1>7, PaymentDocumentsAssumption
<1>9. payment' = [payment EXCEPT ![y] = d] /\ UNCHANGED <<posted, till, applied, credited, ar>>
  <2>1. payment' = [payment EXCEPT ![y] = [payment[y] EXCEPT !.status = to, !.verifiedBy = u]]
    BY <1>1, <1>2, <1>3 DEF DecidePayment, MoneyTypeOK
  <2>2. d = [payment[y] EXCEPT !.status = to, !.verifiedBy = u]
    BY <1>2, <1>3, <1>4, <1>5 DEF PaymentDocs
  <2> QED BY <2>1, <2>2 DEF DecidePayment
<1>10. payment'[y] = d /\ \A z \in Payments \ {y} : payment'[z] = payment[z]
  BY <1>1, <1>9 DEF MoneyTypeOK
<1>11. MoneyTypeOK'
  BY <1>1, <1>7, <1>9 DEF MoneyTypeOK
<1>12. ~PaymentIs(y, "VERIFIED") /\ ~PaymentIs(y, "REVERSED")
  BY <1>2, <1>3 DEF PaymentIs
<1>13. \A i \in Invoices : applied[y][i] = 0
  BY <1>12 DEF MoneyOK, PaymentOK
<1>14. SumOf(applied[y]) = 0
  BY <1>1, <1>13, InvoicesFinite, SumIsZero DEF MoneyTypeOK
<1>15. ASSUME NEW z \in Payments PROVE PaymentOK(z)'
  <2>1. PaymentOK(z)
    BY DEF MoneyOK
  <2>2. CASE z = y
    <3>1. d.amount \in Nat
      BY <1>7, ReceivablesAssumption DEF PaymentDocs
    <3>2. d.status = "VERIFIED" => d.verifiedBy # d.by /\ SumOf(applied'[y]) <= d.amount
      BY <1>3, <1>7, <1>9, <1>14, <3>1
    <3>3. SumOf(posted'[y]) = SumOf(applied'[y])
      BY <1>9, <1>12, <2>1, <2>2 DEF PaymentOK
    <3> QED BY <1>9, <1>10, <1>13, <2>2, <3>2, <3>3 DEF PaymentOK, PaymentIs
  <2>3. CASE z # y
    BY <1>9, <1>10, <2>1, <2>3 DEF PaymentOK, PaymentIs
  <2> QED BY <2>2, <2>3
<1>16. \A v \in Cashiers : TillOK(till[v])'
  BY <1>1, <1>9, <1>10, <1>11, <1>12, TillsAround
<1> QED BY <1>9, <1>11, <1>15, <1>16, PaidKept, JournalKept, MoneyStays

(* A cashier takes up or gives up a task, and writes no document.          *)
LEMMA CashierMoves ==
  ASSUME SalesTypeOK, MoneyOK, NEW w \in Cashiers, NEW t \in Duties, till' = [till EXCEPT ![w] = t], TillOK(t),
         UNCHANGED <<payment, posted, applied, credited, ar, invoice>>
  PROVE  MoneyStaysOK
<1>1. MoneyTypeOK
  BY MoneyTypes
<1>2. MoneyTypeOK'
  BY <1>1 DEF MoneyTypeOK
<1>3. NotesStay /\ (\A y \in Payments : PaymentSpared(y)) /\ \A i \in Invoices : InvoiceSpared(i)
  BY <1>1, AllSpared DEF NotesStay
<1>4. TillOK(t)'
  BY <1>1, <1>2, <1>3, TillPersists DEF TillOK
<1>5. \A v \in Cashiers : TillOK(till[v]) /\ till'[v] = IF v = w THEN t ELSE till[v]
  BY <1>1 DEF MoneyOK, MoneyTypeOK
<1>6. \A v \in Cashiers : TillOK(till[v])'
  BY <1>1, <1>2, <1>3, <1>4, <1>5, TillsPersist
<1> QED BY <1>2, <1>6, PaidKept, PaymentsKept, JournalKept, MoneyStays

LEMMA CashierLeaves ==
  ASSUME SalesTypeOK, MoneyOK, NEW w \in Cashiers, till' = [till EXCEPT ![w] = Away],
         UNCHANGED <<payment, posted, applied, credited, ar, invoice>>
  PROVE  MoneyStaysOK
<1>1. TillOK(Away)
  BY AwayIsDuty DEF TillOK
<1> QED BY <1>1, AwayIsDuty, CashierMoves

LEMMA StartApplyStep ==
  ASSUME SalesTypeOK, MoneyOK, NEW w \in Cashiers, NEW y \in Payments, NEW shares \in Shares,
         StartApply(w, y, shares), UNCHANGED invoice
  PROVE  MoneyStaysOK
<1>1. PICK a : a = [Away EXCEPT !.job = "apply-commit"]
  OBVIOUS
<1>2. PICK b : b = [a EXCEPT !.payment = y]
  OBVIOUS
<1>3. PICK t : t = [b EXCEPT !.shares = shares]
  OBVIOUS
<1>4. a \in Duties /\ a.job = "apply-commit"
  BY <1>1, AwayIsDuty DEF Duties
<1>5. b \in Duties /\ b.job = "apply-commit" /\ b.payment = y
  BY <1>2, <1>4 DEF Duties
<1>6. t \in Duties /\ t.job = "apply-commit" /\ t.payment = y /\ t.shares = shares
  BY <1>3, <1>5 DEF Duties
<1>7. t = [Away EXCEPT !.job = "apply-commit", !.payment = y, !.shares = shares]
  BY <1>1, <1>2, <1>3, AwayIsDuty DEF Duties
<1>8. till' = [till EXCEPT ![w] = t] /\ Covered(y, shares) /\ UNCHANGED <<payment, posted, applied, credited, ar>>
  BY <1>7, Zenon DEF StartApply
<1>9. TillOK(t)
  BY <1>6, <1>8 DEF TillOK
<1> QED BY <1>6, <1>8, <1>9, CashierMoves

LEMMA RetryApplyStep ==
  ASSUME SalesTypeOK, MoneyOK, NEW w \in Cashiers, RetryApply(w), UNCHANGED invoice
  PROVE  MoneyStaysOK
<1>1. PICK t : t = till[w]
  OBVIOUS
<1>2. t \in Duties /\ TillOK(t) /\ t.job = "apply" /\ UNCHANGED <<payment, posted, applied, credited, ar>>
  BY <1>1 DEF MoneyOK, RetryApply, Standing
<1>3. PICK u : u = [t EXCEPT !.job = "apply-commit"]
  OBVIOUS
<1>4. u \in Duties /\ u.job = "apply-commit" /\ u.payment = t.payment /\ u.shares = t.shares
  BY <1>2, <1>3, ApplyAgain
<1>5. \/ Covered(t.payment, t.shares) /\ till' = [till EXCEPT ![w] = u]
      \/ till' = [till EXCEPT ![w] = Away]
  BY <1>1, <1>3 DEF RetryApply
<1>6. Covered(t.payment, t.shares) => TillOK(u)
  BY <1>2, <1>4 DEF TillOK
<1> QED BY <1>2, <1>4, <1>5, <1>6, CashierMoves, CashierLeaves

LEMMA CommitApplyStep ==
  ASSUME SalesTypeOK, MoneyOK, NEW w \in Cashiers, CommitApply(w), UNCHANGED invoice
  PROVE  MoneyStaysOK
<1>1. MoneyTypeOK
  BY MoneyTypes
<1>2. PICK t : t = till[w]
  OBVIOUS
<1>3. t \in Duties /\ t.job = "apply-commit" /\ TillOK(t)
  BY <1>2 DEF MoneyOK, CommitApply, Standing
<1>4. PICK y : y = t.payment
  OBVIOUS
<1>5. PICK shares : shares = t.shares
  OBVIOUS
<1>6. y \in Payments /\ shares \in Shares /\ shares \in [Invoices -> Nat] /\ Covered(y, shares)
  BY <1>3, <1>4, <1>5, SharesAreAmounts DEF TillOK, Duties
<1>7. PICK k : k = SumOf(shares)
  OBVIOUS
<1>8. PICK a : a = applied[y]
  OBVIOUS
<1>9. PICK s : s = [i \in Invoices |-> a[i] + shares[i]]
  OBVIOUS
<1>10. a \in [Invoices -> Nat] /\ s \in [Invoices -> Nat]
  BY <1>1, <1>6, <1>8, <1>9 DEF MoneyTypeOK
<1>11. PICK S : S = {i \in Invoices : shares[i] > 0}
  OBVIOUS
<1>12. /\ applied' = [applied EXCEPT ![y] = s] /\ PostPaymentReceived(y, k) /\ Supersedes(w, y, S)
       /\ UNCHANGED <<payment, credited>>
  <2>1. applied' = [applied EXCEPT ![y] = [i \in Invoices |-> applied[y][i] + shares[i]]]
    BY <1>1, <1>2, <1>4, <1>5, <1>6 DEF CommitApply, MoneyTypeOK
  <2>2. PostPaymentReceived(y, k) /\ Supersedes(w, y, S) /\ UNCHANGED <<payment, credited>>
    BY <1>2, <1>4, <1>5, <1>7, <1>11, Zenon DEF CommitApply
  <2> QED BY <1>8, <1>9, <2>1, <2>2
<1>13. k \in Nat \ {0} /\ k \in Int
  BY <1>6, <1>7 DEF Covered
<1>14. SumOf(a) \in Nat /\ SumOf(s) = SumOf(a) + k
  <2>1. \A i \in Invoices : s[i] = a[i] + shares[i]
    BY <1>9
  <2> QED BY <1>6, <1>7, <1>10, <2>1, InvoicesFinite, SumAdds, AmountsSum
<1>15. /\ applied' \in [Payments -> [Invoices -> Nat]]
       /\ applied'[y] = s /\ \A z \in Payments \ {y} : applied'[z] = applied[z]
       /\ \A i \in Invoices : Paid(i)' = Paid(i) - a[i] + s[i]
       /\ Received' = Received - SumOf(a) + SumOf(s)
  <2>1. applied \in [Payments -> [Invoices -> Nat]]
    BY <1>1 DEF MoneyTypeOK
  <2>2. /\ applied' \in [Payments -> [Invoices -> Nat]]
        /\ applied'[y] = s /\ \A z \in Payments \ {y} : applied'[z] = applied[z]
        /\ \A i \in Invoices : Paid(i)' = Paid(i) - applied[y][i] + s[i]
        /\ Received' = Received - SumOf(applied[y]) + SumOf(s)
    BY <1>6, <1>10, <1>12, <2>1, AppliedChanges
  <2> QED BY <1>8, <2>2
<1>16. \A i \in Invoices : Paid(i)' = Paid(i) + shares[i]
  <2>1. ASSUME NEW i \in Invoices PROVE Paid(i)' = Paid(i) + shares[i]
    <3>1. Paid(i) \in Nat /\ a[i] \in Nat /\ shares[i] \in Nat /\ s[i] = a[i] + shares[i]
      BY <1>1, <1>6, <1>9, <1>10, PaidIsNat DEF MoneyTypeOK
    <3>2. PICK p, b, c : p = Paid(i) /\ b = a[i] /\ c = shares[i]
      OBVIOUS
    <3>3. p - b + (b + c) = p + c
      BY <3>1, <3>2
    <3> QED BY <1>15, <3>1, <3>2, <3>3
  <2> QED BY <2>1
<1>17. posted' = [posted EXCEPT ![y] = Append(posted[y], k)] /\ ar' = ar - k
  BY <1>12 DEF PostPaymentReceived
<1>18. posted[y] \in Seq(Nat \ {0}) /\ Append(posted[y], k) \in Seq(Nat \ {0})
  BY <1>1, <1>6, <1>13 DEF MoneyTypeOK
<1>19. SumOf(Append(posted[y], k)) = SumOf(posted[y]) + k
  <2>1. PICK l : l = posted[y]
    OBVIOUS
  <2>2. l \in Seq(Nat)
    BY <1>18, <2>1
  <2> QED BY <1>13, <2>1, <2>2, SumAppended
<1>20. posted'[y] = Append(posted[y], k) /\ \A z \in Payments \ {y} : posted'[z] = posted[z]
  BY <1>1, <1>6, <1>17 DEF MoneyTypeOK
<1>21. MoneyTypeOK'
  <2>1. posted' \in [Payments -> Seq(Nat \ {0})]
    BY <1>1, <1>6, <1>17, <1>18 DEF MoneyTypeOK
  <2>2. ar' \in Int
    BY <1>1, <1>13, <1>17 DEF MoneyTypeOK
  <2>3. till' \in [Cashiers -> Duties]
    BY <1>1, <1>12, Superseding
  <2> QED BY <1>1, <1>12, <1>15, <2>1, <2>2, <2>3 DEF MoneyTypeOK
<1>22. PaymentIs(y, "VERIFIED") /\ PaymentOK(y) /\ payment[y] \in PaymentDocs /\ k \in 1..Unapplied(y)
  BY <1>1, <1>6, <1>7 DEF Covered, PaymentIs, MoneyOK, MoneyTypeOK
<1>23. ASSUME NEW z \in Payments PROVE PaymentOK(z)'
  <2>1. CASE z # y
    BY <1>12, <1>15, <1>20, <2>1 DEF MoneyOK, PaymentOK, PaymentIs
  <2>2. CASE z = y
    <3>1. payment'[y] = payment[y] /\ payment'[y].status = "VERIFIED" /\ payment'[y].verifiedBy # payment'[y].by
      BY <1>12, <1>22 DEF PaymentOK, PaymentIs
    <3>2. SumOf(s) <= payment[y].amount
      <4>1. payment[y].amount \in Nat /\ k \in 1..(payment[y].amount - SumOf(a))
        BY <1>8, <1>22, ReceivablesAssumption DEF Unapplied, PaymentDocs
      <4>2. PICK m, b : m = payment[y].amount /\ b = SumOf(a)
        OBVIOUS
      <4>3. b + k <= m
        BY <1>14, <4>1, <4>2
      <4> QED BY <1>14, <4>2, <4>3
    <3>3. SumOf(posted'[y]) = SumOf(s)
      <4>1. SumOf(posted[y]) = SumOf(a)
        BY <1>8, <1>22 DEF PaymentOK, PaymentIs
      <4> QED BY <1>14, <1>19, <1>20, <4>1
    <3>4. SumOf(applied'[y]) <= payment'[y].amount /\ SumOf(posted'[y]) = SumOf(applied'[y])
      BY <1>15, <3>1, <3>2, <3>3
    <3>5. payment'[y] # None
      BY <1>12, <1>22 DEF PaymentIs
    <3> QED BY <2>2, <3>1, <3>4, <3>5 DEF PaymentOK, PaymentIs
  <2> QED BY <2>1, <2>2
<1>24. ASSUME NEW i \in Invoices PROVE PaidOK(i)'
  <2>1. Paid(i) \in Nat /\ shares[i] \in Nat /\ Paid(i) <= IF i \in DOMAIN invoice THEN InvoiceTotal(i) ELSE 0
    BY <1>1, <1>6, PaidIsNat DEF MoneyTypeOK, MoneyOK, PaidOK
  <2>2. i \in DOMAIN invoice => InvoiceTotal(i)' = InvoiceTotal(i) /\ InvoiceTotal(i) \in Nat
    BY <1>1, TotalsAreNat, BalancesKept DEF MoneyTypeOK
  <2>3. CASE shares[i] = 0
    <3>1. Paid(i)' = Paid(i)
      BY <1>16, <2>1, <2>3
    <3> QED BY <2>1, <2>2, <3>1 DEF PaidOK
  <2>4. CASE shares[i] # 0
    <3>1. i \in DOMAIN invoice /\ shares[i] <= InvoiceTotal(i) - Paid(i)
      BY <1>6, <2>1, <2>4 DEF Covered
    <3>2. PICK p, c, m : p = Paid(i) /\ c = shares[i] /\ m = InvoiceTotal(i)
      OBVIOUS
    <3>3. p + c <= m
      BY <2>1, <2>2, <3>1, <3>2
    <3>4. Paid(i)' <= InvoiceTotal(i)'
      BY <1>16, <2>2, <3>1, <3>2, <3>3
    <3> QED BY <3>1, <3>4 DEF PaidOK
  <2> QED BY <2>3, <2>4
<1>25. \A v \in Cashiers : TillOK(till[v])'
  <2>1. ASSUME NEW z \in Payments, z # y PROVE PaymentSpared(z)
    <3>1. applied'[z] = applied[z] /\ payment'[z] = payment[z] /\ SumOf(applied[z]) \in Nat
      BY <1>1, <1>12, <1>15, <2>1, PaidIsNat DEF MoneyTypeOK
    <3> QED BY <3>1 DEF PaymentSpared
  <2>2. ASSUME NEW i \in Invoices, i \notin S PROVE InvoiceSpared(i)
    <3>1. shares[i] \in Nat /\ ~(shares[i] > 0) /\ Paid(i) \in Nat
      BY <1>1, <1>6, <1>11, <2>2, PaidIsNat DEF MoneyTypeOK
    <3>2. Paid(i)' <= Paid(i)
      BY <1>16, <3>1
    <3> QED BY <3>2, BalancesKept DEF InvoiceSpared
  <2>3. NotesStay /\ \A v \in Cashiers : TillOK(till[v])
    BY <1>12 DEF NotesStay, MoneyOK
  <2> QED BY <1>1, <1>12, <1>21, <2>1, <2>2, <2>3, TillsAfterCommit
<1>26. JournalMatchesDocuments'
  <2>1. Invoiced' = Invoiced /\ Credits' = Credits
    BY <1>12, BalancesKept
  <2>2. PICK b, r, c, x, z : b = Invoiced /\ r = Received /\ c = Credits /\ x = SumOf(a) /\ z = ar
    OBVIOUS
  <2>3. b \in Nat /\ r \in Nat /\ c \in Nat /\ x \in Nat
    BY <1>1, <1>14, <2>2, InvoicedIsNat, PaidIsNat, CreditsAreNat DEF MoneyTypeOK
  <2>4. z = b - r - c
    BY <2>2, JournalIs DEF MoneyOK
  <2>5. z - k = b - (r - x + (x + k)) - c
    BY <1>13, <2>3, <2>4
  <2>6. ar' = Invoiced' - Received' - Credits'
    BY <1>14, <1>15, <1>17, <2>1, <2>2, <2>5
  <2> QED BY <2>6, JournalIsNext
<1> QED BY <1>21, <1>23, <1>24, <1>25, <1>26, MoneyStays

LEMMA ReversePaymentStep ==
  ASSUME SalesTypeOK, MoneyOK, NEW w \in Cashiers, NEW y \in Payments, ReversePayment(w, y), UNCHANGED invoice
  PROVE  MoneyStaysOK
<1>1. MoneyTypeOK
  BY MoneyTypes
<1>2. PICK c : c = payment[y]
  OBVIOUS
<1>3. c \in PaymentDocs /\ PaymentIs(y, "VERIFIED") /\ PaymentOK(y)
  BY <1>1, <1>2 DEF ReversePayment, MoneyTypeOK, MoneyOK, PaymentIs
<1>4. PICK d : d = [c EXCEPT !.status = "REVERSED"]
  OBVIOUS
<1>5. d \in PaymentDocs /\ d.status = "REVERSED"
  BY <1>3, <1>4 DEF PaymentDocs
<1>6. PICK a : a = applied[y]
  OBVIOUS
<1>7. PICK s : s = [i \in Invoices |-> 0]
  OBVIOUS
<1>8. a \in [Invoices -> Nat] /\ s \in [Invoices -> Nat]
  BY <1>1, <1>6, <1>7 DEF MoneyTypeOK
<1>9. SumOf(a) \in Nat /\ SumOf(s) = 0
  BY <1>7, <1>8, AmountsSum, InvoicesFinite, SumIsZero
<1>10. payment' = [payment EXCEPT ![y] = d] /\ applied' = [applied EXCEPT ![y] = s] /\ Supersedes(w, y, {})
       /\ UNCHANGED <<posted, credited>>
  <2>1. payment' = [payment EXCEPT ![y] = [payment[y] EXCEPT !.status = "REVERSED"]]
    BY DEF ReversePayment
  <2> QED BY <1>2, <1>4, <1>7, <2>1 DEF ReversePayment
<1>11. ar' = ar + SumOf(a)
  BY <1>3, <1>6 DEF ReversePayment, ReverseJournals, PaymentOK, PaymentIs
<1>12. payment'[y] = d /\ \A z \in Payments \ {y} : payment'[z] = payment[z]
  BY <1>1, <1>10 DEF MoneyTypeOK
<1>13. /\ applied' \in [Payments -> [Invoices -> Nat]]
       /\ applied'[y] = s /\ \A z \in Payments \ {y} : applied'[z] = applied[z]
       /\ \A i \in Invoices : Paid(i)' = Paid(i) - a[i] + s[i]
       /\ Received' = Received - SumOf(a) + SumOf(s)
  <2>1. applied \in [Payments -> [Invoices -> Nat]]
    BY <1>1 DEF MoneyTypeOK
  <2>2. /\ applied' \in [Payments -> [Invoices -> Nat]]
        /\ applied'[y] = s /\ \A z \in Payments \ {y} : applied'[z] = applied[z]
        /\ \A i \in Invoices : Paid(i)' = Paid(i) - applied[y][i] + s[i]
        /\ Received' = Received - SumOf(applied[y]) + SumOf(s)
    BY <1>8, <1>10, <2>1, AppliedChanges
  <2> QED BY <1>6, <2>2
<1>14. \A i \in Invoices : Paid(i) \in Nat /\ Paid(i)' \in Nat /\ Paid(i)' <= Paid(i)
  <2>1. ASSUME NEW i \in Invoices PROVE Paid(i) \in Nat /\ Paid(i)' \in Nat /\ Paid(i)' <= Paid(i)
    <3>1. Paid(i) \in Nat /\ Paid(i)' \in Nat
      BY <1>1, <1>13, PaidIsNat, PaidIsNatNext DEF MoneyTypeOK
    <3>2. Paid(i)' = Paid(i) - a[i] + 0 /\ a[i] \in Nat
      BY <1>7, <1>8, <1>13
    <3> QED BY <3>1, <3>2
  <2> QED BY <2>1
<1>15. MoneyTypeOK'
  <2>1. ar' \in Int
    BY <1>1, <1>9, <1>11 DEF MoneyTypeOK
  <2>2. till' \in [Cashiers -> Duties]
    BY <1>1, <1>10, Superseding
  <2>3. payment' \in [Payments -> PaymentDocs \union {None}]
    BY <1>1, <1>5, <1>10 DEF MoneyTypeOK
  <2> QED BY <1>1, <1>10, <1>13, <2>1, <2>2, <2>3 DEF MoneyTypeOK
<1>16. ASSUME NEW z \in Payments PROVE PaymentOK(z)'
  <2>1. CASE z # y
    BY <1>10, <1>12, <1>13, <2>1 DEF MoneyOK, PaymentOK, PaymentIs
  <2>2. CASE z = y
    <3>1. payment'[y] # None /\ payment'[y].status = "REVERSED"
      BY <1>5, <1>12, PaymentDocumentsAssumption
    <3>2. \A i \in Invoices : applied'[y][i] = 0
      BY <1>7, <1>13
    <3> QED BY <2>2, <3>1, <3>2 DEF PaymentOK, PaymentIs
  <2> QED BY <2>1, <2>2
<1>17. ASSUME NEW i \in Invoices PROVE PaidOK(i)'
  <2>1. i \in DOMAIN invoice => InvoiceTotal(i)' = InvoiceTotal(i) /\ InvoiceTotal(i) \in Nat
    BY <1>1, TotalsAreNat, BalancesKept DEF MoneyTypeOK
  <2>2. Paid(i) <= IF i \in DOMAIN invoice THEN InvoiceTotal(i) ELSE 0
    BY DEF MoneyOK, PaidOK
  <2>3. PICK m, n : m = Paid(i)' /\ n = Paid(i)
    OBVIOUS
  <2>4. m \in Nat /\ n \in Nat /\ m <= n
    BY <1>14, <2>3
  <2>5. m <= IF i \in DOMAIN invoice THEN InvoiceTotal(i) ELSE 0
    BY <2>1, <2>2, <2>3, <2>4
  <2> QED BY <2>1, <2>3, <2>5 DEF PaidOK
<1>18. \A v \in Cashiers : TillOK(till[v])'
  <2>1. ASSUME NEW z \in Payments, z # y PROVE PaymentSpared(z)
    <3>1. applied'[z] = applied[z] /\ payment'[z] = payment[z] /\ SumOf(applied[z]) \in Nat
      BY <1>1, <1>12, <1>13, <2>1, PaidIsNat DEF MoneyTypeOK
    <3> QED BY <3>1 DEF PaymentSpared
  <2>2. ASSUME NEW i \in Invoices PROVE InvoiceSpared(i)
    BY <1>14, BalancesKept DEF InvoiceSpared
  <2>3. NotesStay /\ \A v \in Cashiers : TillOK(till[v])
    BY <1>10 DEF NotesStay, MoneyOK
  <2> QED BY <1>1, <1>10, <1>15, <2>1, <2>2, <2>3, TillsAfterCommit
<1>19. JournalMatchesDocuments'
  <2>1. Invoiced' = Invoiced /\ Credits' = Credits
    BY <1>10, BalancesKept
  <2>2. PICK b, r, k, x, z : b = Invoiced /\ r = Received /\ k = Credits /\ x = SumOf(a) /\ z = ar
    OBVIOUS
  <2>3. b \in Nat /\ r \in Nat /\ k \in Nat /\ x \in Nat
    BY <1>1, <1>9, <2>2, InvoicedIsNat, PaidIsNat, CreditsAreNat DEF MoneyTypeOK
  <2>4. z = b - r - k
    BY <2>2, JournalIs DEF MoneyOK
  <2>5. z + x = b - (r - x + 0) - k
    BY <2>3, <2>4
  <2>6. ar' = Invoiced' - Received' - Credits'
    BY <1>9, <1>11, <1>13, <2>1, <2>2, <2>5
  <2> QED BY <2>6, JournalIsNext
<1> QED BY <1>15, <1>16, <1>17, <1>18, <1>19, MoneyStays

LEMMA CreateCreditNoteStep ==
  ASSUME SalesTypeOK, MoneyOK, NEW n \in Notes, NEW i \in Invoices \union {None}, NEW amount \in 1..MaxAmount,
         CreateCreditNote(n, i, amount), UNCHANGED invoice
  PROVE  MoneyStaysOK
<1>1. MoneyTypeOK
  BY MoneyTypes
<1>2. PICK d : d = [invoice |-> i, amount |-> amount, status |-> "ISSUED"]
  OBVIOUS
<1>3. amount \in Nat
  BY ReceivablesAssumption
<1>4. d \in CreditNotes /\ d.status = "ISSUED" /\ d.amount = amount
  BY <1>2, <1>3 DEF CreditNotes
<1>5. credited[n] = None /\ credited' = [credited EXCEPT ![n] = d] /\ ar' = ar - amount
      /\ UNCHANGED <<payment, posted, till, applied>>
  BY <1>2 DEF CreateCreditNote
<1>6. MoneyTypeOK'
  <2>1. ar' \in Int
    BY <1>1, <1>3, <1>5 DEF MoneyTypeOK
  <2> QED BY <1>1, <1>4, <1>5, <2>1 DEF MoneyTypeOK
<1>7. Credits' = Credits + amount
  <2>1. credited \in [Notes -> CreditNotes \union {None}]
    BY <1>1 DEF MoneyTypeOK
  <2> QED BY <1>4, <1>5, <2>1, CreditsMore
<1>8. \A v \in Cashiers : TillOK(till[v])'
  <2> SUFFICES ASSUME NEW v \in Cashiers PROVE TillOK(till[v])'
    OBVIOUS
  <2>1. PICK t : t = till[v]
    OBVIOUS
  <2>2. t \in Duties /\ TillOK(t)
    BY <2>1 DEF MoneyOK
  <2>3. NotesStay
    BY <1>1, <1>5 DEF NotesStay, MoneyTypeOK
  <2>4. (\A y \in Payments : PaymentSpared(y)) /\ \A j \in Invoices : InvoiceSpared(j)
    BY <1>1, <1>5, AllSpared
  <2>5. TillOK(t)'
    BY <1>1, <1>6, <2>2, <2>3, <2>4, TillPersists DEF TillOK
  <2> QED BY <1>5, <2>1, <2>5
<1>9. JournalMatchesDocuments'
  <2>1. Invoiced' = Invoiced /\ Received' = Received
    BY <1>5, BalancesKept
  <2>2. PICK b, r, c, z : b = Invoiced /\ r = Received /\ c = Credits /\ z = ar
    OBVIOUS
  <2>3. b \in Nat /\ r \in Nat /\ c \in Nat
    BY <1>1, <2>2, InvoicedIsNat, PaidIsNat, CreditsAreNat DEF MoneyTypeOK
  <2>4. z = b - r - c
    BY <2>2, JournalIs DEF MoneyOK
  <2>5. z - amount = b - r - (c + amount)
    BY <1>3, <2>3, <2>4
  <2>6. ar' = Invoiced' - Received' - Credits'
    BY <1>5, <1>7, <2>1, <2>2, <2>5
  <2> QED BY <2>6, JournalIsNext
<1> QED BY <1>5, <1>6, <1>8, <1>9, PaidKept, PaymentsKept, MoneyStays

LEMMA StartCancelNoteStep ==
  ASSUME SalesTypeOK, MoneyOK, NEW w \in Cashiers, NEW n \in Notes, StartCancelNote(w, n), UNCHANGED invoice
  PROVE  MoneyStaysOK
<1>1. PICK a : a = [Away EXCEPT !.job = "cancel-note"]
  OBVIOUS
<1>2. PICK t : t = [a EXCEPT !.note = n]
  OBVIOUS
<1>3. a \in Duties /\ a.job = "cancel-note"
  BY <1>1, AwayIsDuty DEF Duties
<1>4. t \in Duties /\ t.job = "cancel-note" /\ t.note = n
  BY <1>2, <1>3 DEF Duties
<1>5. t = [Away EXCEPT !.job = "cancel-note", !.note = n]
  BY <1>1, <1>2, AwayIsDuty DEF Duties
<1>6. till' = [till EXCEPT ![w] = t] /\ credited[n] # None /\ UNCHANGED <<payment, posted, applied, credited, ar>>
  BY <1>5, Zenon DEF StartCancelNote
<1>7. TillOK(t)
  BY <1>4, <1>6 DEF TillOK
<1> QED BY <1>4, <1>6, <1>7, CashierMoves

LEMMA SumOfSingle ==
  ASSUME NEW a \in Nat
  PROVE  SumOf(<<a>>) = a
<1>1. PICK f : f = <<a>>
  OBVIOUS
<1>2. f \in [{1} -> Nat] /\ f[1] = a
  BY <1>1
<1> QED BY <1>1, <1>2, SumOfOne

LEMMA CancelCreditNoteStep ==
  ASSUME SalesTypeOK, MoneyOK, NEW w \in Cashiers, CancelCreditNote(w), UNCHANGED invoice
  PROVE  MoneyStaysOK
<1>1. MoneyTypeOK
  BY MoneyTypes
<1>2. PICK n : n = till[w].note
  OBVIOUS
<1>3. n \in Notes /\ credited[n] # None
  BY <1>2 DEF MoneyOK, TillOK, CancelCreditNote, Standing
<1>4. till' = [till EXCEPT ![w] = Away] /\ UNCHANGED <<payment, posted, applied>>
  BY DEF CancelCreditNote, Leave
<1>5. CASE credited[n].status # "ISSUED"
  <2>1. UNCHANGED <<credited, ar>>
    BY <1>2, <1>5 DEF CancelCreditNote
  <2> QED BY <1>4, <2>1, CashierLeaves
<1>6. CASE credited[n].status = "ISSUED"
  <2>1. PICK c : c = credited[n]
    OBVIOUS
  <2>2. c \in CreditNotes /\ c.amount \in Nat
    BY <1>1, <1>3, <2>1, NoteFields DEF MoneyTypeOK
  <2>3. PICK d : d = [c EXCEPT !.status = "CANCELLED"]
    OBVIOUS
  <2>4. d \in CreditNotes /\ d.status = "CANCELLED"
    BY <2>2, <2>3 DEF CreditNotes
  <2>5. credited' = [credited EXCEPT ![n] = d] /\ ar' = ar + SumOf(<<c.amount>>)
    <3>1. credited' = [credited EXCEPT ![n] = [credited[n] EXCEPT !.status = "CANCELLED"]]
      BY <1>2, <1>6 DEF CancelCreditNote
    <3>2. ar' = ar + SumOf(<<credited[n].amount>>)
      BY <1>2, <1>6 DEF CancelCreditNote, ReverseJournals
    <3> QED BY <2>1, <2>3, <3>1, <3>2
  <2>6. PICK amount : amount = c.amount
    OBVIOUS
  <2>7. amount \in Nat /\ ar' = ar + amount
    BY <2>2, <2>5, <2>6, SumOfSingle
  <2>8. MoneyTypeOK'
    <3>1. ar' \in Int
      BY <1>1, <2>7 DEF MoneyTypeOK
    <3> QED BY <1>1, <1>4, <2>4, <2>5, <3>1, AwayIsDuty DEF MoneyTypeOK
  <2>9. Credits' = Credits - amount
    <3>1. credited \in [Notes -> CreditNotes \union {None}]
      BY <1>1 DEF MoneyTypeOK
    <3>2. Credits' = Credits - credited[n].amount
      BY <1>3, <1>6, <2>4, <2>5, <3>1, CreditsLess
    <3> QED BY <2>1, <2>6, <3>2
  <2>10. \A v \in Cashiers : TillOK(till[v])'
    <3>1. NotesStay
      BY <1>1, <2>4, <2>5, SalesDocumentsAssumption DEF NotesStay, MoneyTypeOK
    <3>2. (\A y \in Payments : PaymentSpared(y)) /\ \A j \in Invoices : InvoiceSpared(j)
      BY <1>1, <1>4, AllSpared
    <3>3. TillOK(Away)'
      BY AwayIsDuty DEF TillOK
    <3>4. \A v \in Cashiers : TillOK(till[v]) /\ till'[v] = IF v = w THEN Away ELSE till[v]
      BY <1>1, <1>4 DEF MoneyOK, MoneyTypeOK
    <3> QED BY <1>1, <2>8, <3>1, <3>2, <3>3, <3>4, AwayIsDuty, TillsPersist
  <2>11. JournalMatchesDocuments'
    <3>1. Invoiced' = Invoiced /\ Received' = Received
      BY <1>4, BalancesKept
    <3>2. PICK b, r, k, z : b = Invoiced /\ r = Received /\ k = Credits /\ z = ar
      OBVIOUS
    <3>3. b \in Nat /\ r \in Nat /\ k \in Nat
      BY <1>1, <3>2, InvoicedIsNat, PaidIsNat, CreditsAreNat DEF MoneyTypeOK
    <3>4. z = b - r - k
      BY <3>2, JournalIs DEF MoneyOK
    <3>5. z + amount = b - r - (k - amount)
      BY <2>7, <3>3, <3>4
    <3>6. ar' = Invoiced' - Received' - Credits'
      BY <2>7, <2>9, <3>1, <3>2, <3>5
    <3> QED BY <3>6, JournalIsNext
  <2> QED BY <1>4, <2>8, <2>10, <2>11, PaidKept, PaymentsKept, MoneyStays
<1> QED BY <1>5, <1>6

LEMMA MoneySteps ==
  ASSUME SalesTypeOK, MoneyOK, Receipts \/ Reversals \/ CreditNoting, UNCHANGED invoice
  PROVE  MoneyStaysOK /\ (OwesAgain \/ UNCHANGED desk)
<1>1. ASSUME NEW y \in Payments, NEW u \in Staff,
             \/ \E amount \in 1..MaxAmount : CreatePayment(y, u, amount)
             \/ \E to \in {"VERIFIED", "REJECTED"} : DecidePayment(y, u, to)
      PROVE  MoneyStaysOK /\ UNCHANGED desk
  BY <1>1, CreatePaymentStep, DecidePaymentStep DEF CreatePayment, DecidePayment
<1>2. ASSUME NEW w \in Cashiers,
             (\E y \in Payments, shares \in Shares : StartApply(w, y, shares)) \/ RetryApply(w) \/ CommitApply(w)
      PROVE  MoneyStaysOK /\ UNCHANGED desk
  BY <1>2, StartApplyStep, RetryApplyStep, CommitApplyStep DEF StartApply, RetryApply, CommitApply
<1>3. ASSUME NEW w \in Cashiers, NEW y \in Payments, ReversePayment(w, y)
      PROVE  MoneyStaysOK /\ OwesAgain
  BY <1>3, ReversePaymentStep DEF ReversePayment
<1>4. ASSUME NEW n \in Notes, NEW i \in Invoices \union {None}, NEW amount \in 1..MaxAmount, CreateCreditNote(n, i, amount)
      PROVE  MoneyStaysOK /\ UNCHANGED desk
  BY <1>4, CreateCreditNoteStep DEF CreateCreditNote
<1>5. ASSUME NEW w \in Cashiers, CancelCreditNote(w)
      PROVE  MoneyStaysOK /\ (OwesAgain \/ UNCHANGED desk)
  BY <1>5, CancelCreditNoteStep DEF CancelCreditNote
<1>6. ASSUME NEW w \in Cashiers, NEW n \in Notes, StartCancelNote(w, n)
      PROVE  MoneyStaysOK /\ UNCHANGED desk
  BY <1>6, StartCancelNoteStep DEF StartCancelNote
<1>7. Receipts => MoneyStaysOK /\ UNCHANGED desk
  BY <1>1, <1>2 DEF Receipts
<1>8. Reversals => MoneyStaysOK /\ OwesAgain
  BY <1>3 DEF Reversals
<1>9. CreditNoting => MoneyStaysOK /\ (OwesAgain \/ UNCHANGED desk)
  BY <1>4, <1>5, <1>6 DEF CreditNoting
<1> QED BY <1>7, <1>8, <1>9

-----------------------------------------------------------------------------
(* Where a shift starts                                                     *)

LEMMA EnquiriesStartOK ==
  ASSUME NEW s, StartEnquiriesOK(s), po = s.po, quote = s.quote, lapsed = {}, work = [w \in Workers |-> Idle]
  PROVE  EnquiryOK
<1>1. po \in [Enquiries -> PurchaseOrders \union {None}] /\ quote \in [Quotes -> Quotations \union {None}]
  BY DEF StartEnquiriesOK
<1>2. ASSUME NEW p \in Enquiries, po[p] # None
      PROVE  /\ po[p].status \in {"APPROVED", "CONVERTED", "CANCELLED"} /\ po[p].approved # None
             /\ po[p].approved.lines = po[p].lines
             /\ po[p].approved.quote # None =>
                  /\ quote[po[p].approved.quote] # None /\ quote[po[p].approved.quote].po = p
                  /\ quote[po[p].approved.quote].status \in {"APPROVED", "CONVERTED"}
  BY <1>2 DEF StartEnquiriesOK
<1>3. ASSUME NEW q \in Quotes, quote[q] # None
      PROVE  /\ quote[q].status \notin {"DRAFT", "QUOTED", "NEGOTIATION"}
             /\ po[quote[q].po] # None /\ po[quote[q].po].lines = quote[q].lines /\ quote[q].po \in Enquiries
  <2>1. quote[q] \in Quotations
    BY <1>1, <1>3
  <2>2. quote[q].po \in Enquiries
    BY <2>1 DEF Quotations
  <2> QED BY <1>3, <2>2 DEF StartEnquiriesOK
<1>4. ASSUME NEW q \in Quotes PROVE QuoteOK(q)
  BY <1>2, <1>3 DEF QuoteOK, Live
<1>5. ASSUME NEW p \in Enquiries PROVE PoOK(p)
  <2> SUFFICES ASSUME po[p] # None PROVE PoOK(p)
    BY DEF PoOK
  <2>1. po[p].approved.quote # None => Accepted(p, po[p].approved.quote)
    <3> SUFFICES ASSUME po[p].approved.quote # None PROVE Accepted(p, po[p].approved.quote)
      OBVIOUS
    <3>1. PICK q : q = po[p].approved.quote
      OBVIOUS
    <3>2. q \in Quotes
      <4>1. po[p] \in PurchaseOrders
        BY <1>1
      <4>2. po[p].approved \in Agreements
        BY <1>2, <4>1 DEF PurchaseOrders
      <4> QED BY <3>1, <4>2 DEF Agreements
    <3>3. quote[q] # None /\ quote[q].po = p /\ quote[q].status \in {"APPROVED", "CONVERTED"}
      BY <1>2, <3>1
    <3>4. quote[q].lines = po[p].lines
      BY <1>3, <3>2, <3>3
    <3> QED BY <3>1, <3>3, <3>4 DEF Accepted
  <2> QED BY <1>2, <2>1 DEF PoOK
<1>6. Idle \in Errands
  BY DEF Idle, Errands, Jobs
<1>7. EnquiryTypeOK
  BY <1>1, <1>6 DEF EnquiryTypeOK
<1>8. ASSUME NEW w \in Workers PROVE WorkOK(w)
  BY DEF WorkOK, Idle
<1> QED BY <1>4, <1>5, <1>7, <1>8 DEF EnquiryOK

LEMMA OrdersStartOK ==
  ASSUME NEW s, StartEnquiriesOK(s), StartOrdersOK(s), po = s.po, so = s.so, piece = s.piece, invoice = s.invoice,
         applied \in [Payments -> [Invoices -> Nat]], credited = [n \in Notes |-> None], ar \in Int,
         desk = [w \in Clerks |-> Free], muddled = {}
  PROVE  SalesOK
<1>1. so \in [Enquiries -> SalesOrderDocs \union {None}] /\ piece \in [Pieces -> PieceDocs] /\ invoice \in Seq(InvoiceDocs)
  BY DEF StartOrdersOK
<1>2. SalesTypeOK
  BY <1>1, FreeIsTask DEF SalesTypeOK
<1>3. ASSUME NEW x \in Pieces
      PROVE  /\ piece[x].holder = None
             /\ \/ /\ piece[x].status = "AVAILABLE" /\ piece[x].buyer = None
                   /\ {i \in DOMAIN invoice : x \in invoice[i].items} = {}
                \/ /\ piece[x].status = "SOLD" /\ piece[x].buyer # None /\ so[piece[x].buyer] # None
                   /\ \E i \in {i \in DOMAIN invoice : x \in invoice[i].items} :
                        {j \in DOMAIN invoice : x \in invoice[j].items} = {i} /\ invoice[i].so = piece[x].buyer
  BY DEF StartOrdersOK
<1>4. SoldOnOneInvoice
  BY <1>3 DEF SoldOnOneInvoice
<1>5. \A x \in Pieces : PieceOK(x)
  BY <1>3 DEF PieceOK
<1>6. ASSUME NEW p \in Enquiries, so[p] # None
      PROVE  /\ po[p] # None /\ po[p].status = "CONVERTED" /\ po[p].approved # None /\ so[p].held = <<>>
             /\ so[p].invoiced = Cardinality(SoldTo(p)) /\ so[p].invoiced <= Total(p)
  <2>1. /\ po[p] # None /\ po[p].status = "CONVERTED" /\ so[p].held = <<>>
        /\ so[p].invoiced = Cardinality({x \in Pieces : s.piece[x].buyer = p})
        /\ so[p].invoiced <= po[p].approved.lines
    BY <1>6, Zenon DEF StartOrdersOK
  <2>2. po[p].approved # None
    BY <2>1 DEF StartEnquiriesOK
  <2>3. {x \in Pieces : s.piece[x].buyer = p} = SoldTo(p)
    BY DEF SoldTo
  <2> QED BY <2>1, <2>2, <2>3 DEF Total
<1>7. ASSUME NEW p \in Enquiries PROVE NumbersOK(p)
  <2> SUFFICES ASSUME so[p] # None PROVE NumbersOK(p)
    BY DEF NumbersOK
  <2>1. HeldFor(p) = {}
    BY <1>3, NoneIsNo DEF HeldFor
  <2>2. IsInjective(so[p].held) /\ Range(so[p].held) = {} /\ Len(so[p].held) = 0
    BY <1>6, NoPiecesListed
  <2>3. so[p].invoiced \in Nat
    BY <1>1 DEF SalesOrderDocs
  <2>4. CountsOK(p)
    BY <1>6, <2>2, <2>3 DEF CountsOK
  <2>5. \A w \in Clerks : ~Freeing(w, p)
    BY DEF Freeing, At, Free
  <2> QED BY <1>6, <2>1, <2>2, <2>4, <2>5 DEF NumbersOK
<1>8. \A p \in Enquiries : OrderOK(p)
  BY <1>6 DEF OrderOK
<1>9. InvoicesOK
  BY DEF StartOrdersOK, InvoicesOK
<1>10. \A w \in Clerks : TaskOK(desk[w])
  BY FreeIsTask
<1> QED BY <1>2, <1>4, <1>5, <1>7, <1>8, <1>9, <1>10 DEF SalesOK

LEMMA MoneyStartOK ==
  ASSUME NEW s, StartMoneyOK(s), payment = s.payment, applied = s.applied, posted = s.posted, invoice = s.invoice,
         invoice \in Seq(InvoiceDocs), credited = [n \in Notes |-> None], ar = Invoiced - Received,
         till = [w \in Cashiers |-> Away]
  PROVE  MoneyOK /\ ar \in Int /\ applied \in [Payments -> [Invoices -> Nat]]
<1>1. /\ payment \in [Payments -> PaymentDocs \union {None}] /\ applied \in [Payments -> [Invoices -> Nat]]
      /\ posted \in [Payments -> Seq(Nat \ {0})] /\ till \in [Cashiers -> Duties]
  BY AwayIsDuty DEF StartMoneyOK
<1>2. ASSUME NEW y \in Payments PROVE PaymentOK(y)
  BY DEF StartMoneyOK, PaymentOK, PaymentIs
<1>3. ASSUME NEW i \in Invoices PROVE PaidOK(i)
  BY DEF StartMoneyOK, PaidOK, Paid, InvoiceTotal
<1>4. \A v \in Cashiers : TillOK(till[v])
  BY AwayIsDuty DEF TillOK
<1>5. Invoiced \in Nat /\ Received \in Nat
  BY <1>1, InvoicedIsNat, PaidIsNat
<1>6. Credits = 0
  <2>1. PICK S : S = IssuedNotes
    OBVIOUS
  <2>2. S = {}
    BY <2>1 DEF IssuedNotes
  <2>3. SumOf([n \in S |-> credited[n].amount]) = 0
    BY <2>2, SumOfNothing
  <2> QED BY <2>1, <2>3, CreditsAre
<1>7. JournalMatchesDocuments
  BY <1>5, <1>6, JournalIs
<1> QED BY <1>1, <1>2, <1>3, <1>4, <1>5, <1>7 DEF MoneyOK

LEMMA WholesaleInit == Init => IInv
<1> SUFFICES ASSUME Init PROVE IInv
  OBVIOUS
<1>1. PICK s \in Shifts :
        /\ po = s.po /\ quote = s.quote /\ lapsed = {} /\ work = [w \in Workers |-> Idle]
        /\ so = s.so /\ piece = s.piece /\ invoice = s.invoice
        /\ payment = s.payment /\ applied = s.applied /\ posted = s.posted
        /\ credited = [n \in Notes |-> None] /\ ar = Invoiced - Received
        /\ desk = [w \in Clerks |-> Free] /\ muddled = {} /\ till = [w \in Cashiers |-> Away]
  BY DEF Init
<1>2. StartEnquiriesOK(s) /\ StartOrdersOK(s) /\ StartMoneyOK(s)
  BY ShiftsAssumption
<1>3. EnquiryOK
  BY <1>1, <1>2, EnquiriesStartOK
<1>4. invoice \in Seq(InvoiceDocs)
  BY <1>1, <1>2 DEF StartOrdersOK
<1>5. MoneyOK /\ ar \in Int /\ applied \in [Payments -> [Invoices -> Nat]]
  BY <1>1, <1>2, <1>4, MoneyStartOK
<1>6. SalesOK
  BY <1>1, <1>2, <1>5, OrdersStartOK
<1> QED BY <1>3, <1>5, <1>6 DEF IInv

LEMMA WholesaleNext == IInv /\ [Next]_vars => IInv'
<1> SUFFICES ASSUME IInv, [Next]_vars PROVE IInv'
  OBVIOUS
<1>1. EnquiryOK /\ SalesOK /\ MoneyOK /\ SalesTypeOK
  BY DEF IInv, SalesOK
<1>2. EnquiryStep /\ EnquiryOK'
  BY <1>1, WholesaleSteps, EnquiryStepKeepsOK
<1>3. CASE EnquiryNext /\ UNCHANGED <<salesVars, moneyVars>>
  <2>1. UNCHANGED <<payment, posted, till, applied, credited, invoice, ar>>
    BY <1>3 DEF salesVars, moneyVars
  <2> QED BY <1>1, <1>2, <1>3, <2>1, EnquiriesKeepSales, MoneyUnmoved DEF IInv
<1>4. CASE Commitment /\ UNCHANGED <<lapsed, work, applied, credited, moneyVars>>
  BY <1>1, <1>2, <1>4, CommitmentKeepsSales, CommitmentKeepsMoney DEF IInv, moneyVars
<1>5. CASE (Fulfilment \/ Cancelling) /\ UNCHANGED <<lapsed, work, applied, credited, moneyVars>>
  BY <1>1, <1>2, <1>5, FulfilmentKeepsSales, FulfilmentKeepsMoney DEF IInv, moneyVars
<1>6. CASE (Receipts \/ Reversals \/ CreditNoting) /\ UNCHANGED <<enquiryVars, so, piece, invoice, muddled>>
  <2>1. MoneyStaysOK /\ (OwesAgain \/ UNCHANGED desk)
    BY <1>1, <1>6, MoneySteps
  <2>2. /\ applied' \in [Payments -> [Invoices -> Nat]] /\ credited' \in [Notes -> CreditNotes \union {None}]
        /\ ar' \in Int
    BY <2>1 DEF MoneyStaysOK, MoneyTypeOK
  <2>3. UNCHANGED <<po, so, piece, invoice, muddled>>
    BY <1>6 DEF enquiryVars
  <2>4. SalesOK'
    BY <1>1, <2>1, <2>2, <2>3, MoneyKeepsSales
  <2> QED BY <1>2, <2>1, <2>4 DEF IInv, MoneyStaysOK
<1>7. CASE UNCHANGED vars
  <2>1. UNCHANGED salesVars /\ UNCHANGED <<payment, posted, till, applied, credited, invoice, ar>>
    BY <1>7 DEF vars, salesVars, moneyVars
  <2> QED BY <1>1, <1>2, <2>1, EnquiriesKeepSales, MoneyUnmoved DEF IInv
<1> QED BY <1>3, <1>4, <1>5, <1>6, <1>7 DEF Next

(* An invoice sells a piece no other sells, so there are no more invoices   *)
(* than pieces.                                                            *)
LEMMA InvoicesAreFew ==
  ASSUME SalesOK
  PROVE  DOMAIN invoice \subseteq Invoices
<1>1. PICK m : m = Len(invoice)
  OBVIOUS
<1>2. m \in Nat /\ DOMAIN invoice = 1..m /\ \A i \in 1..m : invoice[i] \in InvoiceDocs
  BY <1>1 DEF SalesOK, SalesTypeOK
<1>3. \A i \in 1..m : invoice[i].items # {} /\ invoice[i].items \subseteq Pieces
  BY <1>2 DEF SalesOK, InvoicesOK, InvoiceDocs
<1>4. PICK f : f = [i \in 1..m |-> CHOOSE x \in invoice[i].items : TRUE]
  OBVIOUS
<1>5. \A i \in 1..m : f[i] \in invoice[i].items /\ f[i] \in Pieces
  BY <1>3, <1>4
<1>6. ASSUME NEW i \in 1..m, NEW j \in 1..m, f[i] = f[j]
      PROVE  i = j
  <2>1. PICK x : x = f[i]
    OBVIOUS
  <2>2. PICK on : on = {k \in DOMAIN invoice : x \in invoice[k].items}
    OBVIOUS
  <2>3. i \in on /\ j \in on /\ x \in Pieces
    BY <1>2, <1>5, <1>6, <2>1, <2>2
  <2>4. \E k \in on : on = {k}
    BY <2>2, <2>3 DEF SalesOK, SoldOnOneInvoice
  <2> QED BY <2>3, <2>4
<1>7. f \in [1..m -> Pieces]
  BY <1>4, <1>5
<1>8. f \in Injection(1..m, Pieces)
  BY <1>6, <1>7 DEF Injection, IsInjective
<1>9. IsFiniteSet(Pieces) /\ Cardinality(Pieces) = MaxPieces /\ Cardinality(1..m) = m
  BY <1>2, SalesOrdersAssumption, FS_Interval DEF Pieces
<1>10. m <= MaxPieces
  BY <1>8, <1>9, FS_Injection
<1> QED BY <1>2, <1>10, SalesOrdersAssumption DEF Invoices

LEMMA WholesaleImplies ==
  IInv => TypeOK /\ OneNegotiation /\ AgreedAsAsked /\ SoldOnOneInvoice /\ OrderMatchesStock /\ NothingOverApplied
          /\ JournalMatchesDocuments
<1> SUFFICES ASSUME IInv
             PROVE  TypeOK /\ OneNegotiation /\ AgreedAsAsked /\ SoldOnOneInvoice /\ OrderMatchesStock
                    /\ NothingOverApplied /\ JournalMatchesDocuments
  OBVIOUS
<1>1. EnquiryOK /\ SalesOK /\ MoneyOK /\ SalesTypeOK /\ EnquiryTypeOK
  BY DEF IInv, SalesOK, EnquiryOK
<1>2. TypeOK
  BY <1>1 DEF TypeOK, MoneyOK
<1>3. OrderMatchesStock
  <2> SUFFICES ASSUME NEW p \in Enquiries, so[p] # None, p \notin muddled, ~BeingFreed(p)
               PROVE  /\ Range(so[p].held) = HeldFor(p) /\ IsInjective(so[p].held)
                      /\ so[p].invoiced >= Cardinality(SoldTo(p))
                      /\ BilledAsSold(p) => so[p].invoiced = Cardinality(SoldTo(p))
                      /\ Cardinality(HeldFor(p)) + Cardinality(SoldTo(p)) <= Total(p)
    BY DEF OrderMatchesStock
  <2>1. /\ IsInjective(so[p].held) /\ Range(so[p].held) \subseteq HeldFor(p) /\ CountsOK(p)
        /\ \A x \in HeldFor(p) \ Range(so[p].held) : \E w \in Clerks : Freeing(w, p) /\ x \in Range(desk[w].held)
    BY <1>1 DEF SalesOK, NumbersOK
  <2>2. \A w \in Clerks : ~Freeing(w, p)
    BY DEF BeingFreed, Freeing
  <2>3. Range(so[p].held) = HeldFor(p)
    BY <2>1, <2>2
  <2>4. Cardinality(HeldFor(p)) = Len(so[p].held)
    <3>1. PICK l : l = so[p].held
      OBVIOUS
    <3>2. l \in Seq(Pieces)
      BY <1>1, <3>1 DEF SalesTypeOK, SalesOrderDocs
    <3>3. Cardinality(Range(l)) = Len(l)
      BY <2>1, <3>1, <3>2, ListCounts
    <3> QED BY <2>3, <3>1, <3>3
  <2>5. Cardinality(SoldTo(p)) \in Nat /\ so[p].invoiced \in Nat
    BY <1>1, PiecesCount DEF SoldTo, SalesTypeOK, SalesOrderDocs
  <2> QED BY <2>1, <2>3, <2>4, <2>5 DEF CountsOK
<1>4. NothingOverApplied
  <2>1. ASSUME NEW y \in Payments, NEW i \in Invoices, applied[y][i] > 0
        PROVE  payment[y].status = "VERIFIED" /\ payment[y].verifiedBy # payment[y].by /\ Unapplied(y) >= 0
    <3>1. PaymentOK(y)
      BY <1>1 DEF MoneyOK
    <3>2. PaymentIs(y, "VERIFIED")
      BY <2>1, <3>1 DEF PaymentOK
    <3>3. payment[y].verifiedBy # payment[y].by /\ SumOf(applied[y]) <= payment[y].amount
      BY <3>1, <3>2 DEF PaymentOK
    <3>4. SumOf(applied[y]) \in Nat
      BY <1>1, PaidIsNat DEF SalesTypeOK
    <3>5. payment[y] \in PaymentDocs
      BY <1>1, <3>2 DEF MoneyOK, PaymentIs
    <3>6. payment[y].amount \in Nat
      BY <3>5, ReceivablesAssumption DEF PaymentDocs
    <3>7. Unapplied(y) >= 0
      BY <3>3, <3>4, <3>6 DEF Unapplied
    <3> QED BY <3>2, <3>3, <3>7 DEF PaymentIs
  <2>2. ASSUME NEW i \in DOMAIN invoice PROVE Paid(i) <= InvoiceTotal(i)
    BY <1>1, InvoicesAreFew DEF MoneyOK, PaidOK
  <2> QED BY <2>1, <2>2 DEF NothingOverApplied
<1> QED BY <1>1, <1>2, <1>3, <1>4, OKImplies DEF SalesOK, MoneyOK

(* Whatever the handlers of a shift write, every document keeps its shape.  *)
THEOREM WholesaleTypes == Spec => []TypeOK
<1> QED BY WholesaleInit, WholesaleNext, WholesaleImplies, PTL DEF Spec

(* Composed with every handler of orders, stock, payments and credit notes, *)
(* an enquiry still has one negotiation at a time, and what is agreed is    *)
(* what was asked for (procurement.service.ts).                            *)
THEOREM WholesaleAgrees == Spec => [](OneNegotiation /\ AgreedAsAsked)
<1> QED BY WholesaleInit, WholesaleNext, WholesaleImplies, PTL DEF Spec

(* A sold piece is on one invoice, of the order it was sold to, whatever    *)
(* copies of an order the invoicing handlers work from and however many of  *)
(* them overlap (fulfilment.service.ts).                                   *)
THEOREM SoldOnce == Spec => []SoldOnOneInvoice
<1> QED BY WholesaleInit, WholesaleNext, WholesaleImplies, PTL DEF Spec

(* The numbers of an order that no two handlers overlapped on are those of  *)
(* the stock: what it lists is held for it, nothing is sold to it that it   *)
(* does not count, and no more is held and sold than was ordered, however   *)
(* often a request to invoice names its line.                              *)
THEOREM OrdersMatchStock == Spec => []OrderMatchesStock
<1> QED BY WholesaleInit, WholesaleNext, WholesaleImplies, PTL DEF Spec

(* No payment is spent twice and no invoice paid twice, by however many     *)
(* allocations race, and only verified money pays (payments.service.ts).   *)
THEOREM NeverOverApplied == Spec => []NothingOverApplied
<1> QED BY WholesaleInit, WholesaleNext, WholesaleImplies, PTL DEF Spec

(* The receivables account of the journal is what the invoices, the live    *)
(* allocations and the issued credit notes say is owed, after any sequence  *)
(* of sales, allocations, reversals and cancelled notes.                   *)
THEOREM ReceivablesAreTheDocuments == Spec => []JournalMatchesDocuments
<1> QED BY WholesaleInit, WholesaleNext, WholesaleImplies, PTL DEF Spec

-----------------------------------------------------------------------------
(* The credit limit *)

(* Exposure, each of its sums taken over all the invoices and orders there  *)
(* may be.                                                                 *)
OwedOn(i) == IF i \in DOMAIN invoice THEN Max({0, InvoiceTotal(i) - Paid(i) - Noted(i)}) ELSE 0
Owed == SumOf([i \in Invoices |-> OwedOn(i)])

LiveStatuses == {"CONFIRMED", "PARTIALLY_ALLOCATED", "ALLOCATED", "PARTIALLY_FULFILLED"}
Promised(p) == IF so[p] # None /\ so[p].status \in LiveStatuses THEN Total(p) - so[p].invoiced ELSE 0
Promises == SumOf([p \in Enquiries |-> Promised(p)])

PromisesOK == \A p \in Enquiries : PromiseOK(p)

LEMMA MaxWithZero ==
  ASSUME NEW n \in Int
  PROVE  Max({0, n}) = IF n >= 0 THEN n ELSE 0
<1>1. PICK m : m = IF n >= 0 THEN n ELSE 0
  OBVIOUS
<1>2. m \in {0, n} /\ \A y \in {0, n} : m >= y
  BY <1>1
<1>3. \A x \in {0, n} : (\A y \in {0, n} : x >= y) => x = m
  BY <1>1
<1> QED BY <1>1, <1>2, <1>3 DEF Max

LEMMA NotedIsNat ==
  ASSUME credited \in [Notes -> CreditNotes \union {None}], NEW i
  PROVE  Noted(i) \in Nat
<1>1. PICK S : S = {m \in IssuedNotes : credited[m].invoice = i}
  OBVIOUS
<1>2. PICK f : f = [n \in S |-> credited[n].amount]
  OBVIOUS
<1>3. S \subseteq Notes /\ IsFiniteSet(S)
  BY <1>1, SalesOrdersAssumption, FS_Subset DEF IssuedNotes
<1>4. f \in [S -> Nat]
  BY <1>1, <1>2, <1>3, NoteFields DEF IssuedNotes
<1> QED BY <1>1, <1>2, <1>3, <1>4, SumIsNat DEF Noted

LEMMA OwedOnIs ==
  IInv => \A i \in Invoices :
            IF i \in DOMAIN invoice
            THEN LET n == InvoiceTotal(i) - Paid(i) - Noted(i) IN
                   /\ InvoiceTotal(i) \in Nat /\ Paid(i) \in Nat /\ Noted(i) \in Nat
                   /\ OwedOn(i) = IF n >= 0 THEN n ELSE 0
            ELSE OwedOn(i) = 0
<1> SUFFICES ASSUME IInv, NEW i \in Invoices, i \in DOMAIN invoice
             PROVE  LET n == InvoiceTotal(i) - Paid(i) - Noted(i) IN
                      /\ InvoiceTotal(i) \in Nat /\ Paid(i) \in Nat /\ Noted(i) \in Nat
                      /\ OwedOn(i) = IF n >= 0 THEN n ELSE 0
  BY DEF OwedOn
<1>1. InvoiceTotal(i) \in Nat /\ Paid(i) \in Nat /\ Noted(i) \in Nat
  BY TotalsAreNat, PaidIsNat, NotedIsNat DEF IInv, SalesOK, SalesTypeOK
<1>2. PICK n : n = InvoiceTotal(i) - Paid(i) - Noted(i)
  OBVIOUS
<1>3. n \in Int
  BY <1>1, <1>2
<1>4. OwedOn(i) = Max({0, n})
  BY <1>2 DEF OwedOn
<1> QED BY <1>1, <1>2, <1>3, <1>4, MaxWithZero

LEMMA OwedIsNat == IInv => \A i \in Invoices : OwedOn(i) \in Nat
<1> SUFFICES ASSUME IInv, NEW i \in Invoices PROVE OwedOn(i) \in Nat
  OBVIOUS
<1>1. CASE i \in DOMAIN invoice
  BY <1>1, OwedOnIs
<1>2. CASE i \notin DOMAIN invoice
  BY <1>2, OwedOnIs
<1> QED BY <1>1, <1>2

(* An order's terms, and what is left of it.                               *)
LEMMA OrderTotals ==
  IInv => \A p \in Enquiries : so[p] # None => so[p] \in SalesOrderDocs /\ so[p].invoiced \in Nat /\ Total(p) \in Nat
<1> SUFFICES ASSUME IInv, NEW p \in Enquiries, so[p] # None
             PROVE  so[p] \in SalesOrderDocs /\ so[p].invoiced \in Nat /\ Total(p) \in Nat
  OBVIOUS
<1>1. so[p] \in SalesOrderDocs
  BY DEF IInv, SalesOK, SalesTypeOK
<1>2. OrderOK(p) /\ EnquiryTypeOK
  BY DEF IInv, SalesOK, EnquiryOK
<1> QED BY <1>1, <1>2, TotalIsNat DEF SalesOrderDocs, OrderOK

LEMMA PromisedIsNat == IInv /\ PromisesOK => \A p \in Enquiries : Promised(p) \in Nat
<1> SUFFICES ASSUME IInv, PromisesOK, NEW p \in Enquiries, so[p] # None, so[p].status \in LiveStatuses
             PROVE  Total(p) - so[p].invoiced \in Nat
  BY DEF Promised
<1>1. so[p].invoiced \in Nat /\ Total(p) \in Nat
  BY OrderTotals
<1>2. so[p].invoiced <= Total(p)
  BY DEF PromisesOK, PromiseOK, LiveStatuses
<1> QED BY <1>1, <1>2

LEMMA ExposureIs == IInv /\ PromisesOK => Exposure = Owed + Promises /\ Owed \in Nat /\ Promises \in Nat
<1> SUFFICES ASSUME IInv, PromisesOK PROVE Exposure = Owed + Promises /\ Owed \in Nat /\ Promises \in Nat
  OBVIOUS
<1>1. PICK D, L : D = DOMAIN invoice /\ L = LiveOrders
  OBVIOUS
<1>2. PICK f, g : /\ f = [i \in D |-> Max({0, InvoiceTotal(i) - Paid(i) - Noted(i)})]
                  /\ g = [p \in L |-> Total(p) - so[p].invoiced]
  OBVIOUS
<1>3. PICK h, k : h = [i \in Invoices |-> OwedOn(i)] /\ k = [p \in Enquiries |-> Promised(p)]
  OBVIOUS
<1>4. Exposure = SumOf(f) + SumOf(g)
  BY <1>1, <1>2 DEF Exposure
<1>5. D \subseteq Invoices
  BY <1>1, InvoicesAreFew DEF IInv
<1>6. L \subseteq Enquiries /\ \A p \in Enquiries : p \in L <=> so[p] # None /\ so[p].status \in LiveStatuses
  BY <1>1 DEF LiveOrders, LiveStatuses
<1>7. h \in [Invoices -> Nat] /\ k \in [Enquiries -> Nat]
  BY <1>3, OwedIsNat, PromisedIsNat
<1>8. \A i \in D : f[i] = h[i]
  BY <1>1, <1>2, <1>3, <1>5 DEF OwedOn
<1>9. \A p \in L : g[p] = k[p]
  BY <1>2, <1>3, <1>6 DEF Promised
<1>10. f \in [D -> Nat] /\ g \in [L -> Nat]
  BY <1>2, <1>5, <1>6, <1>7, <1>8, <1>9
<1>11. \A i \in Invoices : h[i] = IF i \in D THEN f[i] ELSE 0
  BY <1>1, <1>3, <1>8 DEF OwedOn
<1>12. \A p \in Enquiries : k[p] = IF p \in L THEN g[p] ELSE 0
  BY <1>3, <1>6, <1>9 DEF Promised
<1>13. IsFiniteSet(Invoices) /\ IsFiniteSet(Enquiries)
  BY InvoicesFinite, EnquiriesAssumption
<1>14. SumOf(h) = SumOf(f) /\ SumOf(k) = SumOf(g)
  <2>1. SumOf(h) = SumOf(f)
    BY <1>5, <1>7, <1>10, <1>11, <1>13, SumPadded
  <2>2. SumOf(k) = SumOf(g)
    <3>1. L \subseteq Enquiries
      BY <1>6
    <3> QED BY <3>1, <1>7, <1>10, <1>12, <1>13, SumPadded
  <2> QED BY <2>1, <2>2
<1>15. SumOf(h) \in Nat /\ SumOf(k) \in Nat
  BY <1>7, <1>13, SumIsNat
<1> QED BY <1>3, <1>4, <1>14, <1>15 DEF Owed, Promises

(* The same in the next state. *)
LEMMA OwedOnIsNext ==
  ASSUME IInv'
  PROVE  \A i \in Invoices :
           /\ OwedOn(i)' \in Nat
           /\ i \notin DOMAIN invoice' => OwedOn(i)' = 0
           /\ i \in DOMAIN invoice' =>
                /\ InvoiceTotal(i)' \in Nat /\ Paid(i)' \in Nat /\ Noted(i)' \in Nat
                /\ OwedOn(i)' = IF InvoiceTotal(i)' - Paid(i)' - Noted(i)' >= 0
                                THEN InvoiceTotal(i)' - Paid(i)' - Noted(i)' ELSE 0
<1>1. (IInv => \A i \in Invoices :
                 IF i \in DOMAIN invoice
                 THEN LET n == InvoiceTotal(i) - Paid(i) - Noted(i) IN
                        /\ InvoiceTotal(i) \in Nat /\ Paid(i) \in Nat /\ Noted(i) \in Nat
                        /\ OwedOn(i) = IF n >= 0 THEN n ELSE 0
                 ELSE OwedOn(i) = 0)'
  BY OwedOnIs, PTL
<1>2. (IInv => \A i \in Invoices : OwedOn(i) \in Nat)'
  BY OwedIsNat, PTL
<1> QED BY <1>1, <1>2, Zenon

LEMMA PromisedIsNatNext ==
  ASSUME IInv', PromisesOK'
  PROVE  \A p \in Enquiries : Promised(p)' \in Nat
<1>1. (IInv /\ PromisesOK => \A p \in Enquiries : Promised(p) \in Nat)'
  BY PromisedIsNat, PTL
<1> QED BY <1>1

LEMMA ExposureIsNext ==
  ASSUME IInv', PromisesOK'
  PROVE  Exposure' = Owed' + Promises' /\ Owed' \in Nat /\ Promises' \in Nat
<1>1. (IInv /\ PromisesOK => Exposure = Owed + Promises /\ Owed \in Nat /\ Promises \in Nat)'
  BY ExposureIs, PTL
<1> QED BY <1>1

(* What is owed and what is promised, when one invoice or order changes.   *)
LEMMA OwedMoves ==
  ASSUME IInv, IInv'
  PROVE  /\ (\A i \in Invoices : OwedOn(i)' <= OwedOn(i)) => Owed' <= Owed
         /\ \A j \in Invoices : (\A i \in Invoices \ {j} : OwedOn(i)' <= OwedOn(i)) =>
                                  Owed' <= Owed - OwedOn(j) + OwedOn(j)'
<1>1. PICK S : S = Invoices
  OBVIOUS
<1>2. PICK f, g : f = [i \in S |-> OwedOn(i)] /\ g = [i \in S |-> OwedOn(i)']
  OBVIOUS
<1>3. f \in [S -> Nat] /\ g \in [S -> Nat] /\ IsFiniteSet(S)
  BY <1>1, <1>2, OwedIsNat, OwedOnIsNext, InvoicesFinite
<1>4. Owed = SumOf(f) /\ Owed' = SumOf(g)
  BY <1>1, <1>2 DEF Owed
<1>5. (\A i \in S : g[i] <= f[i]) => SumOf(g) <= SumOf(f)
  BY <1>3, SumMonotone
<1>6. ASSUME NEW j \in S, \A i \in S \ {j} : g[i] <= f[i]
      PROVE  SumOf(g) <= SumOf(f) - f[j] + g[j]
  BY <1>3, <1>6, SumGrowsAt
<1>7. \A i \in S : f[i] = OwedOn(i) /\ g[i] = OwedOn(i)'
  BY <1>2
<1> QED BY <1>1, <1>4, <1>5, <1>6, <1>7

LEMMA PromisesMove ==
  ASSUME IInv, PromisesOK, IInv', PromisesOK', NEW p \in Enquiries,
         \A q \in Enquiries \ {p} : Promised(q)' <= Promised(q)
  PROVE  Promises' <= Promises - Promised(p) + Promised(p)'
<1>1. PICK f, g : f = [q \in Enquiries |-> Promised(q)] /\ g = [q \in Enquiries |-> Promised(q)']
  OBVIOUS
<1>2. f \in [Enquiries -> Nat] /\ g \in [Enquiries -> Nat] /\ IsFiniteSet(Enquiries)
  BY <1>1, PromisedIsNat, PromisedIsNatNext, EnquiriesAssumption
<1>3. \A q \in Enquiries : f[q] = Promised(q) /\ g[q] = Promised(q)'
  BY <1>1
<1>4. SumOf(g) <= SumOf(f) - f[p] + g[p]
  BY <1>2, <1>3, SumGrowsAt
<1> QED BY <1>1, <1>3, <1>4 DEF Promises

LEMMA OwedStays ==
  ASSUME UNCHANGED <<invoice, applied, credited>>
  PROVE  Owed' = Owed
BY DEF Owed, OwedOn, InvoiceTotal, Paid, Noted, IssuedNotes

LEMMA PromisedStays ==
  ASSUME NEW p, so'[p] = so[p], so[p] # None => po'[p].approved = po[p].approved
  PROVE  Promised(p)' = Promised(p) /\ (PromiseOK(p) => PromiseOK(p)')
<1>1. so[p] # None => Total(p)' = Total(p)
  BY DEF Total
<1> QED BY <1>1 DEF Promised, PromiseOK

LEMMA OwedOnFalls ==
  ASSUME IInv, IInv', NEW i \in Invoices,
         i \in DOMAIN invoice' => i \in DOMAIN invoice /\ InvoiceTotal(i)' = InvoiceTotal(i),
         Paid(i) <= Paid(i)', Noted(i) <= Noted(i)'
  PROVE  OwedOn(i)' <= OwedOn(i)
<1>1. OwedOn(i) \in Nat
  BY OwedIsNat
<1>2. CASE i \notin DOMAIN invoice'
  BY <1>1, <1>2, OwedOnIsNext
<1>3. CASE i \in DOMAIN invoice'
  <2>1. PICK a, b, c, m, n, k : /\ a = InvoiceTotal(i) /\ b = Paid(i) /\ c = Noted(i)
                                /\ m = InvoiceTotal(i)' /\ n = Paid(i)' /\ k = Noted(i)'
    OBVIOUS
  <2>2. /\ a \in Nat /\ b \in Nat /\ c \in Nat /\ OwedOn(i) = IF a - b - c >= 0 THEN a - b - c ELSE 0
        /\ m \in Nat /\ n \in Nat /\ k \in Nat /\ OwedOn(i)' = IF m - n - k >= 0 THEN m - n - k ELSE 0
    BY <1>3, <2>1, OwedOnIs, OwedOnIsNext, Zenon
  <2>3. m = a /\ b <= n /\ c <= k
    BY <1>3, <2>1
  <2> QED BY <2>2, <2>3
<1> QED BY <1>2, <1>3

LEMMA ExposureFalling ==
  ASSUME IInv, PromisesOK, IInv', PromisesOK', NEW d \in Nat, NEW e \in Nat, NEW n \in Nat,
         Owed' <= Owed + d, Promises' <= Promises + n - e
  PROVE  Exposure \in Nat /\ Exposure' \in Nat /\ Exposure' <= Exposure + d + n - e
<1>1. PICK a, b, f, g : a = Owed /\ b = Promises /\ f = Owed' /\ g = Promises'
  OBVIOUS
<1>2. a \in Nat /\ b \in Nat /\ f \in Nat /\ g \in Nat /\ Exposure = a + b /\ Exposure' = f + g
  BY <1>1, ExposureIs, ExposureIsNext
<1>3. f <= a + d /\ g <= b + n - e
  BY <1>1
<1>4. f + g <= a + b + d + n - e
  BY <1>2, <1>3
<1> QED BY <1>2, <1>4

LEMMA ExposuresAreNat ==
  ASSUME IInv, PromisesOK, IInv', PromisesOK'
  PROVE  Exposure \in Nat /\ Exposure' \in Nat
<1>1. PICK a, b, f, g : a = Owed /\ b = Promises /\ f = Owed' /\ g = Promises'
  OBVIOUS
<1>2. Exposure = a + b /\ Exposure' = f + g /\ a \in Nat /\ b \in Nat /\ f \in Nat /\ g \in Nat
  BY <1>1, ExposureIs, ExposureIsNext
<1> QED BY <1>2

LEMMA PromisesStay ==
  ASSUME IInv, PromisesOK, TermsStay, so' = so
  PROVE  PromisesOK' /\ Promises' = Promises
<1>1. \A p \in Enquiries : so[p] # None => po'[p].approved = po[p].approved
  BY DEF TermsStay, AgreedStatuses, IInv, SalesOK, OrderOK
<1>2. \A p \in Enquiries : Promised(p)' = Promised(p) /\ PromiseOK(p)'
  BY <1>1, PromisedStays DEF PromisesOK
<1> QED BY <1>2 DEF PromisesOK, Promises

(* No order, invoice, allocation or credit note is written.                *)
LEMMA QuietExposure ==
  ASSUME IInv, PromisesOK, IInv', TermsStay, UNCHANGED <<so, invoice, applied, credited>>
  PROVE  PromisesOK' /\ Exposure' <= Exposure
<1>1. PromisesOK' /\ Promises' = Promises /\ Owed' = Owed
  BY PromisesStay, OwedStays
<1>2. Exposure = Owed + Promises /\ Exposure' = Owed' + Promises' /\ Owed \in Nat /\ Promises \in Nat
  BY <1>1, ExposureIs, ExposureIsNext
<1> QED BY <1>1, <1>2

(* Only order p is written.                                                *)
LEMMA OneOrder ==
  ASSUME IInv, PromisesOK, IInv', NEW p \in Enquiries, PromiseOK(p)',
         \A q \in Enquiries \ {p} : so'[q] = so[q] /\ po'[q] = po[q]
  PROVE  /\ PromisesOK' /\ Promises' <= Promises - Promised(p) + Promised(p)'
         /\ Promised(p) \in Nat /\ Promised(p)' \in Nat /\ Promises \in Nat
<1>1. \A q \in Enquiries \ {p} : Promised(q)' = Promised(q) /\ PromiseOK(q)'
  BY PromisedStays DEF PromisesOK
<1>2. PromisesOK'
  BY <1>1 DEF PromisesOK
<1>3. (\A q \in Enquiries : Promised(q) \in Nat) /\ \A q \in Enquiries : Promised(q)' \in Nat
  BY <1>2, PromisedIsNat, PromisedIsNatNext
<1>4. \A q \in Enquiries \ {p} : Promised(q)' <= Promised(q)
  BY <1>1, <1>3
<1> QED BY <1>2, <1>3, <1>4, PromisesMove, ExposureIs

(* An order is written that promises no more than it did.                  *)
LEMMA OrderExposure ==
  ASSUME IInv, PromisesOK, IInv', NEW p \in Enquiries, so[p] # None, NEW d, d # None, so' = [so EXCEPT ![p] = d],
         d.invoiced = so[p].invoiced, d.status = "CANCELLED" \/ so[p].status \in LiveStatuses,
         UNCHANGED <<po, invoice, applied, credited>>
  PROVE  PromisesOK' /\ Exposure' <= Exposure
<1>1. so'[p] = d /\ \A q \in Enquiries \ {p} : so'[q] = so[q]
  BY DEF IInv, SalesOK, SalesTypeOK
<1>2. Total(p)' = Total(p) /\ Total(p) \in Nat /\ so[p].invoiced \in Nat
  BY OrderTotals DEF Total
<1>3. PromiseOK(p)'
  BY <1>1, <1>2 DEF PromisesOK, PromiseOK, LiveStatuses
<1>4. /\ PromisesOK' /\ Promises' <= Promises - Promised(p) + Promised(p)'
      /\ Promised(p) \in Nat /\ Promised(p)' \in Nat /\ Promises \in Nat
  BY <1>1, <1>3, OneOrder
<1>5. Promised(p)' <= Promised(p)
  BY <1>1, <1>2, <1>4 DEF Promised, LiveStatuses
<1>6. Promises' \in Nat /\ Owed \in Nat /\ Exposure = Owed + Promises /\ Exposure' = Owed' + Promises'
  BY <1>4, ExposureIs, ExposureIsNext
<1>7. Promises' <= Promises
  BY <1>4, <1>5, <1>6
<1>8. Owed' = Owed
  BY OwedStays
<1>9. Owed' <= Owed + 0 /\ Promises' <= Promises + 0 - 0
  BY <1>4, <1>6, <1>7, <1>8
<1>10. Exposure' <= Exposure + 0 + 0 - 0 /\ Exposure \in Nat
  BY <1>4, <1>9, ExposureFalling
<1> QED BY <1>4, <1>10

(* Order p becomes a commitment.                                           *)
LEMMA CommitExposure ==
  ASSUME IInv, PromisesOK, IInv', NEW p \in Enquiries, PromiseOK(p)', Total(p)' \in Nat,
         Promised(p) = 0, Promised(p)' <= Total(p)',
         \A q \in Enquiries \ {p} : so'[q] = so[q] /\ po'[q] = po[q], UNCHANGED <<invoice, applied, credited>>
  PROVE  PromisesOK' /\ Exposure' <= Exposure + Total(p)' /\ Exposure \in Nat /\ Exposure' \in Nat
<1>1. /\ PromisesOK' /\ Promises' <= Promises - Promised(p) + Promised(p)'
      /\ Promised(p) \in Nat /\ Promised(p)' \in Nat /\ Promises \in Nat
  BY OneOrder
<1>2. /\ Promises' \in Nat /\ Owed \in Nat /\ Exposure = Owed + Promises /\ Exposure' = Owed' + Promises'
  BY <1>1, ExposureIs, ExposureIsNext
<1>3. Promises' <= Promises + Total(p)'
  BY <1>1, <1>2
<1>4. Owed' <= Owed + 0 /\ Promises' <= Promises + Total(p)' - 0
  BY <1>1, <1>2, <1>3, OwedStays
<1>5. Exposure' <= Exposure + 0 + Total(p)' - 0 /\ Exposure \in Nat /\ Exposure' \in Nat
  BY <1>1, <1>4, ExposureFalling
<1> QED BY <1>1, <1>5

(* An invoice for n pieces more.                                           *)
LEMMA InvoiceOwed ==
  ASSUME IInv, IInv', NEW inv \in InvoiceDocs, invoice' = Append(invoice, inv), UNCHANGED <<applied, credited>>
  PROVE  Owed' <= Owed + inv.billed
<1>1. PICK m : m = Len(invoice)
  OBVIOUS
<1>2. /\ m \in Nat /\ DOMAIN invoice = 1..m /\ DOMAIN invoice' = 1..(m + 1)
      /\ invoice'[m + 1] = inv /\ \A i \in 1..m : invoice'[i] = invoice[i]
  BY <1>1, InvoiceAdded DEF IInv, SalesOK
<1>3. PICK j : j = m + 1
  OBVIOUS
<1>4. j \in Invoices /\ j \in DOMAIN invoice' /\ j \notin DOMAIN invoice
  <2>1. (SalesOK => DOMAIN invoice \subseteq Invoices)'
    BY InvoicesAreFew, PTL
  <2> QED BY <1>2, <1>3, <2>1 DEF IInv
<1>5. \A i \in DOMAIN invoice' : i = j \/ i \in DOMAIN invoice
  BY <1>2, <1>3
<1>6. ASSUME NEW i \in Invoices \ {j}
      PROVE  OwedOn(i)' <= OwedOn(i)
  <2>1. i \in DOMAIN invoice' => i \in DOMAIN invoice /\ InvoiceTotal(i)' = InvoiceTotal(i)
    BY <1>2, <1>5 DEF InvoiceTotal
  <2>2. Paid(i)' = Paid(i) /\ Noted(i)' = Noted(i)
    BY DEF Paid, Noted, IssuedNotes
  <2>3. Paid(i) \in Nat /\ Noted(i) \in Nat
    BY PaidIsNat, NotedIsNat DEF IInv, SalesOK, SalesTypeOK
  <2>4. Paid(i) <= Paid(i)' /\ Noted(i) <= Noted(i)'
    BY <2>2, <2>3
  <2> QED BY <2>1, <2>4, OwedOnFalls
<1>7. Owed' <= Owed - OwedOn(j) + OwedOn(j)'
  BY <1>4, <1>6, OwedMoves
<1>8. OwedOn(j) = 0
  BY <1>4 DEF OwedOn
<1>9. InvoiceTotal(j)' = inv.billed
  BY <1>2, <1>3 DEF InvoiceTotal
<1>10. OwedOn(j)' <= inv.billed /\ OwedOn(j)' \in Nat /\ inv.billed \in Nat
  <2>1. PICK a, b, c, d : a = InvoiceTotal(j)' /\ b = Paid(j)' /\ c = Noted(j)' /\ d = OwedOn(j)'
    OBVIOUS
  <2>2. a \in Nat /\ b \in Nat /\ c \in Nat /\ d = IF a - b - c >= 0 THEN a - b - c ELSE 0
    BY <1>4, <2>1, OwedOnIsNext, Zenon
  <2>3. d <= a /\ d \in Nat
    BY <2>2
  <2> QED BY <1>9, <2>1, <2>2, <2>3
<1>11. Owed \in Nat /\ Owed' \in Nat
  <2>1. PICK f, g : f = [i \in Invoices |-> OwedOn(i)] /\ g = [i \in Invoices |-> OwedOn(i)']
    OBVIOUS
  <2>2. f \in [Invoices -> Nat] /\ g \in [Invoices -> Nat]
    BY <2>1, OwedIsNat, OwedOnIsNext
  <2> QED BY <2>1, <2>2, InvoicesFinite, SumIsNat DEF Owed
<1> QED BY <1>7, <1>8, <1>10, <1>11

(* A sale keeps the exposure when its order is as the clerk read it: what   *)
(* the customer owes more is promised less.                                *)
LEMMA SellExposure ==
  ASSUME IInv, PromisesOK, IInv', NEW w \in Clerks, SellPieces(w), TermsStay, UNCHANGED <<applied, credited>>
  PROVE  PromisesOK' /\ (~Overbills(w, desk[w].po) => Exposure' <= Exposure)
<1>1. PICK t : t = desk[w]
  OBVIOUS
<1>2. t \in Tasks /\ TaskOK(t) /\ t.job = "invoice" /\ At(w, "invoice")
  BY <1>1 DEF IInv, SalesOK, SalesTypeOK, SellPieces, At
<1>3. PICK p, n : p = t.po /\ n = t.n
  OBVIOUS
<1>4. /\ p \in Enquiries /\ so[p] # None /\ t.held \in Seq(Pieces) /\ t.held # <<>> /\ t.invoiced \in Nat
      /\ n \in Nat \ {0} /\ PiecesSold(t) \in 1..Len(t.held)
  BY <1>2, <1>3, PiecesSoldIs DEF TaskOK, Tasks
<1>5. PICK list, rest : list = SubSeq(t.held, 1, PiecesSold(t)) /\ rest = SubSeq(t.held, PiecesSold(t) + 1, Len(t.held))
  OBVIOUS
<1>6. PICK target, k : target = StatusFor(Total(p), Len(rest), k) /\ k = t.invoiced + n
  OBVIOUS
<1>7. CASE UNCHANGED <<so, invoice>>
  BY <1>7, QuietExposure
<1>8. CASE ~UNCHANGED <<so, invoice>>
  <2>1. /\ IsInjective(list) /\ MayMoveSo("invoice", p, target)
        /\ invoice' = Append(invoice, [so |-> p, items |-> Range(list), billed |-> n])
        /\ so' = [so EXCEPT ![p].status = target, ![p].held = rest, ![p].invoiced = k]
        /\ UNCHANGED po
    BY <1>1, <1>3, <1>5, <1>6, <1>8, Zenon DEF SellPieces
  <2>2. so[p] \in SalesOrderDocs /\ so[p].invoiced \in Nat /\ Total(p) \in Nat /\ Total(p)' = Total(p)
    BY <1>4, <2>1, OrderTotals DEF Total
  <2>3. so[p].status \in LiveStatuses /\ target \in {"PARTIALLY_FULFILLED", "FULFILLED"}
    BY <2>1 DEF MayMoveSo, MaySo, SORules, Rule, LiveStatuses
  <2>4. n \in Nat /\ k \in Nat /\ k > 0 /\ k = t.invoiced + n
    BY <1>4, <1>6
  <2>5. target = "FULFILLED" \/ k < Total(p)
    BY <1>6, <2>2, <2>4 DEF StatusFor
  <2>6. so'[p] # None => so'[p].invoiced = k /\ so'[p].status = target
    BY <1>4, <2>1, <2>2 DEF IInv, SalesOK, SalesTypeOK, SalesOrderDocs
  <2>7. PromiseOK(p)'
    BY <2>2, <2>4, <2>5, <2>6 DEF PromiseOK
  <2>8. \A q \in Enquiries \ {p} : so'[q] = so[q] /\ po'[q] = po[q]
    BY <2>1 DEF IInv, SalesOK, SalesTypeOK
  <2>9. /\ PromisesOK' /\ Promises' <= Promises - Promised(p) + Promised(p)'
        /\ Promised(p) \in Nat /\ Promised(p)' \in Nat /\ Promises \in Nat
    BY <1>4, <2>7, <2>8, OneOrder
  <2>10. ASSUME ~Overbills(w, desk[w].po)
         PROVE  Exposure' <= Exposure
    <3>1. ~t.old /\ p \notin muddled /\ ~(n > Len(t.held))
      BY <1>1, <1>2, <1>3, <2>10 DEF Overbills
    <3>2. t.held = so[p].held /\ t.invoiced = so[p].invoiced
      BY <1>2, <1>3, <3>1 DEF TaskOK, WithCopy
    <3>3. Len(so[p].held) + so[p].invoiced <= Total(p)
      BY <1>4, <3>1, <3>2 DEF IInv, SalesOK, NumbersOK, CountsOK
    <3>4. k <= Total(p)
      <4>1. n <= Len(t.held) /\ Len(t.held) \in Nat
        BY <1>4, <3>1, LenProperties
      <4> QED BY <2>2, <2>4, <3>2, <3>3, <4>1
    <3>5. Promised(p) = Total(p) - t.invoiced
      BY <1>4, <2>3, <3>2 DEF Promised
    <3>6. Promised(p)' <= Total(p) - k
      BY <2>2, <2>3, <2>4, <2>6, <3>4 DEF Promised
    <3>7. Promises' <= Promises + 0 - n
      <4>1. Promises' \in Nat
        BY <2>9, ExposureIsNext
      <4>2. Promised(p)' <= Promised(p) - n
        BY <1>4, <2>2, <2>4, <3>5, <3>6, <2>9
      <4> QED BY <2>4, <2>9, <4>1, <4>2
    <3>8. Range(list) \subseteq Pieces
      <4>1. list \in Seq(Pieces)
        BY <1>4, <1>5, ListParts
      <4> QED BY <4>1, ListMembers
    <3>9. PICK inv : inv = [so |-> p, items |-> Range(list), billed |-> n]
      OBVIOUS
    <3>10. inv \in InvoiceDocs /\ inv.billed = n /\ invoice' = Append(invoice, inv)
      BY <1>4, <2>1, <2>4, <3>8, <3>9 DEF InvoiceDocs
    <3>11. Owed' <= Owed + n
      BY <3>10, InvoiceOwed
    <3>12. 0 \in Nat /\ Exposure \in Nat /\ Exposure' \in Nat /\ Exposure' <= Exposure + n + 0 - n
      BY <2>4, <2>9, <3>7, <3>11, ExposureFalling
    <3> QED BY <2>4, <3>12
  <2> QED BY <2>9, <2>10
<1> QED BY <1>7, <1>8

(* A clerk who did not act knows what it knew, or that it is out of date.  *)
Converting == {"convert", "convert-commit"}

SeesAsBefore(t, u) ==
  /\ u.po = t.po /\ (u.job \in Converting => t.job \in Converting)
  /\ (u.job \in Checked /\ ~u.old) => u.job = t.job /\ ~t.old /\ u.over = t.over

(* A credit check that still counts was made on no less exposure.          *)
Spared == (\E v \in Clerks : desk'[v].job \in Checked /\ ~desk'[v].old) => Exposure' <= Exposure

(* What a step leaves of the checks: each stands, or is a new one.         *)
CheckFine ==
  /\ PromisesOK' /\ Spared
  /\ \A v \in Clerks : SeesAsBefore(desk[v], desk'[v]) \/ (TermsOK(desk[v])' /\ CreditOK(desk[v])')

LEMMA TermsAre ==
  ASSUME CreditInv, TermsStay, NEW t, TaskOK(t), TermsOK(t), t.job \in Converting \union Checked
  PROVE  /\ t.po \in Enquiries /\ Total(t.po) \in Nat /\ Total(t.po)' = Total(t.po)
         /\ t.job \in Converting => TermsOK(t)'
<1>1. t.po \in Enquiries
  BY DEF TaskOK, Converting, Checked
<1>2. po[t.po] # None /\ po[t.po].status \in AgreedStatuses /\ po[t.po].approved # None
  <2>1. CASE t.job \in Converting
    BY <2>1 DEF TermsOK, Converting
  <2>2. CASE t.job \notin Converting
    <3>1. so[t.po] # None
      BY <2>2 DEF TaskOK, Converting, Checked
    <3> QED BY <1>1, <3>1 DEF CreditInv, IInv, SalesOK, OrderOK, AgreedStatuses
  <2> QED BY <2>1, <2>2
<1>3. po'[t.po] # None /\ po'[t.po].status \in AgreedStatuses /\ po'[t.po].approved = po[t.po].approved
  BY <1>1, <1>2 DEF TermsStay
<1>4. EnquiryTypeOK
  BY DEF CreditInv, IInv, EnquiryOK
<1>5. Total(t.po) \in Nat
  BY <1>1, <1>2, <1>4, TotalIsNat
<1>6. Total(t.po)' = Total(t.po) /\ TermsOK(t)'
  BY <1>2, <1>3 DEF Total, TermsOK
<1> QED BY <1>1, <1>5, <1>6

LEMMA CheckStands ==
  ASSUME CreditInv, TermsStay, NEW t, NEW u, TaskOK(t), TermsOK(t), CreditOK(t), SeesAsBefore(t, u),
         Exposure \in Nat, Exposure' \in Nat, (u.job \in Checked /\ ~u.old) => Exposure' <= Exposure
  PROVE  TermsOK(u)' /\ CreditOK(u)'
<1>1. TermsOK(u)'
  <2> SUFFICES ASSUME u.job \in Converting PROVE TermsOK(u)'
    BY DEF TermsOK, Converting
  <2>1. t.job \in Converting /\ u.po = t.po
    BY DEF SeesAsBefore
  <2>2. TermsOK(t)'
    BY <2>1, TermsAre
  <2> QED BY <2>1, <2>2 DEF TermsOK, Converting
<1>2. CreditOK(u)'
  <2> SUFFICES ASSUME u.job \in Checked, ~u.old, ~u.over PROVE Exposure' + Total(u.po)' <= Limit
    BY DEF CreditOK
  <2>1. t.job \in Checked /\ ~t.old /\ ~t.over /\ u.po = t.po
    BY DEF SeesAsBefore
  <2>2. Total(u.po) \in Nat /\ Total(u.po)' = Total(u.po)
    BY <2>1, TermsAre
  <2>3. Exposure + Total(u.po) <= Limit
    BY <2>1 DEF CreditOK
  <2> QED BY <2>2, <2>3, SalesOrdersAssumption
<1> QED BY <1>1, <1>2

LEMMA FineKeepsCredit ==
  ASSUME CreditInv, IInv', TermsStay, CheckFine
  PROVE  CreditInv'
<1>1. IInv /\ PromisesOK
  BY DEF CreditInv, PromisesOK
<1>2. Exposure \in Nat /\ Exposure' \in Nat
  BY <1>1, ExposuresAreNat DEF CheckFine
<1>3. ASSUME NEW v \in Clerks PROVE (TermsOK(desk[v]) /\ CreditOK(desk[v]))'
  <2>1. CASE TermsOK(desk[v])' /\ CreditOK(desk[v])'
    BY <2>1
  <2>2. CASE SeesAsBefore(desk[v], desk'[v])
    <3>1. PICK t, u : t = desk[v] /\ u = desk'[v]
      OBVIOUS
    <3>2. TaskOK(t) /\ TermsOK(t) /\ CreditOK(t) /\ SeesAsBefore(t, u)
      BY <2>2, <3>1 DEF CreditInv, IInv, SalesOK, CheckFine
    <3>3. (u.job \in Checked /\ ~u.old) => Exposure' <= Exposure
      BY <3>1 DEF CheckFine, Spared
    <3>4. TermsOK(u)' /\ CreditOK(u)'
      BY <1>2, <3>2, <3>3, CheckStands
    <3> QED BY <3>1, <3>4
  <2> QED BY <2>1, <2>2 DEF CheckFine
<1> QED BY <1>3 DEF CreditInv, CheckFine, PromisesOK

LEMMA NoCheck ==
  ASSUME NEW u, u.job \notin Converting \union Checked
  PROVE  TermsOK(u)' /\ CreditOK(u)'
BY DEF TermsOK, CreditOK, Converting

LEMMA DeskMoves ==
  ASSUME SalesTypeOK, NEW w \in Clerks, NEW u, Next1(w, u)
  PROVE  desk'[w] = u /\ \A v \in Clerks \ {w} : SeesAsBefore(desk[v], desk'[v])
<1>1. desk'[w] = u /\ \A v \in Clerks \ {w} : desk'[v] = desk[v]
  BY DEF Next1, SalesTypeOK
<1> QED BY <1>1 DEF SeesAsBefore

-----------------------------------------------------------------------------
(* What each handler does to the credit checks of the others *)

(* Clerk w moves on, and no order, invoice, allocation or note is written. *)
LEMMA QuietFine ==
  ASSUME CreditInv, IInv', TermsStay, NEW w \in Clerks, NEW u, Next1(w, u), TermsOK(u)', CreditOK(u)',
         UNCHANGED <<so, invoice, applied, credited>>
  PROVE  CheckFine
<1>1. IInv /\ PromisesOK /\ SalesTypeOK
  BY DEF CreditInv, PromisesOK, IInv, SalesOK
<1>2. PromisesOK' /\ Exposure' <= Exposure
  BY <1>1, QuietExposure
<1>3. desk'[w] = u /\ \A v \in Clerks \ {w} : SeesAsBefore(desk[v], desk'[v])
  BY <1>1, DeskMoves
<1> QED BY <1>2, <1>3 DEF CheckFine, Spared

LEMMA RestFine ==
  ASSUME CreditInv, IInv', TermsStay, NEW w \in Clerks, Rest(w), UNCHANGED <<so, invoice, applied, credited>>
  PROVE  CheckFine
<1>1. TermsOK(Free)' /\ CreditOK(Free)'
  BY NoCheck DEF Free, Converting, Checked
<1> QED BY <1>1, QuietFine DEF Rest

(* Clerk w writes its order, and goes on as u.                             *)
LEMMA WriteFine ==
  ASSUME CreditInv, NEW w \in Clerks, NEW p, NEW u, WritesOrder(w, p, u), u.job \notin Converting \union Checked,
         PromisesOK', ~Overbills(w, p) => Exposure' <= Exposure
  PROVE  CheckFine /\ \A v \in Clerks \ {w} : desk'[v].job = desk[v].job
<1>1. desk \in [Clerks -> Tasks]
  BY DEF CreditInv, IInv, SalesOK, SalesTypeOK
<1>2. desk'[w] = u
  BY DEF WritesOrder
<1>3. ASSUME NEW v \in Clerks \ {w}
      PROVE  /\ SeesAsBefore(desk[v], desk'[v])
             /\ desk'[v].job \in Checked /\ ~desk'[v].old => ~Overbills(w, p)
             /\ desk'[v].job = desk[v].job
  <2>1. PICK old : /\ old = \/ desk[v].old
                            \/ desk[v].po = p /\ desk[v].job \in WithCopy
                            \/ Overbills(w, p) /\ desk[v].job \in Checked
                   /\ desk'[v] = [desk[v] EXCEPT !.old = old]
    BY DEF WritesOrder
  <2>2. /\ desk'[v].po = desk[v].po /\ desk'[v].job = desk[v].job /\ desk'[v].over = desk[v].over
        /\ desk'[v].old = old
    BY <1>1, <2>1 DEF Tasks
  <2> QED BY <2>1, <2>2 DEF SeesAsBefore
<1>4. TermsOK(desk[w])' /\ CreditOK(desk[w])'
  BY <1>2, NoCheck
<1>5. Spared
  BY <1>2, <1>3 DEF Spared
<1> QED BY <1>3, <1>4, <1>5 DEF CheckFine

LEMMA StartConvertFine ==
  ASSUME CreditInv, IInv', TermsStay, NEW w \in Clerks, NEW p \in Enquiries, NEW may \in BOOLEAN,
         StartConvert(w, p, may), UNCHANGED <<applied, credited>>
  PROVE  CheckFine
<1>1. PICK u : u = [Free EXCEPT !.job = "convert", !.po = p, !.allowed = may]
  OBVIOUS
<1>2. Next1(w, u) /\ UNCHANGED <<so, invoice, po>> /\ po[p] # None /\ po[p].status = "APPROVED"
  BY <1>1 DEF StartConvert, MayPo, PORules, Rule
<1>3. po[p].approved # None
  BY <1>2 DEF CreditInv, IInv, EnquiryOK, PoOK
<1>4. u.job = "convert" /\ u.po = p
  BY <1>1 DEF Free
<1>5. TermsOK(u)'
  BY <1>2, <1>3, <1>4 DEF TermsOK, AgreedStatuses
<1>6. CreditOK(u)'
  BY <1>4 DEF CreditOK, Checked
<1> QED BY <1>2, <1>5, <1>6, QuietFine

LEMMA StartApproveCreditFine ==
  ASSUME CreditInv, IInv', TermsStay, NEW w \in Clerks, NEW p \in Enquiries, NEW may \in BOOLEAN,
         StartApproveCredit(w, p, may), UNCHANGED <<applied, credited>>
  PROVE  CheckFine
<1>1. PICK u : u = [Free EXCEPT !.job = "confirm", !.po = p, !.allowed = may]
  OBVIOUS
<1>2. Next1(w, u) /\ UNCHANGED <<so, invoice>>
  BY <1>1 DEF StartApproveCredit
<1>3. TermsOK(u)' /\ CreditOK(u)'
  <2>1. u.job = "confirm"
    BY <1>1 DEF Free
  <2> QED BY <2>1, NoCheck DEF Converting, Checked
<1> QED BY <1>2, <1>3, QuietFine

LEMMA CheckCreditFine ==
  ASSUME CreditInv, IInv', TermsStay, NEW w \in Clerks, CheckCredit(w), UNCHANGED <<applied, credited>>
  PROVE  CheckFine
<1>1. PICK t : t = desk[w]
  OBVIOUS
<1>2. t \in Tasks /\ TaskOK(t) /\ TermsOK(t) /\ t.job \in {"convert", "confirm"} /\ UNCHANGED <<so, invoice, po>>
  BY <1>1 DEF CreditInv, IInv, SalesOK, SalesTypeOK, CheckCredit
<1>3. PICK u : u = [t EXCEPT !.job = IF t.job = "convert" THEN "convert-commit" ELSE "confirm-commit",
                             !.over = Exposure + Total(t.po) > Limit, !.old = FALSE]
  OBVIOUS
<1>4. Next1(w, u)
  BY <1>1, <1>3 DEF CheckCredit
<1>5. /\ u.job = IF t.job = "convert" THEN "convert-commit" ELSE "confirm-commit"
      /\ u.po = t.po /\ (~u.over => ~(Exposure + Total(t.po) > Limit))
  BY <1>2, <1>3 DEF Tasks
<1>6. Total(t.po) \in Nat /\ Total(t.po)' = Total(t.po) /\ TermsOK(u)'
  <2>1. CASE t.job = "convert"
    <3>1. t.job \in Converting \union Checked
      BY <2>1 DEF Converting
    <3>2. Total(t.po) \in Nat /\ Total(t.po)' = Total(t.po) /\ (t.job \in Converting => TermsOK(t)')
      BY <1>2, <3>1, TermsAre
    <3> QED BY <1>5, <2>1, <3>2 DEF TermsOK, Converting
  <2>2. CASE t.job = "confirm"
    <3>1. t.po \in Enquiries /\ so[t.po] # None
      BY <1>2, <2>2 DEF TaskOK
    <3>2. Total(t.po) \in Nat
      BY <3>1, OrderTotals DEF CreditInv
    <3>3. Total(t.po)' = Total(t.po)
      BY <1>2 DEF Total
    <3> QED BY <1>5, <2>2, <3>2, <3>3 DEF TermsOK
  <2> QED BY <1>2, <2>1, <2>2
<1>7. IInv /\ PromisesOK
  BY DEF CreditInv, PromisesOK
<1>8. PromisesOK' /\ Exposure' <= Exposure
  BY <1>2, <1>7, QuietExposure
<1>9. CreditOK(u)'
  <2> SUFFICES ASSUME ~u.over PROVE Exposure' + Total(u.po)' <= Limit
    BY DEF CreditOK
  <2>1. Exposure \in Nat /\ Exposure' \in Nat
    BY <1>7, <1>8, ExposuresAreNat
  <2>2. ~(Exposure + Total(t.po) > Limit) /\ u.po = t.po
    BY <1>5
  <2> QED BY <1>6, <1>8, <2>1, <2>2, SalesOrdersAssumption
<1> QED BY <1>2, <1>4, <1>6, <1>9, QuietFine

(* A commitment without an override, on a check that is not out of date.   *)
Honoured(w, p) == (Commits(w, p) /\ ~so'[p].override /\ ~desk[w].old) => Exposure' <= Limit

(* A commit sends the other transactions on the customer back to the check. *)
LEMMA ConflictsFine ==
  ASSUME CreditInv, NEW w \in Clerks, Conflicts(w), PromisesOK'
  PROVE  CheckFine /\ \A v \in Clerks \ {w} : desk[v].job \in Checked => desk'[v] # Free
<1>1. desk \in [Clerks -> Tasks] /\ desk'[w] = Free /\ Free.job = "none"
  BY DEF CreditInv, IInv, SalesOK, SalesTypeOK, Conflicts, Free
<1>2. ASSUME NEW v \in Clerks \ {w}
      PROVE  /\ SeesAsBefore(desk[v], desk'[v]) /\ desk'[v].job \notin Checked
             /\ desk[v].job \in Checked => desk'[v].job # "none"
  <2>1. PICK t, u : t = desk[v] /\ u = desk'[v]
    OBVIOUS
  <2>2. t \in Tasks
    BY <1>1, <2>1
  <2>3. CASE t.job = "convert-commit"
    <3>1. u = [t EXCEPT !.job = "convert"]
      BY <2>1, <2>3 DEF Conflicts
    <3>2. u.job = "convert" /\ u.po = t.po
      BY <2>2, <3>1 DEF Tasks
    <3> QED BY <2>1, <2>3, <3>2 DEF SeesAsBefore, Checked, Converting
  <2>4. CASE t.job = "confirm-commit"
    <3>1. u = [t EXCEPT !.job = "confirm"]
      BY <2>1, <2>4 DEF Conflicts
    <3>2. u.job = "confirm" /\ u.po = t.po
      BY <2>2, <3>1 DEF Tasks
    <3> QED BY <2>1, <2>4, <3>2 DEF SeesAsBefore, Checked, Converting
  <2>5. CASE t.job \notin Checked
    <3>1. u = t
      BY <2>1, <2>5 DEF Conflicts, Checked
    <3> QED BY <2>1, <2>5, <3>1 DEF SeesAsBefore
  <2> QED BY <2>3, <2>4, <2>5 DEF Checked
<1>3. TermsOK(desk[w])' /\ CreditOK(desk[w])'
  BY <1>1, NoCheck DEF Converting, Checked
<1>4. Spared
  BY <1>1, <1>2 DEF Spared, Checked
<1> QED BY <1>1, <1>2, <1>3, <1>4 DEF CheckFine

LEMMA CommitOrderFine ==
  ASSUME CreditInv, IInv', TermsStay, NEW w \in Clerks, NEW p \in Enquiries, CommitOrder(w, p),
         UNCHANGED <<applied, credited>>
  PROVE  CheckFine /\ Honoured(w, p) /\ (so' # so => Conflicts(w))
<1>1. IInv /\ PromisesOK /\ EnquiryOK /\ SalesTypeOK /\ EnquiryTypeOK'
  BY DEF CreditInv, PromisesOK, IInv, EnquiryOK, SalesOK
<1>2. PICK t : t = desk[w]
  OBVIOUS
<1>3. /\ t \in Tasks /\ TaskOK(t) /\ TermsOK(t) /\ CreditOK(t) /\ t.job = "convert-commit" /\ t.po = p
      /\ UNCHANGED invoice
  BY <1>1, <1>2 DEF CreditInv, IInv, SalesOK, SalesTypeOK, CommitOrder, At
<1>4. CASE Rest(w) /\ UNCHANGED so
  BY <1>3, <1>4, RestFine DEF Honoured, Commits
<1>5. CASE ~(Rest(w) /\ UNCHANGED so)
  <2>1. PICK held, override, d : /\ held = (t.over /\ ~t.allowed) /\ override = (t.over /\ t.allowed)
                                 /\ d = [status |-> IF held THEN "DRAFT" ELSE "CONFIRMED", held |-> <<>>,
                                         invoiced |-> 0, override |-> override]
    OBVIOUS
  <2>2. so[p] = None /\ ConvertEnquiry(p) /\ so' = [so EXCEPT ![p] = d] /\ Conflicts(w)
    BY <1>2, <1>5, <2>1 DEF CommitOrder
  <2>3. t.over \in BOOLEAN /\ t.allowed \in BOOLEAN
    BY <1>3 DEF Tasks
  <2>4. /\ d.invoiced = 0 /\ d.override = override /\ d.status \in {"DRAFT", "CONFIRMED"}
        /\ d.status = "CONFIRMED" /\ ~d.override => ~t.over
    BY <2>1, <2>3
  <2>5. so'[p] = d /\ \A q \in Enquiries \ {p} : so'[q] = so[q] /\ po'[q] = po[q]
    BY <1>1, <2>2, ConvertingKeeps DEF SalesTypeOK
  <2>6. Total(p)' \in Nat
    BY <1>1, <2>2, ConvertingKeeps, TotalIsNatNext
  <2>7. Promised(p) = 0
    BY <2>2 DEF Promised
  <2>8. PromiseOK(p)' /\ Promised(p)' <= Total(p)'
    <3>1. PICK m : m = Total(p)'
      OBVIOUS
    <3>2. PromiseOK(p)'
      BY <2>4, <2>5, <2>6 DEF PromiseOK
    <3>3. Promised(p)' = IF so'[p] # None /\ d.status \in LiveStatuses THEN m - d.invoiced ELSE 0
      BY <2>5, <3>1 DEF Promised
    <3>4. Promised(p)' <= m
      BY <2>4, <2>6, <3>1, <3>3
    <3> QED BY <3>1, <3>2, <3>4
  <2>9. PromisesOK' /\ Exposure' <= Exposure + Total(p)' /\ Exposure \in Nat /\ Exposure' \in Nat
    BY <1>1, <1>3, <2>5, <2>6, <2>7, <2>8, CommitExposure
  <2>10. ASSUME so'[p].status = "CONFIRMED", ~so'[p].override, ~desk[w].old
         PROVE  Exposure' <= Limit
    <3>1. Exposure + Total(p) <= Limit
      BY <1>2, <1>3, <2>4, <2>5, <2>10 DEF CreditOK, Checked
    <3>2. t.job \in Converting \union Checked
      BY <1>3 DEF Converting
    <3>3. Total(p)' = Total(p)
      BY <1>3, <3>2, TermsAre
    <3> QED BY <2>6, <2>9, <3>1, <3>3, SalesOrdersAssumption
  <2>11. CheckFine
    BY <2>2, <2>9, ConflictsFine
  <2> QED BY <2>2, <2>10, <2>11 DEF Honoured, Commits
<1> QED BY <1>4, <1>5

LEMMA CommitApprovalFine ==
  ASSUME CreditInv, IInv', TermsStay, NEW w \in Clerks, CommitApproval(w), UNCHANGED <<applied, credited>>
  PROVE  CheckFine /\ Honoured(w, desk[w].po) /\ (so' # so => Conflicts(w))
<1>1. IInv /\ PromisesOK /\ SalesTypeOK
  BY DEF CreditInv, PromisesOK, IInv, SalesOK
<1>2. PICK t : t = desk[w]
  OBVIOUS
<1>3. PICK p : p = t.po
  OBVIOUS
<1>4. /\ t \in Tasks /\ TaskOK(t) /\ TermsOK(t) /\ CreditOK(t) /\ t.job = "confirm-commit" /\ p \in Enquiries
      /\ UNCHANGED <<invoice, po>>
  BY <1>1, <1>2, <1>3 DEF CreditInv, IInv, SalesOK, SalesTypeOK, CommitApproval, At, TaskOK
<1>5. CASE Rest(w) /\ UNCHANGED so
  BY <1>4, <1>5, RestFine DEF Honoured, Commits
<1>6. CASE ~(Rest(w) /\ UNCHANGED so)
  <2>1. /\ MaySo("confirm", p) /\ Conflicts(w)
        /\ so' = [so EXCEPT ![p].status = "CONFIRMED", ![p].override = t.over]
    BY <1>2, <1>3, <1>6, Zenon DEF CommitApproval
  <2>2. so[p] # None /\ so[p].status = "DRAFT"
    BY <2>1 DEF MaySo, SORules, Rule
  <2>3. so[p] \in SalesOrderDocs /\ so[p].invoiced \in Nat /\ Total(p) \in Nat /\ Total(p)' = Total(p)
    BY <1>1, <1>4, <2>2, OrderTotals DEF Total
  <2>4. PICK d : d = [so[p] EXCEPT !.status = "CONFIRMED", !.override = t.over]
    OBVIOUS
  <2>5. d.status = "CONFIRMED" /\ d.override = t.over /\ d.invoiced = so[p].invoiced
    BY <2>3, <2>4 DEF SalesOrderDocs
  <2>6. so'[p] = d /\ \A q \in Enquiries \ {p} : so'[q] = so[q] /\ po'[q] = po[q]
    BY <1>1, <1>4, <2>1, <2>4 DEF SalesTypeOK
  <2>7. so[p].invoiced <= Total(p)
    BY <1>1, <1>4, <2>2 DEF PromisesOK, PromiseOK
  <2>8. Promised(p) = 0
    BY <2>2 DEF Promised, LiveStatuses
  <2>9. PromiseOK(p)' /\ Promised(p)' <= Total(p)'
    <3>1. PICK m : m = Total(p)'
      OBVIOUS
    <3>2. PromiseOK(p)'
      BY <2>3, <2>5, <2>6, <2>7 DEF PromiseOK
    <3>3. Promised(p)' = IF so'[p] # None /\ d.status \in LiveStatuses THEN m - d.invoiced ELSE 0
      BY <2>6, <3>1 DEF Promised
    <3>4. Promised(p)' <= m
      BY <2>3, <2>5, <3>1, <3>3
    <3> QED BY <3>1, <3>2, <3>4
  <2>10. PromisesOK' /\ Exposure' <= Exposure + Total(p)' /\ Exposure \in Nat /\ Exposure' \in Nat
    BY <1>1, <1>4, <2>3, <2>6, <2>8, <2>9, CommitExposure
  <2>11. ASSUME ~so'[p].override, ~desk[w].old
         PROVE  Exposure' <= Limit
    <3>1. ~t.over
      BY <2>5, <2>6, <2>11
    <3>2. Exposure + Total(p) <= Limit
      BY <1>2, <1>3, <1>4, <2>11, <3>1 DEF CreditOK, Checked
    <3> QED BY <2>3, <2>10, <3>2, SalesOrdersAssumption
  <2>12. CheckFine
    BY <2>1, <2>10, ConflictsFine
  <2> QED BY <1>2, <1>3, <2>1, <2>11, <2>12 DEF Honoured
<1> QED BY <1>5, <1>6

(* No transaction that checked the credit ends in this step.               *)
NoneCommits == \A v \in Clerks : desk[v].job \in Checked => desk'[v] # Free

(* A clerk starts on a copy of its order.                                  *)
LEMMA CopyFine ==
  ASSUME CreditInv, IInv', TermsStay, NEW w \in Clerks, NEW u, u.job \in WithCopy, Next1(w, u),
         UNCHANGED <<so, invoice, applied, credited>>
  PROVE  CheckFine
<1>1. TermsOK(u)' /\ CreditOK(u)'
  BY NoCheck DEF WithCopy, Converting, Checked
<1> QED BY <1>1, QuietFine

LEMMA CopyJob ==
  ASSUME NEW p, NEW job, NEW n
  PROVE  Copy(p, job).job = job /\ [Copy(p, job) EXCEPT !.n = n].job = job
BY DEF Copy, Free

(* Clerk w writes order p, which promises no more than it did.             *)
LEMMA OrderFine ==
  ASSUME CreditInv, IInv', NEW w \in Clerks, NEW p \in Enquiries, so[p] # None, NEW d, d # None,
         so' = [so EXCEPT ![p] = d], d.invoiced = so[p].invoiced,
         d.status = "CANCELLED" \/ so[p].status \in LiveStatuses,
         NEW u, u.job \notin Converting \union Checked, WritesOrder(w, p, u),
         desk[w].job \notin Checked, UNCHANGED <<po, invoice, applied, credited>>
  PROVE  CheckFine /\ NoneCommits
<1>1. IInv /\ PromisesOK
  BY DEF CreditInv, PromisesOK
<1>2. PromisesOK' /\ Exposure' <= Exposure
  BY <1>1, OrderExposure
<1>3. CheckFine /\ \A v \in Clerks \ {w} : desk'[v].job = desk[v].job
  BY <1>2, WriteFine
<1>4. Free.job \notin Checked
  BY DEF Free, Checked
<1> QED BY <1>3, <1>4 DEF NoneCommits

LEMMA HoldPiecesFine ==
  ASSUME CreditInv, IInv', TermsStay, NEW w \in Clerks, HoldPieces(w), UNCHANGED <<applied, credited>>
  PROVE  CheckFine /\ (so' = so \/ NoneCommits)
<1>1. PICK t : t = desk[w]
  OBVIOUS
<1>2. /\ t \in Tasks /\ TaskOK(t) /\ t.job = "hold" /\ UNCHANGED <<invoice, po>>
      /\ so \in [Enquiries -> SalesOrderDocs \union {None}]
  BY <1>1 DEF CreditInv, IInv, SalesOK, SalesTypeOK, HoldPieces, At
<1>3. PICK p, list : p = t.po /\ list = Allocations(t)
  OBVIOUS
<1>4. PICK target : target = StatusFor(Total(p), Len(list), t.invoiced)
  OBVIOUS
<1>5. p \in Enquiries /\ so[p] # None /\ so[p] \in SalesOrderDocs
  BY <1>2, <1>3 DEF TaskOK
<1>6. CASE WritesOrder(w, p, Free) /\ MayMoveSo("allocate", p, target)
           /\ so' = [so EXCEPT ![p].status = target, ![p].held = list]
  <2>1. PICK d : d = [so[p] EXCEPT !.status = target, !.held = list]
    OBVIOUS
  <2>2. so' = [so EXCEPT ![p] = d]
    BY <1>2, <1>5, <1>6, <2>1
  <2>3. d.invoiced = so[p].invoiced /\ d.status = target
    BY <1>5, <2>1 DEF SalesOrderDocs
  <2>4. so[p].status \in LiveStatuses
    BY <1>6 DEF MayMoveSo, MaySo, SORules, Rule, LiveStatuses
  <2>5. d # None
    <3>1. target \in DOMAIN SOTransitions
      BY <1>6 DEF MayMoveSo, SORules, Rule, SOTransitions
    <3>2. t.held \in Seq(Pieces) /\ t.picked \in Seq(Pieces)
      BY <1>2 DEF Tasks
    <3>3. list \in Seq(Pieces)
      BY <1>3, <3>2 DEF Allocations
    <3>4. d \in SalesOrderDocs
      BY <1>5, <2>1, <3>1, <3>3 DEF SalesOrderDocs
    <3> QED BY <3>4, SalesDocumentsAssumption
  <2>6. Free.job \notin Converting \union Checked /\ desk[w].job \notin Checked
    BY <1>1, <1>2 DEF Free, Converting, Checked
  <2> QED BY <1>2, <1>5, <1>6, <2>2, <2>3, <2>4, <2>5, <2>6, OrderFine
<1>7. CASE Next1(w, [t EXCEPT !.job = "allocate"]) /\ UNCHANGED so
  <2>1. PICK u : u = [t EXCEPT !.job = "allocate"]
    OBVIOUS
  <2>2. u.job \in WithCopy
    BY <1>2, <2>1 DEF Tasks, WithCopy
  <2> QED BY <1>2, <1>7, <2>1, <2>2, CopyFine
<1>8. CASE Rest(w) /\ UNCHANGED so
  BY <1>2, <1>8, RestFine
<1> QED BY <1>1, <1>3, <1>4, <1>6, <1>7, <1>8, Zenon DEF HoldPieces

LEMMA WithdrawFine ==
  ASSUME CreditInv, IInv', TermsStay, NEW w \in Clerks, Withdraw(w), UNCHANGED <<applied, credited>>
  PROVE  CheckFine /\ (so' = so \/ NoneCommits)
<1>1. PICK t : t = desk[w]
  OBVIOUS
<1>2. /\ t \in Tasks /\ TaskOK(t) /\ t.job \in {"release", "cancel"} /\ UNCHANGED <<invoice, po>>
      /\ so \in [Enquiries -> SalesOrderDocs \union {None}]
  BY <1>1 DEF CreditInv, IInv, SalesOK, SalesTypeOK, Withdraw
<1>3. PICK p, to : p = t.po /\ to = IF t.job = "cancel" THEN "CANCELLED" ELSE "CONFIRMED"
  OBVIOUS
<1>4. PICK u : u = IF t.held = <<>> THEN Free ELSE [t EXCEPT !.job = "free"]
  OBVIOUS
<1>5. p \in Enquiries /\ so[p] # None /\ so[p] \in SalesOrderDocs
  BY <1>2, <1>3 DEF TaskOK
<1>6. CASE WritesOrder(w, p, u) /\ MaySo(t.job, p) /\ so' = [so EXCEPT ![p].status = to, ![p].held = <<>>]
  <2>1. PICK d : d = [so[p] EXCEPT !.status = to, !.held = <<>>]
    OBVIOUS
  <2>2. so' = [so EXCEPT ![p] = d]
    BY <1>2, <1>5, <1>6, <2>1
  <2>3. d.invoiced = so[p].invoiced /\ d.status = to
    BY <1>5, <2>1 DEF SalesOrderDocs
  <2>4. d.status = "CANCELLED" \/ so[p].status \in LiveStatuses
    BY <1>2, <1>3, <1>6, <2>3 DEF MaySo, SORules, Rule, LiveStatuses
  <2>5. d # None
    <3>1. d \in SalesOrderDocs
      <4>1. to \in DOMAIN SOTransitions
        BY <1>3 DEF SOTransitions
      <4>2. PICK none : none = <<>>
        OBVIOUS
      <4>3. none \in Seq(Pieces) /\ d = [so[p] EXCEPT !.status = to, !.held = none]
        BY <2>1, <4>2
      <4> QED BY <1>5, <4>1, <4>3 DEF SalesOrderDocs
    <3> QED BY <3>1, SalesDocumentsAssumption
  <2>6. u.job \notin Converting \union Checked /\ desk[w].job \notin Checked
    BY <1>1, <1>2, <1>4 DEF Free, Tasks, Converting, Checked
  <2> QED BY <1>2, <1>5, <1>6, <2>2, <2>3, <2>4, <2>5, <2>6, OrderFine
<1>7. CASE Rest(w) /\ UNCHANGED so
  BY <1>2, <1>7, RestFine
<1> QED BY <1>1, <1>3, <1>4, <1>6, <1>7, Zenon DEF Withdraw

LEMMA SellPiecesFine ==
  ASSUME CreditInv, IInv', TermsStay, NEW w \in Clerks, SellPieces(w), UNCHANGED <<applied, credited>>
  PROVE  CheckFine /\ (so' = so \/ NoneCommits)
<1>1. PromisesOK' /\ (~Overbills(w, desk[w].po) => Exposure' <= Exposure)
  BY SellExposure DEF CreditInv, PromisesOK
<1>2. Free.job \notin Converting \union Checked /\ desk[w].job \notin Checked
  BY DEF SellPieces, At, Free, Converting, Checked
<1>3. CASE WritesOrder(w, desk[w].po, Free)
  <2>1. CheckFine /\ \A v \in Clerks \ {w} : desk'[v].job = desk[v].job
    BY <1>1, <1>2, <1>3, WriteFine
  <2> QED BY <1>2, <2>1 DEF NoneCommits
<1>4. CASE Rest(w) /\ UNCHANGED <<so, invoice>>
  BY <1>4, RestFine
<1> QED BY <1>3, <1>4 DEF SellPieces

LEMMA FulfilmentFine ==
  ASSUME CreditInv, IInv', TermsStay, Fulfilment \/ Cancelling, UNCHANGED <<applied, credited>>
  PROVE  CheckFine /\ (so' = so \/ NoneCommits)
<1>1. ASSUME NEW w \in Clerks, NEW p \in Enquiries, StartAllocate(w, p)
      PROVE  CheckFine /\ so' = so
  <2>1. Copy(p, "allocate").job \in WithCopy
    BY CopyJob DEF WithCopy
  <2> QED BY <1>1, <2>1, CopyFine DEF StartAllocate
<1>2. ASSUME NEW w \in Clerks, NEW p \in Enquiries, NEW action \in {"release", "cancel"}, StartWithdraw(w, p, action)
      PROVE  CheckFine /\ so' = so
  <2>1. Copy(p, action).job \in WithCopy
    BY CopyJob DEF WithCopy
  <2> QED BY <1>2, <2>1, CopyFine DEF StartWithdraw
<1>3. ASSUME NEW w \in Clerks, NEW p \in Enquiries, NEW n, StartInvoice(w, p, n)
      PROVE  CheckFine /\ so' = so
  <2>1. PICK u : u = [Copy(p, "invoice") EXCEPT !.n = n]
    OBVIOUS
  <2>2. u.job \in WithCopy
    BY <2>1, CopyJob DEF WithCopy
  <2> QED BY <1>3, <2>1, <2>2, CopyFine DEF StartInvoice
<1>4. ASSUME NEW w \in Clerks, PickPieces(w)
      PROVE  CheckFine /\ so' = so
  <2>1. UNCHANGED <<so, invoice>> /\ desk[w] \in Tasks
    BY <1>4 DEF PickPieces, CreditInv, IInv, SalesOK, SalesTypeOK
  <2>2. CASE Rest(w)
    BY <2>1, <2>2, RestFine
  <2>3. CASE \E list : Next1(w, [desk[w] EXCEPT !.job = "hold", !.picked = list, !.n = @ + 1])
    <3>1. PICK list : Next1(w, [desk[w] EXCEPT !.job = "hold", !.picked = list, !.n = @ + 1])
      BY <2>3
    <3>2. PICK u : u = [desk[w] EXCEPT !.job = "hold", !.picked = list, !.n = @ + 1]
      OBVIOUS
    <3>3. u.job \in WithCopy
      BY <2>1, <3>2 DEF Tasks, WithCopy
    <3> QED BY <2>1, <3>1, <3>2, <3>3, CopyFine
  <2> QED BY <1>4, <2>1, <2>2, <2>3 DEF PickPieces
<1>5. ASSUME NEW w \in Clerks, FreePieces(w) \/ ClerkDies(w)
      PROVE  CheckFine /\ so' = so
  BY <1>5, RestFine DEF FreePieces, ClerkDies
<1>6. ASSUME NEW w \in Clerks, HoldPieces(w) \/ Withdraw(w) \/ SellPieces(w)
      PROVE  CheckFine /\ (so' = so \/ NoneCommits)
  BY <1>6, HoldPiecesFine, WithdrawFine, SellPiecesFine
<1>7. CASE Fulfilment
  BY <1>1, <1>2, <1>3, <1>4, <1>5, <1>6, <1>7 DEF Fulfilment
<1>8. CASE Cancelling
  BY <1>2, <1>8 DEF Cancelling
<1> QED BY <1>7, <1>8

(* Payments allocated and credit notes issued reduce what is owed.         *)
LEMMA PaidGrows ==
  ASSUME IInv, IInv', \A y \in Payments, i \in Invoices : applied[y][i] <= applied'[y][i]
  PROVE  \A i \in Invoices : Paid(i) <= Paid(i)'
<1> SUFFICES ASSUME NEW i \in Invoices PROVE Paid(i) <= Paid(i)'
  OBVIOUS
<1>1. applied \in [Payments -> [Invoices -> Nat]] /\ applied' \in [Payments -> [Invoices -> Nat]]
  BY DEF IInv, SalesOK, SalesTypeOK
<1>2. PICK f, g : f = [y \in Payments |-> applied[y][i]] /\ g = [y \in Payments |-> applied'[y][i]]
  OBVIOUS
<1>3. f \in [Payments -> Nat] /\ g \in [Payments -> Nat] /\ \A y \in Payments : f[y] <= g[y]
  BY <1>1, <1>2
<1>4. SumOf(f) <= SumOf(g)
  BY <1>3, SalesOrdersAssumption, SumMonotone
<1> QED BY <1>2, <1>4 DEF Paid

LEMMA NotedGrows ==
  ASSUME IInv, IInv', NEW n \in Notes, credited[n] = None, \A m \in Notes \ {n} : credited'[m] = credited[m]
  PROVE  \A i \in Invoices : Noted(i) <= Noted(i)'
<1> SUFFICES ASSUME NEW i \in Invoices PROVE Noted(i) <= Noted(i)'
  OBVIOUS
<1>1. PICK d : d = credited'
  OBVIOUS
<1>2. credited \in [Notes -> CreditNotes \union {None}] /\ d \in [Notes -> CreditNotes \union {None}]
  BY <1>1 DEF IInv, SalesOK, SalesTypeOK
<1>3. PICK S, T : /\ S = {m \in IssuedNotes : credited[m].invoice = i}
                  /\ T = {m \in {k \in Notes : d[k] # None /\ d[k].status = "ISSUED"} : d[m].invoice = i}
  OBVIOUS
<1>4. S \subseteq T /\ T \subseteq Notes /\ \A m \in S : d[m] = credited[m]
  BY <1>1, <1>3 DEF IssuedNotes
<1>5. PICK f, g : f = [m \in S |-> credited[m].amount] /\ g = [m \in T |-> d[m].amount]
  OBVIOUS
<1>6. \A m \in T : d[m] # None /\ d[m] \in CreditNotes
  BY <1>2, <1>3
<1>7. g \in [T -> Nat] /\ f \in [S -> Nat] /\ \A m \in S : f[m] <= g[m]
  BY <1>4, <1>5, <1>6 DEF CreditNotes
<1>8. IsFiniteSet(T)
  BY <1>4, SalesOrdersAssumption, FS_Subset
<1>9. SumOf(f) <= SumOf(g)
  BY <1>4, <1>7, <1>8, SumMonotone
<1> QED BY <1>1, <1>3, <1>5, <1>9 DEF Noted, IssuedNotes

LEMMA PaidOffExposure ==
  ASSUME IInv, PromisesOK, IInv', TermsStay, UNCHANGED <<so, invoice>>,
         \A i \in Invoices : Paid(i) <= Paid(i)' /\ Noted(i) <= Noted(i)'
  PROVE  PromisesOK' /\ Exposure' <= Exposure
<1>1. PromisesOK' /\ Promises' = Promises
  BY PromisesStay
<1>2. \A i \in Invoices : OwedOn(i)' <= OwedOn(i)
  BY OwedOnFalls DEF InvoiceTotal
<1>3. Owed' <= Owed
  BY <1>2, OwedMoves
<1>4. PICK a, b, f, g : a = Owed /\ b = Promises /\ f = Owed' /\ g = Promises'
  OBVIOUS
<1>5. a \in Nat /\ b \in Nat /\ f \in Nat /\ Exposure = a + b /\ Exposure' = f + g
  BY <1>1, <1>4, ExposureIs, ExposureIsNext
<1>6. f <= a /\ g = b
  BY <1>1, <1>3, <1>4
<1> QED BY <1>1, <1>5, <1>6

(* Every check made so far is put out of date.                             *)
LEMMA OldChecksFine ==
  ASSUME CreditInv, PromisesOK', OwesAgain
  PROVE  CheckFine
<1>1. ASSUME NEW v \in Clerks
      PROVE  SeesAsBefore(desk[v], desk'[v]) /\ (desk'[v].job \in Checked => desk'[v].old)
  <2>1. desk[v] \in Tasks
    BY DEF CreditInv, IInv, SalesOK, SalesTypeOK
  <2>2. PICK old : old = (desk[v].old \/ desk[v].job \in Checked) /\ desk'[v] = [desk[v] EXCEPT !.old = old]
    BY DEF OwesAgain
  <2>3. /\ desk'[v].po = desk[v].po /\ desk'[v].job = desk[v].job /\ desk'[v].over = desk[v].over
        /\ desk'[v].old = old
    BY <2>1, <2>2 DEF Tasks
  <2> QED BY <2>2, <2>3 DEF SeesAsBefore
<1> QED BY <1>1 DEF CheckFine, Spared

LEMMA SameChecksFine ==
  ASSUME PromisesOK', Exposure' <= Exposure, desk' = desk
  PROVE  CheckFine
BY DEF CheckFine, Spared, SeesAsBefore

LEMMA MoneyFine ==
  ASSUME CreditInv, IInv', TermsStay, Receipts \/ Reversals \/ CreditNoting, UNCHANGED <<so, invoice>>
  PROVE  CheckFine
<1>1. IInv /\ PromisesOK /\ MoneyTypeOK
  BY MoneyTypes DEF CreditInv, PromisesOK, IInv, SalesOK
<1>2. PromisesOK'
  BY <1>1, PromisesStay
<1>3. CASE UNCHANGED <<applied, credited, desk>>
  BY <1>1, <1>3, QuietExposure, SameChecksFine
<1>4. CASE OwesAgain
  BY <1>2, <1>4, OldChecksFine
<1>5. ASSUME NEW w \in Cashiers, CommitApply(w)
      PROVE  CheckFine
  <2>1. PICK t, y, shares : t = till[w] /\ y = t.payment /\ shares = t.shares
    OBVIOUS
  <2>2. y \in Payments /\ shares \in [Invoices -> Nat]
    BY <1>1, <1>5, <2>1, SharesAreAmounts DEF CommitApply, Standing, IInv, MoneyOK, TillOK, Duties
  <2>3. /\ applied' = [applied EXCEPT ![y] = [i \in Invoices |-> applied[y][i] + shares[i]]]
        /\ UNCHANGED <<credited, desk>>
    BY <1>1, <1>5, <2>1, <2>2 DEF CommitApply, MoneyTypeOK
  <2>4. ASSUME NEW z \in Payments, NEW i \in Invoices PROVE applied[z][i] <= applied'[z][i]
    <3>1. applied[z][i] \in Nat /\ shares[i] \in Nat
      BY <1>1, <2>2 DEF MoneyTypeOK
    <3>2. applied'[z][i] = IF z = y THEN applied[z][i] + shares[i] ELSE applied[z][i]
      BY <1>1, <2>3 DEF MoneyTypeOK
    <3> QED BY <3>1, <3>2
  <2>5. \A i \in Invoices : Paid(i) <= Paid(i)'
    BY <1>1, <2>4, PaidGrows
  <2>6. ASSUME NEW i \in Invoices PROVE Noted(i) <= Noted(i)'
    <3>1. Noted(i)' = Noted(i)
      BY <2>3 DEF Noted, IssuedNotes
    <3>2. Noted(i) \in Nat
      BY <1>1, NotedIsNat DEF MoneyTypeOK
    <3> QED BY <3>1, <3>2
  <2> QED BY <1>1, <2>3, <2>5, <2>6, PaidOffExposure, SameChecksFine
<1>6. ASSUME NEW n \in Notes, NEW i \in Invoices \union {None}, NEW amount \in 1..MaxAmount,
             CreateCreditNote(n, i, amount)
      PROVE  CheckFine
  <2>1. credited[n] = None /\ (\A m \in Notes \ {n} : credited'[m] = credited[m]) /\ UNCHANGED <<applied, desk>>
    BY <1>1, <1>6 DEF CreateCreditNote, MoneyTypeOK
  <2>2. \A j \in Invoices : Noted(j) <= Noted(j)'
    BY <1>1, <2>1, NotedGrows
  <2>3. ASSUME NEW j \in Invoices PROVE Paid(j) <= Paid(j)'
    <3>1. Paid(j)' = Paid(j)
      BY <2>1 DEF Paid
    <3>2. Paid(j) \in Nat
      BY <1>1, PaidIsNat DEF MoneyTypeOK
    <3> QED BY <3>1, <3>2
  <2> QED BY <1>1, <2>1, <2>2, <2>3, PaidOffExposure, SameChecksFine
<1>7. Receipts => (\E w \in Cashiers : CommitApply(w)) \/ UNCHANGED <<applied, credited, desk>>
  BY DEF Receipts, CreatePayment, DecidePayment, StartApply, RetryApply
<1>8. Reversals => OwesAgain
  BY DEF Reversals, ReversePayment
<1>9. CreditNoting => \/ \E n \in Notes, i \in Invoices \union {None}, amount \in 1..MaxAmount :
                           CreateCreditNote(n, i, amount)
                      \/ OwesAgain
                      \/ UNCHANGED <<applied, credited, desk>>
  BY DEF CreditNoting, CancelCreditNote, StartCancelNote
<1> QED BY <1>3, <1>4, <1>5, <1>6, <1>7, <1>8, <1>9

(* Whatever handler runs, the checks that still count stay right, and only  *)
(* a commit ends a transaction that checked the credit and writes an order. *)
LEMMA CommitmentFine ==
  ASSUME CreditInv, IInv', TermsStay, Commitment, UNCHANGED <<applied, credited>>
  PROVE  CheckFine /\ \A w \in Clerks, p \in Enquiries : Honoured(w, p)
<1>1. ASSUME NEW w \in Clerks, NEW p \in Enquiries, NEW may \in BOOLEAN,
             StartConvert(w, p, may) \/ StartApproveCredit(w, p, may)
      PROVE  CheckFine /\ so' = so
  BY <1>1, StartConvertFine, StartApproveCreditFine DEF StartConvert, StartApproveCredit
<1>2. ASSUME NEW w \in Clerks, CheckCredit(w)
      PROVE  CheckFine /\ so' = so
  BY <1>2, CheckCreditFine DEF CheckCredit
<1>3. ASSUME NEW w \in Clerks, NEW p \in Enquiries, CheckFine, Honoured(w, p), so' # so => Conflicts(w),
             \A q \in Enquiries \ {p} : so'[q] = so[q]
      PROVE  \A v \in Clerks, q \in Enquiries : Honoured(v, q)
  <2>1. \A q \in Enquiries : Honoured(w, q)
    BY <1>3 DEF Honoured, Commits
  <2>2. so' = so \/ \A v \in Clerks \ {w} : desk[v].job \in Checked => desk'[v] # Free
    BY <1>3, ConflictsFine DEF CheckFine
  <2> QED BY <2>1, <2>2 DEF Honoured, Commits
<1>4. ASSUME NEW w \in Clerks, NEW p \in Enquiries, CommitOrder(w, p)
      PROVE  CheckFine /\ \A v \in Clerks, q \in Enquiries : Honoured(v, q)
  <2>1. CheckFine /\ Honoured(w, p) /\ (so' # so => Conflicts(w))
    BY <1>4, CommitOrderFine
  <2>2. \A q \in Enquiries \ {p} : so'[q] = so[q]
    BY <1>4 DEF CommitOrder, CreditInv, IInv, SalesOK, SalesTypeOK
  <2> QED BY <1>3, <2>1, <2>2
<1>5. ASSUME NEW w \in Clerks, CommitApproval(w)
      PROVE  CheckFine /\ \A v \in Clerks, q \in Enquiries : Honoured(v, q)
  <2>1. PICK p : p = desk[w].po
    OBVIOUS
  <2>2. p \in Enquiries
    BY <1>5, <2>1 DEF CreditInv, IInv, SalesOK, TaskOK, CommitApproval, At
  <2>3. CheckFine /\ Honoured(w, p) /\ (so' # so => Conflicts(w))
    BY <1>5, <2>1, CommitApprovalFine
  <2>4. \A q \in Enquiries \ {p} : so'[q] = so[q]
    BY <1>5, <2>1 DEF CommitApproval, CreditInv, IInv, SalesOK, SalesTypeOK
  <2> QED BY <1>3, <2>2, <2>3, <2>4
<1>6. so' = so => \A v \in Clerks, q \in Enquiries : Honoured(v, q)
  BY DEF Honoured, Commits
<1> QED BY <1>1, <1>2, <1>4, <1>5, <1>6 DEF Commitment

LEMMA CreditStep ==
  ASSUME CreditInv, IInv', [Next]_vars
  PROVE  CreditInv' /\ \A w \in Clerks, p \in Enquiries : Honoured(w, p)
<1>1. IInv /\ PromisesOK
  BY DEF CreditInv, PromisesOK
<1>2. TermsStay
  BY <1>1, WholesaleSteps, StepKeepsTerms DEF IInv, EnquiryOK
<1>3. so' = so => \A v \in Clerks, q \in Enquiries : Honoured(v, q)
  BY DEF Honoured, Commits
<1>4. CASE UNCHANGED <<so, invoice, applied, credited, desk>>
  <2>1. CheckFine
    BY <1>1, <1>2, <1>4, QuietExposure, SameChecksFine
  <2> QED BY <1>2, <1>3, <1>4, <2>1, FineKeepsCredit
<1>5. CASE Commitment /\ UNCHANGED <<lapsed, work, applied, credited, moneyVars>>
  BY <1>2, <1>5, CommitmentFine, FineKeepsCredit
<1>6. CASE (Fulfilment \/ Cancelling) /\ UNCHANGED <<lapsed, work, applied, credited, moneyVars>>
  <2>1. CheckFine /\ (so' = so \/ NoneCommits)
    BY <1>2, <1>6, FulfilmentFine
  <2>2. NoneCommits => \A v \in Clerks, q \in Enquiries : Honoured(v, q)
    BY DEF NoneCommits, Honoured, Commits
  <2> QED BY <1>2, <1>3, <2>1, <2>2, FineKeepsCredit
<1>7. CASE (Receipts \/ Reversals \/ CreditNoting) /\ UNCHANGED <<enquiryVars, so, piece, invoice, muddled>>
  BY <1>2, <1>3, <1>7, MoneyFine, FineKeepsCredit
<1>8. UNCHANGED salesVars => UNCHANGED <<so, invoice, applied, credited, desk>>
  BY DEF salesVars
<1>9. UNCHANGED vars => UNCHANGED salesVars
  BY DEF vars
<1> QED BY <1>4, <1>5, <1>6, <1>7, <1>8, <1>9 DEF Next

LEMMA CreditInit == Init => CreditInv
<1> SUFFICES ASSUME Init PROVE CreditInv
  OBVIOUS
<1>1. IInv
  BY WholesaleInit
<1>2. PICK s \in Shifts : po = s.po /\ so = s.so /\ desk = [w \in Clerks |-> Free]
  BY DEF Init
<1>3. \A p \in Enquiries : PromiseOK(p)
  BY <1>2, ShiftsAssumption DEF StartOrdersOK, PromiseOK, Total
<1>4. \A w \in Clerks : TermsOK(desk[w]) /\ CreditOK(desk[w])
  BY <1>2 DEF TermsOK, CreditOK, Free, Checked
<1> QED BY <1>1, <1>3, <1>4 DEF CreditInv

(* Two orders racing for one credit limit do not both get it: an order      *)
(* becomes a commitment without an override only if what the customer owes *)
(* and has been promised, this order included, is within the limit.        *)
THEOREM CreditIsHonoured == Spec => CreditHonoured
<1>1. Init => CreditInv
  BY CreditInit
<1>2. CreditInv /\ [Next]_vars => CreditInv'
  BY WholesaleNext, CreditStep DEF CreditInv
<1>3. CreditInv /\ [Next]_vars =>
        [ \A w \in Clerks, p \in Enquiries :
            (Commits(w, p) /\ ~so'[p].override /\ ~desk[w].old) => Exposure' <= Limit ]_<<so, po, desk>>
  BY WholesaleNext, CreditStep DEF CreditInv, Honoured
<1> QED BY <1>1, <1>2, <1>3, PTL DEF Spec, CreditHonoured
=============================================================================
