--------------------------- MODULE PayablesProofs ---------------------------
(* Proofs about Payables and the Purchasing it extends: what is received   *)
(* is in stock and has its status, nothing is paid twice, and the payables *)
(* account is the sum of its documents.                                    *)
EXTENDS Payables, SummationProofs

-----------------------------------------------------------------------------
(* The inductive invariant *)

(* An order not yet written, or never approved, has received nothing.      *)
UnwrittenOK == \A p \in Orders : spo[p] = None => stock[p] = Nothing

UnapprovedOK ==
  \A p \in Orders \ rewritten :
    (spo[p] # None /\ spo[p].status \in {"DRAFT", "SUBMITTED"}) => spo[p].received = Nothing

(* What a clerk names is there, and what it worked out from its copy holds *)
(* of the order as long as no late edit came in between: the receipt fits  *)
(* the copy, and the target is the status of the copy's lines after it.    *)
NamesOK(t) ==
  /\ t.job \in {"edit-requisition", "convert"} => t.doc \in Requisitions /\ req[t.doc] # None
  /\ t.job = "convert" => t.other \in Orders
  /\ t.job \in {"edit-order", "receive"} => t.doc \in Orders /\ spo[t.doc] # None

CopyOK(t) ==
  (t.job = "receive" /\ t.doc \notin rewritten) =>
    /\ spo[t.doc].status \notin {"DRAFT", "SUBMITTED"}
    /\ \A k \in DOMAIN t.receipt :
         t.read[t.receipt[k].line] + t.receipt[k].amount <= spo[t.doc].ordered[t.receipt[k].line]
    /\ t.target = StatusFor(spo[t.doc].ordered, LinesAfter(t.read, t.receipt))
    /\ t.consumable = spo[t.doc].consumable

ReceiptOK(t) == t.job = "receive" => t.receipt \in Receipts /\ t.target \in Statuses(OrderRules) \union {"RECEIVED"}

DesksOK == \A w \in Clerks : NamesOK(desk[w]) /\ CopyOK(desk[w]) /\ ReceiptOK(desk[w])

BuyingOK ==
  /\ BuyingTypeOK /\ UnwrittenOK /\ UnapprovedOK /\ DesksOK
  /\ ReceivedIsInStock /\ StatusFollowsReceipts

(* A payment pays while it stands, and only as far as it and the invoices  *)
(* go; its journal entries add up to what it pays.                         *)
SpendsOK ==
  \A y \in Payouts :
    /\ payout[y] = None => posted[y] = <<>>
    /\ payout[y] = None \/ payout[y].status = "REVERSED" => \A b \in Bills : spent[y][b] = 0
    /\ payout[y] # None => Spent(y) <= payout[y].amount
    /\ payout[y] # None /\ payout[y].status = "RECORDED" => SumOf(posted[y]) = Spent(y)

BillsOK ==
  \A b \in Bills :
    /\ bill[b] = None => Paid(b) = 0
    /\ bill[b] # None => Paid(b) <= bill[b].total

(* What a transaction has seen of the balances is still so when it commits.*)
TillOK(t) ==
  /\ t.job \in {"allocate", "allocate-commit"} => t.doc \in Payouts
  /\ t.job = "allocate-commit" => Covered(t.doc, t.shares)
  /\ t.job = "cancel-bill" => t.doc \in Bills /\ bill[t.doc] # None
  /\ t.job = "cancel-note" => t.doc \in DebitNotes /\ debited[t.doc] # None

TillsOK == \A k \in Accountants : TillOK(till[k])

OwingTypeOK ==
  /\ bill \in [Bills -> BillDocs \union {None}]
  /\ payout \in [Payouts -> PayoutDocs \union {None}]
  /\ spent \in [Payouts -> Shares] /\ posted \in [Payouts -> Seq(Sums)]
  /\ debited \in [DebitNotes -> DebitNoteDocs \union {None}]
  /\ ap \in Int
  /\ till \in [Accountants -> Duties] /\ voidedTwice \subseteq Bills

OwingOK == OwingTypeOK /\ SpendsOK /\ BillsOK /\ TillsOK /\ PayablesMatchDocuments

IInv == BuyingOK /\ OwingOK

-----------------------------------------------------------------------------
(* Purchasing: an order is written *)

LEMMA OrderStatuses ==
  /\ Statuses(OrderRules) = {"DRAFT", "SUBMITTED", "APPROVED", "PARTIALLY_RECEIVED", "CANCELLED"}
  /\ OrderRules["receive"].from = {"APPROVED", "PARTIALLY_RECEIVED"}
  /\ OrderRules["submit"] = Rule({"DRAFT"}, "SUBMITTED")
  /\ OrderRules["approve"] = Rule({"SUBMITTED"}, "APPROVED")
  /\ OrderRules["cancel"].to = "CANCELLED"
BY DEF Statuses, OrderRules, Rule

LEMMA NothingIsNothing == Nothing \in [Lines -> Nat] /\ \A l \in Lines : Nothing[l] = 0
BY DEF Nothing

LEMMA OrderFields ==
  ASSUME NEW d \in OrderDocs
  PROVE  /\ d.status \in Statuses(OrderRules) \union {"RECEIVED"}
         /\ d.ordered \in Terms /\ d.ordered \in [Lines -> Nat \ {0}]
         /\ d.received \in [Lines -> Nat] /\ d.consumable \in Consumables
         /\ d # None
BY PurchasingAssumption, BuyingDocumentsAssumption DEF OrderDocs

FollowsOK(d) ==
  /\ \A l \in Lines : d.received[l] <= d.ordered[l]
  /\ d.status \in {"DRAFT", "SUBMITTED", "APPROVED", "PARTIALLY_RECEIVED", "RECEIVED"} =>
       StatusFor(d.ordered, d.received) =
         IF d.status \in {"DRAFT", "SUBMITTED"} THEN "APPROVED" ELSE d.status

LEMMA FollowsFrom ==
  ASSUME StatusFollowsReceipts
  PROVE  \A p \in Orders : (spo[p] # None /\ p \notin rewritten /\ p \notin overlapped) => FollowsOK(spo[p])
BY DEF StatusFollowsReceipts, FollowsOK

LEMMA FollowsTo ==
  ASSUME \A p \in Orders : (spo'[p] # None /\ p \notin rewritten' /\ p \notin overlapped') => FollowsOK(spo'[p])
  PROVE  StatusFollowsReceipts'
BY DEF StatusFollowsReceipts, FollowsOK

LEMMA NothingIntoStock ==
  ASSUME NEW S PROVE IntoStock(Nothing, S) = Nothing
BY DEF IntoStock, Nothing

LEMMA ZeroIsApproved ==
  ASSUME NEW t \in [Lines -> Nat \ {0}]
  PROVE  StatusFor(t, Nothing) = "APPROVED"
BY PurchasingAssumption, NothingIsNothing DEF StatusFor

(* d becomes the document of order p, s what its receipts have brought in. *)
LEMMA OrderWritten ==
  ASSUME BuyingTypeOK, UnwrittenOK, UnapprovedOK, ReceivedIsInStock, StatusFollowsReceipts,
         NEW p \in Orders, NEW d \in OrderDocs, NEW s \in [Lines -> Nat],
         \A q \in Orders : spo'[q] = IF q = p THEN d ELSE spo[q],
         \A q \in Orders : stock'[q] = IF q = p THEN s ELSE stock[q],
         rewritten \subseteq rewritten', overlapped \subseteq overlapped',
         p \notin rewritten' => s = IntoStock(d.received, d.consumable),
         p \notin rewritten' /\ d.status \in {"DRAFT", "SUBMITTED"} => d.received = Nothing,
         p \notin rewritten' /\ p \notin overlapped' => FollowsOK(d)
  PROVE  UnwrittenOK' /\ UnapprovedOK' /\ ReceivedIsInStock' /\ StatusFollowsReceipts'
<1>1. d # None
  BY OrderFields
<1>2. UnwrittenOK'
  BY <1>1 DEF UnwrittenOK
<1>3. UnapprovedOK'
  BY DEF UnapprovedOK
<1>4. ReceivedIsInStock'
  BY DEF ReceivedIsInStock
<1>5. \A q \in Orders : (spo'[q] # None /\ q \notin rewritten' /\ q \notin overlapped') => FollowsOK(spo'[q])
  BY FollowsFrom
<1> QED BY <1>2, <1>3, <1>4, <1>5, FollowsTo

LEMMA OrdersKept ==
  ASSUME UnwrittenOK, UnapprovedOK, ReceivedIsInStock, StatusFollowsReceipts,
         spo' = spo, stock' = stock, rewritten \subseteq rewritten', overlapped' = overlapped
  PROVE  UnwrittenOK' /\ UnapprovedOK' /\ ReceivedIsInStock' /\ StatusFollowsReceipts'
<1>1. StatusFollowsReceipts'
  BY FollowsFrom, FollowsTo
<1> QED BY <1>1 DEF UnwrittenOK, UnapprovedOK, ReceivedIsInStock

(* What a clerk has read stays true of an order that was not edited late.  *)
Persists ==
  /\ \A r \in Requisitions : req[r] # None => req'[r] # None
  /\ \A p \in Orders : spo[p] # None => spo'[p] # None
  /\ rewritten \subseteq rewritten'
  /\ \A p \in Orders \ rewritten' :
       (spo[p] # None /\ spo[p].status \notin {"DRAFT", "SUBMITTED"}) =>
         /\ spo'[p].status \notin {"DRAFT", "SUBMITTED"} /\ spo'[p].ordered = spo[p].ordered
         /\ spo'[p].consumable = spo[p].consumable

TaskOK(t) == NamesOK(t) /\ CopyOK(t) /\ ReceiptOK(t)

LEMMA TaskPersists ==
  ASSUME Persists, NEW t, TaskOK(t)
  PROVE  NamesOK(t)' /\ CopyOK(t)' /\ ReceiptOK(t)'
<1>1. NamesOK(t)'
  BY DEF Persists, TaskOK, NamesOK
<1>2. CopyOK(t)'
  <2> SUFFICES ASSUME t.job = "receive", t.doc \notin rewritten' PROVE CopyOK(t)'
    BY DEF CopyOK
  <2>1. t.doc \in Orders /\ spo[t.doc] # None /\ t.doc \notin rewritten
    BY DEF TaskOK, NamesOK, Persists
  <2>2. /\ spo'[t.doc].status \notin {"DRAFT", "SUBMITTED"} /\ spo'[t.doc].ordered = spo[t.doc].ordered
        /\ spo'[t.doc].consumable = spo[t.doc].consumable
    BY <2>1 DEF Persists, TaskOK, CopyOK
  <2> QED BY <2>1, <2>2 DEF TaskOK, CopyOK
<1>3. ReceiptOK(t)'
  BY DEF TaskOK, ReceiptOK
<1> QED BY <1>1, <1>2, <1>3

(* Every clerk is where it was, has nothing left to do, or has just read.  *)
LEMMA DesksPersist ==
  ASSUME DesksOK, Persists,
         \A w \in Clerks : desk'[w] = desk[w] \/ desk'[w] = Off
  PROVE  DesksOK'
<1> SUFFICES ASSUME NEW w \in Clerks PROVE (NamesOK(desk[w]) /\ CopyOK(desk[w]) /\ ReceiptOK(desk[w]))'
  BY DEF DesksOK
<1>1. CASE desk'[w] = desk[w]
  <2>1. PICK t : t = desk[w]
    OBVIOUS
  <2>2. TaskOK(t)
    BY <2>1 DEF DesksOK, TaskOK
  <2>3. NamesOK(t)' /\ CopyOK(t)' /\ ReceiptOK(t)'
    BY <2>2, TaskPersists
  <2> QED BY <1>1, <2>1, <2>3
<1>2. CASE desk'[w] = Off
  BY <1>2 DEF Off, NamesOK, CopyOK, ReceiptOK
<1> QED BY <1>1, <1>2

LEMMA DesksBegin ==
  ASSUME DesksOK, Persists, NEW w \in Clerks, NEW t,
         \A v \in Clerks : desk'[v] = IF v = w THEN t ELSE desk[v],
         NamesOK(t)' /\ CopyOK(t)' /\ ReceiptOK(t)'
  PROVE  DesksOK'
<1> SUFFICES ASSUME NEW v \in Clerks PROVE (NamesOK(desk[v]) /\ CopyOK(desk[v]) /\ ReceiptOK(desk[v]))'
  BY DEF DesksOK
<1>1. CASE v = w
  BY <1>1
<1>2. CASE v # w
  <2>1. PICK u : u = desk[v]
    OBVIOUS
  <2>2. TaskOK(u)
    BY <2>1 DEF DesksOK, TaskOK
  <2>3. NamesOK(u)' /\ CopyOK(u)' /\ ReceiptOK(u)'
    BY <2>2, TaskPersists
  <2> QED BY <1>2, <2>1, <2>3
<1> QED BY <1>1, <1>2

-----------------------------------------------------------------------------
(* Purchasing: each handler keeps the invariant *)

LEMMA RequisitionRecord ==
  ASSUME NEW st \in Statuses(RequisitionRules), NEW t \in Terms, NEW o \in Orders \union {None}
  PROVE  [status |-> st, wanted |-> t, order |-> o] \in RequisitionDocs
BY DEF RequisitionDocs

LEMMA RequisitionStatuses ==
  /\ Statuses(RequisitionRules) = {"DRAFT", "SUBMITTED", "APPROVED", "REJECTED", "CONVERTED", "CANCELLED"}
  /\ \A a \in {"submit", "approve", "reject", "convert", "cancel"} :
       RequisitionRules[a].to \in Statuses(RequisitionRules)
BY DEF Statuses, RequisitionRules, Rule

(* A step that writes requisitions only.                                   *)
LEMMA RequisitionWritten ==
  ASSUME BuyingOK, NEW r \in Requisitions, NEW d \in RequisitionDocs,
         req' = [req EXCEPT ![r] = d],
         UNCHANGED <<spo, stock, overlapped>>,
         rewritten \subseteq rewritten', rewritten' \subseteq rewritten \union {r},
         desk' \in [Clerks -> Errands],
         \A w \in Clerks : desk'[w] = desk[w] \/ desk'[w] = Off
  PROVE  BuyingOK'
<1>1. d # None
  BY BuyingDocumentsAssumption
<1>2. BuyingTypeOK'
  BY DEF BuyingOK, BuyingTypeOK
<1>3. Persists
  BY <1>1 DEF Persists, BuyingOK, BuyingTypeOK
<1>4. DesksOK'
  BY <1>3, DesksPersist DEF BuyingOK
<1>5. UnwrittenOK' /\ UnapprovedOK' /\ ReceivedIsInStock' /\ StatusFollowsReceipts'
  BY OrdersKept DEF BuyingOK
<1> QED BY <1>2, <1>4, <1>5 DEF BuyingOK

LEMMA MoveRequisitionStep ==
  ASSUME BuyingOK, NEW r \in Requisitions, NEW a \in {"submit", "approve", "reject", "cancel"}, MoveRequisition(r, a)
  PROVE  BuyingOK'
<1>1. req[r] \in RequisitionDocs
  BY DEF BuyingOK, BuyingTypeOK, MoveRequisition
<1>2. PICK d : d = [req[r] EXCEPT !.status = RequisitionRules[a].to]
  OBVIOUS
<1>3. d \in RequisitionDocs
  BY <1>1, <1>2, RequisitionStatuses DEF RequisitionDocs
<1>4. req' = [req EXCEPT ![r] = d]
  BY <1>2 DEF MoveRequisition
<1> QED BY <1>3, <1>4, RequisitionWritten DEF MoveRequisition, BuyingOK, BuyingTypeOK

LEMMA CreateRequisitionStep ==
  ASSUME BuyingOK, NEW r \in Requisitions, NEW t \in Terms, NEW submit \in BOOLEAN, CreateRequisition(r, t, submit)
  PROVE  BuyingOK'
<1>1. Stage(submit) \in Statuses(RequisitionRules)
  BY RequisitionStatuses DEF Stage
<1>2. PICK d : d = [status |-> Stage(submit), wanted |-> t, order |-> None]
  OBVIOUS
<1>3. d \in RequisitionDocs
  BY <1>1, <1>2, RequisitionRecord
<1>4. req' = [req EXCEPT ![r] = d]
  BY <1>2 DEF CreateRequisition
<1> QED BY <1>3, <1>4, RequisitionWritten DEF CreateRequisition, BuyingOK, BuyingTypeOK

LEMMA OffIsErrand == Off \in Errands
BY NothingIsNothing DEF Errands, Off

LEMMA SavedDesks ==
  ASSUME BuyingOK, NEW w \in Clerks, Saved(w)
  PROVE  /\ desk' \in [Clerks -> Errands]
         /\ \A v \in Clerks : desk'[v] = desk[v] \/ desk'[v] = Off
BY OffIsErrand DEF Saved, BuyingOK, BuyingTypeOK

LEMMA DoneDesks ==
  ASSUME BuyingOK, NEW w \in Clerks, Done(w)
  PROVE  /\ desk' \in [Clerks -> Errands]
         /\ \A v \in Clerks : desk'[v] = desk[v] \/ desk'[v] = Off
BY OffIsErrand DEF Done, BuyingOK, BuyingTypeOK

LEMMA SaveRequisitionStep ==
  ASSUME BuyingOK, NEW w \in Clerks, NEW t \in Terms, NEW submit \in BOOLEAN, SaveRequisitionDraft(w, t, submit)
  PROVE  BuyingOK'
<1>1. PICK r : r = desk[w].doc
  OBVIOUS
<1>2. r \in Requisitions /\ req[r] # None
  BY <1>1 DEF BuyingOK, DesksOK, NamesOK, SaveRequisitionDraft, Doing
<1>3. req[r] \in RequisitionDocs
  BY <1>2 DEF BuyingOK, BuyingTypeOK
<1>4. PICK d : d = Resubmitted([req[r] EXCEPT !.wanted = t], submit)
  OBVIOUS
<1>5. d \in RequisitionDocs
  <2>1. [req[r] EXCEPT !.wanted = t] \in RequisitionDocs
    BY <1>3 DEF RequisitionDocs
  <2>2. \A e \in RequisitionDocs : [e EXCEPT !.status = "SUBMITTED"] \in RequisitionDocs
    BY RequisitionStatuses DEF RequisitionDocs
  <2> QED BY <1>4, <2>1, <2>2 DEF Resubmitted
<1>6. req' = [req EXCEPT ![r] = d]
  BY <1>1, <1>4, Zenon DEF SaveRequisitionDraft
<1>7. rewritten \subseteq rewritten' /\ rewritten' \subseteq rewritten \union {r}
  BY <1>1 DEF SaveRequisitionDraft
<1> QED BY <1>2, <1>5, <1>6, <1>7, SavedDesks, RequisitionWritten DEF SaveRequisitionDraft

LEMMA ConvertRequisitionStep ==
  ASSUME BuyingOK, NEW w \in Clerks, ConvertRequisition(w)
  PROVE  BuyingOK'
<1>1. PICK r : r = desk[w].doc
  OBVIOUS
<1>2. r \in Requisitions /\ req[r] # None /\ desk[w].other \in Orders
  BY <1>1 DEF BuyingOK, DesksOK, NamesOK, ConvertRequisition, Doing
<1>3. req[r] \in RequisitionDocs
  BY <1>2 DEF BuyingOK, BuyingTypeOK
<1>4. PICK d : d = IF req[r].status \in RequisitionRules["convert"].from
                   THEN [[req[r] EXCEPT !.status = RequisitionRules["convert"].to] EXCEPT !.order = desk[w].other]
                   ELSE req[r]
  OBVIOUS
<1>5. d \in RequisitionDocs
  <2>1. [req[r] EXCEPT !.status = RequisitionRules["convert"].to] \in RequisitionDocs
    BY <1>3, RequisitionStatuses DEF RequisitionDocs
  <2>2. \A e \in RequisitionDocs, o \in Orders : [e EXCEPT !.order = o] \in RequisitionDocs
    BY DEF RequisitionDocs
  <2> QED BY <1>2, <1>3, <1>4, <2>1, <2>2
<1>6. req' = [req EXCEPT ![r] = d]
  <2>1. req = [req EXCEPT ![r] = req[r]]
    BY DEF BuyingOK, BuyingTypeOK
  <2>2. CASE req[r].status \in RequisitionRules["convert"].from
    BY <1>1, <1>4, <2>2 DEF ConvertRequisition
  <2>3. CASE req[r].status \notin RequisitionRules["convert"].from
    BY <1>1, <1>4, <2>1, <2>3 DEF ConvertRequisition
  <2> QED BY <2>2, <2>3
<1> QED BY <1>2, <1>5, <1>6, DoneDesks, RequisitionWritten DEF ConvertRequisition

(* A step that writes order p, and its stock, and puts no clerk to work.   *)
LEMMA OrderStep ==
  ASSUME BuyingOK, NEW p \in Orders, NEW d \in OrderDocs, NEW s \in [Lines -> Nat],
         spo' = [spo EXCEPT ![p] = d], stock' = [stock EXCEPT ![p] = s], req' = req,
         rewritten \subseteq rewritten', rewritten' \subseteq rewritten \union {p},
         overlapped \subseteq overlapped', overlapped' \subseteq overlapped \union {p},
         desk' \in [Clerks -> Errands],
         \A w \in Clerks : desk'[w] = desk[w] \/ desk'[w] = Off,
         p \notin rewritten' => s = IntoStock(d.received, d.consumable),
         p \notin rewritten' /\ d.status \in {"DRAFT", "SUBMITTED"} => d.received = Nothing,
         p \notin rewritten' /\ p \notin overlapped' => FollowsOK(d),
         p \notin rewritten' /\ spo[p] # None /\ spo[p].status \notin {"DRAFT", "SUBMITTED"} =>
           d.status \notin {"DRAFT", "SUBMITTED"} /\ d.ordered = spo[p].ordered /\ d.consumable = spo[p].consumable
  PROVE  BuyingOK'
<1>1. d # None
  BY OrderFields
<1>2. BuyingTypeOK'
  BY DEF BuyingOK, BuyingTypeOK
<1>3. \A q \in Orders : spo'[q] = IF q = p THEN d ELSE spo[q]
  BY DEF BuyingOK, BuyingTypeOK
<1>4. \A q \in Orders : stock'[q] = IF q = p THEN s ELSE stock[q]
  BY DEF BuyingOK, BuyingTypeOK
<1>5. Persists
  BY <1>1, <1>3 DEF Persists
<1>6. DesksOK'
  BY <1>5, DesksPersist DEF BuyingOK
<1>7. UnwrittenOK' /\ UnapprovedOK' /\ ReceivedIsInStock' /\ StatusFollowsReceipts'
  BY <1>3, <1>4, OrderWritten DEF BuyingOK
<1> QED BY <1>2, <1>6, <1>7 DEF BuyingOK

LEMMA OrderTyped ==
  ASSUME BuyingOK, NEW p \in Orders, spo[p] # None
  PROVE  spo[p] \in OrderDocs /\ stock[p] \in [Lines -> Nat] /\ stock = [stock EXCEPT ![p] = stock[p]]
BY DEF BuyingOK, BuyingTypeOK

LEMMA MoveOrderStep ==
  ASSUME BuyingOK, NEW p \in Orders, NEW a \in {"submit", "approve", "cancel"}, MoveOrder(p, a)
  PROVE  BuyingOK'
<1>1. spo[p] # None /\ spo[p] \in OrderDocs /\ stock[p] \in [Lines -> Nat] /\ stock = [stock EXCEPT ![p] = stock[p]]
  BY OrderTyped DEF MoveOrder
<1>2. PICK d : d = [spo[p] EXCEPT !.status = OrderRules[a].to]
  OBVIOUS
<1>3. \/ spo[p].status = "DRAFT" /\ d.status = "SUBMITTED"
      \/ spo[p].status = "SUBMITTED" /\ d.status = "APPROVED"
      \/ d.status = "CANCELLED"
  BY <1>1, <1>2, OrderStatuses DEF MoveOrder, Rule, OrderDocs
<1>4. d.ordered = spo[p].ordered /\ d.received = spo[p].received /\ d.consumable = spo[p].consumable
  BY <1>1, <1>2 DEF OrderDocs
<1>5. d \in OrderDocs
  BY <1>1, <1>2, OrderStatuses, a = "submit" \/ a = "approve" \/ a = "cancel" DEF OrderDocs, Rule
<1>6. p \notin rewritten => stock[p] = IntoStock(d.received, d.consumable)
  BY <1>1, <1>4 DEF BuyingOK, ReceivedIsInStock
<1>7. p \notin rewritten /\ d.status \in {"DRAFT", "SUBMITTED"} => d.received = Nothing
  BY <1>1, <1>3, <1>4 DEF BuyingOK, UnapprovedOK
<1>8. p \notin rewritten /\ p \notin overlapped => FollowsOK(d)
  BY <1>1, <1>3, <1>4, FollowsFrom DEF FollowsOK, BuyingOK
<1>9. spo' = [spo EXCEPT ![p] = d]
  BY <1>2 DEF MoveOrder
<1>10. desk' = desk /\ req' = req /\ stock' = stock /\ rewritten' = rewritten /\ overlapped' = overlapped
  BY DEF MoveOrder
<1>11. desk \in [Clerks -> Errands]
  BY DEF BuyingOK, BuyingTypeOK
<1> QED BY <1>1, <1>3, <1>4, <1>5, <1>6, <1>7, <1>8, <1>9, <1>10, <1>11, OrderStep

LEMMA NewOrder ==
  ASSUME NEW r \in Requisitions \union {None}, NEW t \in Terms, NEW c \in Consumables, NEW submit \in BOOLEAN,
         NEW d,
         d = [status |-> Stage(submit), requisition |-> r, ordered |-> t, consumable |-> c, received |-> Nothing]
  PROVE  d \in OrderDocs /\ d.received = Nothing /\ d.ordered = t /\ FollowsOK(d)
<1>1. d.received = Nothing /\ d.ordered = t /\ d.status \in {"DRAFT", "SUBMITTED"}
  BY DEF Stage
<1>2. d \in OrderDocs
  BY OrderStatuses, NothingIsNothing DEF OrderDocs, Stage
<1>3. FollowsOK(d)
  BY <1>1, PurchasingAssumption, NothingIsNothing, ZeroIsApproved DEF FollowsOK
<1> QED BY <1>1, <1>2, <1>3

LEMMA SaveOrderStep ==
  ASSUME BuyingOK, NEW w \in Clerks, NEW t \in Terms, NEW k \in Consumables, NEW submit \in BOOLEAN,
         SaveOrderDraft(w, t, k, submit)
  PROVE  BuyingOK'
<1>1. PICK p : p = desk[w].doc
  OBVIOUS
<1>2. p \in Orders /\ spo[p] # None
  BY <1>1 DEF BuyingOK, DesksOK, NamesOK, SaveOrderDraft, Doing
<1>3. spo[p] \in OrderDocs /\ stock[p] \in [Lines -> Nat] /\ stock = [stock EXCEPT ![p] = stock[p]]
  BY <1>2, OrderTyped
<1>0. PICK a : a = [spo[p] EXCEPT !.ordered = t]
  OBVIOUS
<1>4. PICK c : c = [a EXCEPT !.consumable = k]
  OBVIOUS
<1>5. PICK e : e = [c EXCEPT !.received = Nothing]
  OBVIOUS
<1>6. PICK d : d = Resubmitted(e, submit)
  OBVIOUS
<1>7. c \in OrderDocs /\ c.status = spo[p].status /\ c.ordered = t
  BY <1>0, <1>3, <1>4 DEF OrderDocs
<1>8. e \in OrderDocs /\ e.status = spo[p].status /\ e.ordered = t /\ e.received = Nothing
  BY <1>5, <1>7, NothingIsNothing DEF OrderDocs
<1>9. /\ d \in OrderDocs /\ d.ordered = t /\ d.received = Nothing
      /\ d.status = "SUBMITTED" \/ d.status = spo[p].status
  BY <1>6, <1>8, OrderStatuses DEF OrderDocs, Resubmitted
<1>10. spo' = [spo EXCEPT ![p] = d]
  BY <1>0, <1>1, <1>4, <1>5, <1>6, Zenon DEF SaveOrderDraft
<1>11. rewritten' = IF spo[p].status = "DRAFT" THEN rewritten ELSE rewritten \union {p}
  BY <1>1 DEF SaveOrderDraft
<1>12. p \notin rewritten' => spo[p].status = "DRAFT" /\ p \notin rewritten
  BY <1>11
<1>13. p \notin rewritten' => stock[p] = IntoStock(d.received, d.consumable)
  BY <1>2, <1>9, <1>12, NothingIntoStock DEF BuyingOK, UnapprovedOK, ReceivedIsInStock
<1>14. p \notin rewritten' => FollowsOK(d)
  BY <1>9, <1>12, PurchasingAssumption, NothingIsNothing, ZeroIsApproved DEF FollowsOK
<1>15. rewritten \subseteq rewritten' /\ rewritten' \subseteq rewritten \union {p}
  BY <1>11
<1>16. req' = req /\ stock' = stock /\ overlapped' = overlapped /\ Saved(w)
  BY DEF SaveOrderDraft
<1>17. /\ desk' \in [Clerks -> Errands]
       /\ \A v \in Clerks : desk'[v] = desk[v] \/ desk'[v] = Off
  BY <1>16, SavedDesks
<1> QED BY <1>2, <1>3, <1>9, <1>10, <1>12, <1>13, <1>14, <1>15, <1>16, <1>17, OrderStep

(* A step in which clerk w takes task t up and no document but order p, if *)
(* any, is written.                                                        *)
LEMMA Begins ==
  ASSUME BuyingOK, NEW w \in Clerks, NEW t \in Errands, desk' = [desk EXCEPT ![w] = t],
         UNCHANGED <<req, spo, stock, rewritten, overlapped>>, TaskOK(t)
  PROVE  BuyingOK'
<1>1. BuyingTypeOK'
  BY DEF BuyingOK, BuyingTypeOK
<1>2. Persists
  BY DEF Persists
<1>3. NamesOK(t)' /\ CopyOK(t)' /\ ReceiptOK(t)'
  BY <1>2, TaskPersists
<1>4. \A v \in Clerks : desk'[v] = IF v = w THEN t ELSE desk[v]
  BY DEF BuyingOK, BuyingTypeOK
<1>5. DesksOK'
  BY <1>2, <1>3, <1>4, DesksBegin DEF BuyingOK
<1>6. UnwrittenOK' /\ UnapprovedOK' /\ ReceivedIsInStock' /\ StatusFollowsReceipts'
  BY OrdersKept DEF BuyingOK
<1> QED BY <1>1, <1>5, <1>6 DEF BuyingOK

LEMMA ReadRequisitionDraftStep ==
  ASSUME BuyingOK, NEW w \in Clerks, NEW r \in Requisitions, ReadRequisitionDraft(w, r)
  PROVE  BuyingOK'
<1>1. PICK t : t = [Off EXCEPT !.job = "edit-requisition", !.doc = r]
  OBVIOUS
<1>2. /\ t.job = "edit-requisition" /\ t.doc = r
      /\ t \in Errands
  BY <1>1, OffIsErrand, NothingIsNothing DEF Off, Errands
<1>3. TaskOK(t)
  BY <1>2 DEF TaskOK, NamesOK, CopyOK, ReceiptOK, ReadRequisitionDraft
<1>4. desk' = [desk EXCEPT ![w] = t] /\ UNCHANGED <<req, spo, stock, rewritten, overlapped>>
  BY <1>1, Zenon DEF ReadRequisitionDraft, Begin
<1> QED BY <1>2, <1>3, <1>4, Begins

LEMMA ReadOrderDraftStep ==
  ASSUME BuyingOK, NEW w \in Clerks, NEW p \in Orders, ReadOrderDraft(w, p)
  PROVE  BuyingOK'
<1>1. PICK t : t = [Off EXCEPT !.job = "edit-order", !.doc = p]
  OBVIOUS
<1>2. /\ t.job = "edit-order" /\ t.doc = p
      /\ t \in Errands
  BY <1>1, OffIsErrand, NothingIsNothing DEF Off, Errands
<1>3. TaskOK(t)
  BY <1>2 DEF TaskOK, NamesOK, CopyOK, ReceiptOK, ReadOrderDraft
<1>4. desk' = [desk EXCEPT ![w] = t] /\ UNCHANGED <<req, spo, stock, rewritten, overlapped>>
  BY <1>1, Zenon DEF ReadOrderDraft, Begin
<1> QED BY <1>2, <1>3, <1>4, Begins

LEMMA CreateOrderStep ==
  ASSUME BuyingOK, NEW w \in Clerks, NEW p \in Orders, NEW r \in Requisitions \union {None}, NEW t \in Terms,
         NEW c \in Consumables, NEW submit \in BOOLEAN, CreateOrder(w, p, r, t, c, submit)
  PROVE  BuyingOK'
<1>1. PICK d : d = [status |-> Stage(submit), requisition |-> r, ordered |-> t, consumable |-> c, received |-> Nothing]
  OBVIOUS
<1>2. /\ d \in OrderDocs /\ d.received = Nothing /\ d.ordered = t /\ FollowsOK(d) /\ d # None
      /\ Nothing = IntoStock(d.received, d.consumable)
  BY <1>1, NewOrder, OrderFields, NothingIntoStock
<1>3. /\ spo' = [spo EXCEPT ![p] = d] /\ spo[p] = None
      /\ req' = req /\ stock' = stock /\ rewritten' = rewritten /\ overlapped' = overlapped
  BY <1>1, Zenon DEF CreateOrder
<1>4. stock[p] = Nothing /\ stock = [stock EXCEPT ![p] = Nothing] /\ Nothing \in [Lines -> Nat]
  BY <1>3, NothingIsNothing DEF BuyingOK, BuyingTypeOK, UnwrittenOK
<1>5. CASE r = None
  <2>1. desk' = desk /\ desk \in [Clerks -> Errands]
    BY <1>5 DEF CreateOrder, BuyingOK, BuyingTypeOK
  <2> QED BY <1>2, <1>3, <1>4, <2>1, OrderStep
<1>6. CASE r # None
  <2>1. PICK u : u = [Off EXCEPT !.job = "convert", !.doc = r, !.other = p]
    OBVIOUS
  <2>2. u.job = "convert" /\ u.doc = r /\ u.other = p /\ u \in Errands
    BY <1>6, <2>1, OffIsErrand, NothingIsNothing DEF Off, Errands
  <2>3. desk' = [desk EXCEPT ![w] = u] /\ req[r] # None
    BY <1>6, <2>1, Zenon DEF CreateOrder, Begin
  <2>4. NamesOK(u)' /\ CopyOK(u)' /\ ReceiptOK(u)'
    BY <1>3, <1>6, <2>2, <2>3 DEF NamesOK, CopyOK, ReceiptOK
  <2>5. \A q \in Orders : spo'[q] = IF q = p THEN d ELSE spo[q]
    BY <1>3 DEF BuyingOK, BuyingTypeOK
  <2>6. Persists
    BY <1>2, <1>3, <2>5 DEF Persists
  <2>7. \A v \in Clerks : desk'[v] = IF v = w THEN u ELSE desk[v]
    BY <2>3 DEF BuyingOK, BuyingTypeOK
  <2>8. DesksOK'
    BY <2>4, <2>6, <2>7, DesksBegin DEF BuyingOK
  <2>9. \A q \in Orders : stock'[q] = IF q = p THEN Nothing ELSE stock[q]
    BY <1>3, <1>4
  <2>10. UnwrittenOK' /\ UnapprovedOK' /\ ReceivedIsInStock' /\ StatusFollowsReceipts'
    BY <1>2, <1>3, <1>4, <2>5, <2>9, OrderWritten DEF BuyingOK
  <2>11. BuyingTypeOK'
    BY <1>2, <1>3, <2>2, <2>3 DEF BuyingOK, BuyingTypeOK
  <2> QED BY <2>8, <2>10, <2>11 DEF BuyingOK
<1> QED BY <1>5, <1>6

LEMMA CrashStep ==
  ASSUME BuyingOK, NEW w \in Clerks, Crash(w)
  PROVE  BuyingOK'
<1>1. /\ desk' \in [Clerks -> Errands]
      /\ \A v \in Clerks : desk'[v] = desk[v] \/ desk'[v] = Off
  BY DoneDesks DEF Crash
<1>2. Persists
  BY DEF Persists, Crash
<1>3. DesksOK'
  BY <1>1, <1>2, DesksPersist DEF BuyingOK
<1>4. UnwrittenOK' /\ UnapprovedOK' /\ ReceivedIsInStock' /\ StatusFollowsReceipts'
  BY OrdersKept DEF BuyingOK, Crash
<1> QED BY <1>1, <1>3, <1>4 DEF BuyingOK, BuyingTypeOK, Crash

-----------------------------------------------------------------------------
(* Goods receipts *)

LEMMA ReceiptFields ==
  ASSUME NEW receipt \in Receipts
  PROVE  \E n \in 1..MaxEntries :
           /\ DOMAIN receipt = 1..n /\ IsFiniteSet(1..n)
           /\ \A k \in 1..n : receipt[k].line \in Lines /\ receipt[k].amount \in Nat \ {0}
<1>1. PICK n \in 1..MaxEntries : receipt \in [1..n -> Entries]
  BY DEF Receipts
<1>2. \A e \in Entries : e.line \in Lines /\ e.amount \in Nat \ {0}
  BY PurchasingAssumption DEF Entries
<1>3. IsFiniteSet(1..n)
  BY PurchasingAssumption, FS_Interval
<1> QED BY <1>1, <1>2, <1>3

LEMMA ReceivedIsNat ==
  ASSUME NEW receipt \in Receipts, NEW l \in Lines
  PROVE  Received(receipt, l) \in Nat
<1>1. PICK n \in 1..MaxEntries :
        /\ DOMAIN receipt = 1..n /\ IsFiniteSet(1..n)
        /\ \A k \in 1..n : receipt[k].line \in Lines /\ receipt[k].amount \in Nat \ {0}
  BY ReceiptFields
<1>2. PICK S : S = OfLine(receipt, l)
  OBVIOUS
<1>3. S \subseteq 1..n /\ IsFiniteSet(S)
  BY <1>1, <1>2, FS_Subset DEF OfLine
<1>4. PICK f : f = [k \in S |-> receipt[k].amount]
  OBVIOUS
<1>5. f \in [S -> Nat]
  BY <1>1, <1>3, <1>4
<1>6. SumOf(f) \in Nat
  BY <1>3, <1>5, SumIsNat
<1> QED BY <1>2, <1>4, <1>6 DEF Received

(* A line named once at most is credited with what the simulation gave it. *)
LEMMA ReceivedOnce ==
  ASSUME NEW receipt \in Receipts, NEW l \in Lines, Cardinality(OfLine(receipt, l)) <= 1,
         NEW received \in [Lines -> Nat]
  PROVE  /\ LinesAfter(received, receipt)[l] = received[l] + Received(receipt, l)
         /\ \/ Received(receipt, l) = 0
            \/ \E k \in DOMAIN receipt : receipt[k].line = l /\ Received(receipt, l) = receipt[k].amount
<1>1. PICK n \in 1..MaxEntries :
        /\ DOMAIN receipt = 1..n /\ IsFiniteSet(1..n)
        /\ \A k \in 1..n : receipt[k].line \in Lines /\ receipt[k].amount \in Nat \ {0}
  BY ReceiptFields
<1>2. PICK S : S = OfLine(receipt, l)
  OBVIOUS
<1>3. S \subseteq 1..n /\ IsFiniteSet(S)
  BY <1>1, <1>2, FS_Subset DEF OfLine
<1>4. PICK f : f = [k \in S |-> receipt[k].amount]
  OBVIOUS
<1>5. Received(receipt, l) = SumOf(f)
  BY <1>2, <1>4 DEF Received
<1>6. LinesAfter(received, receipt)[l] = received[l] + (IF S = {} THEN 0 ELSE receipt[Max(S)].amount)
  BY <1>2 DEF LinesAfter
<1>7. CASE S = {}
  <2>1. SumOf(f) = 0
    BY <1>4, <1>7, SumOfNothing
  <2> QED BY <1>5, <1>6, <1>7, <2>1
<1>8. CASE S # {}
  <2>1. Cardinality(S) = 1
    BY <1>2, <1>3, <1>8, FS_EmptySet, FS_CardinalityType
  <2>2. PICK k : S = {k}
    BY <1>3, <2>1, FS_Singleton
  <2>3. k \in 1..n
    BY <1>3, <2>2
  <2>4. Max(S) = k
    BY <2>2, <2>3 DEF Max
  <2>5. f \in [{k} -> Nat] /\ f[k] = receipt[k].amount
    BY <1>1, <1>4, <2>2, <2>3
  <2>6. SumOf(f) = receipt[k].amount
    BY <2>5, SumOfOne
  <2>7. receipt[k].line = l
    BY <1>2, <2>2 DEF OfLine
  <2> QED BY <1>1, <1>5, <1>6, <1>8, <2>3, <2>4, <2>6, <2>7
<1> QED BY <1>7, <1>8

LEMMA PrepareReceiptStep ==
  ASSUME BuyingOK, NEW w \in Clerks, NEW p \in Orders, NEW receipt \in Receipts, PrepareReceipt(w, p, receipt)
  PROVE  BuyingOK'
<1>1. spo[p] # None /\ spo[p] \in OrderDocs /\ spo[p].status \in {"APPROVED", "PARTIALLY_RECEIVED"}
  BY OrderTyped, OrderStatuses DEF PrepareReceipt
<1>2. PICK target : target = StatusFor(spo[p].ordered, LinesAfter(spo[p].received, receipt))
  OBVIOUS
<1>3. target \in {"RECEIVED", "PARTIALLY_RECEIVED", "APPROVED"}
  BY <1>2 DEF StatusFor
<1>4. PICK read : read = spo[p].received
  OBVIOUS
<1>5. read \in [Lines -> Nat]
  BY <1>1, <1>4, OrderFields
<1>6. PICK t : t = [Off EXCEPT !.job = "receive", !.doc = p, !.receipt = receipt, !.read = read,
                               !.consumable = spo[p].consumable, !.target = target]
  OBVIOUS
<1>7. t = [job |-> "receive", doc |-> p, other |-> None, receipt |-> receipt, read |-> read,
           consumable |-> spo[p].consumable, target |-> target]
  BY <1>6 DEF Off
<1>8. t \in Errands
  BY <1>1, <1>3, <1>5, <1>7, OrderStatuses, OrderFields, PurchasingAssumption DEF Errands
<1>9. /\ t.job = "receive" /\ t.doc = p /\ t.receipt = receipt /\ t.read = read /\ t.target = target
      /\ t.consumable = spo[p].consumable
  BY <1>7
<1>10. \A k \in DOMAIN receipt : read[receipt[k].line] + receipt[k].amount <= spo[p].ordered[receipt[k].line]
  BY <1>4 DEF PrepareReceipt, Accepts
<1>11. CopyOK(t)
  BY <1>1, <1>2, <1>4, <1>9, <1>10 DEF CopyOK
<1>12. TaskOK(t)
  BY <1>1, <1>3, <1>9, <1>11, OrderStatuses DEF TaskOK, NamesOK, ReceiptOK
<1>13. desk' = [desk EXCEPT ![w] = t] /\ UNCHANGED <<req, spo, stock, rewritten, overlapped>>
  BY <1>2, <1>4, <1>6, Zenon DEF PrepareReceipt, Begin
<1> QED BY <1>8, <1>12, <1>13, Begins

LEMMA PostReceiptStep ==
  ASSUME BuyingOK, NEW w \in Clerks, PostReceipt(w)
  PROVE  BuyingOK'
<1>1. PICK t : t = desk[w]
  OBVIOUS
<1>2. PICK p : p = t.doc
  OBVIOUS
<1>3. PICK receipt : receipt = t.receipt
  OBVIOUS
<1>4. t.job = "receive" /\ NamesOK(t) /\ CopyOK(t) /\ ReceiptOK(t) /\ t \in Errands
  BY <1>1 DEF BuyingOK, BuyingTypeOK, DesksOK, PostReceipt, Doing
<1>5. /\ p \in Orders /\ spo[p] # None
      /\ receipt \in Receipts /\ t.target \in Statuses(OrderRules) \union {"RECEIVED"}
      /\ t.read \in [Lines -> Nat]
  BY <1>2, <1>3, <1>4 DEF NamesOK, ReceiptOK, Errands
<1>6. spo[p] \in OrderDocs /\ stock[p] \in [Lines -> Nat] /\ stock = [stock EXCEPT ![p] = stock[p]]
  BY <1>5, OrderTyped
<1>7. /\ desk' \in [Clerks -> Errands]
      /\ \A v \in Clerks : desk'[v] = desk[v] \/ desk'[v] = Off
  BY DoneDesks DEF PostReceipt
<1>8. req' = req /\ rewritten' = rewritten
  BY DEF PostReceipt
<1>9. CASE spo[p].status \notin OrderRules["receive"].from
  <2>1. spo' = spo /\ stock' = stock /\ overlapped' = overlapped
    BY <1>1, <1>2, <1>9 DEF PostReceipt
  <2>2. Persists
    BY <1>8, <2>1 DEF Persists
  <2>3. DesksOK'
    BY <1>7, <2>2, DesksPersist DEF BuyingOK
  <2>4. UnwrittenOK' /\ UnapprovedOK' /\ ReceivedIsInStock' /\ StatusFollowsReceipts'
    BY <1>8, <2>1, OrdersKept DEF BuyingOK
  <2> QED BY <1>7, <1>8, <2>1, <2>3, <2>4 DEF BuyingOK, BuyingTypeOK
<1>10. CASE spo[p].status \in OrderRules["receive"].from
  <2>1. PICK now : now = [l \in Lines |-> spo[p].received[l] + Received(receipt, l)]
    OBVIOUS
  <2>0. PICK arrived : arrived = IntoStock([l \in Lines |-> Received(receipt, l)], t.consumable)
    OBVIOUS
  <2>2. PICK s : s = [l \in Lines |-> stock[p][l] + arrived[l]]
    OBVIOUS
  <2>15. \A l \in Lines : arrived[l] = (IF l \in t.consumable THEN 0 ELSE Received(receipt, l)) /\ arrived[l] \in Nat
    BY <1>5, <2>0, ReceivedIsNat DEF IntoStock
  <2>3. now \in [Lines -> Nat] /\ s \in [Lines -> Nat]
    BY <1>5, <1>6, <2>1, <2>2, <2>15, OrderFields, ReceivedIsNat
  <2>4. PICK c : c = [spo[p] EXCEPT !.received = now]
    OBVIOUS
  <2>5. PICK d : d = [c EXCEPT !.status = t.target]
    OBVIOUS
  <2>6. c \in OrderDocs /\ c.received = now /\ c.ordered = spo[p].ordered /\ c.consumable = spo[p].consumable
    BY <1>6, <2>3, <2>4 DEF OrderDocs
  <2>7. /\ d \in OrderDocs /\ d.received = now /\ d.ordered = spo[p].ordered /\ d.status = t.target
        /\ d.consumable = spo[p].consumable
    BY <1>5, <2>5, <2>6 DEF OrderDocs
  <2>8. spo' = [spo EXCEPT ![p] = d]
    <3>1. spo' = [spo EXCEPT ![p].received = now, ![p].status = t.target]
      BY <1>1, <1>2, <1>3, <1>10, <2>1 DEF PostReceipt
    <3> QED BY <1>5, <2>4, <2>5, <3>1 DEF BuyingOK, BuyingTypeOK
  <2>9. stock' = [stock EXCEPT ![p] = s]
    BY <1>1, <1>2, <1>3, <1>10, <2>0, <2>2 DEF PostReceipt
  <2>10. overlapped' = IF t.read = spo[p].received /\ \A l \in Lines : Cardinality(OfLine(receipt, l)) <= 1
                       THEN overlapped ELSE overlapped \union {p}
    BY <1>1, <1>2, <1>3, <1>10 DEF PostReceipt
  <2>11. overlapped \subseteq overlapped' /\ overlapped' \subseteq overlapped \union {p}
    BY <2>10
  <2>12. p \notin rewritten' => s = IntoStock(d.received, d.consumable)
    <3> SUFFICES ASSUME p \notin rewritten PROVE s = IntoStock(now, spo[p].consumable)
      BY <1>8, <2>7
    <3>1. t.consumable = spo[p].consumable
      BY <1>2, <1>4 DEF CopyOK
    <3>2. \A l \in Lines : stock[p][l] = IF l \in spo[p].consumable THEN 0 ELSE spo[p].received[l]
      BY <1>5 DEF BuyingOK, ReceivedIsInStock, IntoStock
    <3>3. \A l \in Lines : s[l] = IF l \in spo[p].consumable THEN 0 ELSE now[l]
      BY <2>1, <2>2, <2>15, <3>1, <3>2
    <3> QED BY <2>3, <3>3 DEF IntoStock
  <2>13. ASSUME p \notin rewritten'
         PROVE  /\ t.target = StatusFor(spo[p].ordered, LinesAfter(t.read, receipt))
                /\ t.target \notin {"DRAFT", "SUBMITTED"}
                /\ \A k \in DOMAIN receipt : t.read[receipt[k].line] + receipt[k].amount <= spo[p].ordered[receipt[k].line]
    BY <1>2, <1>3, <1>4, <1>8, <2>13 DEF CopyOK, StatusFor
  <2>14. ASSUME p \notin rewritten', p \notin overlapped' PROVE FollowsOK(d)
    <3>1. t.read = spo[p].received /\ (\A l \in Lines : Cardinality(OfLine(receipt, l)) <= 1) /\ p \notin overlapped
      BY <2>10, <2>14
    <3>2. \A l \in Lines : LinesAfter(t.read, receipt)[l] = now[l]
      BY <1>5, <2>1, <3>1, ReceivedOnce
    <3>3. LinesAfter(t.read, receipt) = now
      <4>1. LinesAfter(t.read, receipt) = [l \in Lines |-> LinesAfter(t.read, receipt)[l]]
        BY DEF LinesAfter
      <4> HIDE DEF LinesAfter
      <4> QED BY <2>3, <3>2, <4>1
    <3>4. d.status = StatusFor(d.ordered, d.received) /\ d.status \notin {"DRAFT", "SUBMITTED"}
      BY <2>7, <2>13, <2>14, <3>3
    <3>5. FollowsOK(spo[p])
      BY <1>5, <1>8, <2>14, <3>1, FollowsFrom DEF BuyingOK
    <3>6. ASSUME NEW l \in Lines PROVE now[l] <= spo[p].ordered[l]
      <4>1. /\ now[l] = spo[p].received[l] + Received(receipt, l)
            /\ spo[p].received[l] \in Nat /\ spo[p].ordered[l] \in Nat
        BY <1>6, <2>1, OrderFields
      <4>2. CASE Received(receipt, l) = 0
        BY <3>5, <4>1, <4>2 DEF FollowsOK
      <4>3. CASE \E k \in DOMAIN receipt : receipt[k].line = l /\ Received(receipt, l) = receipt[k].amount
        BY <2>13, <2>14, <3>1, <4>1, <4>3
      <4> QED BY <1>5, <3>1, <4>2, <4>3, ReceivedOnce
    <3> QED BY <2>7, <3>4, <3>6 DEF FollowsOK
  <2> QED BY <1>5, <1>6, <1>7, <1>8, <2>3, <2>7, <2>8, <2>9, <2>11, <2>12, <2>13, <2>14, OrderStep
<1> QED BY <1>9, <1>10

LEMMA BuyingSteps ==
  ASSUME BuyingOK, Ordering \/ Receiving
  PROVE  BuyingOK'
<1>1. ASSUME NEW w \in Clerks,
             \/ \E r \in Requisitions : ReadRequisitionDraft(w, r)
             \/ \E p \in Orders : ReadOrderDraft(w, p)
             \/ \E t \in Terms, submit \in BOOLEAN : SaveRequisitionDraft(w, t, submit)
             \/ \E t \in Terms, c \in Consumables, submit \in BOOLEAN :
                  \/ SaveOrderDraft(w, t, c, submit)
                  \/ \E p \in Orders, r \in Requisitions \union {None} : CreateOrder(w, p, r, t, c, submit)
             \/ ConvertRequisition(w)
      PROVE  BuyingOK'
  BY <1>1, ReadRequisitionDraftStep, ReadOrderDraftStep, SaveRequisitionStep, SaveOrderStep, CreateOrderStep,
     ConvertRequisitionStep
<1>2. CASE Ordering
  BY <1>1, <1>2, CreateRequisitionStep, MoveRequisitionStep, MoveOrderStep DEF Ordering
<1>3. CASE Receiving
  BY <1>3, MoveOrderStep, PrepareReceiptStep, PostReceiptStep, CrashStep DEF Receiving
<1> QED BY <1>2, <1>3

LEMMA BuyingKept ==
  ASSUME BuyingOK, UNCHANGED buyingVars
  PROVE  BuyingOK'
<1>1. Persists
  BY DEF Persists, buyingVars
<1>2. DesksOK'
  BY <1>1, DesksPersist DEF BuyingOK, buyingVars
<1>3. UnwrittenOK' /\ UnapprovedOK' /\ ReceivedIsInStock' /\ StatusFollowsReceipts'
  BY OrdersKept DEF BuyingOK, buyingVars
<1> QED BY <1>2, <1>3 DEF BuyingOK, BuyingTypeOK, buyingVars

-----------------------------------------------------------------------------
(* Supplier money: what is spent of a payment and paid of an invoice *)

LEMMA SharesAreAmounts ==
  ASSUME NEW s \in Shares
  PROVE  s \in [Bills -> Nat] /\ SumOf(s) \in Nat /\ \A b \in Bills : s[b] <= SumOf(s)
<1>1. s \in [Bills -> Nat] /\ IsFiniteSet(Bills)
  BY PayablesAssumption DEF Shares
<1> QED BY <1>1, SumIsNat, SumBoundsParts

LEMMA SpentIsNat ==
  ASSUME OwingTypeOK
  PROVE  /\ \A y \in Payouts : Spent(y) \in Nat /\ spent[y] \in Shares /\ \A b \in Bills : spent[y][b] \in Nat
         /\ \A b \in Bills : Paid(b) \in Nat
         /\ Settled \in Nat
<1>1. \A y \in Payouts : Spent(y) \in Nat /\ spent[y] \in Shares /\ \A b \in Bills : spent[y][b] \in Nat
  BY SharesAreAmounts DEF OwingTypeOK, Spent
<1>2. ASSUME NEW b \in Bills PROVE Paid(b) \in Nat
  <2>1. PICK f : f = [y \in Payouts |-> spent[y][b]]
    OBVIOUS
  <2>2. f \in [Payouts -> Nat]
    BY <1>1, <2>1
  <2> QED BY <2>1, <2>2, PayablesAssumption, SumIsNat DEF Paid
<1>3. Settled \in Nat
  <2>1. PICK f : f = [y \in Payouts |-> Spent(y)]
    OBVIOUS
  <2>2. f \in [Payouts -> Nat]
    BY <1>1, <2>1
  <2> QED BY <2>1, <2>2, PayablesAssumption, SumIsNat DEF Settled
<1> QED BY <1>1, <1>2, <1>3

(* s becomes what payment y pays of each invoice.                          *)
LEMMA SpentChanges ==
  ASSUME OwingTypeOK, NEW y \in Payouts, NEW s \in Shares, spent' = [spent EXCEPT ![y] = s]
  PROVE  /\ spent' \in [Payouts -> Shares]
         /\ Spent(y)' = SumOf(s)
         /\ \A z \in Payouts \ {y} : spent'[z] = spent[z] /\ Spent(z)' = Spent(z)
         /\ \A b \in Bills : Paid(b)' = Paid(b) - spent[y][b] + s[b]
         /\ Settled' = Settled - Spent(y) + SumOf(s)
<1>1. spent' \in [Payouts -> Shares] /\ spent'[y] = s /\ \A z \in Payouts \ {y} : spent'[z] = spent[z]
  BY DEF OwingTypeOK
<1>2. \A z \in Payouts : Spent(z)' = IF z = y THEN SumOf(s) ELSE Spent(z)
  BY <1>1 DEF Spent
<1>3. ASSUME NEW b \in Bills PROVE Paid(b)' = Paid(b) - spent[y][b] + s[b]
  <2>1. PICK f : f = [z \in Payouts |-> spent[z][b]]
    OBVIOUS
  <2>2. PICK g : g = [z \in Payouts |-> spent'[z][b]]
    OBVIOUS
  <2>3. f \in [Payouts -> Nat] /\ g \in [Payouts -> Nat]
    BY <1>1, <2>1, <2>2, PayablesAssumption DEF OwingTypeOK, Shares
  <2>4. \A z \in Payouts \ {y} : g[z] = f[z]
    BY <1>1, <2>1, <2>2
  <2>5. f[y] = spent[y][b] /\ g[y] = s[b]
    BY <1>1, <2>1, <2>2
  <2>6. SumOf(g) = SumOf(f) - f[y] + g[y]
    BY <2>3, <2>4, PayablesAssumption, SumChangedAt
  <2> QED BY <2>1, <2>2, <2>5, <2>6 DEF Paid
<1>4. Settled' = Settled - Spent(y) + SumOf(s)
  <2>1. PICK f : f = [z \in Payouts |-> Spent(z)]
    OBVIOUS
  <2>2. PICK g : g = [z \in Payouts |-> IF z = y THEN SumOf(s) ELSE Spent(z)]
    OBVIOUS
  <2>3. f \in [Payouts -> Nat] /\ g \in [Payouts -> Nat]
    BY <2>1, <2>2, SpentIsNat, SharesAreAmounts
  <2>4. \A z \in Payouts \ {y} : g[z] = f[z]
    BY <2>1, <2>2
  <2>5. f[y] = Spent(y) /\ g[y] = SumOf(s)
    BY <2>1, <2>2
  <2>6. SumOf(g) = SumOf(f) - f[y] + g[y]
    BY <2>3, <2>4, PayablesAssumption, SumChangedAt
  <2>7. Settled' = SumOf(g)
    BY <1>2, <2>2 DEF Settled
  <2> QED BY <2>1, <2>5, <2>6, <2>7 DEF Settled
<1> QED BY <1>1, <1>2, <1>3, <1>4

LEMMA SpentKept ==
  ASSUME spent' = spent
  PROVE  /\ \A y \in Payouts : Spent(y)' = Spent(y)
         /\ \A b \in Bills : Paid(b)' = Paid(b)
         /\ Settled' = Settled
BY DEF Spent, Paid, Settled

-----------------------------------------------------------------------------
(* The documents that stand, when one is written *)

Unpaid(b) == bill[b] # None /\ ~bill[b].cancelled
Issued(n) == debited[n] # None /\ debited[n].status = "ISSUED"

LEMMA OwedIsSum ==
  ASSUME NEW S, S = {b \in Bills : bill[b] # None /\ ~bill[b].cancelled}
  PROVE  Owed = SumOf([b \in S |-> bill[b].total])
BY DEF Owed

LEMMA OwedNext ==
  ASSUME NEW S, S = {b \in Bills : bill'[b] # None /\ ~bill'[b].cancelled}
  PROVE  Owed' = SumOf([b \in S |-> bill'[b].total])
BY DEF Owed

LEMMA DebitedIsSum ==
  ASSUME NEW S, S = {n \in DebitNotes : debited[n] # None /\ debited[n].status = "ISSUED"}
  PROVE  Debited = SumOf([n \in S |-> debited[n].total])
BY DEF Debited

LEMMA DebitedNext ==
  ASSUME NEW S, S = {n \in DebitNotes : debited'[n] # None /\ debited'[n].status = "ISSUED"}
  PROVE  Debited' = SumOf([n \in S |-> debited'[n].total])
BY DEF Debited

LEMMA BillFields ==
  ASSUME OwingTypeOK, NEW b \in Bills, bill[b] # None
  PROVE  bill[b] \in BillDocs /\ bill[b].total \in Nat \ {0} /\ bill[b].cancelled \in BOOLEAN
BY PayablesAssumption DEF OwingTypeOK, BillDocs, Sums

LEMMA NoteFields ==
  ASSUME OwingTypeOK, NEW n \in DebitNotes, debited[n] # None
  PROVE  debited[n] \in DebitNoteDocs /\ debited[n].total \in Nat \ {0} /\ debited[n].status \in {"ISSUED", "CANCELLED"}
BY PayablesAssumption DEF OwingTypeOK, DebitNoteDocs, Sums

LEMMA OwedMore ==       \* invoice b comes to stand, for total
  ASSUME OwingTypeOK, NEW b \in Bills, ~Unpaid(b), NEW d \in BillDocs, ~d.cancelled, bill' = [bill EXCEPT ![b] = d]
  PROVE  Owed' = Owed + d.total
<1>1. PICK S : S = {c \in Bills : bill[c] # None /\ ~bill[c].cancelled}
  OBVIOUS
<1>2. PICK T : T = {c \in Bills : bill'[c] # None /\ ~bill'[c].cancelled}
  OBVIOUS
<1>3. PICK f : f = [c \in S |-> bill[c].total]
  OBVIOUS
<1>4. PICK g : g = [c \in T |-> bill'[c].total]
  OBVIOUS
<1>5. d # None /\ d.total \in Nat
  BY OwingDocumentsAssumption, PayablesAssumption DEF BillDocs, Sums
<1>6. bill'[b] = d /\ \A c \in Bills \ {b} : bill'[c] = bill[c]
  BY DEF OwingTypeOK
<1>7. b \notin S /\ T = S \union {b} /\ S \subseteq Bills
  BY <1>1, <1>2, <1>5, <1>6 DEF Unpaid
<1>8. IsFiniteSet(S)
  BY <1>7, PayablesAssumption, FS_Subset
<1>9. \A c \in S : g[c] = f[c]
  BY <1>1, <1>3, <1>4, <1>6, <1>7
<1>10. f \in [S -> Nat]
  BY <1>1, <1>3, BillFields
<1>11. g[b] = d.total
  BY <1>4, <1>6, <1>7
<1>12. g \in [T -> Nat]
  BY <1>4, <1>5, <1>7, <1>9, <1>10, <1>11
<1>13. SumOf(g) = SumOf(f) + g[b]
  BY <1>7, <1>8, <1>9, <1>10, <1>12, SumExtended
<1>14. Owed = SumOf(f) /\ Owed' = SumOf(g)
  BY <1>1, <1>2, <1>3, <1>4, OwedIsSum, OwedNext
<1> QED BY <1>11, <1>13, <1>14

LEMMA OwedLess ==       \* invoice b stands no longer
  ASSUME OwingTypeOK, NEW b \in Bills, Unpaid(b), NEW d \in BillDocs, d.cancelled, bill' = [bill EXCEPT ![b] = d]
  PROVE  Owed' = Owed - bill[b].total
<1>1. PICK S : S = {c \in Bills : bill'[c] # None /\ ~bill'[c].cancelled}
  OBVIOUS
<1>2. PICK T : T = {c \in Bills : bill[c] # None /\ ~bill[c].cancelled}
  OBVIOUS
<1>3. PICK f : f = [c \in S |-> bill'[c].total]
  OBVIOUS
<1>4. PICK g : g = [c \in T |-> bill[c].total]
  OBVIOUS
<1>6. bill'[b] = d /\ \A c \in Bills \ {b} : bill'[c] = bill[c]
  BY DEF OwingTypeOK
<1>7. b \notin S /\ T = S \union {b} /\ S \subseteq Bills
  BY <1>1, <1>2, <1>6 DEF Unpaid
<1>8. IsFiniteSet(S)
  BY <1>7, PayablesAssumption, FS_Subset
<1>9. \A c \in S : g[c] = f[c]
  BY <1>3, <1>4, <1>6, <1>7
<1>10. g \in [T -> Nat]
  BY <1>2, <1>4, BillFields
<1>11. g[b] = bill[b].total
  BY <1>4, <1>7
<1>12. f \in [S -> Nat]
  BY <1>3, <1>7, <1>9, <1>10
<1>13. SumOf(g) = SumOf(f) + g[b]
  BY <1>7, <1>8, <1>9, <1>10, <1>12, SumExtended
<1>14. Owed' = SumOf(f) /\ Owed = SumOf(g)
  BY <1>1, <1>2, <1>3, <1>4, OwedIsSum, OwedNext
<1>15. SumOf(f) \in Nat /\ g[b] \in Nat
  BY <1>7, <1>8, <1>10, <1>12, SumIsNat
<1> QED BY <1>11, <1>13, <1>14, <1>15

LEMMA OwedSame ==       \* invoice b is cancelled a second time
  ASSUME OwingTypeOK, NEW b \in Bills, bill[b] # None, bill[b].cancelled, NEW d \in BillDocs, d.cancelled,
         bill' = [bill EXCEPT ![b] = d]
  PROVE  Owed' = Owed
<1>1. PICK S : S = {c \in Bills : bill'[c] # None /\ ~bill'[c].cancelled}
  OBVIOUS
<1>2. bill'[b] = d /\ \A c \in Bills \ {b} : bill'[c] = bill[c]
  BY DEF OwingTypeOK
<1>3. S = {c \in Bills : bill[c] # None /\ ~bill[c].cancelled}
  BY <1>1, <1>2
<1>4. b \notin S /\ S \subseteq Bills
  BY <1>3
<1>5. PICK f : f = [c \in S |-> bill[c].total]
  OBVIOUS
<1>6. f = [c \in S |-> bill'[c].total]
  BY <1>2, <1>4, <1>5
<1>7. Owed' = SumOf(f)
  BY <1>1, <1>6, OwedNext
<1>8. Owed = SumOf(f)
  BY <1>3, <1>5, OwedIsSum
<1> QED BY <1>7, <1>8

LEMMA DebitedMore ==
  ASSUME OwingTypeOK, NEW n \in DebitNotes, ~Issued(n), NEW d \in DebitNoteDocs, d.status = "ISSUED",
         debited' = [debited EXCEPT ![n] = d]
  PROVE  Debited' = Debited + d.total
<1>1. PICK S : S = {m \in DebitNotes : debited[m] # None /\ debited[m].status = "ISSUED"}
  OBVIOUS
<1>2. PICK T : T = {m \in DebitNotes : debited'[m] # None /\ debited'[m].status = "ISSUED"}
  OBVIOUS
<1>3. PICK f : f = [m \in S |-> debited[m].total]
  OBVIOUS
<1>4. PICK g : g = [m \in T |-> debited'[m].total]
  OBVIOUS
<1>5. d # None /\ d.total \in Nat
  BY OwingDocumentsAssumption, PayablesAssumption DEF DebitNoteDocs, Sums
<1>6. debited'[n] = d /\ \A m \in DebitNotes \ {n} : debited'[m] = debited[m]
  BY DEF OwingTypeOK
<1>7. n \notin S /\ T = S \union {n} /\ S \subseteq DebitNotes
  BY <1>1, <1>2, <1>5, <1>6 DEF Issued
<1>8. IsFiniteSet(S)
  BY <1>7, PayablesAssumption, FS_Subset
<1>9. \A m \in S : g[m] = f[m]
  BY <1>1, <1>3, <1>4, <1>6, <1>7
<1>10. f \in [S -> Nat]
  BY <1>1, <1>3, NoteFields
<1>11. g[n] = d.total
  BY <1>4, <1>6, <1>7
<1>12. g \in [T -> Nat]
  BY <1>4, <1>5, <1>7, <1>9, <1>10, <1>11
<1>13. SumOf(g) = SumOf(f) + g[n]
  BY <1>7, <1>8, <1>9, <1>10, <1>12, SumExtended
<1>14. Debited = SumOf(f) /\ Debited' = SumOf(g)
  BY <1>1, <1>2, <1>3, <1>4, DebitedIsSum, DebitedNext
<1> QED BY <1>11, <1>13, <1>14

LEMMA DebitedLess ==
  ASSUME OwingTypeOK, NEW n \in DebitNotes, Issued(n), NEW d \in DebitNoteDocs, d.status = "CANCELLED",
         debited' = [debited EXCEPT ![n] = d]
  PROVE  Debited' = Debited - debited[n].total
<1>1. PICK S : S = {m \in DebitNotes : debited'[m] # None /\ debited'[m].status = "ISSUED"}
  OBVIOUS
<1>2. PICK T : T = {m \in DebitNotes : debited[m] # None /\ debited[m].status = "ISSUED"}
  OBVIOUS
<1>3. PICK f : f = [m \in S |-> debited'[m].total]
  OBVIOUS
<1>4. PICK g : g = [m \in T |-> debited[m].total]
  OBVIOUS
<1>6. debited'[n] = d /\ \A m \in DebitNotes \ {n} : debited'[m] = debited[m]
  BY DEF OwingTypeOK
<1>7. n \notin S /\ T = S \union {n} /\ S \subseteq DebitNotes
  BY <1>1, <1>2, <1>6 DEF Issued
<1>8. IsFiniteSet(S)
  BY <1>7, PayablesAssumption, FS_Subset
<1>9. \A m \in S : g[m] = f[m]
  BY <1>3, <1>4, <1>6, <1>7
<1>10. g \in [T -> Nat]
  BY <1>2, <1>4, NoteFields
<1>11. g[n] = debited[n].total
  BY <1>4, <1>7
<1>12. f \in [S -> Nat]
  BY <1>3, <1>7, <1>9, <1>10
<1>13. SumOf(g) = SumOf(f) + g[n]
  BY <1>7, <1>8, <1>9, <1>10, <1>12, SumExtended
<1>14. Debited' = SumOf(f) /\ Debited = SumOf(g)
  BY <1>1, <1>2, <1>3, <1>4, DebitedIsSum, DebitedNext
<1>15. SumOf(f) \in Nat /\ g[n] \in Nat
  BY <1>7, <1>8, <1>10, <1>12, SumIsNat
<1> QED BY <1>11, <1>13, <1>14, <1>15

LEMMA DocumentsKept ==
  /\ bill' = bill => Owed' = Owed
  /\ debited' = debited => Debited' = Debited
  /\ spent' = spent => Settled' = Settled
BY DEF Owed, Debited, Settled, Spent

LEMMA BalancesAreInt ==
  ASSUME OwingTypeOK
  PROVE  Owed \in Nat /\ Settled \in Nat /\ Debited \in Nat
<1>1. Owed \in Nat
  <2>1. PICK S : S = {b \in Bills : bill[b] # None /\ ~bill[b].cancelled}
    OBVIOUS
  <2>2. PICK f : f = [b \in S |-> bill[b].total]
    OBVIOUS
  <2>3. f \in [S -> Nat] /\ IsFiniteSet(S)
    BY <2>1, <2>2, BillFields, PayablesAssumption, FS_Subset
  <2> QED BY <2>1, <2>2, <2>3, SumIsNat, OwedIsSum
<1>2. Debited \in Nat
  <2>1. PICK S : S = {n \in DebitNotes : debited[n] # None /\ debited[n].status = "ISSUED"}
    OBVIOUS
  <2>2. PICK f : f = [n \in S |-> debited[n].total]
    OBVIOUS
  <2>3. f \in [S -> Nat] /\ IsFiniteSet(S)
    BY <2>1, <2>2, NoteFields, PayablesAssumption, FS_Subset
  <2> QED BY <2>1, <2>2, <2>3, SumIsNat, DebitedIsSum
<1> QED BY <1>1, <1>2, SpentIsNat

-----------------------------------------------------------------------------
(* What an accountant is at, while the others write *)

DocumentsStay ==
  /\ \A b \in Bills : bill[b] # None => bill'[b] # None
  /\ \A n \in DebitNotes : debited[n] # None => debited'[n] # None

PayoutSpared(y) == payout[y] # None => payout'[y] = payout[y] /\ SumOf(spent'[y]) <= Spent(y)
BillSpared(b) == bill[b] # None => bill'[b] = bill[b] /\ SumOf([y \in Payouts |-> spent'[y][b]]) <= Paid(b)

LEMMA CoveredKept ==
  ASSUME OwingTypeOK, OwingTypeOK', NEW y \in Payouts, NEW shares \in Shares, Covered(y, shares), PayoutSpared(y),
         \A b \in Bills : shares[b] > 0 => BillSpared(b)
  PROVE  Covered(y, shares)'
<1>1. PICK A : A = {b \in Bills : shares[b] > 0}
  OBVIOUS
<1>2. /\ payout[y] # None /\ payout[y].status = "RECORDED" /\ A # {}
      /\ Spent(y) + SumOf(shares) <= payout[y].amount
      /\ \A b \in A : bill[b] # None /\ ~bill[b].cancelled /\ shares[b] <= bill[b].total - Paid(b)
  BY <1>1 DEF Covered
<1>3. payout'[y] = payout[y] /\ Spent(y)' <= Spent(y)
  BY <1>2 DEF PayoutSpared, Spent
<1>4. Spent(y) \in Nat /\ SumOf(shares) \in Nat /\ payout[y].amount \in Nat
  BY <1>2, SpentIsNat, SharesAreAmounts, PayablesAssumption DEF OwingTypeOK, PayoutDocs, Sums
<1>5. PICK n : n = Spent(y)'
  OBVIOUS
<1>6. n \in Nat
  BY <1>5, SharesAreAmounts DEF OwingTypeOK, Spent
<1>7. n + SumOf(shares) <= payout'[y].amount
  BY <1>2, <1>3, <1>4, <1>5, <1>6
<1>8. ASSUME NEW b \in A
      PROVE  bill'[b] # None /\ ~bill'[b].cancelled /\ shares[b] <= bill'[b].total - Paid(b)'
  <2>1. bill'[b] = bill[b] /\ Paid(b)' <= Paid(b)
    BY <1>1, <1>2 DEF BillSpared, Paid
  <2>2. PICK m : m = Paid(b)'
    OBVIOUS
  <2>3. PICK f : f = [z \in Payouts |-> spent'[z][b]]
    OBVIOUS
  <2>4. f \in [Payouts -> Nat]
    BY <1>1, <2>3, PayablesAssumption DEF OwingTypeOK, Shares
  <2>5. m \in Nat
    BY <2>2, <2>3, <2>4, PayablesAssumption, SumIsNat DEF Paid
  <2>6. Paid(b) \in Nat /\ bill[b].total \in Nat /\ shares[b] \in Nat
    BY <1>1, <1>2, SpentIsNat, BillFields, SharesAreAmounts
  <2> QED BY <1>2, <2>1, <2>2, <2>5, <2>6
<1> QED BY <1>1, <1>2, <1>3, <1>5, <1>7, <1>8 DEF Covered

LEMMA TillPersists ==
  ASSUME OwingTypeOK, OwingTypeOK', DocumentsStay, NEW t \in Duties, TillOK(t),
         t.job = "allocate-commit" =>
           PayoutSpared(t.doc) /\ \A b \in Bills : t.shares[b] > 0 => BillSpared(b)
  PROVE  TillOK(t)'
<1>1. t.job = "allocate-commit" => Covered(t.doc, t.shares)'
  BY CoveredKept DEF TillOK, Duties
<1> QED BY <1>1 DEF TillOK, DocumentsStay

LEMMA TillsPersist ==       \* nobody but k does anything, and it is away, or where its own step leads
  ASSUME OwingTypeOK, OwingTypeOK', TillsOK, DocumentsStay, NEW k, NEW t \in Duties,
         \A v \in Accountants : till'[v] = IF v = k THEN t ELSE till[v],
         TillOK(t)',
         \A y \in Payouts : PayoutSpared(y), \A b \in Bills : BillSpared(b)
  PROVE  TillsOK'
<1> SUFFICES ASSUME NEW v \in Accountants PROVE TillOK(till[v])'
  BY DEF TillsOK
<1>1. CASE v = k
  BY <1>1
<1>2. CASE v # k
  <2>1. PICK u : u = till[v]
    OBVIOUS
  <2>2. u \in Duties /\ TillOK(u)
    BY <2>1 DEF OwingTypeOK, TillsOK
  <2>3. TillOK(u)'
    BY <2>2, TillPersists DEF TillOK
  <2> QED BY <1>2, <2>1, <2>3
<1> QED BY <1>1, <1>2

LEMMA AwayIsDuty == Away \in Duties /\ Away.job = "none"
BY PayablesAssumption DEF Away, Duties, Shares

LEMMA AllocateAgain ==
  ASSUME NEW u \in Duties, NEW j \in {"allocate", "allocate-commit"}, NEW d, d = [u EXCEPT !.job = j]
  PROVE  d \in Duties /\ d.job = j /\ d.doc = u.doc /\ d.shares = u.shares
BY DEF Duties

(* A commit by k that wrote payment y (or none) and the invoices of S.     *)
LEMMA Superseded ==
  ASSUME OwingTypeOK, NEW k, NEW y, NEW S, Supersedes(k, y, S)
  PROVE  /\ till' \in [Accountants -> Duties]
         /\ \A v \in Accountants :
              \/ till'[v] = Away
              \/ till'[v].job = "allocate" /\ till[v].job = "allocate-commit" /\ till'[v].doc = till[v].doc
              \/ till'[v] = till[v] /\ ~Touches(till[v], y, S)
<1>1. \A v \in Accountants :
        till'[v] = IF v = k THEN Away
                   ELSE IF Touches(till[v], y, S) THEN [till[v] EXCEPT !.job = "allocate"] ELSE till[v]
  BY DEF Supersedes
<1>2. till' = [v \in Accountants |-> till'[v]]
  BY DEF Supersedes
<1>3. ASSUME NEW v \in Accountants
      PROVE  /\ till'[v] \in Duties
             /\ \/ till'[v] = Away
                \/ till'[v].job = "allocate" /\ till[v].job = "allocate-commit" /\ till'[v].doc = till[v].doc
                \/ till'[v] = till[v] /\ ~Touches(till[v], y, S)
  <2>1. PICK u : u = till[v]
    OBVIOUS
  <2>2. u \in Duties
    BY <2>1 DEF OwingTypeOK
  <2>3. CASE v = k
    BY <1>1, <2>3, AwayIsDuty
  <2>4. CASE v # k /\ Touches(u, y, S)
    <3>1. PICK d : d = [u EXCEPT !.job = "allocate"]
      OBVIOUS
    <3>2. d \in Duties /\ d.job = "allocate" /\ d.doc = u.doc
      BY <2>2, <3>1, AllocateAgain
    <3>3. till'[v] = d /\ u.job = "allocate-commit"
      BY <1>1, <2>1, <2>4, <3>1 DEF Touches
    <3> QED BY <2>1, <3>2, <3>3
  <2>5. CASE v # k /\ ~Touches(u, y, S)
    BY <1>1, <2>1, <2>2, <2>5
  <2> QED BY <2>3, <2>4, <2>5
<1> QED BY <1>2, <1>3

LEMMA TillsAfterCommit ==
  ASSUME OwingTypeOK, OwingTypeOK', TillsOK, DocumentsStay, NEW k, NEW y, NEW S, Supersedes(k, y, S),
         \A z \in Payouts : z # y => PayoutSpared(z),
         \A b \in Bills : b \notin S => BillSpared(b)
  PROVE  TillsOK'
<1> SUFFICES ASSUME NEW v \in Accountants PROVE TillOK(till[v])'
  BY DEF TillsOK
<1>1. PICK u : u = till[v]
  OBVIOUS
<1>2. PICK w : w = till'[v]
  OBVIOUS
<1>3. u \in Duties /\ TillOK(u)
  BY <1>1 DEF OwingTypeOK, TillsOK
<1>4. CASE w = Away
  BY <1>2, <1>4, AwayIsDuty DEF TillOK
<1>5. CASE w.job = "allocate" /\ u.job = "allocate-commit" /\ w.doc = u.doc
  BY <1>2, <1>3, <1>5 DEF TillOK
<1>6. CASE w = u /\ ~Touches(u, y, S)
  <2>1. ASSUME u.job = "allocate-commit"
        PROVE  PayoutSpared(u.doc) /\ \A b \in Bills : u.shares[b] > 0 => BillSpared(b)
    <3>1. u.doc # y /\ u.doc \in Payouts
      BY <1>3, <1>6, <2>1 DEF Touches, TillOK
    <3>2. \A b \in Bills : u.shares[b] > 0 => b \notin S
      BY <1>6, <2>1 DEF Touches
    <3> QED BY <3>1, <3>2
  <2>2. TillOK(u)'
    BY <1>3, <2>1, TillPersists
  <2> QED BY <1>2, <1>6, <2>2
<1> QED BY <1>1, <1>2, <1>4, <1>5, <1>6, Superseded

LEMMA PayoutUntouched ==
  ASSUME OwingTypeOK, NEW y \in Payouts, payout[y] # None => payout'[y] = payout[y], spent'[y] = spent[y]
  PROVE  PayoutSpared(y)
BY SpentIsNat DEF PayoutSpared, Spent

LEMMA BillUntouched ==
  ASSUME OwingTypeOK, NEW b \in Bills, bill[b] # None => bill'[b] = bill[b], spent' = spent
  PROVE  BillSpared(b)
<1>1. SumOf([y \in Payouts |-> spent'[y][b]]) = Paid(b)
  BY DEF Paid
<1> QED BY <1>1, SpentIsNat DEF BillSpared

LEMMA TillsAtRest ==       \* nobody's till moves, and every document in use is spared
  ASSUME OwingTypeOK, OwingTypeOK', TillsOK, DocumentsStay, till' = till,
         \A y \in Payouts : PayoutSpared(y), \A b \in Bills : BillSpared(b)
  PROVE  TillsOK'
<1> SUFFICES ASSUME NEW v \in Accountants PROVE TillOK(till[v])'
  BY DEF TillsOK
<1>1. PICK u : u = till[v]
  OBVIOUS
<1>2. u \in Duties /\ TillOK(u)
  BY <1>1 DEF OwingTypeOK, TillsOK
<1>3. TillOK(u)'
  BY <1>2, TillPersists DEF TillOK
<1> QED BY <1>1, <1>3

-----------------------------------------------------------------------------
(* The steps of the accountants *)

LEMMA SpendsKept ==
  ASSUME SpendsOK, payout' = payout, spent' = spent, posted' = posted
  PROVE  SpendsOK'
BY DEF SpendsOK, Spent

LEMMA BillsKept ==
  ASSUME BillsOK, bill' = bill, spent' = spent
  PROVE  BillsOK'
BY DEF BillsOK, Paid

LEMMA MatchKept ==
  ASSUME PayablesMatchDocuments, bill' = bill, spent' = spent, debited' = debited, ap' = ap, voidedTwice' = voidedTwice
  PROVE  PayablesMatchDocuments'
BY DocumentsKept DEF PayablesMatchDocuments

LEMMA CreateBillStep ==
  ASSUME OwingOK, NEW b \in Bills, NEW total \in Sums, CreateBill(b, total)
  PROVE  OwingOK'
<1>0. OwingTypeOK /\ SpendsOK /\ BillsOK /\ TillsOK /\ PayablesMatchDocuments
  BY DEF OwingOK
<1>1. PICK d : d = [total |-> total, cancelled |-> FALSE]
  OBVIOUS
<1>2. d \in BillDocs /\ d # None /\ d.total = total /\ ~d.cancelled /\ total \in Nat
  <2>1. d \in BillDocs
    BY <1>1 DEF BillDocs
  <2>2. d.total = total /\ d.cancelled = FALSE
    BY <1>1
  <2>3. total \in Nat
    BY PayablesAssumption DEF Sums
  <2> QED BY <2>1, <2>2, <2>3, OwingDocumentsAssumption
<1>3. bill[b] = None /\ bill' = [bill EXCEPT ![b] = d] /\ ap' = ap + total
  BY <1>1 DEF CreateBill, PostPurchaseInvoice
<1>4. UNCHANGED <<payout, spent, posted, debited, till, voidedTwice>>
  BY DEF CreateBill
<1>5. bill' \in [Bills -> BillDocs \union {None}] /\ bill'[b] = d /\ \A c \in Bills \ {b} : bill'[c] = bill[c]
  BY <1>0, <1>2, <1>3 DEF OwingTypeOK
<1>6. OwingTypeOK'
  BY <1>0, <1>2, <1>3, <1>4, <1>5 DEF OwingTypeOK
<1>7. SpendsOK'
  BY <1>0, <1>4, SpendsKept
<1>8. BillsOK'
  <2>1. \A c \in Bills : Paid(c)' = Paid(c)
    BY <1>4, SpentKept
  <2>2. Paid(b)' = 0 /\ bill'[b] # None /\ bill'[b].total \in Nat /\ 0 <= bill'[b].total
    BY <1>0, <1>2, <1>3, <1>5, <2>1 DEF BillsOK
  <2>3. ASSUME NEW c \in Bills, c # b
        PROVE  (bill'[c] = None => Paid(c)' = 0) /\ (bill'[c] # None => Paid(c)' <= bill'[c].total)
    BY <1>0, <1>5, <2>1, <2>3 DEF BillsOK
  <2> QED BY <2>2, <2>3 DEF BillsOK
<1>9. TillsOK'
  <2>1. DocumentsStay
    BY <1>4, <1>5, <1>2 DEF DocumentsStay
  <2>2. \A y \in Payouts : PayoutSpared(y)
    BY <1>0, <1>4, PayoutUntouched
  <2>3. \A c \in Bills : BillSpared(c)
    BY <1>0, <1>3, <1>4, <1>5, BillUntouched
  <2> QED BY <1>0, <1>4, <1>6, <2>1, <2>2, <2>3, TillsAtRest
<1>10. PayablesMatchDocuments'
  <2>1. ~Unpaid(b)
    BY <1>3 DEF Unpaid
  <2>2. Owed' = Owed + total
    BY <1>0, <1>2, <1>3, <2>1, OwedMore
  <2>3. Settled' = Settled /\ Debited' = Debited
    BY <1>4, DocumentsKept
  <2> QED BY <1>0, <1>2, <1>3, <1>4, <2>2, <2>3, BalancesAreInt DEF PayablesMatchDocuments, OwingTypeOK
<1> QED BY <1>6, <1>7, <1>8, <1>9, <1>10 DEF OwingOK

LEMMA RecordPayoutStep ==
  ASSUME OwingOK, NEW y \in Payouts, NEW amount \in Sums, RecordPayout(y, amount)
  PROVE  OwingOK'
<1>0. OwingTypeOK /\ SpendsOK /\ BillsOK /\ TillsOK /\ PayablesMatchDocuments
  BY DEF OwingOK
<1>1. PICK d : d = [amount |-> amount, status |-> "RECORDED"]
  OBVIOUS
<1>2. d \in PayoutDocs /\ d # None /\ d.amount = amount /\ d.status = "RECORDED" /\ amount \in Nat
  BY <1>1, OwingDocumentsAssumption, PayablesAssumption DEF PayoutDocs, Sums
<1>3. payout[y] = None /\ payout' = [payout EXCEPT ![y] = d]
  BY <1>1 DEF RecordPayout
<1>4. UNCHANGED <<bill, spent, posted, debited, ap, till, voidedTwice>>
  BY DEF RecordPayout
<1>5. payout' \in [Payouts -> PayoutDocs \union {None}] /\ payout'[y] = d /\ \A z \in Payouts \ {y} : payout'[z] = payout[z]
  BY <1>0, <1>2, <1>3 DEF OwingTypeOK
<1>6. OwingTypeOK'
  BY <1>0, <1>4, <1>5 DEF OwingTypeOK
<1>7. SpendsOK'
  <2>1. posted[y] = <<>> /\ spent[y] \in [Bills -> Nat] /\ \A b \in Bills : spent[y][b] = 0
    BY <1>0, <1>3, SharesAreAmounts DEF SpendsOK, OwingTypeOK
  <2>2. Spent(y) = 0
    BY <2>1, PayablesAssumption, SumIsZero DEF Spent
  <2>3. SumOf(posted[y]) = 0
    BY <2>1, SumOfNothing
  <2>4. \A z \in Payouts : Spent(z)' = Spent(z)
    BY <1>4, SpentKept
  <2> QED BY <1>0, <1>2, <1>4, <1>5, <2>2, <2>3, <2>4 DEF SpendsOK
<1>8. BillsOK'
  BY <1>0, <1>4, BillsKept
<1>9. TillsOK'
  <2>1. DocumentsStay
    BY <1>4 DEF DocumentsStay
  <2>2. \A z \in Payouts : PayoutSpared(z)
    BY <1>0, <1>3, <1>4, <1>5, PayoutUntouched
  <2>3. \A c \in Bills : BillSpared(c)
    BY <1>0, <1>4, BillUntouched
  <2> QED BY <1>0, <1>4, <1>6, <2>1, <2>2, <2>3, TillsAtRest
<1>10. PayablesMatchDocuments'
  BY <1>0, <1>4, MatchKept
<1> QED BY <1>6, <1>7, <1>8, <1>9, <1>10 DEF OwingOK

LEMMA CreateDebitNoteStep ==
  ASSUME OwingOK, NEW n \in DebitNotes, NEW total \in Sums, CreateDebitNote(n, total)
  PROVE  OwingOK'
<1>0. OwingTypeOK /\ SpendsOK /\ BillsOK /\ TillsOK /\ PayablesMatchDocuments
  BY DEF OwingOK
<1>1. PICK d : d = [total |-> total, status |-> "ISSUED"]
  OBVIOUS
<1>2. d \in DebitNoteDocs /\ d # None /\ d.total = total /\ d.status = "ISSUED" /\ total \in Nat
  BY <1>1, OwingDocumentsAssumption, PayablesAssumption DEF DebitNoteDocs, Sums
<1>3. debited[n] = None /\ debited' = [debited EXCEPT ![n] = d] /\ ap' = ap - total
  BY <1>1 DEF CreateDebitNote, PostDebitNote
<1>4. UNCHANGED <<bill, payout, spent, posted, till, voidedTwice>>
  BY DEF CreateDebitNote
<1>5. debited' \in [DebitNotes -> DebitNoteDocs \union {None}] /\ debited'[n] = d
      /\ \A m \in DebitNotes \ {n} : debited'[m] = debited[m]
  BY <1>0, <1>2, <1>3 DEF OwingTypeOK
<1>6. OwingTypeOK'
  BY <1>0, <1>2, <1>3, <1>4, <1>5 DEF OwingTypeOK
<1>7. SpendsOK' /\ BillsOK'
  BY <1>0, <1>4, SpendsKept, BillsKept
<1>9. TillsOK'
  <2>1. DocumentsStay
    BY <1>2, <1>4, <1>5 DEF DocumentsStay
  <2>2. \A y \in Payouts : PayoutSpared(y)
    BY <1>0, <1>4, PayoutUntouched
  <2>3. \A c \in Bills : BillSpared(c)
    BY <1>0, <1>4, BillUntouched
  <2> QED BY <1>0, <1>4, <1>6, <2>1, <2>2, <2>3, TillsAtRest
<1>10. PayablesMatchDocuments'
  <2>1. ~Issued(n)
    BY <1>3 DEF Issued
  <2>2. Debited' = Debited + total
    BY <1>0, <1>2, <1>3, <2>1, DebitedMore
  <2>3. Settled' = Settled /\ Owed' = Owed
    BY <1>4, DocumentsKept
  <2> QED BY <1>0, <1>2, <1>3, <1>4, <2>2, <2>3, BalancesAreInt DEF PayablesMatchDocuments, OwingTypeOK
<1> QED BY <1>6, <1>7, <1>9, <1>10 DEF OwingOK

LEMMA TillMoves ==       \* accountant k takes up t, and nothing is written
  ASSUME OwingOK, NEW k \in Accountants, NEW t \in Duties, TillOK(t), till' = [till EXCEPT ![k] = t],
         UNCHANGED <<bill, payout, spent, posted, debited, ap, voidedTwice>>
  PROVE  OwingOK'
<1>0. OwingTypeOK /\ SpendsOK /\ BillsOK /\ TillsOK /\ PayablesMatchDocuments
  BY DEF OwingOK
<1>1. \A v \in Accountants : till'[v] = IF v = k THEN t ELSE till[v]
  BY <1>0 DEF OwingTypeOK
<1>2. OwingTypeOK'
  BY <1>0 DEF OwingTypeOK
<1>3. SpendsOK' /\ BillsOK' /\ PayablesMatchDocuments'
  BY <1>0, SpendsKept, BillsKept, MatchKept
<1>4. DocumentsStay
  BY DEF DocumentsStay
<1>5. \A y \in Payouts : PayoutSpared(y)
  BY <1>0, PayoutUntouched
<1>6. \A b \in Bills : BillSpared(b)
  BY <1>0, BillUntouched
<1>7. TillOK(t)'
  BY <1>0, <1>2, <1>4, <1>5, <1>6, TillPersists DEF TillOK
<1>8. TillsOK'
  BY <1>0, <1>1, <1>2, <1>4, <1>5, <1>6, <1>7, TillsPersist
<1> QED BY <1>2, <1>3, <1>8 DEF OwingOK

LEMMA StartAllocationStep ==
  ASSUME OwingOK, NEW k \in Accountants, NEW y \in Payouts, NEW shares \in Shares, StartAllocation(k, y, shares)
  PROVE  OwingOK'
<1>1. PICK t : t = [job |-> "allocate-commit", doc |-> y, shares |-> shares]
  OBVIOUS
<1>2. t \in Duties /\ t.job = "allocate-commit" /\ t.doc = y /\ t.shares = shares
  BY <1>1 DEF Duties
<1>3. TillOK(t)
  BY <1>2 DEF StartAllocation, TillOK
<1> QED BY <1>1, <1>2, <1>3, TillMoves DEF StartAllocation

LEMMA RetryAllocationStep ==
  ASSUME OwingOK, NEW k \in Accountants, RetryAllocation(k)
  PROVE  OwingOK'
<1>1. PICK u : u = till[k]
  OBVIOUS
<1>2. u \in Duties /\ u.job = "allocate" /\ TillOK(u)
  BY <1>1 DEF OwingOK, OwingTypeOK, TillsOK, RetryAllocation, Standing
<1>3. PICK d : d = [u EXCEPT !.job = "allocate-commit"]
  OBVIOUS
<1>4. d \in Duties /\ d.job = "allocate-commit" /\ d.doc = u.doc /\ d.shares = u.shares
  BY <1>2, <1>3, AllocateAgain
<1>5. CASE Covered(u.doc, u.shares)
  <2>1. TillOK(d)
    BY <1>2, <1>4, <1>5 DEF TillOK
  <2>2. till' = [till EXCEPT ![k] = d]
    BY <1>1, <1>3, <1>5 DEF RetryAllocation
  <2> QED BY <1>4, <2>1, <2>2, TillMoves DEF RetryAllocation
<1>6. CASE ~Covered(u.doc, u.shares)
  <2>1. till' = [till EXCEPT ![k] = Away]
    BY <1>1, <1>6 DEF RetryAllocation
  <2>2. TillOK(Away)
    BY AwayIsDuty DEF TillOK
  <2>3. Away \in Duties
    BY AwayIsDuty
  <2> QED BY <2>1, <2>2, <2>3, TillMoves DEF RetryAllocation
<1> QED BY <1>5, <1>6

LEMMA StartCancelBillStep ==
  ASSUME OwingOK, NEW k \in Accountants, NEW b \in Bills, StartCancelBill(k, b)
  PROVE  OwingOK'
<1>1. PICK t : t = [Away EXCEPT !.job = "cancel-bill", !.doc = b]
  OBVIOUS
<1>2. t \in Duties /\ t.job = "cancel-bill" /\ t.doc = b
  <2>1. t = [job |-> "cancel-bill", doc |-> b, shares |-> Away.shares]
    BY <1>1, Zenon DEF Away
  <2>2. Away.shares \in Shares
    BY AwayIsDuty DEF Duties
  <2> QED BY <2>1, <2>2 DEF Duties
<1>3. TillOK(t)
  BY <1>2 DEF StartCancelBill, TillOK
<1>4. till' = [till EXCEPT ![k] = t]
  BY <1>1 DEF StartCancelBill
<1> QED BY <1>2, <1>3, <1>4, TillMoves DEF StartCancelBill

LEMMA StartCancelNoteStep ==
  ASSUME OwingOK, NEW k \in Accountants, NEW n \in DebitNotes, StartCancelNote(k, n)
  PROVE  OwingOK'
<1>1. PICK t : t = [Away EXCEPT !.job = "cancel-note", !.doc = n]
  OBVIOUS
<1>2. t \in Duties /\ t.job = "cancel-note" /\ t.doc = n
  <2>1. t = [job |-> "cancel-note", doc |-> n, shares |-> Away.shares]
    BY <1>1, Zenon DEF Away
  <2>2. Away.shares \in Shares
    BY AwayIsDuty DEF Duties
  <2> QED BY <2>1, <2>2 DEF Duties
<1>3. TillOK(t)
  BY <1>2 DEF StartCancelNote, TillOK
<1>4. till' = [till EXCEPT ![k] = t]
  BY <1>1 DEF StartCancelNote
<1> QED BY <1>2, <1>3, <1>4, TillMoves DEF StartCancelNote

LEMMA CancelDebitNoteStep ==
  ASSUME OwingOK, NEW k \in Accountants, CancelDebitNote(k)
  PROVE  OwingOK'
<1>0. OwingTypeOK /\ SpendsOK /\ BillsOK /\ TillsOK /\ PayablesMatchDocuments
  BY DEF OwingOK
<1>1. PICK n : n = till[k].doc
  OBVIOUS
<1>2. n \in DebitNotes /\ debited[n] # None
  BY <1>0, <1>1 DEF TillsOK, TillOK, CancelDebitNote, Standing
<1>3. till' = [till EXCEPT ![k] = Away] /\ UNCHANGED <<bill, payout, spent, posted, voidedTwice>>
  BY DEF CancelDebitNote, Leave
<1>4. TillOK(Away) /\ TillOK(Away)'
  BY AwayIsDuty DEF TillOK
<1>5. CASE debited[n].status = "ISSUED"
  <2>1. PICK d : d = [debited[n] EXCEPT !.status = "CANCELLED"]
    OBVIOUS
  <2>2. d \in DebitNoteDocs /\ d.status = "CANCELLED"
    BY <1>0, <1>2, <2>1, NoteFields DEF DebitNoteDocs
  <2>3. debited' = [debited EXCEPT ![n] = d] /\ ap' = ap - (-debited[n].total)
    BY <1>1, <1>5, <2>1 DEF CancelDebitNote, ReverseJournal
  <2>4. debited' \in [DebitNotes -> DebitNoteDocs \union {None}] /\ debited'[n] = d
        /\ \A m \in DebitNotes \ {n} : debited'[m] = debited[m]
    BY <1>0, <1>2, <2>2, <2>3 DEF OwingTypeOK
  <2>5. debited[n].total \in Nat
    BY <1>0, <1>2, NoteFields
  <2>6. OwingTypeOK'
    BY <1>0, <1>3, <2>3, <2>4, <2>5, AwayIsDuty DEF OwingTypeOK
  <2>7. SpendsOK' /\ BillsOK'
    BY <1>0, <1>3, SpendsKept, BillsKept
  <2>8. TillsOK'
    <3>1. DocumentsStay
      BY <1>3, <2>2, <2>4, OwingDocumentsAssumption DEF DocumentsStay
    <3>2. \A y \in Payouts : PayoutSpared(y)
      BY <1>0, <1>3, PayoutUntouched
    <3>3. \A c \in Bills : BillSpared(c)
      BY <1>0, <1>3, BillUntouched
    <3>4. \A v \in Accountants : till'[v] = IF v = k THEN Away ELSE till[v]
      BY <1>0, <1>3 DEF OwingTypeOK
    <3> QED BY <1>0, <1>4, <2>6, <3>1, <3>2, <3>3, <3>4, AwayIsDuty, TillsPersist
  <2>9. PayablesMatchDocuments'
    <3>1. Issued(n)
      BY <1>2, <1>5 DEF Issued
    <3>2. Debited' = Debited - debited[n].total
      BY <1>0, <1>2, <2>2, <2>3, <3>1, DebitedLess
    <3>3. Settled' = Settled /\ Owed' = Owed
      BY <1>3, DocumentsKept
    <3> QED BY <1>0, <1>3, <2>3, <2>5, <3>2, <3>3, BalancesAreInt DEF PayablesMatchDocuments, OwingTypeOK
  <2> QED BY <2>6, <2>7, <2>8, <2>9 DEF OwingOK
<1>6. CASE debited[n].status # "ISSUED"
  BY <1>1, <1>3, <1>4, <1>6, AwayIsDuty, TillMoves DEF CancelDebitNote
<1> QED BY <1>5, <1>6

(* The invoice may be paid by now, and may have been cancelled by another. *)
LEMMA CancelBillStep ==
  ASSUME OwingOK, NEW k \in Accountants, CancelBill(k)
  PROVE  OwingOK'
<1>0. OwingTypeOK /\ SpendsOK /\ BillsOK /\ TillsOK /\ PayablesMatchDocuments
  BY DEF OwingOK
<1>1. PICK b : b = till[k].doc
  OBVIOUS
<1>2. b \in Bills /\ bill[b] # None
  BY <1>0, <1>1 DEF TillsOK, TillOK, CancelBill, Standing
<1>3. PICK d : d = [bill[b] EXCEPT !.cancelled = TRUE]
  OBVIOUS
<1>4. bill[b] \in BillDocs /\ bill[b].total \in Nat
  BY <1>0, <1>2, BillFields
<1>5. d \in BillDocs /\ d.cancelled = TRUE /\ d.total = bill[b].total /\ d # None
  BY <1>3, <1>4, OwingDocumentsAssumption DEF BillDocs
<1>6. /\ bill' = [bill EXCEPT ![b] = d] /\ ap' = ap - bill[b].total
      /\ voidedTwice' = IF bill[b].cancelled THEN voidedTwice \union {b} ELSE voidedTwice
      /\ Supersedes(k, None, {b})
      /\ UNCHANGED <<payout, spent, posted, debited>>
  BY <1>1, <1>3 DEF CancelBill, ReverseJournal
<1>7. bill' \in [Bills -> BillDocs \union {None}] /\ bill'[b] = d /\ \A c \in Bills \ {b} : bill'[c] = bill[c]
  <2>1. d \in BillDocs
    BY <1>5
  <2>2. bill' = [bill EXCEPT ![b] = d]
    BY <1>6
  <2> QED BY <1>0, <1>2, <2>1, <2>2 DEF OwingTypeOK
<1>8. till' \in [Accountants -> Duties]
  BY <1>0, <1>6, Superseded
<1>9. voidedTwice' \subseteq Bills
  BY <1>0, <1>2, <1>6 DEF OwingTypeOK
<1>10. OwingTypeOK'
  BY <1>0, <1>4, <1>6, <1>7, <1>8, <1>9 DEF OwingTypeOK
<1>11. SpendsOK'
  BY <1>0, <1>6, SpendsKept
<1>12. BillsOK'
  <2>1. \A c \in Bills : Paid(c)' = Paid(c)
    BY <1>6, SpentKept
  <2> QED BY <1>0, <1>2, <1>5, <1>7, <2>1 DEF BillsOK
<1>13. TillsOK'
  <2>1. DocumentsStay
    BY <1>5, <1>6, <1>7 DEF DocumentsStay
  <2>2. \A z \in Payouts : z # None => PayoutSpared(z)
    BY <1>0, <1>6, PayoutUntouched
  <2>3. \A c \in Bills : c \notin {b} => BillSpared(c)
    BY <1>0, <1>6, <1>7, BillUntouched
  <2> QED BY <1>0, <1>6, <1>10, <2>1, <2>2, <2>3, TillsAfterCommit
<1>14. PayablesMatchDocuments'
  <2>1. Settled' = Settled /\ Debited' = Debited
    BY <1>6, DocumentsKept
  <2>2. CASE bill[b].cancelled
    BY <1>6, <2>2 DEF PayablesMatchDocuments
  <2>3. CASE ~bill[b].cancelled
    <3>1. Unpaid(b)
      BY <1>2, <2>3 DEF Unpaid
    <3>2. Owed' = Owed - bill[b].total
      BY <1>0, <1>2, <1>5, <1>6, <3>1, OwedLess
    <3>3. voidedTwice' = voidedTwice
      BY <1>6, <2>3
    <3>4. ap' = ap - bill[b].total
      BY <1>6
    <3>5. ap \in Int
      BY <1>0 DEF OwingTypeOK
    <3> QED BY <1>0, <1>4, <2>1, <3>2, <3>3, <3>4, <3>5, BalancesAreInt DEF PayablesMatchDocuments
  <2> QED BY <2>2, <2>3
<1> QED BY <1>10, <1>11, <1>12, <1>13, <1>14 DEF OwingOK

(* What the transaction saw still covers it, so the commit overpays none.  *)
LEMMA CommitAllocationStep ==
  ASSUME OwingOK, NEW k \in Accountants, CommitAllocation(k)
  PROVE  OwingOK'
<1>0. OwingTypeOK /\ SpendsOK /\ BillsOK /\ TillsOK /\ PayablesMatchDocuments
  BY DEF OwingOK
<1>1. PICK y : y = till[k].doc
  OBVIOUS
<1>2. PICK shares : shares = till[k].shares
  OBVIOUS
<1>3. y \in Payouts /\ Covered(y, shares)
  BY <1>0, <1>1, <1>2 DEF TillsOK, TillOK, CommitAllocation, Standing
<1>4. shares \in Shares
  BY <1>0, <1>2 DEF OwingTypeOK, Duties
<1>5. PICK s : s = [b \in Bills |-> spent[y][b] + shares[b]]
  OBVIOUS
<1>6. PICK requested : requested = SumOf(shares)
  OBVIOUS
<1>7. PICK S : S = {b \in Bills : shares[b] > 0}
  OBVIOUS
<1>8. /\ spent' = [spent EXCEPT ![y] = s] /\ posted' = [posted EXCEPT ![y] = Append(posted[y], requested)]
      /\ ap' = ap - requested /\ Supersedes(k, y, S)
      /\ UNCHANGED <<bill, payout, debited, voidedTwice>>
  BY <1>1, <1>2, <1>3, <1>5, <1>6, <1>7 DEF CommitAllocation, PostPaymentMade, OwingTypeOK
<1>9. /\ payout[y] # None /\ payout[y].status = "RECORDED" /\ S # {}
      /\ Spent(y) + requested <= payout[y].amount
      /\ \A b \in S : bill[b] # None /\ shares[b] <= bill[b].total - Paid(b)
  BY <1>3, <1>6, <1>7 DEF Covered
<1>10. payout[y] \in PayoutDocs /\ payout[y].amount \in Sums /\ payout[y].amount <= MaxSum /\ payout[y].amount \in Nat
  BY <1>0, <1>3, <1>9, PayablesAssumption DEF OwingTypeOK, PayoutDocs, Sums
<1>11. requested \in Nat /\ shares \in [Bills -> Nat] /\ \A b \in Bills : shares[b] \in Nat /\ shares[b] <= requested
  BY <1>4, <1>6, SharesAreAmounts
<1>12. requested \in Sums
  <2>1. PICK b \in S : TRUE
    BY <1>9
  <2>2. shares[b] > 0 /\ b \in Bills
    BY <1>7, <2>1
  <2>3. requested >= 1
    BY <1>11, <2>2
  <2>4. requested <= MaxSum
    BY <1>0, <1>3, <1>9, <1>10, <1>11, SpentIsNat, PayablesAssumption
  <2> QED BY <1>11, <2>3, <2>4, PayablesAssumption DEF Sums
<1>13. spent[y] \in [Bills -> Nat] /\ Spent(y) \in Nat /\ Spent(y) = SumOf(spent[y])
  BY <1>0, <1>3, SpentIsNat, SharesAreAmounts DEF Spent
<1>14. s \in [Bills -> Nat] /\ \A b \in Bills : s[b] = spent[y][b] + shares[b]
  BY <1>5, <1>11, <1>13
<1>15. SumOf(s) = Spent(y) + requested
  BY <1>6, <1>11, <1>13, <1>14, PayablesAssumption, SumAdds
<1>16. s \in Shares
  <2>1. \A b \in Bills : s[b] <= SumOf(s)
    BY <1>14, PayablesAssumption, SumBoundsParts
  <2>2. SumOf(s) <= MaxSum /\ SumOf(s) \in Nat
    BY <1>9, <1>10, <1>11, <1>13, <1>15, PayablesAssumption
  <2>3. \A b \in Bills : s[b] \in 0..MaxSum
    BY <1>14, <2>1, <2>2, PayablesAssumption
  <2> QED BY <1>5, <2>3 DEF Shares
<1>17. /\ spent' \in [Payouts -> Shares] /\ Spent(y)' = SumOf(s)
       /\ \A z \in Payouts \ {y} : spent'[z] = spent[z] /\ Spent(z)' = Spent(z)
       /\ \A b \in Bills : Paid(b)' = Paid(b) - spent[y][b] + s[b]
       /\ Settled' = Settled - Spent(y) + SumOf(s)
  BY <1>0, <1>3, <1>8, <1>16, SpentChanges
<1>18. posted[y] \in Seq(Sums) /\ posted[y] \in Seq(Nat)
  BY <1>0, <1>3, PayablesAssumption DEF OwingTypeOK, Sums
<1>19. /\ posted' \in [Payouts -> Seq(Sums)] /\ posted'[y] = Append(posted[y], requested)
       /\ \A z \in Payouts \ {y} : posted'[z] = posted[z]
  <2>1. Append(posted[y], requested) \in Seq(Sums)
    BY <1>12, <1>18, AppendProperties
  <2> QED BY <1>0, <1>3, <1>8, <2>1 DEF OwingTypeOK
<1>20. till' \in [Accountants -> Duties]
  BY <1>0, <1>8, Superseded
<1>21. OwingTypeOK'
  BY <1>0, <1>8, <1>11, <1>17, <1>19, <1>20 DEF OwingTypeOK
<1>22. SpendsOK'
  <2>1. SumOf(posted'[y]) = SumOf(posted[y]) + requested
    BY <1>11, <1>18, <1>19, SumAppended
  <2>2. SumOf(posted[y]) = Spent(y)
    BY <1>0, <1>3, <1>9 DEF SpendsOK
  <2>3. Spent(y)' = Spent(y) + requested
    BY <1>15, <1>17
  <2>4. ASSUME NEW z \in Payouts, z # y
        PROVE  /\ payout'[z] = None => posted'[z] = <<>>
               /\ payout'[z] = None \/ payout'[z].status = "REVERSED" => \A b \in Bills : spent'[z][b] = 0
               /\ payout'[z] # None => Spent(z)' <= payout'[z].amount
               /\ payout'[z] # None /\ payout'[z].status = "RECORDED" => SumOf(posted'[z]) = Spent(z)'
    BY <1>0, <1>8, <1>17, <1>19, <2>4 DEF SpendsOK
  <2>5. /\ payout'[y] # None /\ payout'[y].status = "RECORDED"
        /\ Spent(y)' <= payout'[y].amount /\ SumOf(posted'[y]) = Spent(y)'
    BY <1>8, <1>9, <2>1, <2>2, <2>3
  <2> QED BY <2>4, <2>5 DEF SpendsOK
<1>23. \A b \in Bills : Paid(b)' = Paid(b) + shares[b] /\ Paid(b) \in Nat /\ spent[y][b] \in Nat
  BY <1>0, <1>11, <1>13, <1>14, <1>17, SpentIsNat
<1>24. BillsOK'
  <2>1. ASSUME NEW b \in Bills, b \notin S PROVE Paid(b)' = Paid(b)
    BY <1>7, <1>11, <1>23, <2>1
  <2>2. ASSUME NEW b \in S PROVE bill[b] # None /\ Paid(b)' <= bill[b].total
    BY <1>0, <1>7, <1>9, <1>11, <1>23, BillFields
  <2> QED BY <1>0, <1>8, <2>1, <2>2 DEF BillsOK
<1>25. TillsOK'
  <2>1. DocumentsStay
    BY <1>8 DEF DocumentsStay
  <2>2. \A z \in Payouts : z # y => PayoutSpared(z)
    BY <1>0, <1>8, <1>17, PayoutUntouched
  <2>3. ASSUME NEW b \in Bills, b \notin S PROVE BillSpared(b)
    <3>1. Paid(b)' = Paid(b) /\ Paid(b) \in Nat
      BY <1>7, <1>11, <1>23, <2>3
    <3>2. Paid(b)' = SumOf([z \in Payouts |-> spent'[z][b]])
      BY DEF Paid
    <3> QED BY <1>8, <3>1, <3>2 DEF BillSpared
  <2> QED BY <1>0, <1>8, <1>21, <2>1, <2>2, <2>3, TillsAfterCommit
<1>26. PayablesMatchDocuments'
  <2>1. Owed' = Owed /\ Debited' = Debited
    BY <1>8, DocumentsKept
  <2>2. Settled' = Settled + requested
    BY <1>0, <1>11, <1>13, <1>15, <1>17, SpentIsNat
  <2>3. ap' = ap - requested /\ voidedTwice' = voidedTwice /\ ap \in Int
    BY <1>0, <1>8 DEF OwingTypeOK
  <2> QED BY <1>0, <1>11, <2>1, <2>2, <2>3, BalancesAreInt DEF PayablesMatchDocuments
<1> QED BY <1>21, <1>22, <1>24, <1>25, <1>26 DEF OwingOK

LEMMA ReversePayoutStep ==
  ASSUME OwingOK, NEW k \in Accountants, NEW y \in Payouts, ReversePayout(k, y)
  PROVE  OwingOK'
<1>0. OwingTypeOK /\ SpendsOK /\ BillsOK /\ TillsOK /\ PayablesMatchDocuments
  BY DEF OwingOK
<1>1. payout[y] # None /\ payout[y].status = "RECORDED" /\ payout[y] \in PayoutDocs
  BY <1>0 DEF ReversePayout, OwingTypeOK
<1>2. PICK d : d = [payout[y] EXCEPT !.status = "REVERSED"]
  OBVIOUS
<1>3. d \in PayoutDocs /\ d.status = "REVERSED" /\ d.amount = payout[y].amount /\ d # None
  BY <1>1, <1>2, OwingDocumentsAssumption DEF PayoutDocs
<1>4. PICK s : s = [b \in Bills |-> 0]
  OBVIOUS
<1>5. /\ payout' = [payout EXCEPT ![y] = d] /\ spent' = [spent EXCEPT ![y] = s]
      /\ ap' = ap - (-SumOf(posted[y])) /\ Supersedes(k, y, {})
      /\ UNCHANGED <<bill, posted, debited, voidedTwice>>
  BY <1>2, <1>4 DEF ReversePayout, ReverseJournal
<1>6. s \in Shares /\ s \in [Bills -> Nat] /\ \A b \in Bills : s[b] = 0
  BY <1>4, PayablesAssumption DEF Shares
<1>7. SumOf(s) = 0
  BY <1>6, PayablesAssumption, SumIsZero
<1>8. /\ spent' \in [Payouts -> Shares] /\ Spent(y)' = SumOf(s)
      /\ \A z \in Payouts \ {y} : spent'[z] = spent[z] /\ Spent(z)' = Spent(z)
      /\ \A b \in Bills : Paid(b)' = Paid(b) - spent[y][b] + s[b]
      /\ Settled' = Settled - Spent(y) + SumOf(s)
  BY <1>0, <1>5, <1>6, SpentChanges
<1>9. spent'[y] = s
  BY <1>0, <1>5 DEF OwingTypeOK
<1>10. /\ payout' \in [Payouts -> PayoutDocs \union {None}] /\ payout'[y] = d
       /\ \A z \in Payouts \ {y} : payout'[z] = payout[z]
  BY <1>0, <1>3, <1>5 DEF OwingTypeOK
<1>11. till' \in [Accountants -> Duties]
  BY <1>0, <1>5, Superseded
<1>12. SumOf(posted[y]) = Spent(y) /\ Spent(y) \in Nat
  BY <1>0, <1>1, SpentIsNat DEF SpendsOK
<1>13. OwingTypeOK'
  BY <1>0, <1>5, <1>8, <1>10, <1>11, <1>12 DEF OwingTypeOK
<1>14. SpendsOK'
  <2>1. d.amount \in Nat
    BY <1>1, <1>3, PayablesAssumption DEF PayoutDocs, Sums
  <2>2. /\ payout'[y] # None /\ payout'[y].status = "REVERSED"
        /\ Spent(y)' <= payout'[y].amount /\ \A b \in Bills : spent'[y][b] = 0
    BY <1>3, <1>6, <1>7, <1>8, <1>9, <1>10, <2>1
  <2>3. ASSUME NEW z \in Payouts, z # y
        PROVE  /\ payout'[z] = None => posted'[z] = <<>>
               /\ payout'[z] = None \/ payout'[z].status = "REVERSED" => \A b \in Bills : spent'[z][b] = 0
               /\ payout'[z] # None => Spent(z)' <= payout'[z].amount
               /\ payout'[z] # None /\ payout'[z].status = "RECORDED" => SumOf(posted'[z]) = Spent(z)'
    BY <1>0, <1>5, <1>8, <1>10, <2>3 DEF SpendsOK
  <2> QED BY <2>2, <2>3 DEF SpendsOK
<1>15. \A b \in Bills : Paid(b)' = Paid(b) - spent[y][b] /\ Paid(b) \in Nat /\ spent[y][b] \in Nat
  BY <1>0, <1>6, <1>8, SpentIsNat
<1>16. \A b \in Bills : Paid(b)' <= Paid(b) /\ Paid(b)' \in Nat
  <2>1. OwingTypeOK' => \A b \in Bills : Paid(b)' \in Nat
    <3>1. ASSUME OwingTypeOK', NEW b \in Bills PROVE Paid(b)' \in Nat
      <4>1. PICK f : f = [z \in Payouts |-> spent'[z][b]]
        OBVIOUS
      <4>2. f \in [Payouts -> Nat]
        BY <1>8, <4>1, PayablesAssumption DEF Shares
      <4> QED BY <4>1, <4>2, PayablesAssumption, SumIsNat DEF Paid
    <3> QED BY <3>1
  <2> QED BY <1>13, <1>15, <2>1
<1>17. BillsOK'
  <2>1. ASSUME NEW b \in Bills
        PROVE  (bill'[b] = None => Paid(b)' = 0) /\ (bill'[b] # None => Paid(b)' <= bill'[b].total)
    <3>1. CASE bill[b] = None
      BY <1>0, <1>5, <1>16, <3>1 DEF BillsOK
    <3>2. CASE bill[b] # None
      BY <1>0, <1>5, <1>15, <1>16, <3>2, BillFields DEF BillsOK
    <3> QED BY <3>1, <3>2
  <2> QED BY <2>1 DEF BillsOK
<1>18. TillsOK'
  <2>1. DocumentsStay
    BY <1>5 DEF DocumentsStay
  <2>2. \A z \in Payouts : z # y => PayoutSpared(z)
    BY <1>0, <1>8, <1>10, PayoutUntouched
  <2>3. ASSUME NEW b \in Bills PROVE BillSpared(b)
    <3>1. Paid(b)' = SumOf([z \in Payouts |-> spent'[z][b]])
      BY DEF Paid
    <3> QED BY <1>5, <1>16, <3>1 DEF BillSpared
  <2> QED BY <1>0, <1>5, <1>13, <2>1, <2>2, <2>3, TillsAfterCommit
<1>19. PayablesMatchDocuments'
  <2>1. Owed' = Owed /\ Debited' = Debited
    BY <1>5, DocumentsKept
  <2>2. Settled' = Settled - Spent(y)
    BY <1>0, <1>7, <1>8, <1>12, SpentIsNat
  <2>3. ap' = ap + Spent(y) /\ voidedTwice' = voidedTwice /\ ap \in Int
    BY <1>0, <1>5, <1>12 DEF OwingTypeOK
  <2> QED BY <1>0, <1>12, <2>1, <2>2, <2>3, BalancesAreInt DEF PayablesMatchDocuments
<1> QED BY <1>13, <1>14, <1>17, <1>18, <1>19 DEF OwingOK

LEMMA OwingSteps ==
  ASSUME OwingOK, Billing \/ Settling
  PROVE  OwingOK'
<1>1. CASE Billing
  BY <1>1, CreateBillStep, RecordPayoutStep, CreateDebitNoteStep DEF Billing
<1>2. CASE Settling
  BY <1>2, StartAllocationStep, RetryAllocationStep, CommitAllocationStep, ReversePayoutStep, StartCancelBillStep,
     CancelBillStep, StartCancelNoteStep, CancelDebitNoteStep DEF Settling
<1> QED BY <1>1, <1>2

LEMMA OwingKept ==
  ASSUME OwingOK, UNCHANGED owingVars
  PROVE  OwingOK'
<1>0. OwingTypeOK /\ SpendsOK /\ BillsOK /\ TillsOK /\ PayablesMatchDocuments
  BY DEF OwingOK
<1>1. UNCHANGED <<bill, payout, spent, posted, debited, ap, till, voidedTwice>>
  BY DEF owingVars
<1>2. OwingTypeOK'
  BY <1>0, <1>1 DEF OwingTypeOK
<1>3. SpendsOK' /\ BillsOK' /\ PayablesMatchDocuments'
  BY <1>0, <1>1, SpendsKept, BillsKept, MatchKept
<1>4. TillsOK'
  <2>1. DocumentsStay
    BY <1>1 DEF DocumentsStay
  <2>2. \A y \in Payouts : PayoutSpared(y)
    BY <1>0, <1>1, PayoutUntouched
  <2>3. \A b \in Bills : BillSpared(b)
    BY <1>0, <1>1, BillUntouched
  <2> QED BY <1>0, <1>1, <1>2, <2>1, <2>2, <2>3, TillsAtRest
<1> QED BY <1>2, <1>3, <1>4 DEF OwingOK

-----------------------------------------------------------------------------
(* The invariant holds *)

LEMMA OwingBegins ==
  ASSUME Init
  PROVE  OwingOK
<1>1. /\ bill = [b \in Bills |-> None] /\ payout = [y \in Payouts |-> None]
      /\ spent = [y \in Payouts |-> Away.shares] /\ posted = [y \in Payouts |-> <<>>]
      /\ debited = [n \in DebitNotes |-> None] /\ ap = 0
      /\ till = [k \in Accountants |-> Away] /\ voidedTwice = {}
  BY DEF Init
<1>2. Away \in Duties /\ Away.job = "none" /\ Away.shares \in Shares /\ \A b \in Bills : Away.shares[b] = 0
  BY AwayIsDuty DEF Duties, Away
<1>3. OwingTypeOK
  BY <1>1, <1>2 DEF OwingTypeOK
<1>4. SpendsOK
  BY <1>1, <1>2 DEF SpendsOK
<1>5. ASSUME NEW b \in Bills PROVE Paid(b) = 0
  <2>1. PICK f : f = [y \in Payouts |-> spent[y][b]]
    OBVIOUS
  <2>2. f \in [Payouts -> Nat] /\ \A y \in Payouts : f[y] = 0
    BY <1>1, <1>2, <2>1
  <2> QED BY <2>1, <2>2, PayablesAssumption, SumIsZero DEF Paid
<1>6. BillsOK
  BY <1>1, <1>5 DEF BillsOK
<1>7. TillsOK
  BY <1>1, <1>2 DEF TillsOK, TillOK
<1>8. PayablesMatchDocuments
  <2>1. PICK S : S = {b \in Bills : bill[b] # None /\ ~bill[b].cancelled}
    OBVIOUS
  <2>2. S = {}
    BY <1>1, <2>1
  <2>3. PICK f : f = [b \in S |-> bill[b].total]
    OBVIOUS
  <2>4. Owed = 0
    BY <2>1, <2>2, <2>3, OwedIsSum, SumOfNothing
  <2>5. PICK T : T = {n \in DebitNotes : debited[n] # None /\ debited[n].status = "ISSUED"}
    OBVIOUS
  <2>6. T = {}
    BY <1>1, <2>5
  <2>7. PICK g : g = [n \in T |-> debited[n].total]
    OBVIOUS
  <2>8. Debited = 0
    BY <2>5, <2>6, <2>7, DebitedIsSum, SumOfNothing
  <2>9. PICK h : h = [y \in Payouts |-> Spent(y)]
    OBVIOUS
  <2>10. \A y \in Payouts : Spent(y) = 0
    BY <1>1, <1>2, SharesAreAmounts, PayablesAssumption, SumIsZero DEF Spent
  <2>11. h \in [Payouts -> Nat] /\ \A y \in Payouts : h[y] = 0
    BY <2>9, <2>10
  <2>12. Settled = 0
    BY <2>9, <2>11, PayablesAssumption, SumIsZero DEF Settled
  <2> QED BY <1>1, <2>4, <2>8, <2>12 DEF PayablesMatchDocuments
<1> QED BY <1>3, <1>4, <1>6, <1>7, <1>8 DEF OwingOK

LEMMA BuyingBegins ==
  ASSUME Init
  PROVE  BuyingOK
<1>1. PICK s \in Shifts :
        /\ req = s.req /\ spo = s.spo
        /\ stock = [p \in Orders |-> Nothing] /\ desk = [w \in Clerks |-> Off]
        /\ rewritten = {} /\ overlapped = {}
  BY DEF Init
<1>2. StartOK(s)
  BY ShiftsAssumption
<1>3. BuyingTypeOK
  BY <1>1, <1>2, OffIsErrand, NothingIsNothing DEF StartOK, BuyingTypeOK
<1>4. UnwrittenOK /\ UnapprovedOK /\ ReceivedIsInStock
  BY <1>1, <1>2, NothingIntoStock DEF StartOK, UnwrittenOK, UnapprovedOK, ReceivedIsInStock
<1>5. DesksOK
  BY <1>1 DEF DesksOK, Off, NamesOK, CopyOK, ReceiptOK
<1>6. StatusFollowsReceipts
  <2>1. ASSUME NEW p \in Orders, spo[p] # None PROVE FollowsOK(spo[p])
    <3>1. PICK d : d = spo[p]
      OBVIOUS
    <3>2. /\ d \in OrderDocs /\ d.received = Nothing /\ d.ordered \in [Lines -> Nat \ {0}]
          /\ d.status \in {"DRAFT", "SUBMITTED", "APPROVED", "CANCELLED"}
      BY <1>1, <1>2, <2>1, <3>1, OrderFields DEF StartOK
    <3>3. StatusFor(d.ordered, d.received) = "APPROVED"
      BY <3>2, ZeroIsApproved
    <3>4. \A l \in Lines : d.received[l] <= d.ordered[l]
      BY <3>2, NothingIsNothing
    <3> QED BY <3>1, <3>2, <3>3, <3>4 DEF FollowsOK
  <2> QED BY <2>1 DEF StatusFollowsReceipts, FollowsOK
<1> QED BY <1>3, <1>4, <1>5, <1>6 DEF BuyingOK

LEMMA IInvStep ==
  ASSUME IInv, [Next]_vars
  PROVE  IInv'
<1>0. BuyingOK /\ OwingOK
  BY DEF IInv
<1>1. CASE (Ordering \/ Receiving) /\ UNCHANGED owingVars
  BY <1>0, <1>1, BuyingSteps, OwingKept DEF IInv
<1>2. CASE (Billing \/ Settling) /\ UNCHANGED buyingVars
  BY <1>0, <1>2, OwingSteps, BuyingKept DEF IInv
<1>3. CASE UNCHANGED vars
  <2>1. UNCHANGED buyingVars /\ UNCHANGED owingVars
    BY <1>3 DEF vars
  <2> QED BY <1>0, <2>1, OwingKept, BuyingKept DEF IInv
<1> QED BY <1>1, <1>2, <1>3 DEF Next

LEMMA IInvHolds == Spec => []IInv
<1>1. Init => IInv
  BY OwingBegins, BuyingBegins DEF IInv
<1> QED BY <1>1, IInvStep, PTL DEF Spec

(* The documents, the copies the clerks and accountants work from and the  *)
(* balances keep their types: no line is received in a negative amount, no *)
(* payment pays more of an invoice than one sum.                           *)
THEOREM PayablesTypes == Spec => []TypeOK
<1>1. IInv => TypeOK
  BY DEF IInv, BuyingOK, OwingOK, OwingTypeOK, TypeOK
<1> QED BY <1>1, IInvHolds, PTL

(* Goods receipts: what an order says it received on its ledger-tracked    *)
(* lines is what its receipts brought into stock, and nothing of its       *)
(* CONSUMABLE lines is, but for the orders a late draft edit rewrote.      *)
THEOREM GoodsReceived == Spec => []ReceivedIsInStock
<1>1. IInv => ReceivedIsInStock
  BY DEF IInv, BuyingOK
<1> QED BY <1>1, IInvHolds, PTL

(* Goods receipts: no line receives more than was ordered, and the order's *)
(* status is the one its lines call for, but for the orders a late edit or *)
(* two overlapping receipts reached.                                       *)
THEOREM StatusIsOfReceipts == Spec => []StatusFollowsReceipts
<1>1. IInv => StatusFollowsReceipts
  BY DEF IInv, BuyingOK
<1> QED BY <1>1, IInvHolds, PTL

(* allocateSupplierPayment: no payment is spent beyond its amount or after *)
(* its reversal, and no invoice is paid beyond its total.                  *)
THEOREM NeverOverpaid == Spec => []NothingOverpaid
<1>1. IInv => NothingOverpaid
  <2> SUFFICES ASSUME IInv PROVE NothingOverpaid
    OBVIOUS
  <2>0. OwingTypeOK /\ SpendsOK /\ BillsOK
    BY DEF IInv, OwingOK
  <2>1. ASSUME NEW y \in Payouts, Spent(y) > 0
        PROVE  payout[y].status = "RECORDED" /\ Spent(y) <= payout[y].amount
    <3>1. spent[y] \in [Bills -> Nat] /\ ~\A b \in Bills : spent[y][b] = 0
      BY <2>0, <2>1, SpentIsNat, SharesAreAmounts, PayablesAssumption, SumIsZero DEF Spent
    <3>2. payout[y] # None /\ payout[y].status # "REVERSED"
      BY <2>0, <3>1 DEF SpendsOK
    <3>3. payout[y].status = "RECORDED"
      BY <2>0, <3>2 DEF OwingTypeOK, PayoutDocs
    <3> QED BY <2>0, <3>2, <3>3 DEF SpendsOK
  <2>2. ASSUME NEW b \in Bills, Paid(b) > 0 PROVE Paid(b) <= bill[b].total
    BY <2>0, <2>2 DEF BillsOK
  <2> QED BY <2>1, <2>2 DEF NothingOverpaid
<1> QED BY <1>1, IInvHolds, PTL

(* Accounts Payable is the sum of the documents after any sequence of      *)
(* allocations, reversals and cancellations, unless two cancellations of   *)
(* one invoice overlapped.                                                 *)
THEOREM PayablesAreTheDocuments == Spec => []PayablesMatchDocuments
<1>1. IInv => PayablesMatchDocuments
  BY DEF IInv, OwingOK
<1> QED BY <1>1, IInvHolds, PTL
=============================================================================
