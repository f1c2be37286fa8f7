-------------------------- MODULE AfterSalesProofs --------------------------
(* Proofs about AfterSales: for any number of pieces, orders, documents and *)
(* workers, a piece that came back is kept for one document, an old piece   *)
(* is taken in once, and a return takes back what its order sold.           *)
EXTENDS AfterSales, TLAPS, FiniteSetTheorems

-----------------------------------------------------------------------------
(* The tables.                                                              *)

LEMMA MayFrom ==
  ASSUME NEW x
  PROVE  /\ May("RESERVATION", x, "RESERVED") => item[x] = "AVAILABLE"
         /\ May("RETURN", x, "RETURNED") => item[x] = "SOLD"
         /\ May("RETURN", x, "AVAILABLE") => item[x] = "RETURNED"
         /\ May("RETURN", x, "DAMAGED") => item[x] = "RETURNED"
         /\ May("REPAIR_OUT", x, "UNDER_REPAIR") => item[x] \in {"AVAILABLE", "DAMAGED", "SOLD"}
         /\ \A to : May("REPAIR_RETURN", x, to) => item[x] = "UNDER_REPAIR" /\ to \in {"SOLD", "RETURNED_TO_CUSTOMER"}
BY DEF May, MovementRules, Rule

LEMMA StatusesAre ==
  Statuses = {"AVAILABLE", "RESERVED", "SOLD", "RETURNED", "DAMAGED", "UNDER_REPAIR", "IN_MANUFACTURING",
              "WITH_JOB_WORKER", "IN_TRANSIT", "HALLMARKING", "SCRAP", "MELTING", "RETURNED_TO_CUSTOMER"}
BY DEF Statuses, LegalTransitions

LEMMA ReturnStagesAre ==
  Stages(ReturnRules) = {"REQUESTED", "APPROVED", "REJECTED", "RECEIVED", "INSPECTED", "SETTLED", "CANCELLED"}
BY DEF Stages, ReturnRules, Step

LEMMA ReturnStep ==
  ASSUME NEW r, NEW a \in {"approve", "reject", "settle", "cancel"}, ReturnMay(r, a)
  PROVE  \/ ret[r].status = "REQUESTED" /\ ReturnRules[a].to \in {"APPROVED", "REJECTED", "CANCELLED"}
         \/ ret[r].status = "APPROVED" /\ ReturnRules[a].to = "CANCELLED"
         \/ ret[r].status = "INSPECTED" /\ ReturnRules[a].to = "SETTLED"
BY DEF ReturnMay, ReturnRules, Step

LEMMA ReturnFrom ==
  ASSUME NEW r
  PROVE  /\ ReturnMay(r, "receive") => ret[r] # None /\ ret[r].status = "APPROVED"
         /\ ReturnMay(r, "inspect") => ret[r] # None /\ ret[r].status = "RECEIVED"
BY DEF ReturnMay, ReturnRules, Step

RepairStages == {"INTAKE", "INSPECTED", "ESTIMATED", "APPROVED", "DECLINED", "IN_PROGRESS", "QC_PENDING",
                 "QC_FAILED", "READY", "DELIVERED", "CANCELLED"}

Ended == {"DECLINED", "DELIVERED", "CANCELLED"}

LEMMA RepairStagesAre == Stages(RepairRules) = RepairStages
BY DEF Stages, RepairRules, Step, RepairStages

LEMMA RepairStep ==
  ASSUME NEW d, NEW a \in DOMAIN RepairRules, RepairMay(d, a)
  PROVE  /\ repair[d] # None /\ repair[d].status \notin Ended
         /\ RepairRules[a].to \in RepairStages
         /\ (RepairRules[a].to \in Ended) <=> (a \in HandsBack)
BY DEF RepairMay, RepairRules, Step, RepairStages, Ended, HandsBack

LEMMA ExchangeStagesAre == Stages(ExchangeRules) = {"ASSESSED", "COMPLETED", "CANCELLED"}
BY DEF Stages, ExchangeRules, Step

LEMMA ExchangeFrom ==
  ASSUME NEW e, NEW a \in DOMAIN ExchangeRules, ExchangeMay(e, a)
  PROVE  exch[e] # None /\ exch[e].status = "ASSESSED"
BY DEF ExchangeMay, ExchangeRules, Step

-----------------------------------------------------------------------------
(* Types                                                                    *)

LEMMA InitTypeOK == Init => TypeOK
<1> SUFFICES ASSUME Init PROVE TypeOK
  OBVIOUS
<1>1. item \in [Pieces -> Statuses \union {None}] /\ order \in [Orders -> OrderDocs] /\ buyer \in [Pieces -> Orders \union {None}]
  BY ShiftsAssumption DEF Init, StartOK
<1>2. desk \in [Workers -> Tasks]
  BY DEF Init, Tasks
<1> QED BY <1>1, <1>2 DEF Init, TypeOK

LEMMA PutType ==
  ASSUME item \in [Pieces -> Statuses \union {None}], NEW S, NEW s \in Statuses, Put(S, s)
  PROVE  item' \in [Pieces -> Statuses \union {None}]
BY DEF Put

(* What a worker has read, by what it is doing.                             *)
LEMMA TaskTypes ==
  ASSUME TypeOK, NEW w \in Workers
  PROVE  /\ desk[w].task = "request" => desk[w].order \in Orders /\ desk[w].lines \subseteq Pieces
         /\ desk[w].task \in {"check", "intake"} => desk[w].piece \in Pieces
         /\ desk[w].task = "check" => [desk[w] EXCEPT !.task = "intake"] \in Tasks
         /\ desk[w].task = "exchange" => /\ desk[w].exchange \in Exchanges /\ desk[w].value \in Values
                                         /\ desk[w].piece \in Pieces \union {None}
                                         /\ \A x \in Pieces : /\ [desk[w] EXCEPT !.piece = x] \in Tasks
                                                              /\ [desk[w] EXCEPT !.piece = x].task = "exchange"
                                                              /\ [desk[w] EXCEPT !.piece = x].piece = x
<1>1. desk[w] \in Tasks
  BY DEF TypeOK
<1>2. CASE desk[w] = Off
  BY <1>2 DEF Off
<1>3. CASE desk[w] \in [task : {"request"}, order : Orders, lines : SUBSET Pieces]
  BY <1>3
<1>4. CASE desk[w] \in [task : {"check", "intake"}, piece : Pieces]
  BY <1>4 DEF Tasks
<1>5. CASE desk[w] \in [task : {"exchange"}, exchange : Exchanges, value : Values, piece : Pieces \union {None}]
  BY <1>5 DEF Tasks
<1> QED BY <1>1, <1>2, <1>3, <1>4, <1>5 DEF Tasks

LEMMA SellingTypes == TypeOK /\ Selling => TypeOK'
<1> SUFFICES ASSUME TypeOK, NEW o \in Orders, SellHeld(o) \/ LetGo(o) \/ CancelSold(o) \/ \E x \in Pieces : Hold(o, x)
             PROVE  TypeOK'
  BY DEF Selling
<1>1. order[o] \in OrderDocs /\ StillListed(o) \in SUBSET Pieces
  BY DEF TypeOK, OrderDocs, StillListed
<1>2. ASSUME NEW s \in {"SOLD", "LAPSED"}
      PROVE  [order EXCEPT ![o] = [stage |-> s, allocated |-> StillListed(o)]] \in [Orders -> OrderDocs]
  BY <1>1 DEF TypeOK, OrderDocs
<1>3. CASE SellHeld(o)
  <2>1. item' \in [Pieces -> Statuses \union {None}]
    BY <1>3, StatusesAre, PutType DEF SellHeld, TypeOK
  <2> QED BY <1>2, <1>3, <2>1 DEF SellHeld, TypeOK, documents, history
<1>4. CASE LetGo(o)
  <2>1. item' \in [Pieces -> Statuses \union {None}]
    BY <1>4, StatusesAre, PutType DEF LetGo, TypeOK
  <2> QED BY <1>2, <1>4, <2>1 DEF LetGo, TypeOK, documents, history
<1>5. CASE CancelSold(o)
  <2>1. item' \in [Pieces -> Statuses \union {None}]
    BY <1>5, StatusesAre, PutType DEF CancelSold, TypeOK
  <2>2. order' \in [Orders -> OrderDocs]
    BY <1>1, <1>5 DEF CancelSold, TypeOK, OrderDocs
  <2> QED BY <1>5, <2>1, <2>2 DEF CancelSold, TypeOK, documents, history
<1>6. ASSUME NEW x \in Pieces, Hold(o, x)
      PROVE  TypeOK'
  <2>1. item' \in [Pieces -> Statuses \union {None}]
    BY <1>6, StatusesAre, PutType DEF Hold, TypeOK
  <2>2. order' \in [Orders -> OrderDocs]
    BY <1>6 DEF Hold, TypeOK, OrderDocs
  <2> QED BY <1>6, <2>1, <2>2 DEF Hold, TypeOK, documents, history
<1> QED BY <1>3, <1>4, <1>5, <1>6

LEMMA ReturningTypes == TypeOK /\ Returning => TypeOK'
<1> SUFFICES ASSUME TypeOK, Returning PROVE TypeOK'
  OBVIOUS
<1> USE DEF documents, history
<1>0. Off \in Tasks
  BY DEF Tasks
<1>1. ASSUME NEW x \in Pieces, NEW s \in {"AVAILABLE", "DAMAGED"}, InspectQueued(x, s)
      PROVE  TypeOK'
  <2>1. item' \in [Pieces -> Statuses \union {None}]
    BY <1>1, StatusesAre, PutType DEF InspectQueued, TypeOK
  <2> QED BY <1>1, <2>1 DEF InspectQueued, TypeOK
<1>2. ASSUME NEW w \in Workers, NEW o \in Orders, NEW S \in SUBSET Pieces, ReadForRequest(w, o, S)
      PROVE  TypeOK'
  <2>1. [task |-> "request", order |-> o, lines |-> S] \in Tasks
    BY DEF Tasks
  <2> QED BY <1>2, <2>1 DEF ReadForRequest, Set, TypeOK
<1>3. ASSUME NEW w \in Workers, NEW r \in Returns, CreateReturn(w, r)
      PROVE  TypeOK'
  <2>1. [status |-> "REQUESTED", order |-> desk[w].order, lines |-> desk[w].lines] \in ReturnDocs
    BY <1>3, TaskTypes, ReturnStagesAre DEF CreateReturn, ReturnDocs
  <2>2. desk[w].lines \subseteq Pieces
    BY <1>3, TaskTypes DEF CreateReturn
  <2> QED BY <1>0, <1>3, <2>1, <2>2 DEF CreateReturn, Set, TypeOK
<1>4. ASSUME NEW r \in Returns, ret[r] # None, NEW s \in Stages(ReturnRules)
      PROVE  [ret EXCEPT ![r].status = s] \in [Returns -> ReturnDocs \union {None}] /\ ret[r].lines \subseteq Pieces
  <2>1. ret[r] \in ReturnDocs
    BY <1>4 DEF TypeOK
  <2>2. [ret[r] EXCEPT !.status = s] \in ReturnDocs /\ ret[r].lines \subseteq Pieces
    BY <2>1 DEF ReturnDocs
  <2> QED BY <2>2 DEF TypeOK
<1>5. ASSUME NEW r \in Returns, NEW a \in {"approve", "reject", "settle", "cancel"}, MoveReturn(r, a)
      PROVE  TypeOK'
  <2>1. ret[r] # None /\ ReturnRules[a].to \in Stages(ReturnRules)
    BY <1>5, ReturnStep, ReturnStagesAre DEF MoveReturn, ReturnMay
  <2> QED BY <1>4, <1>5, <2>1 DEF MoveReturn, TypeOK
<1>6. ASSUME NEW r \in Returns, ReceiveReturn(r)
      PROVE  TypeOK'
  <2>1. ret[r] # None /\ "RECEIVED" \in Stages(ReturnRules)
    BY <1>6, ReturnFrom, ReturnStagesAre DEF ReceiveReturn
  <2>2. item' \in [Pieces -> Statuses \union {None}]
    BY <1>6, StatusesAre, PutType DEF ReceiveReturn, TypeOK
  <2> QED BY <1>4, <1>6, <2>1, <2>2 DEF ReceiveReturn, TypeOK
<1>7. ASSUME NEW r \in Returns, NEW good \in SUBSET Pieces, InspectReturn(r, good)
      PROVE  TypeOK'
  <2>1. ret[r] # None /\ "INSPECTED" \in Stages(ReturnRules)
    BY <1>7, ReturnFrom, ReturnStagesAre DEF InspectReturn
  <2>2. item' \in [Pieces -> Statuses \union {None}]
    BY <1>7, StatusesAre DEF InspectReturn, TypeOK
  <2> QED BY <1>4, <1>7, <2>1, <2>2 DEF InspectReturn, TypeOK
<1> QED BY <1>1, <1>2, <1>3, <1>5, <1>6, <1>7 DEF Returning

LEMMA RepairingTypes == TypeOK /\ Repairing => TypeOK'
<1> SUFFICES ASSUME TypeOK, Repairing PROVE TypeOK'
  OBVIOUS
<1> USE DEF documents, history
<1>0. Off \in Tasks
  BY DEF Tasks
<1>1. ASSUME NEW w \in Workers, TakeInKnown(w)
      PROVE  TypeOK'
  <2>1. item' \in [Pieces -> Statuses \union {None}]
    BY <1>1, StatusesAre, PutType DEF TakeInKnown, TypeOK
  <2>2. desk' \in [Workers -> Tasks]
    BY <1>1, TaskTypes DEF TakeInKnown, TypeOK
  <2> QED BY <1>1, <2>1, <2>2 DEF TakeInKnown, TypeOK
<1>2. ASSUME NEW w \in Workers, NEW x \in Pieces, ReadForIntake(w, x)
      PROVE  TypeOK'
  <2>1. [task |-> "check", piece |-> x] \in Tasks
    BY DEF Tasks
  <2> QED BY <1>2, <2>1 DEF ReadForIntake, Set, TypeOK
<1>3. ASSUME NEW w \in Workers, NEW x \in Pieces, TakeInGuest(w, x)
      PROVE  TypeOK'
  <2>1. [task |-> "intake", piece |-> x] \in Tasks
    BY DEF Tasks
  <2>2. item' \in [Pieces -> Statuses \union {None}]
    BY <1>3, StatusesAre, PutType DEF TakeInGuest, TypeOK
  <2> QED BY <1>3, <2>1, <2>2 DEF TakeInGuest, Set, TypeOK
<1>4. ASSUME NEW w \in Workers, NEW d \in Repairs, CreateRepair(w, d)
      PROVE  TypeOK'
  <2>1. [status |-> "INTAKE", piece |-> desk[w].piece] \in RepairDocs
    BY <1>4, TaskTypes, RepairStagesAre DEF CreateRepair, RepairDocs, RepairStages
  <2> QED BY <1>0, <1>4, <2>1 DEF CreateRepair, Set, TypeOK
<1>5. ASSUME NEW d \in Repairs, NEW a \in DOMAIN RepairRules, RepairMay(d, a)
      PROVE  /\ [repair EXCEPT ![d].status = RepairRules[a].to] \in [Repairs -> RepairDocs \union {None}]
             /\ repair[d].piece \in Pieces
  <2>1. repair[d] \in RepairDocs
    BY <1>5, RepairStep DEF TypeOK
  <2>2. [repair[d] EXCEPT !.status = RepairRules[a].to] \in RepairDocs
    BY <1>5, <2>1, RepairStep, RepairStagesAre DEF RepairDocs
  <2> QED BY <2>1, <2>2 DEF TypeOK, RepairDocs
<1>6. ASSUME NEW d \in Repairs, NEW a \in DOMAIN RepairRules, MoveRepair(d, a)
      PROVE  TypeOK'
  BY <1>5, <1>6 DEF MoveRepair, TypeOK
<1>7. ASSUME NEW d \in Repairs, NEW a \in DOMAIN RepairRules, HandBack(d, a)
      PROVE  TypeOK'
  <2>1. item' \in [Pieces -> Statuses \union {None}]
    BY <1>7, StatusesAre, PutType DEF HandBack, TypeOK
  <2> QED BY <1>5, <1>7, <2>1 DEF HandBack, TypeOK
<1> QED BY <1>1, <1>2, <1>3, <1>4, <1>6, <1>7 DEF Repairing

LEMMA ClosedType ==
  ASSUME NEW d \in ExchangeDocs, NEW x \in Pieces \union {None}, NEW v \in Nat, Price \in Nat
  PROVE  [d EXCEPT !.status = "COMPLETED", !.oldItem = x, !.difference = Price - v] \in ExchangeDocs
<1>1. [d EXCEPT !.status = "COMPLETED"] \in ExchangeDocs
  BY ExchangeStagesAre DEF ExchangeDocs
<1>2. ASSUME NEW c \in ExchangeDocs
      PROVE  [c EXCEPT !.oldItem = x] \in ExchangeDocs
  BY DEF ExchangeDocs
<1>3. ASSUME NEW c \in ExchangeDocs, NEW k \in Int
      PROVE  [c EXCEPT !.difference = k] \in ExchangeDocs
  BY DEF ExchangeDocs
<1>4. Price - v \in Int
  OBVIOUS
<1>5. [d EXCEPT !.status = "COMPLETED", !.oldItem = x] \in ExchangeDocs
  BY <1>1, <1>2, Zenon
<1> QED BY <1>3, <1>4, <1>5, Zenon

LEMMA ExchangingTypes == TypeOK /\ Exchanging => TypeOK'
<1> SUFFICES ASSUME TypeOK, Exchanging PROVE TypeOK'
  OBVIOUS
<1> USE DEF documents, history
<1>0. Off \in Tasks
  BY DEF Tasks
<1>1. ASSUME NEW w \in Workers, NEW x \in Pieces, TakeOldIn(w, x)
      PROVE  TypeOK'
  <2>1. item' \in [Pieces -> Statuses \union {None}]
    BY <1>1, StatusesAre, PutType DEF TakeOldIn, TypeOK
  <2>2. desk' \in [Workers -> Tasks]
    BY <1>1, TaskTypes DEF TakeOldIn, TypeOK
  <2> QED BY <1>1, <2>1, <2>2 DEF TakeOldIn, TypeOK
<1>2. ASSUME NEW e \in Exchanges, exch[e] # None
      PROVE  exch[e] \in ExchangeDocs
  BY <1>2 DEF TypeOK
<1>3. ASSUME NEW w \in Workers, CompleteExchange(w)
      PROVE  TypeOK'
  <2> DEFINE e == desk[w].exchange
  <2>1. e \in Exchanges /\ desk[w].value \in Nat /\ Price \in Nat /\ desk[w].piece \in Pieces \union {None}
    BY <1>3, TaskTypes, AfterSalesAssumption DEF CompleteExchange
  <2>2. exch[e] \in ExchangeDocs
    BY <1>2, <1>3, <2>1 DEF CompleteExchange, Closable, ExchangeMay
  <2>3. [exch[e] EXCEPT !.status = "COMPLETED", !.oldItem = desk[w].piece, !.difference = Price - desk[w].value] \in ExchangeDocs
    BY <2>1, <2>2, ClosedType
  <2>4. exch' \in [Exchanges -> ExchangeDocs \union {None}]
    BY <1>3, <2>1, <2>3 DEF CompleteExchange, TypeOK
  <2> QED BY <1>0, <1>3, <2>1, <2>4 DEF CompleteExchange, Set, TypeOK
<1>4. ASSUME NEW e \in Exchanges, NEW v \in Values, CreateExchange(e, v)
      PROVE  TypeOK'
  <2>1. [status |-> "ASSESSED", value |-> v, oldItem |-> None, difference |-> 0] \in ExchangeDocs
    BY ExchangeStagesAre DEF ExchangeDocs
  <2> QED BY <1>4, <2>1 DEF CreateExchange, TypeOK
<1>5. ASSUME NEW e \in Exchanges, NEW v \in Values, AssessExchange(e, v)
      PROVE  TypeOK'
  <2>1. [exch[e] EXCEPT !.value = v] \in ExchangeDocs
    BY <1>2, <1>5 DEF AssessExchange, ExchangeMay, ExchangeDocs
  <2> QED BY <1>5, <2>1 DEF AssessExchange, TypeOK
<1>6. ASSUME NEW e \in Exchanges, CancelExchange(e)
      PROVE  TypeOK'
  <2>1. [exch[e] EXCEPT !.status = "CANCELLED"] \in ExchangeDocs
    BY <1>2, <1>6, ExchangeStagesAre DEF CancelExchange, ExchangeMay, ExchangeDocs
  <2> QED BY <1>6, <2>1 DEF CancelExchange, TypeOK
<1>7. ASSUME NEW e \in Exchanges, NEW w \in Workers, ReadForExchange(w, e)
      PROVE  TypeOK'
  <2>1. [task |-> "exchange", exchange |-> e, value |-> exch[e].value, piece |-> None] \in Tasks
    BY <1>2, <1>7 DEF ReadForExchange, ExchangeMay, ExchangeDocs, Tasks
  <2> QED BY <1>7, <2>1 DEF ReadForExchange, Set, TypeOK
<1> QED BY <1>1, <1>3, <1>4, <1>5, <1>6, <1>7 DEF Exchanging

LEMMA GiveUpTypes == ASSUME TypeOK, NEW w \in Workers, GiveUp(w) PROVE TypeOK'
<1>1. InHand(w) \subseteq {"intake", "exchange"} \X Pieces
  <2>1. ASSUME desk[w].task \in {"intake", "exchange"}, desk[w].piece # None
        PROVE  desk[w].piece \in Pieces
    BY <2>1, TaskTypes
  <2> QED BY <2>1 DEF InHand
<1>2. Off \in Tasks
  BY DEF Tasks
<1> QED BY <1>1, <1>2 DEF GiveUp, Set, TypeOK, documents, history

(* A movement by hand changes the piece and nothing else; no order holds it. *)
LEMMA MovedByHand ==
  ASSUME TypeOK, NEW x \in Pieces, NEW to \in Statuses, MoveByHand(x, to)
  PROVE  /\ item[x] # None /\ item'[x] = to /\ \A y \in Pieces \ {x} : item'[y] = item[y]
         /\ byHand' = byHand \union {x}
         /\ UNCHANGED <<guest, order, ret, repair, exch, desk, buyer, crossed, requeued, adrift, revalued, shift>>
         /\ \A o \in Orders : order[o].stage = "HELD" => x \notin order[o].allocated
BY DEF MoveByHand, Fresh, HeldForOrder, Put, documents

LEMMA MoveByHandTypes ==
  ASSUME TypeOK, NEW x \in Pieces, NEW to \in Statuses, MoveByHand(x, to)
  PROVE  TypeOK'
<1>1. item' \in [Pieces -> Statuses \union {None}]
  BY PutType DEF MoveByHand, TypeOK
<1> QED BY <1>1 DEF MoveByHand, TypeOK, documents

LEMMA NextTypeOK == TypeOK /\ [Next]_vars => TypeOK'
<1>1. TypeOK /\ UNCHANGED vars => TypeOK'
  BY DEF TypeOK, vars, documents, history
<1> QED BY <1>1, SellingTypes, ReturningTypes, RepairingTypes, ExchangingTypes, GiveUpTypes, MoveByHandTypes DEF Next

(* Every other step is work with the documents.                             *)
DeskWork == Selling \/ Returning \/ Repairing \/ Exchanging \/ \E w \in Workers : GiveUp(w)

LEMMA NextIs ==
  [Next]_vars => DeskWork \/ (\E x \in Pieces, to \in Statuses : MoveByHand(x, to)) \/ UNCHANGED vars
BY DEF Next, DeskWork

LEMMA DeskWorkMovesNothingByHand == DeskWork => byHand' = byHand
<1>1. Selling => byHand' = byHand
  BY DEF Selling, SellHeld, LetGo, CancelSold, Hold, history
<1>2. Returning => byHand' = byHand
  BY DEF Returning, InspectQueued, ReadForRequest, CreateReturn, MoveReturn, ReceiveReturn, InspectReturn, history
<1>3. Repairing => byHand' = byHand
  BY DEF Repairing, ReadForIntake, TakeInKnown, TakeInGuest, CreateRepair, MoveRepair, HandBack, history
<1>4. Exchanging => byHand' = byHand
  BY DEF Exchanging, CreateExchange, AssessExchange, CancelExchange, ReadForExchange, TakeOldIn, CompleteExchange, history
<1>5. (\E w \in Workers : GiveUp(w)) => byHand' = byHand
  BY DEF GiveUp
<1> QED BY <1>1, <1>2, <1>3, <1>4, <1>5 DEF DeskWork

-----------------------------------------------------------------------------
(* The inductive invariant.                                                 *)

Over == {"SOLD", "LAPSED", "CANCELLED"}

Gone == {"SOLD", "UNDER_REPAIR", "RETURNED_TO_CUSTOMER"}

(* A return has taken the piece in, now or earlier: such a return still     *)
(* counts against every later request for the piece.                        *)
Back(x) == \E r \in Returns : ret[r] # None /\ ret[r].status \in {"RECEIVED", "INSPECTED", "SETTLED"} /\ x \in ret[r].lines

Loose(x) == Back(x) \/ x \in byHand

(* Held pieces are reserved, each for one order; what a sold order lists it *)
(* was the last to sell, unless a return has taken it in, or staff have     *)
(* moved it, since.                                                         *)
SalesOK ==
  /\ \A o \in Orders : order[o].stage = "NEW" => order[o].allocated = {}
  /\ \A o, p \in Orders : o # p /\ order[o].stage = "HELD" /\ order[p].stage = "HELD" =>
                          order[o].allocated \intersect order[p].allocated = {}
  /\ \A o \in Orders : \A x \in order[o].allocated :
       /\ order[o].stage = "HELD" => item[x] = "RESERVED"
       /\ order[o].stage = "SOLD" => Loose(x) \/ (buyer[x] = o /\ item[x] \in Gone)

(* A return, and the request for one, names pieces of an order whose sale   *)
(* is over; until it is received no other open return names them, unless    *)
(* their requests crossed.                                                  *)
RequestOK(o, S) == order[o].stage \in Over /\ S \subseteq order[o].allocated

Pending(r) == ret[r] # None /\ ret[r].status \in {"REQUESTED", "APPROVED"}

RequestsOK ==
  /\ \A w \in Workers : desk[w].task = "request" => RequestOK(desk[w].order, desk[w].lines)
  /\ \A r \in Returns : Pending(r) =>
       /\ RequestOK(ret[r].order, ret[r].lines)
       /\ \A x \in ret[r].lines \ crossed, s \in Returns : Open(s) /\ x \in ret[s].lines => s = r

CameBack(x) == \E o \in Orders : order[o].stage = "CANCELLED" /\ x \in order[o].allocated

KeptOK ==
  \A x \in Pieces \ (requeued \union byHand) :
    /\ item[x] = "RETURNED" => /\ \A r, s \in ReceivedFor(x) : r = s
                               /\ ReceivedFor(x) # {} \/ CameBack(x)
    /\ item[x] # "RETURNED" => ReceivedFor(x) = {}

(* The pieces whose way a document follows.                                 *)
Followed(task) == IF task = "intake" THEN Pieces \ byHand ELSE Pieces

(* What is taken in is in one hand, or written down once, or adrift.        *)
HandsOK(task) ==
  \A v \in Workers : desk[v].task = task /\ desk[v].piece \in Followed(task) =>
    /\ <<task, desk[v].piece>> \notin adrift
    /\ \A w \in Workers : desk[w].task = task /\ desk[w].piece = desk[v].piece => w = v

RepairOK ==
  /\ HandsOK("intake")
  /\ \A x \in Pieces \ byHand :
       /\ \A c, d \in InRepairFor(x) : c = d
       /\ item[x] = "UNDER_REPAIR" <=> InRepairFor(x) # {} \/ Unwritten("intake", x)
       /\ ~(InRepairFor(x) # {} /\ Unwritten("intake", x))

ClosedWith(x) == {e \in Exchanges : exch[e] # None /\ exch[e].oldItem = x}

ExchangeOK ==
  /\ HandsOK("exchange")
  /\ \A x \in Pieces :
       /\ item[x] = None => x \notin guest /\ shift.item[x] = None
       /\ \A c, d \in ClosedWith(x) : c = d
       /\ x \in Old <=> ClosedWith(x) # {} \/ Unwritten("exchange", x)
       /\ ~(ClosedWith(x) # {} /\ Unwritten("exchange", x))
  /\ \A e \in Exchanges : exch[e] # None =>
       /\ (exch[e].status = "COMPLETED") = (exch[e].oldItem # None)
       /\ exch[e].status = "COMPLETED" /\ e \notin revalued => exch[e].difference = Price - exch[e].value

IInv == TypeOK /\ SalesOK /\ RequestsOK /\ KeptOK /\ RepairOK /\ ExchangeOK

-----------------------------------------------------------------------------
(* What the steps do to the returns.                                        *)

LEMMA NewReturn ==
  ASSUME TypeOK, NEW w \in Workers, NEW r \in Returns, CreateReturn(w, r)
  PROVE  /\ ret[r] = None /\ ret'[r] # None
         /\ ret'[r] = [status |-> "REQUESTED", order |-> desk[w].order, lines |-> desk[w].lines]
         /\ \A s \in Returns \ {r} : ret'[s] = ret[s]
<1>1. [status |-> "REQUESTED", order |-> desk[w].order, lines |-> desk[w].lines] \in ReturnDocs
  BY TaskTypes, ReturnStagesAre DEF CreateReturn, ReturnDocs
<1> QED BY <1>1, NoneAssumption DEF CreateReturn, TypeOK

(* A return that exists keeps its order and its pieces.                     *)
LEMMA StatusMoved ==
  ASSUME TypeOK, NEW r \in Returns, ret[r] # None, NEW s \in Stages(ReturnRules), ret' = [ret EXCEPT ![r].status = s]
  PROVE  /\ ret'[r] # None /\ ret'[r].status = s /\ ret'[r].lines = ret[r].lines /\ ret'[r].order = ret[r].order
         /\ \A q \in Returns \ {r} : ret'[q] = ret[q]
<1>1. ret[r] \in ReturnDocs
  BY DEF TypeOK
<1>2. [ret[r] EXCEPT !.status = s] \in ReturnDocs
  BY <1>1 DEF ReturnDocs
<1>3. ret'[r] = [ret[r] EXCEPT !.status = s]
  BY DEF TypeOK
<1> QED BY <1>1, <1>2, <1>3, NoneAssumption DEF TypeOK, ReturnDocs

LEMMA ReturnMoved ==
  ASSUME TypeOK, NEW r \in Returns,
         \/ \E a \in {"approve", "reject", "settle", "cancel"} : MoveReturn(r, a)
         \/ ReceiveReturn(r)
         \/ \E good \in SUBSET Pieces : InspectReturn(r, good)
  PROVE  /\ ret[r] # None /\ ret'[r] # None /\ ret'[r].lines = ret[r].lines /\ ret'[r].order = ret[r].order
         /\ \A q \in Returns \ {r} : ret'[q] = ret[q]
         /\ Pending(r)' => Pending(r)
         /\ Open(r)' => Open(r)
         /\ ret[r].status \in {"RECEIVED", "INSPECTED", "SETTLED"} => ret'[r].status \in {"RECEIVED", "INSPECTED", "SETTLED"}
<1>1. ASSUME NEW a \in {"approve", "reject", "settle", "cancel"}, MoveReturn(r, a)
      PROVE  /\ ret[r] # None /\ ReturnRules[a].to \in Stages(ReturnRules) /\ ret' = [ret EXCEPT ![r].status = ReturnRules[a].to]
             /\ \/ ret[r].status = "REQUESTED" /\ ReturnRules[a].to \in {"APPROVED", "REJECTED", "CANCELLED"}
                \/ ret[r].status = "APPROVED" /\ ReturnRules[a].to = "CANCELLED"
                \/ ret[r].status = "INSPECTED" /\ ReturnRules[a].to = "SETTLED"
  BY <1>1, ReturnStep, ReturnStagesAre DEF MoveReturn, ReturnMay
<1>2. ASSUME ReceiveReturn(r)
      PROVE  /\ ret[r] # None /\ "RECEIVED" \in Stages(ReturnRules) /\ ret' = [ret EXCEPT ![r].status = "RECEIVED"]
             /\ ret[r].status = "APPROVED"
  BY <1>2, ReturnFrom, ReturnStagesAre DEF ReceiveReturn
<1>3. ASSUME NEW good, InspectReturn(r, good)
      PROVE  /\ ret[r] # None /\ "INSPECTED" \in Stages(ReturnRules) /\ ret' = [ret EXCEPT ![r].status = "INSPECTED"]
             /\ ret[r].status = "RECEIVED"
  BY <1>3, ReturnFrom, ReturnStagesAre DEF InspectReturn
<1>4. CASE \E a \in {"approve", "reject", "settle", "cancel"} : MoveReturn(r, a)
  BY <1>1, <1>4, StatusMoved DEF Pending, Open
<1>5. CASE ReceiveReturn(r)
  BY <1>2, <1>5, StatusMoved DEF Pending, Open
<1>6. CASE \E good \in SUBSET Pieces : InspectReturn(r, good)
  BY <1>3, <1>6, StatusMoved DEF Pending, Open
<1> QED BY <1>4, <1>5, <1>6

LEMMA BackStays ==
  ASSUME TypeOK, [Next]_vars, NEW x, Back(x)
  PROVE  Back(x)'
<1>1. PICK s \in Returns : ret[s] # None /\ ret[s].status \in {"RECEIVED", "INSPECTED", "SETTLED"} /\ x \in ret[s].lines
  BY DEF Back
<1>2. CASE UNCHANGED ret
  BY <1>2 DEF Back
<1>3. ASSUME NEW w \in Workers, NEW r \in Returns, CreateReturn(w, r)
      PROVE  Back(x)'
  BY <1>1, <1>3, NewReturn DEF Back
<1>4. ASSUME NEW r \in Returns,
             \/ \E a \in {"approve", "reject", "settle", "cancel"} : MoveReturn(r, a)
             \/ ReceiveReturn(r)
             \/ \E good \in SUBSET Pieces : InspectReturn(r, good)
      PROVE  Back(x)'
  <2>1. CASE s = r
    BY <1>1, <1>4, <2>1, ReturnMoved DEF Back
  <2>2. CASE s # r
    BY <1>1, <1>4, <2>2, ReturnMoved DEF Back
  <2> QED BY <2>1, <2>2
<1>5. CASE Returning
  <2>1. ASSUME NEW y \in Pieces, NEW t \in {"AVAILABLE", "DAMAGED"}, InspectQueued(y, t)
        PROVE  UNCHANGED ret
    BY <2>1 DEF InspectQueued, documents
  <2>2. ASSUME NEW w \in Workers, NEW o \in Orders, NEW S \in SUBSET Pieces, ReadForRequest(w, o, S)
        PROVE  UNCHANGED ret
    BY <2>2 DEF ReadForRequest, documents
  <2> QED BY <1>2, <1>3, <1>4, <1>5, <2>1, <2>2 DEF Returning
<1>6. CASE Selling
  BY <1>2, <1>6 DEF Selling, Hold, SellHeld, LetGo, CancelSold, documents
<1>7. CASE Repairing
  BY <1>2, <1>7 DEF Repairing, ReadForIntake, TakeInKnown, TakeInGuest, CreateRepair, MoveRepair, HandBack, documents
<1>8. CASE Exchanging
  BY <1>2, <1>8 DEF Exchanging, CreateExchange, AssessExchange, CancelExchange, ReadForExchange, TakeOldIn, CompleteExchange, documents
<1>9. CASE \E w \in Workers : GiveUp(w)
  BY <1>2, <1>9 DEF GiveUp, documents
<1>10. CASE \E y \in Pieces, to \in Statuses : MoveByHand(y, to)
  BY <1>2, <1>10, MovedByHand
<1> QED BY <1>2, <1>5, <1>6, <1>7, <1>8, <1>9, <1>10 DEF Next, vars, documents

LEMMA LooseStays ==
  ASSUME TypeOK, [Next]_vars, NEW x, Loose(x)
  PROVE  Loose(x)'
<1>1. byHand \subseteq byHand'
  BY NextIs, DeskWorkMovesNothingByHand, MovedByHand DEF vars, history
<1> QED BY <1>1, BackStays DEF Loose

-----------------------------------------------------------------------------
(* The sales.                                                               *)

(* A step of another desk leaves what is held alone, and takes a sold piece *)
(* out of customers' hands only for a return.                               *)
Spares ==
  \A x \in Pieces : /\ item[x] = "RESERVED" => item'[x] = "RESERVED"
                    /\ item[x] \in Gone => item'[x] \in Gone \/ Loose(x)'

LEMMA SparedSales ==
  ASSUME TypeOK, SalesOK, Spares, UNCHANGED <<order, buyer>>, \A x \in Pieces : Loose(x) => Loose(x)'
  PROVE  SalesOK'
<1>1. \A o \in Orders : order[o].allocated \subseteq Pieces
  BY DEF TypeOK, OrderDocs
<1>2. ASSUME NEW o \in Orders, NEW x \in order[o].allocated
      PROVE  /\ order[o].stage = "HELD" => item'[x] = "RESERVED"
             /\ order[o].stage = "SOLD" => Loose(x)' \/ (buyer[x] = o /\ item'[x] \in Gone)
  BY <1>1, <1>2 DEF SalesOK, Spares
<1> QED BY <1>2 DEF SalesOK

LEMMA OthersSpare ==
  ASSUME TypeOK, Returning \/ Repairing \/ Exchanging \/ \E w \in Workers : GiveUp(w)
  PROVE  Spares
<1>0. None \notin Statuses
  BY NoneAssumption
<1>1. ASSUME UNCHANGED item PROVE Spares
  BY <1>1 DEF Spares, Gone
<1>2. ASSUME NEW x \in Pieces, NEW s \in {"AVAILABLE", "DAMAGED"}, InspectQueued(x, s)
      PROVE  Spares
  BY <1>2, MayFrom DEF InspectQueued, Put, Spares, Gone, TypeOK
<1>3. ASSUME NEW r \in Returns, ReceiveReturn(r)
      PROVE  Spares
  <2>1. ret'[r] # None /\ ret'[r].status = "RECEIVED" /\ ret'[r].lines = ret[r].lines
    BY <1>3, ReturnFrom, ReturnStagesAre, StatusMoved DEF ReceiveReturn
  <2>2. \A x \in ret[r].lines : Loose(x)' /\ item[x] = "SOLD"
    BY <1>3, <2>1, MayFrom DEF ReceiveReturn, Back, Loose
  <2> QED BY <1>3, <2>2 DEF ReceiveReturn, Put, Spares, Gone, TypeOK
<1>4. ASSUME NEW r \in Returns, NEW good \in SUBSET Pieces, InspectReturn(r, good)
      PROVE  Spares
  <2>1. good \subseteq ret[r].lines /\ \A x \in ret[r].lines : item[x] = "RETURNED"
    BY <1>4, MayFrom DEF InspectReturn
  <2> QED BY <1>4, <2>1 DEF InspectReturn, Spares, Gone, TypeOK
<1>5. ASSUME NEW w \in Workers, TakeInKnown(w)
      PROVE  Spares
  BY <1>5, MayFrom DEF TakeInKnown, Put, Spares, Gone, TypeOK
<1>6. ASSUME NEW w \in Workers, NEW x \in Pieces, TakeInGuest(w, x) \/ TakeOldIn(w, x)
      PROVE  Spares
  BY <1>0, <1>6, StatusesAre DEF TakeInGuest, TakeOldIn, Fresh, Put, Spares, Gone, TypeOK
<1>7. ASSUME NEW d \in Repairs, NEW a \in DOMAIN RepairRules, HandBack(d, a)
      PROVE  Spares
  BY <1>7, MayFrom DEF HandBack, Put, Spares, Gone, TypeOK
<1>8. CASE Returning
  BY <1>1, <1>2, <1>3, <1>4, <1>8 DEF Returning, ReadForRequest, CreateReturn, MoveReturn
<1>9. CASE Repairing
  BY <1>1, <1>5, <1>6, <1>7, <1>9 DEF Repairing, ReadForIntake, CreateRepair, MoveRepair
<1>10. CASE Exchanging
  BY <1>1, <1>6, <1>10 DEF Exchanging, CreateExchange, AssessExchange, CancelExchange, ReadForExchange, CompleteExchange
<1>11. CASE \E w \in Workers : GiveUp(w)
  BY <1>1, <1>11 DEF GiveUp
<1> QED BY <1>8, <1>9, <1>10, <1>11

LEMMA OthersKeepOrders ==
  ASSUME Returning \/ Repairing \/ Exchanging \/ \E w \in Workers : GiveUp(w)
  PROVE  UNCHANGED <<order, buyer>>
<1>1. CASE Returning
  BY <1>1 DEF Returning, InspectQueued, ReadForRequest, CreateReturn, MoveReturn, ReceiveReturn, InspectReturn
<1>2. CASE Repairing
  BY <1>2 DEF Repairing, ReadForIntake, TakeInKnown, TakeInGuest, CreateRepair, MoveRepair, HandBack
<1>3. CASE Exchanging
  BY <1>3 DEF Exchanging, CreateExchange, AssessExchange, CancelExchange, ReadForExchange, TakeOldIn, CompleteExchange
<1> QED BY <1>1, <1>2, <1>3 DEF GiveUp

LEMMA SellingKeepsSales == ASSUME TypeOK, SalesOK, Selling PROVE SalesOK'
<1>1. PICK o \in Orders : SellHeld(o) \/ LetGo(o) \/ CancelSold(o) \/ \E x \in Pieces : Hold(o, x)
  BY DEF Selling
<1>2. UNCHANGED <<ret, byHand>>
  BY <1>1 DEF SellHeld, LetGo, CancelSold, Hold, documents, history
<1>3. \A x : Loose(x)' = Loose(x)
  BY <1>2 DEF Back, Loose
<1>4. order[o].allocated \subseteq Pieces /\ StillListed(o) \subseteq order[o].allocated
  BY DEF TypeOK, OrderDocs, StillListed
<1>5. \A p \in Orders : order[p].allocated \subseteq Pieces
  BY DEF TypeOK, OrderDocs
<1>6. CASE SellHeld(o)
  <2>1. /\ order'[o].stage = "SOLD" /\ order'[o].allocated \subseteq order[o].allocated
        /\ \A p \in Orders \ {o} : order'[p] = order[p]
    BY <1>4, <1>6 DEF SellHeld, TypeOK
  <2>2. \A x \in Pieces : /\ x \in order[o].allocated => item'[x] = "SOLD" /\ buyer'[x] = o /\ item[x] = "RESERVED"
                          /\ x \notin order[o].allocated => item'[x] = item[x] /\ buyer'[x] = buyer[x]
    BY <1>6 DEF SellHeld, Put, SalesOK
  <2>3. ASSUME NEW p \in Orders, NEW x \in order'[p].allocated
        PROVE  /\ order'[p].stage = "HELD" => item'[x] = "RESERVED"
               /\ order'[p].stage = "SOLD" => Loose(x)' \/ (buyer'[x] = p /\ item'[x] \in Gone)
    <3>1. CASE p = o
      <4>1. x \in order[o].allocated /\ x \in Pieces
        BY <1>4, <2>1, <2>3, <3>1
      <4> QED BY <2>1, <2>2, <3>1, <4>1 DEF Gone
    <3>2. CASE p # o /\ x \in order[o].allocated
      <4>1. order[p].stage # "HELD" /\ x \in Pieces
        BY <1>5, <1>6, <2>1, <2>3, <3>2 DEF SellHeld, SalesOK
      <4>2. item[x] \notin Gone
        BY <2>2, <3>2, <4>1 DEF Gone
      <4>3. order[p].stage = "SOLD" => Loose(x)
        BY <2>1, <2>3, <3>2, <4>2 DEF SalesOK
      <4> QED BY <1>3, <2>1, <3>2, <4>1, <4>3
    <3>3. CASE p # o /\ x \notin order[o].allocated
      BY <1>3, <1>5, <2>1, <2>2, <2>3, <3>3 DEF SalesOK
    <3> QED BY <3>1, <3>2, <3>3
  <2> QED BY <2>1, <2>3 DEF SalesOK
<1>7. CASE LetGo(o)
  <2>1. /\ order'[o].stage = "LAPSED" /\ order'[o].allocated \subseteq order[o].allocated
        /\ \A p \in Orders \ {o} : order'[p] = order[p]
    BY <1>4, <1>7 DEF LetGo, TypeOK
  <2>2. /\ \A x \in Pieces : IF x \in order[o].allocated THEN item'[x] = "AVAILABLE" /\ item[x] = "RESERVED" ELSE item'[x] = item[x]
        /\ buyer' = buyer
    BY <1>7 DEF LetGo, Put, SalesOK
  <2>3. ASSUME NEW p \in Orders, NEW x \in order'[p].allocated
        PROVE  /\ order'[p].stage = "HELD" => item'[x] = "RESERVED"
               /\ order'[p].stage = "SOLD" => Loose(x)' \/ (buyer'[x] = p /\ item'[x] \in Gone)
    <3>1. CASE p = o
      BY <2>1, <3>1
    <3>2. CASE p # o /\ x \in order[o].allocated
      <4>1. order[p].stage # "HELD" /\ x \in Pieces
        BY <1>5, <1>7, <2>1, <2>3, <3>2 DEF LetGo, SalesOK
      <4>2. order[p].stage = "SOLD" => Loose(x)
        BY <2>1, <2>2, <2>3, <3>2, <4>1 DEF SalesOK, Gone
      <4> QED BY <1>3, <2>1, <3>2, <4>1, <4>2
    <3>3. CASE p # o /\ x \notin order[o].allocated
      BY <1>3, <1>5, <2>1, <2>2, <2>3, <3>3 DEF SalesOK
    <3> QED BY <3>1, <3>2, <3>3
  <2> QED BY <2>1, <2>3 DEF SalesOK
<1>8. CASE CancelSold(o)
  <2>1. /\ order'[o].stage = "CANCELLED" /\ order'[o].allocated = order[o].allocated
        /\ \A p \in Orders \ {o} : order'[p] = order[p]
    BY <1>8 DEF CancelSold, TypeOK, OrderDocs
  <2>2. /\ \A x \in Pieces : item'[x] = item[x] \/ (item[x] = "SOLD" /\ x \in order[o].allocated)
        /\ buyer' = buyer
    BY <1>8 DEF CancelSold, Put
  <2>3. ASSUME NEW p \in Orders, NEW x \in order'[p].allocated
        PROVE  /\ order'[p].stage = "HELD" => item'[x] = "RESERVED"
               /\ order'[p].stage = "SOLD" => Loose(x)' \/ (buyer'[x] = p /\ item'[x] \in Gone)
    <3>1. CASE p = o
      BY <2>1, <3>1
    <3>2. CASE p # o /\ x \in order[o].allocated
      <4>1. order[p].stage = "SOLD" => Loose(x)
        BY <1>8, <2>1, <2>3, <3>2 DEF CancelSold, SalesOK
      <4>2. order[p].stage = "HELD" => item'[x] = "RESERVED"
        BY <1>5, <2>1, <2>2, <2>3, <3>2 DEF SalesOK
      <4> QED BY <1>3, <2>1, <3>2, <4>1, <4>2
    <3>3. CASE p # o /\ x \notin order[o].allocated
      BY <1>3, <1>5, <2>1, <2>2, <2>3, <3>3 DEF SalesOK
    <3> QED BY <3>1, <3>2, <3>3
  <2> QED BY <2>1, <2>3 DEF SalesOK
<1>9. ASSUME NEW y \in Pieces, Hold(o, y)
      PROVE  SalesOK'
  <2>1. /\ order'[o].stage = "HELD" /\ order'[o].allocated = {y}
        /\ \A p \in Orders \ {o} : order'[p] = order[p]
    BY <1>9 DEF Hold, TypeOK
  <2>2. /\ \A x \in Pieces : item'[x] = IF x = y THEN "RESERVED" ELSE item[x]
        /\ buyer' = buyer /\ item[y] = "AVAILABLE"
    BY <1>9, MayFrom DEF Hold, Put
  <2>3. ASSUME NEW p \in Orders, NEW x \in order'[p].allocated
        PROVE  /\ order'[p].stage = "HELD" => item'[x] = "RESERVED"
               /\ order'[p].stage = "SOLD" => Loose(x)' \/ (buyer'[x] = p /\ item'[x] \in Gone)
    <3>1. CASE p = o
      BY <2>1, <2>2, <2>3, <3>1
    <3>2. CASE p # o /\ x = y
      BY <1>3, <2>1, <2>2, <2>3, <3>2 DEF SalesOK, Gone
    <3>3. CASE p # o /\ x # y
      BY <1>3, <1>5, <2>1, <2>2, <2>3, <3>3 DEF SalesOK
    <3> QED BY <3>1, <3>2, <3>3
  <2>4. \A p \in Orders \ {o} : order[p].stage = "HELD" => y \notin order[p].allocated
    BY <2>2 DEF SalesOK
  <2> QED BY <2>1, <2>3, <2>4 DEF SalesOK
<1> QED BY <1>1, <1>6, <1>7, <1>8, <1>9

LEMMA NextSalesOK == ASSUME TypeOK, SalesOK, [Next]_vars PROVE SalesOK'
<1>1. \A x \in Pieces : Loose(x) => Loose(x)'
  BY LooseStays
<1>2. CASE UNCHANGED vars
  <2>1. UNCHANGED <<item, order, ret, buyer>>
    BY <1>2 DEF vars, documents
  <2>2. Spares
    BY <2>1 DEF Spares
  <2> QED BY <1>1, <2>1, <2>2, SparedSales
<1>3. CASE Selling
  BY <1>3, SellingKeepsSales
<1>4. CASE Returning \/ Repairing \/ Exchanging \/ \E w \in Workers : GiveUp(w)
  BY <1>1, <1>4, OthersSpare, OthersKeepOrders, SparedSales
<1>5. ASSUME NEW y \in Pieces, NEW to \in Statuses, MoveByHand(y, to)
      PROVE  SalesOK'
  <2>1. /\ \A x \in Pieces : x # y => item'[x] = item[x]
        /\ y \in byHand' /\ UNCHANGED <<order, buyer>>
        /\ \A o \in Orders : order[o].stage = "HELD" => y \notin order[o].allocated
    BY <1>5, MovedByHand
  <2>2. ASSUME NEW o \in Orders, NEW x \in order[o].allocated
        PROVE  /\ order[o].stage = "HELD" => item'[x] = "RESERVED"
               /\ order[o].stage = "SOLD" => Loose(x)' \/ (buyer[x] = o /\ item'[x] \in Gone)
    <3>1. x \in Pieces
      BY DEF TypeOK, OrderDocs
    <3>2. CASE x = y
      BY <2>1, <3>2 DEF Loose
    <3>3. CASE x # y
      BY <1>1, <2>1, <3>1, <3>3 DEF SalesOK
    <3> QED BY <3>2, <3>3
  <2> QED BY <2>1, <2>2 DEF SalesOK
<1> QED BY <1>2, <1>3, <1>4, <1>5 DEF Next

-----------------------------------------------------------------------------
(* The requests for returns.                                                *)

LEMMA OverStays ==
  ASSUME TypeOK, [Next]_vars, NEW o \in Orders, order[o].stage \in Over
  PROVE  order'[o].stage \in Over /\ order'[o].allocated = order[o].allocated
<1>1. CASE UNCHANGED vars
  BY <1>1 DEF vars
<1>2. CASE Selling
  <2>1. PICK p \in Orders : SellHeld(p) \/ LetGo(p) \/ CancelSold(p) \/ \E x \in Pieces : Hold(p, x)
    BY <1>2 DEF Selling
  <2>2. CASE o = p
    <3>1. CancelSold(o)
      BY <2>1, <2>2 DEF SellHeld, LetGo, Hold, Over
    <3> QED BY <3>1 DEF CancelSold, Over, TypeOK, OrderDocs
  <2>3. CASE o # p
    BY <2>1, <2>3 DEF SellHeld, LetGo, CancelSold, Hold, TypeOK
  <2> QED BY <2>2, <2>3
<1>3. CASE Returning \/ Repairing \/ Exchanging \/ \E w \in Workers : GiveUp(w)
  BY <1>3, OthersKeepOrders
<1>4. CASE \E x \in Pieces, to \in Statuses : MoveByHand(x, to)
  BY <1>4, MovedByHand
<1> QED BY <1>1, <1>2, <1>3, <1>4 DEF Next

(* Only the reading handler puts a request on a desk.                       *)
LEMMA DeskRequests ==
  ASSUME TypeOK, [Next]_vars, NEW v \in Workers, desk'[v].task = "request"
  PROVE  \/ desk'[v] = desk[v]
         \/ \E o \in Orders, S \in (SUBSET Pieces) \ {{}} : ReadForRequest(v, o, S)
<1>1. CASE UNCHANGED vars
  BY <1>1 DEF vars
<1>2. CASE Selling
  BY <1>2 DEF Selling, SellHeld, LetGo, CancelSold, Hold
<1>3. CASE Returning
  <2>1. ASSUME NEW w \in Workers, NEW r \in Returns, CreateReturn(w, r)
        PROVE  desk'[v] = desk[v]
    BY <2>1 DEF CreateReturn, Set, Off, TypeOK
  <2>2. ASSUME NEW w \in Workers, NEW o \in Orders, NEW S \in (SUBSET Pieces) \ {{}}, ReadForRequest(w, o, S)
        PROVE  desk'[v] = desk[v] \/ v = w
    BY <2>2 DEF ReadForRequest, Set, TypeOK
  <2>3. ASSUME NEW x \in Pieces, NEW s \in {"AVAILABLE", "DAMAGED"}, InspectQueued(x, s)
        PROVE  desk'[v] = desk[v]
    BY <2>3 DEF InspectQueued
  <2>4. ASSUME NEW r \in Returns,
               \/ \E a \in {"approve", "reject", "settle", "cancel"} : MoveReturn(r, a)
               \/ ReceiveReturn(r)
               \/ \E good \in SUBSET Pieces : InspectReturn(r, good)
        PROVE  desk'[v] = desk[v]
    BY <2>4 DEF MoveReturn, ReceiveReturn, InspectReturn
  <2> QED BY <1>3, <2>1, <2>2, <2>3, <2>4 DEF Returning
<1>4. CASE Repairing
  <2>1. ASSUME NEW w \in Workers,
               \/ TakeInKnown(w)
               \/ \E x \in Pieces : ReadForIntake(w, x) \/ TakeInGuest(w, x)
               \/ \E d \in Repairs : CreateRepair(w, d)
        PROVE  desk'[v] = desk[v]
    <3>1. TakeInKnown(w) => desk'[v] = desk[v]
      BY TaskTypes DEF TakeInKnown, TypeOK
    <3>2. \A x \in Pieces : ReadForIntake(w, x) \/ TakeInGuest(w, x) => desk'[v] = desk[v]
      BY DEF ReadForIntake, TakeInGuest, Set, TypeOK
    <3>3. \A d \in Repairs : CreateRepair(w, d) => desk'[v] = desk[v]
      BY DEF CreateRepair, Set, Off, TypeOK
    <3> QED BY <2>1, <3>1, <3>2, <3>3
  <2> QED BY <1>4, <2>1 DEF Repairing, MoveRepair, HandBack
<1>5. CASE Exchanging
  <2>1. ASSUME NEW w \in Workers,
               \/ \E x \in Pieces : TakeOldIn(w, x)
               \/ CompleteExchange(w)
               \/ \E e \in Exchanges : ReadForExchange(w, e)
        PROVE  desk'[v] = desk[v]
    <3>1. \A x \in Pieces : TakeOldIn(w, x) => desk'[v] = desk[v]
      BY TaskTypes DEF TakeOldIn, TypeOK
    <3> QED BY <2>1, <3>1 DEF CompleteExchange, ReadForExchange, Set, Off, TypeOK
  <2> QED BY <1>5, <2>1 DEF Exchanging, CreateExchange, AssessExchange, CancelExchange
<1>6. CASE \E w \in Workers : GiveUp(w)
  BY <1>6 DEF GiveUp, Set, Off, TypeOK
<1>7. CASE \E x \in Pieces, to \in Statuses : MoveByHand(x, to)
  BY <1>7, MovedByHand
<1> QED BY <1>1, <1>2, <1>3, <1>4, <1>5, <1>6, <1>7 DEF Next

LEMMA ReadIsOver ==
  ASSUME TypeOK, SalesOK, NEW w \in Workers, NEW o \in Orders, NEW S \in (SUBSET Pieces) \ {{}}, ReadForRequest(w, o, S)
  PROVE  RequestOK(o, S) /\ desk'[w].order = o /\ desk'[w].lines = S /\ UNCHANGED order
<1>1. PICK x \in S : x \in order[o].allocated /\ item[x] = "SOLD"
  BY DEF ReadForRequest
<1>2. order[o].stage \in {"NEW", "HELD", "SOLD", "LAPSED", "CANCELLED"}
  BY DEF TypeOK, OrderDocs
<1>3. order[o].stage \in Over
  BY <1>1, <1>2 DEF SalesOK, Over
<1> QED BY <1>3 DEF ReadForRequest, RequestOK, Set, TypeOK

(* A new return that names a piece another open return names is a crossing. *)
LEMMA CreatedRequests ==
  ASSUME TypeOK, RequestsOK, NEW w \in Workers, NEW r \in Returns, CreateReturn(w, r), NEW q \in Returns, Pending(q)'
  PROVE  /\ RequestOK(ret'[q].order, ret'[q].lines)
         /\ \A x \in ret'[q].lines \ crossed', s \in Returns : Open(s)' /\ x \in ret'[s].lines => s = q
<1>1. /\ ret[r] = None /\ ret'[r] # None
      /\ ret'[r] = [status |-> "REQUESTED", order |-> desk[w].order, lines |-> desk[w].lines]
      /\ \A s \in Returns \ {r} : ret'[s] = ret[s]
  BY NewReturn
<1>2. crossed \subseteq crossed' /\ \A x \in ret'[r].lines : \A s \in Returns : Open(s) /\ x \in ret[s].lines => x \in crossed'
  BY <1>1 DEF CreateReturn
<1>3. CASE q = r
  <2>1. RequestOK(ret'[q].order, ret'[q].lines)
    BY <1>1, <1>3 DEF CreateReturn, RequestsOK
  <2>2. ASSUME NEW x \in ret'[q].lines \ crossed', NEW s \in Returns, Open(s)', x \in ret'[s].lines, s # q
        PROVE  FALSE
    BY <1>1, <1>2, <1>3, <2>2 DEF Open
  <2> QED BY <2>1, <2>2
<1>4. CASE q # r
  <2>1. Pending(q) /\ ret'[q] = ret[q]
    BY <1>1, <1>4 DEF Pending
  <2>2. RequestOK(ret'[q].order, ret'[q].lines)
    BY <2>1 DEF RequestsOK
  <2>3. ASSUME NEW x \in ret'[q].lines \ crossed', NEW s \in Returns, Open(s)', x \in ret'[s].lines, s # q
        PROVE  FALSE
    <3>1. CASE s = r
      <4>1. Open(q)
        BY <2>1 DEF Pending, Open
      <4> QED BY <1>2, <2>1, <2>3, <3>1, <4>1
    <3>2. CASE s # r
      BY <1>1, <1>2, <2>1, <2>3, <3>2 DEF Open, RequestsOK
    <3> QED BY <3>1, <3>2
  <2> QED BY <2>2, <2>3
<1> QED BY <1>3, <1>4

(* Every other step at most moves a return on.                              *)
LEMMA OtherRequests ==
  ASSUME TypeOK, RequestsOK, crossed' = crossed, NEW q \in Returns, Pending(q)',
         \/ UNCHANGED ret
         \/ \E r \in Returns :
              /\ ret[r] # None /\ ret'[r] # None /\ ret'[r].lines = ret[r].lines /\ ret'[r].order = ret[r].order
              /\ \A s \in Returns \ {r} : ret'[s] = ret[s]
              /\ (Pending(r)' => Pending(r)) /\ (Open(r)' => Open(r))
  PROVE  /\ RequestOK(ret'[q].order, ret'[q].lines)
         /\ \A x \in ret'[q].lines \ crossed', s \in Returns : Open(s)' /\ x \in ret'[s].lines => s = q
<1>1. \A s \in Returns : /\ Open(s)' => Open(s) /\ ret'[s].lines = ret[s].lines /\ ret'[s].order = ret[s].order
                         /\ Pending(s)' => Pending(s) /\ ret'[s].lines = ret[s].lines /\ ret'[s].order = ret[s].order
  BY DEF Open, Pending
<1> QED BY <1>1 DEF RequestsOK

LEMMA ReturnSteps ==
  ASSUME TypeOK, [Next]_vars
  PROVE  \/ \E w \in Workers, r \in Returns : CreateReturn(w, r)
         \/ /\ crossed' = crossed
            /\ \/ UNCHANGED ret
               \/ \E r \in Returns :
                    /\ ret[r] # None /\ ret'[r] # None /\ ret'[r].lines = ret[r].lines /\ ret'[r].order = ret[r].order
                    /\ \A s \in Returns \ {r} : ret'[s] = ret[s]
                    /\ (Pending(r)' => Pending(r)) /\ (Open(r)' => Open(r))
<1>1. CASE UNCHANGED vars
  BY <1>1 DEF vars, documents, history
<1>2. CASE Selling
  BY <1>2 DEF Selling, SellHeld, LetGo, CancelSold, Hold, documents, history
<1>3. CASE Repairing
  BY <1>3 DEF Repairing, ReadForIntake, TakeInKnown, TakeInGuest, CreateRepair, MoveRepair, HandBack, documents, history
<1>4. CASE Exchanging
  BY <1>4 DEF Exchanging, CreateExchange, AssessExchange, CancelExchange, ReadForExchange, TakeOldIn, CompleteExchange,
              documents, history
<1>5. CASE \E w \in Workers : GiveUp(w)
  BY <1>5 DEF GiveUp, documents
<1>6. CASE Returning
  <2>1. ASSUME NEW r \in Returns,
               \/ \E a \in {"approve", "reject", "settle", "cancel"} : MoveReturn(r, a)
               \/ ReceiveReturn(r)
               \/ \E good \in SUBSET Pieces : InspectReturn(r, good)
        PROVE  /\ ret[r] # None /\ ret'[r] # None /\ ret'[r].lines = ret[r].lines /\ ret'[r].order = ret[r].order
               /\ \A s \in Returns \ {r} : ret'[s] = ret[s]
               /\ (Pending(r)' => Pending(r)) /\ (Open(r)' => Open(r))
               /\ crossed' = crossed
    BY <2>1, ReturnMoved DEF MoveReturn, ReceiveReturn, InspectReturn, history
  <2>2. ASSUME NEW x \in Pieces, NEW s \in {"AVAILABLE", "DAMAGED"}, InspectQueued(x, s)
        PROVE  UNCHANGED <<ret, crossed>>
    BY <2>2 DEF InspectQueued, documents
  <2>3. ASSUME NEW w \in Workers, NEW o \in Orders, NEW S \in (SUBSET Pieces) \ {{}}, ReadForRequest(w, o, S)
        PROVE  UNCHANGED <<ret, crossed>>
    BY <2>3 DEF ReadForRequest, documents, history
  <2> QED BY <1>6, <2>1, <2>2, <2>3 DEF Returning
<1>7. CASE \E x \in Pieces, to \in Statuses : MoveByHand(x, to)
  BY <1>7, MovedByHand
<1> QED BY <1>1, <1>2, <1>3, <1>4, <1>5, <1>6, <1>7 DEF Next

LEMMA NextRequestsOK == ASSUME TypeOK, SalesOK, RequestsOK, [Next]_vars PROVE RequestsOK'
<1>1. ASSUME NEW v \in Workers, desk'[v].task = "request"
      PROVE  order'[desk'[v].order].stage \in Over /\ desk'[v].lines \subseteq order'[desk'[v].order].allocated
  <2>1. CASE desk'[v] = desk[v]
    <3>1. desk[v].order \in Orders /\ RequestOK(desk[v].order, desk[v].lines)
      BY <1>1, <2>1, TaskTypes DEF RequestsOK
    <3> QED BY <2>1, <3>1, OverStays DEF RequestOK
  <2>2. ASSUME NEW o \in Orders, NEW S \in (SUBSET Pieces) \ {{}}, ReadForRequest(v, o, S)
        PROVE  order'[desk'[v].order].stage \in Over /\ desk'[v].lines \subseteq order'[desk'[v].order].allocated
    BY <2>2, ReadIsOver DEF RequestOK
  <2> QED BY <1>1, <2>1, <2>2, DeskRequests
<1>2. ASSUME NEW q \in Returns, Pending(q)'
      PROVE  /\ RequestOK(ret'[q].order, ret'[q].lines)
             /\ \A x \in ret'[q].lines \ crossed', s \in Returns : Open(s)' /\ x \in ret'[s].lines => s = q
  BY <1>2, ReturnSteps, CreatedRequests, OtherRequests
<1>3. ASSUME NEW q \in Returns, Pending(q)'
      PROVE  order'[ret'[q].order].stage \in Over /\ ret'[q].lines \subseteq order'[ret'[q].order].allocated
  <2>1. ret'[q] \in ReturnDocs
    BY <1>3, NextTypeOK DEF TypeOK, Pending
  <2>2. ret'[q].order \in Orders
    BY <2>1 DEF ReturnDocs
  <2> QED BY <1>2, <1>3, <2>2, OverStays DEF RequestOK
<1> QED BY <1>1, <1>2, <1>3 DEF RequestsOK, RequestOK

-----------------------------------------------------------------------------
(* Returned pieces.                                                         *)

LEMMA CameBackStays ==
  ASSUME TypeOK, [Next]_vars, NEW x, CameBack(x)
  PROVE  CameBack(x)'
<1>1. PICK o \in Orders : order[o].stage = "CANCELLED" /\ x \in order[o].allocated
  BY DEF CameBack
<1>2. order'[o].stage = "CANCELLED" /\ order'[o].allocated = order[o].allocated
  <2>1. CASE UNCHANGED vars
    BY <1>1, <2>1 DEF vars
  <2>2. CASE Selling
    BY <1>1, <2>2 DEF Selling, SellHeld, LetGo, CancelSold, Hold, TypeOK
  <2>3. CASE Returning \/ Repairing \/ Exchanging \/ \E w \in Workers : GiveUp(w)
    BY <1>1, <2>3, OthersKeepOrders
  <2>4. CASE \E y \in Pieces, to \in Statuses : MoveByHand(y, to)
    BY <1>1, <2>4, MovedByHand
  <2> QED BY <2>1, <2>2, <2>3, <2>4 DEF Next
<1> QED BY <1>1, <1>2 DEF CameBack

(* A step that neither brings a piece back nor puts it away.                *)
SameReceived ==
  \A r \in Returns : /\ (ret'[r] # None /\ ret'[r].status = "RECEIVED") <=> (ret[r] # None /\ ret[r].status = "RECEIVED")
                     /\ ret[r] # None => ret'[r].lines = ret[r].lines

LEMMA QuietKept ==
  ASSUME TypeOK, KeptOK, SameReceived, requeued \subseteq requeued', byHand \subseteq byHand',
         \A x \in Pieces : CameBack(x) => CameBack(x)',
         \A x \in Pieces \ byHand' : item'[x] = "RETURNED" <=> item[x] = "RETURNED"
  PROVE  KeptOK'
<1>1. \A x \in Pieces : ReceivedFor(x)' = ReceivedFor(x)
  BY DEF ReceivedFor, SameReceived
<1> QED BY <1>1 DEF KeptOK

LEMMA UnsoldKept ==
  ASSUME TypeOK, SalesOK, Selling \/ Repairing \/ Exchanging \/ \E w \in Workers : GiveUp(w)
  PROVE  /\ SameReceived /\ requeued' = requeued
         /\ \/ \A x \in Pieces : item'[x] = "RETURNED" <=> item[x] = "RETURNED"
            \/ \E o \in Orders : CancelSold(o)
<1>1. UNCHANGED <<ret, requeued>>
  <2>1. CASE Selling
    BY <2>1 DEF Selling, SellHeld, LetGo, CancelSold, Hold, documents, history
  <2>2. CASE Repairing
    BY <2>2 DEF Repairing, ReadForIntake, TakeInKnown, TakeInGuest, CreateRepair, MoveRepair, HandBack, documents, history
  <2>3. CASE Exchanging
    BY <2>3 DEF Exchanging, CreateExchange, AssessExchange, CancelExchange, ReadForExchange, TakeOldIn, CompleteExchange,
                documents, history
  <2> QED BY <2>1, <2>2, <2>3 DEF GiveUp, documents
<1>2. SameReceived
  BY <1>1 DEF SameReceived
<1>3. ASSUME UNCHANGED item PROVE \A x \in Pieces : item'[x] = "RETURNED" <=> item[x] = "RETURNED"
  BY <1>3
<1>4. ASSUME NEW o \in Orders, SellHeld(o) \/ LetGo(o) \/ \E x \in Pieces : Hold(o, x)
      PROVE  \A x \in Pieces : item'[x] = "RETURNED" <=> item[x] = "RETURNED"
  BY <1>4, MayFrom DEF SellHeld, LetGo, Hold, Put, SalesOK
<1>5. CASE Selling
  BY <1>1, <1>2, <1>4, <1>5 DEF Selling
<1>6. ASSUME NEW w \in Workers, NEW x \in Pieces, TakeInGuest(w, x) \/ TakeOldIn(w, x)
      PROVE  \A y \in Pieces : item'[y] = "RETURNED" <=> item[y] = "RETURNED"
  BY <1>6, NoneAssumption, StatusesAre DEF TakeInGuest, TakeOldIn, Fresh, Put
<1>7. ASSUME NEW w \in Workers, TakeInKnown(w)
      PROVE  \A y \in Pieces : item'[y] = "RETURNED" <=> item[y] = "RETURNED"
  BY <1>7, MayFrom DEF TakeInKnown, Put
<1>8. ASSUME NEW d \in Repairs, NEW a \in DOMAIN RepairRules, HandBack(d, a)
      PROVE  \A y \in Pieces : item'[y] = "RETURNED" <=> item[y] = "RETURNED"
  BY <1>8, MayFrom DEF HandBack, Put
<1>9. CASE Repairing
  BY <1>1, <1>2, <1>3, <1>6, <1>7, <1>8, <1>9 DEF Repairing, ReadForIntake, CreateRepair, MoveRepair
<1>10. CASE Exchanging
  BY <1>1, <1>2, <1>3, <1>6, <1>10 DEF Exchanging, CreateExchange, AssessExchange, CancelExchange, ReadForExchange, CompleteExchange
<1>11. CASE \E w \in Workers : GiveUp(w)
  BY <1>1, <1>2, <1>3, <1>11 DEF GiveUp
<1> QED BY <1>5, <1>9, <1>10, <1>11

LEMMA CancelKept ==
  ASSUME TypeOK, KeptOK, NEW o \in Orders, CancelSold(o), \A x \in Pieces : CameBack(x) => CameBack(x)'
  PROVE  KeptOK'
<1>1. UNCHANGED <<ret, requeued, byHand>>
  BY DEF CancelSold, documents, history
<1>2. \A x : ReceivedFor(x)' = ReceivedFor(x)
  BY <1>1 DEF ReceivedFor
<1>3. \A x \in Pieces : item'[x] = item[x] \/ (item[x] = "SOLD" /\ item'[x] = "RETURNED" /\ x \in order[o].allocated)
  BY DEF CancelSold, Put
<1>4. \A x \in order[o].allocated : CameBack(x)'
  BY DEF CancelSold, CameBack, TypeOK, OrderDocs
<1>5. ASSUME NEW x \in Pieces \ (requeued \union byHand)
      PROVE  /\ item'[x] = "RETURNED" => /\ \A r, s \in ReceivedFor(x) : r = s
                                         /\ ReceivedFor(x) # {} \/ CameBack(x)'
             /\ item'[x] # "RETURNED" => ReceivedFor(x) = {}
  BY <1>3, <1>4 DEF KeptOK
<1> QED BY <1>1, <1>2, <1>5 DEF KeptOK

LEMMA ReceiveKept ==
  ASSUME TypeOK, KeptOK, NEW r \in Returns, ReceiveReturn(r), \A x \in Pieces : CameBack(x) => CameBack(x)'
  PROVE  KeptOK'
<1>1. /\ ret[r] # None /\ ret[r].status = "APPROVED" /\ ret'[r] # None /\ ret'[r].status = "RECEIVED"
      /\ ret'[r].lines = ret[r].lines /\ requeued' = requeued /\ byHand' = byHand
      /\ \A q \in Returns \ {r} : ret'[q] = ret[q]
  BY ReturnFrom, StatusMoved, ReturnStagesAre DEF ReceiveReturn, history
<1>2. \A x \in Pieces : IF x \in ret[r].lines THEN item[x] = "SOLD" /\ item'[x] = "RETURNED" ELSE item'[x] = item[x]
  BY MayFrom DEF ReceiveReturn, Put
<1>3. \A x \in Pieces : IF x \in ret[r].lines THEN ReceivedFor(x)' = ReceivedFor(x) \union {r} ELSE ReceivedFor(x)' = ReceivedFor(x)
  BY <1>1 DEF ReceivedFor
<1>4. ASSUME NEW x \in Pieces \ (requeued \union byHand)
      PROVE  /\ item'[x] = "RETURNED" => /\ \A c, s \in ReceivedFor(x)' : c = s
                                         /\ ReceivedFor(x)' # {} \/ CameBack(x)'
             /\ item'[x] # "RETURNED" => ReceivedFor(x)' = {}
  <2>1. CASE x \in ret[r].lines
    <3>1. ReceivedFor(x) = {}
      BY <1>2, <2>1 DEF KeptOK
    <3> QED BY <1>2, <1>3, <2>1, <3>1
  <2>2. CASE x \notin ret[r].lines
    BY <1>2, <1>3, <2>2 DEF KeptOK
  <2> QED BY <2>1, <2>2
<1> QED BY <1>1, <1>4 DEF KeptOK

LEMMA InspectKept ==
  ASSUME TypeOK, KeptOK, NEW r \in Returns, NEW good \in SUBSET Pieces, InspectReturn(r, good),
         \A x \in Pieces : CameBack(x) => CameBack(x)'
  PROVE  KeptOK'
<1>1. /\ ret[r] # None /\ ret[r].status = "RECEIVED" /\ ret'[r] # None /\ ret'[r].status = "INSPECTED"
      /\ ret'[r].lines = ret[r].lines /\ requeued' = requeued /\ byHand' = byHand
      /\ \A q \in Returns \ {r} : ret'[q] = ret[q]
  BY ReturnFrom, StatusMoved, ReturnStagesAre DEF InspectReturn, history
<1>2. \A x \in Pieces : IF x \in ret[r].lines THEN item[x] = "RETURNED" /\ item'[x] # "RETURNED" ELSE item'[x] = item[x]
  BY MayFrom DEF InspectReturn
<1>3. \A x \in Pieces : IF x \in ret[r].lines THEN r \in ReceivedFor(x) /\ ReceivedFor(x)' = ReceivedFor(x) \ {r}
                        ELSE ReceivedFor(x)' = ReceivedFor(x)
  BY <1>1 DEF ReceivedFor
<1>4. ASSUME NEW x \in Pieces \ (requeued \union byHand)
      PROVE  /\ item'[x] = "RETURNED" => /\ \A c, s \in ReceivedFor(x)' : c = s
                                         /\ ReceivedFor(x)' # {} \/ CameBack(x)'
             /\ item'[x] # "RETURNED" => ReceivedFor(x)' = {}
  <2>1. CASE x \in ret[r].lines
    BY <1>2, <1>3, <2>1 DEF KeptOK
  <2>2. CASE x \notin ret[r].lines
    BY <1>2, <1>3, <2>2 DEF KeptOK
  <2> QED BY <2>1, <2>2
<1> QED BY <1>1, <1>4 DEF KeptOK

LEMMA QueueKept ==
  ASSUME TypeOK, KeptOK, NEW y \in Pieces, NEW s \in {"AVAILABLE", "DAMAGED"}, InspectQueued(y, s),
         \A x \in Pieces : CameBack(x) => CameBack(x)'
  PROVE  KeptOK'
<1>1. /\ \A x : ReceivedFor(x)' = ReceivedFor(x)
      /\ requeued \subseteq requeued' /\ byHand' = byHand /\ (ReceivedFor(y) # {} => y \in requeued')
  BY DEF InspectQueued, documents, ReceivedFor
<1>2. \A x \in Pieces : item'[x] = IF x = y THEN s ELSE item[x]
  BY DEF InspectQueued, Put
<1>3. ASSUME NEW x \in Pieces \ (requeued' \union byHand')
      PROVE  /\ item'[x] = "RETURNED" => /\ \A c, d \in ReceivedFor(x)' : c = d
                                         /\ ReceivedFor(x)' # {} \/ CameBack(x)'
             /\ item'[x] # "RETURNED" => ReceivedFor(x)' = {}
  BY <1>1, <1>2 DEF KeptOK
<1> QED BY <1>3 DEF KeptOK

LEMMA NextKeptOK == ASSUME TypeOK, SalesOK, KeptOK, [Next]_vars PROVE KeptOK'
<1>1. \A x \in Pieces : CameBack(x) => CameBack(x)'
  BY CameBackStays
<1>2. CASE UNCHANGED vars
  <2>1. UNCHANGED <<item, ret, requeued, byHand>>
    BY <1>2 DEF vars, documents, history
  <2> QED BY <1>1, <2>1, QuietKept DEF SameReceived
<1>3. CASE Selling \/ Repairing \/ Exchanging \/ \E w \in Workers : GiveUp(w)
  BY <1>1, <1>3, UnsoldKept, QuietKept, CancelKept, DeskWorkMovesNothingByHand DEF DeskWork
<1>4. CASE Returning
  <2>1. ASSUME NEW w \in Workers, NEW r \in Returns, CreateReturn(w, r)
        PROVE  KeptOK'
    <3>1. SameReceived
      <4>1. /\ ret[r] = None
            /\ ret'[r] = [status |-> "REQUESTED", order |-> desk[w].order, lines |-> desk[w].lines]
            /\ \A s \in Returns \ {r} : ret'[s] = ret[s]
        BY <2>1, NewReturn
      <4>2. ret'[r].status # "RECEIVED"
        BY <4>1
      <4> QED BY <4>1, <4>2 DEF SameReceived
    <3>2. UNCHANGED <<item, requeued, byHand>>
      BY <2>1 DEF CreateReturn
    <3> QED BY <1>1, <3>1, <3>2, QuietKept
  <2>2. ASSUME NEW r \in Returns, NEW a \in {"approve", "reject", "settle", "cancel"}, MoveReturn(r, a)
        PROVE  KeptOK'
    <3>1. SameReceived
      BY <2>2, ReturnStep, ReturnStagesAre, StatusMoved DEF MoveReturn, ReturnMay, SameReceived
    <3>2. UNCHANGED <<item, requeued, byHand>>
      BY <2>2 DEF MoveReturn, history
    <3> QED BY <1>1, <3>1, <3>2, QuietKept
  <2>3. ASSUME NEW w \in Workers, NEW o \in Orders, NEW S \in (SUBSET Pieces) \ {{}}, ReadForRequest(w, o, S)
        PROVE  KeptOK'
    <3>1. UNCHANGED <<item, ret, requeued, byHand>>
      BY <2>3 DEF ReadForRequest, documents, history
    <3> QED BY <1>1, <3>1, QuietKept DEF SameReceived
  <2> QED BY <1>1, <1>4, <2>1, <2>2, <2>3, ReceiveKept, InspectKept, QueueKept DEF Returning
<1>5. ASSUME NEW x \in Pieces, NEW to \in Statuses, MoveByHand(x, to)
      PROVE  KeptOK'
  <2>1. UNCHANGED <<ret, requeued>> /\ byHand' = byHand \union {x} /\ \A y \in Pieces \ {x} : item'[y] = item[y]
    BY <1>5, MovedByHand
  <2> QED BY <1>1, <2>1, QuietKept DEF SameReceived
<1> QED BY <1>2, <1>3, <1>4, <1>5 DEF Next

-----------------------------------------------------------------------------
(* What the workers carry.                                                  *)

Has(w, task) == desk[w].task = task /\ desk[w].piece # None

SameHands(task) ==
  /\ \A w \in Workers : /\ Has(w, task)' <=> Has(w, task)
                        /\ Has(w, task) => desk'[w].piece = desk[w].piece
  /\ \A x \in Pieces : <<task, x>> \in adrift' <=> <<task, x>> \in adrift

LEMMA UnwrittenIs ==
  ASSUME NEW task \in {"intake", "exchange"}, NEW x \in Pieces
  PROVE  Unwritten(task, x) <=> <<task, x>> \in adrift \/ \E w \in Workers : Has(w, task) /\ desk[w].piece = x
<1>1. None \notin Pieces
  BY NoneAssumption
<1>2. \A w \in Workers : <<task, x>> \in InHand(w) <=> Has(w, task) /\ desk[w].piece = x
  BY <1>1 DEF InHand, Has
<1> QED BY <1>2 DEF Unwritten

LEMMA UnwrittenNext ==
  ASSUME NEW task \in {"intake", "exchange"}, NEW x \in Pieces
  PROVE  Unwritten(task, x)' <=> <<task, x>> \in adrift' \/ \E w \in Workers : Has(w, task)' /\ desk'[w].piece = x
<1>1. None \notin Pieces
  BY NoneAssumption
<1>2. \A w \in Workers : <<task, x>> \in InHand(w)' <=> Has(w, task)' /\ desk'[w].piece = x
  BY <1>1 DEF InHand, Has
<1> QED BY <1>2 DEF Unwritten

LEMMA HeldPieces ==
  ASSUME TypeOK, NEW task \in {"intake", "exchange"}, NEW w \in Workers, Has(w, task)
  PROVE  desk[w].piece \in Pieces
BY TaskTypes DEF Has

LEMMA SameHandsKept ==
  ASSUME TypeOK, TypeOK', NEW task \in {"intake", "exchange"}, HandsOK(task), SameHands(task), byHand \subseteq byHand'
  PROVE  HandsOK(task)' /\ \A x \in Pieces : Unwritten(task, x)' <=> Unwritten(task, x)
<1>1. HandsOK(task)'
  BY HeldPieces, NoneAssumption DEF HandsOK, SameHands, Has, Followed
<1>2. ASSUME NEW x \in Pieces
      PROVE  Unwritten(task, x)' <=> Unwritten(task, x)
  <2>1. Unwritten(task, x)' <=> <<task, x>> \in adrift' \/ \E w \in Workers : Has(w, task)' /\ desk'[w].piece = x
    BY UnwrittenNext
  <2> QED BY <2>1, UnwrittenIs DEF SameHands
<1> QED BY <1>1, <1>2

(* Taking a piece up, writing it down, and leaving it.                      *)
LEMMA TakenUp ==
  ASSUME TypeOK, TypeOK', NEW task \in {"intake", "exchange"}, HandsOK(task),
         NEW w \in Workers, NEW x \in Pieces, x \in Followed(task) => ~Unwritten(task, x), ~Has(w, task),
         desk'[w].task = task, desk'[w].piece = x, \A v \in Workers \ {w} : desk'[v] = desk[v], adrift' = adrift,
         byHand' = byHand
  PROVE  HandsOK(task)' /\ \A y \in Pieces : Unwritten(task, y)' <=> Unwritten(task, y) \/ y = x
<1>0. None \notin Pieces
  BY NoneAssumption
<1>1. x \in Followed(task) => \A v \in Workers : Has(v, task) => desk[v].piece # x
  BY UnwrittenIs
<1>2. x \in Followed(task) => <<task, x>> \notin adrift
  BY UnwrittenIs
<1>3. HandsOK(task)'
  BY <1>0, <1>1, <1>2, HeldPieces DEF HandsOK, Has, Followed
<1>4. ASSUME NEW y \in Pieces
      PROVE  Unwritten(task, y)' <=> Unwritten(task, y) \/ y = x
  <2>1. Unwritten(task, y)' <=> <<task, y>> \in adrift' \/ \E v \in Workers : Has(v, task)' /\ desk'[v].piece = y
    BY UnwrittenNext
  <2>2. \A v \in Workers : Has(v, task)' /\ desk'[v].piece = y <=> IF v = w THEN y = x ELSE Has(v, task) /\ desk[v].piece = y
    BY <1>0 DEF Has
  <2> QED BY <2>1, <2>2, UnwrittenIs
<1> QED BY <1>3, <1>4

LEMMA WrittenDown ==
  ASSUME TypeOK, TypeOK', NEW task \in {"intake", "exchange"}, HandsOK(task),
         NEW w \in Workers, Has(w, task), desk'[w] = Off, \A v \in Workers \ {w} : desk'[v] = desk[v], adrift' = adrift,
         byHand' = byHand
  PROVE  HandsOK(task)' /\ \A y \in Followed(task) : Unwritten(task, y)' <=> Unwritten(task, y) /\ y # desk[w].piece
<1>1. desk'[w].task = "none"
  BY DEF Off
<1>2. HandsOK(task)'
  BY <1>1 DEF HandsOK, Followed
<1>3. ASSUME NEW y \in Followed(task)
      PROVE  Unwritten(task, y)' <=> Unwritten(task, y) /\ y # desk[w].piece
  <2>1. Unwritten(task, y)' <=> <<task, y>> \in adrift' \/ \E v \in Workers : Has(v, task)' /\ desk'[v].piece = y
    BY UnwrittenNext DEF Followed
  <2>2. \A v \in Workers : Has(v, task)' /\ desk'[v].piece = y <=> v # w /\ Has(v, task) /\ desk[v].piece = y
    BY <1>1 DEF Has
  <2>3. y = desk[w].piece => \A v \in Workers : v # w /\ Has(v, task) => desk[v].piece # desk[w].piece
    BY DEF HandsOK, Has
  <2>4. y = desk[w].piece => <<task, desk[w].piece>> \notin adrift
    BY DEF HandsOK, Has
  <2> QED BY <2>1, <2>2, <2>3, <2>4, UnwrittenIs DEF Followed
<1> QED BY <1>2, <1>3

LEMMA LeftBehind ==
  ASSUME TypeOK, TypeOK', NEW task \in {"intake", "exchange"}, HandsOK(task), NEW w \in Workers, GiveUp(w)
  PROVE  HandsOK(task)' /\ \A y \in Pieces : Unwritten(task, y)' <=> Unwritten(task, y)
<1>1. /\ desk'[w].task = "none" /\ \A v \in Workers \ {w} : desk'[v] = desk[v]
      /\ adrift' = adrift \union InHand(w) /\ byHand' = byHand
  BY DEF GiveUp, Set, Off, TypeOK
<1>2. \A y \in Pieces : <<task, y>> \in adrift' <=> <<task, y>> \in adrift \/ (Has(w, task) /\ desk[w].piece = y)
  BY <1>1, NoneAssumption DEF InHand, Has
<1>3. \A v \in Workers : Has(v, task)' <=> v # w /\ Has(v, task)
  BY <1>1 DEF Has
<1>4. ASSUME NEW v \in Workers, desk'[v].task = task, desk'[v].piece \in Followed(task)
      PROVE  /\ <<task, desk'[v].piece>> \notin adrift'
             /\ \A u \in Workers : desk'[u].task = task /\ desk'[u].piece = desk'[v].piece => u = v
  <2>1. v # w /\ desk'[v] = desk[v] /\ Has(v, task) /\ desk[v].piece \in Followed(task)
    BY <1>1, <1>4, NoneAssumption DEF Has, Followed
  <2>2. desk[v].piece \in Pieces
    BY <2>1, HeldPieces
  <2>3. Has(w, task) => desk[w].piece # desk[v].piece
    BY <2>1 DEF HandsOK, Has
  <2>4. <<task, desk[v].piece>> \notin adrift
    BY <2>1 DEF HandsOK, Has
  <2>5. <<task, desk'[v].piece>> \notin adrift'
    BY <1>2, <2>1, <2>2, <2>3, <2>4
  <2>6. ASSUME NEW u \in Workers, desk'[u].task = task, desk'[u].piece = desk'[v].piece
        PROVE  u = v
    BY <1>1, <2>1, <2>6 DEF HandsOK, Has
  <2> QED BY <2>5, <2>6
<1>5. ASSUME NEW y \in Pieces
      PROVE  Unwritten(task, y)' <=> Unwritten(task, y)
  <2>1. Unwritten(task, y)' <=> <<task, y>> \in adrift' \/ \E v \in Workers : Has(v, task)' /\ desk'[v].piece = y
    BY UnwrittenNext
  <2> QED BY <1>1, <1>2, <1>3, <2>1, UnwrittenIs
<1> QED BY <1>1, <1>4, <1>5 DEF HandsOK, Followed

(* The steps that carry nothing.                                            *)
LEMMA EmptyHands ==
  ASSUME TypeOK, NEW w \in Workers, NEW d \in Tasks, desk' = [desk EXCEPT ![w] = d], adrift' = adrift,
         NEW task \in {"intake", "exchange"}, ~Has(w, task), d.task = task => d.piece = None
  PROVE  SameHands(task)
<1>1. desk'[w] = d /\ \A v \in Workers \ {w} : desk'[v] = desk[v]
  BY DEF TypeOK
<1> QED BY <1>1 DEF SameHands, Has

LEMMA QuietHands ==
  ASSUME NEW task \in {"intake", "exchange"}, UNCHANGED <<desk, adrift>>
  PROVE  SameHands(task)
BY DEF SameHands, Has

LEMMA SellingHands == ASSUME Selling, NEW task \in {"intake", "exchange"} PROVE SameHands(task)
<1>1. UNCHANGED <<desk, adrift>>
  BY DEF Selling, SellHeld, LetGo, CancelSold, Hold, history
<1> QED BY <1>1, QuietHands

LEMMA ReturningHands == ASSUME TypeOK, Returning, NEW task \in {"intake", "exchange"} PROVE SameHands(task)
<1>1. ASSUME UNCHANGED <<desk, adrift>> PROVE SameHands(task)
  BY <1>1, QuietHands
<1>2. ASSUME NEW w \in Workers, NEW o \in Orders, NEW S \in (SUBSET Pieces) \ {{}}, ReadForRequest(w, o, S)
      PROVE  SameHands(task)
  <2>1. [task |-> "request", order |-> o, lines |-> S] \in Tasks /\ ~Has(w, task)
    BY <1>2 DEF ReadForRequest, Idle, Off, Has, Tasks
  <2> QED BY <1>2, <2>1, EmptyHands DEF ReadForRequest, Set, history
<1>3. ASSUME NEW w \in Workers, NEW r \in Returns, CreateReturn(w, r)
      PROVE  SameHands(task)
  <2>1. Off \in Tasks /\ Off.task = "none" /\ ~Has(w, task)
    BY <1>3 DEF CreateReturn, Off, Has, Tasks
  <2> QED BY <1>3, <2>1, EmptyHands DEF CreateReturn, Set
<1> QED BY <1>1, <1>2, <1>3 DEF Returning, InspectQueued, MoveReturn, ReceiveReturn, InspectReturn, history

LEMMA RepairingHands ==
  ASSUME TypeOK, Repairing
  PROVE  /\ SameHands("exchange")
         /\ \/ SameHands("intake")
            \/ \E w \in Workers : \/ TakeInKnown(w) \/ \E x \in Pieces : TakeInGuest(w, x)
                                  \/ \E d \in Repairs : CreateRepair(w, d)
<1>1. ASSUME UNCHANGED <<desk, adrift>>, NEW task \in {"intake", "exchange"} PROVE SameHands(task)
  BY <1>1, QuietHands
<1>2. ASSUME NEW w \in Workers, NEW x \in Pieces, ReadForIntake(w, x), NEW task \in {"intake", "exchange"}
      PROVE  SameHands(task)
  <2>1. [task |-> "check", piece |-> x] \in Tasks /\ ~Has(w, task)
    BY <1>2 DEF ReadForIntake, Idle, Off, Has, Tasks
  <2> QED BY <1>2, <2>1, EmptyHands DEF ReadForIntake, Set, history
<1>3. ASSUME NEW w \in Workers, TakeInKnown(w)
      PROVE  SameHands("exchange")
  <2>1. [desk[w] EXCEPT !.task = "intake"] \in Tasks /\ [desk[w] EXCEPT !.task = "intake"].task # "exchange"
    BY <1>3, TaskTypes DEF TakeInKnown, Tasks
  <2>2. ~Has(w, "exchange")
    BY <1>3 DEF TakeInKnown, Has
  <2> QED BY <1>3, <2>1, <2>2, EmptyHands DEF TakeInKnown, history
<1>4. ASSUME NEW w \in Workers, NEW x \in Pieces, TakeInGuest(w, x)
      PROVE  SameHands("exchange")
  <2>1. [task |-> "intake", piece |-> x] \in Tasks /\ ~Has(w, "exchange")
    BY <1>4 DEF TakeInGuest, Idle, Off, Has, Tasks
  <2> QED BY <1>4, <2>1, EmptyHands DEF TakeInGuest, Set, history
<1>5. ASSUME NEW w \in Workers, NEW d \in Repairs, CreateRepair(w, d)
      PROVE  SameHands("exchange")
  <2>1. Off \in Tasks /\ Off.task = "none" /\ ~Has(w, "exchange")
    BY <1>5 DEF CreateRepair, Off, Has, Tasks
  <2> QED BY <1>5, <2>1, EmptyHands DEF CreateRepair, Set, history
<1> QED BY <1>1, <1>2, <1>3, <1>4, <1>5 DEF Repairing, MoveRepair, HandBack, history

LEMMA ExchangingHands ==
  ASSUME TypeOK, Exchanging
  PROVE  /\ SameHands("intake")
         /\ \/ SameHands("exchange")
            \/ \E w \in Workers : CompleteExchange(w) \/ \E x \in Pieces : TakeOldIn(w, x)
<1>1. ASSUME UNCHANGED <<desk, adrift>>, NEW task \in {"intake", "exchange"} PROVE SameHands(task)
  BY <1>1, QuietHands
<1>2. ASSUME NEW w \in Workers, NEW e \in Exchanges, ReadForExchange(w, e), NEW task \in {"intake", "exchange"}
      PROVE  SameHands(task)
  <2>1. exch[e] \in ExchangeDocs
    BY <1>2 DEF ReadForExchange, ExchangeMay, TypeOK
  <2>2. [task |-> "exchange", exchange |-> e, value |-> exch[e].value, piece |-> None] \in Tasks /\ ~Has(w, task)
    BY <1>2, <2>1 DEF ReadForExchange, Idle, Off, Has, Tasks, ExchangeDocs
  <2> QED BY <1>2, <2>2, EmptyHands DEF ReadForExchange, Set, history
<1>3. ASSUME NEW w \in Workers, NEW x \in Pieces, TakeOldIn(w, x)
      PROVE  SameHands("intake")
  <2>1. [desk[w] EXCEPT !.piece = x] \in Tasks /\ [desk[w] EXCEPT !.piece = x].task # "intake"
    BY <1>3, TaskTypes DEF TakeOldIn, Tasks
  <2>2. ~Has(w, "intake")
    BY <1>3 DEF TakeOldIn, Has
  <2> QED BY <1>3, <2>1, <2>2, EmptyHands DEF TakeOldIn, history
<1>4. ASSUME NEW w \in Workers, CompleteExchange(w)
      PROVE  SameHands("intake")
  <2>1. Off \in Tasks /\ Off.task = "none" /\ ~Has(w, "intake")
    BY <1>4 DEF CompleteExchange, Off, Has, Tasks
  <2> QED BY <1>4, <2>1, EmptyHands DEF CompleteExchange, Set
<1> QED BY <1>1, <1>2, <1>3, <1>4 DEF Exchanging, CreateExchange, AssessExchange, CancelExchange, history

-----------------------------------------------------------------------------
(* Repairs.                                                                 *)

LEMMA QuietRepairs ==
  ASSUME RepairOK, HandsOK("intake")', \A x \in Pieces : Unwritten("intake", x)' <=> Unwritten("intake", x),
         UNCHANGED repair, byHand \subseteq byHand', \A x \in Pieces \ byHand' : item'[x] = "UNDER_REPAIR" <=> item[x] = "UNDER_REPAIR"
  PROVE  RepairOK'
<1>1. \A x : InRepairFor(x)' = InRepairFor(x)
  BY DEF InRepairFor
<1> QED BY <1>1 DEF RepairOK

(* The other desks take nothing out of repair.                              *)
LEMMA OthersRepair ==
  ASSUME TypeOK, SalesOK, Selling \/ Returning \/ Exchanging \/ \E w \in Workers : GiveUp(w)
  PROVE  UNCHANGED repair /\ \A x \in Pieces : item'[x] = "UNDER_REPAIR" <=> item[x] = "UNDER_REPAIR"
<1>1. ASSUME UNCHANGED item PROVE \A x \in Pieces : item'[x] = "UNDER_REPAIR" <=> item[x] = "UNDER_REPAIR"
  BY <1>1
<1>2. UNCHANGED repair
  <2>1. CASE Selling
    BY <2>1 DEF Selling, SellHeld, LetGo, CancelSold, Hold, documents
  <2>2. CASE Returning
    BY <2>2 DEF Returning, InspectQueued, ReadForRequest, CreateReturn, MoveReturn, ReceiveReturn, InspectReturn, documents
  <2>3. CASE Exchanging
    BY <2>3 DEF Exchanging, CreateExchange, AssessExchange, CancelExchange, ReadForExchange, TakeOldIn, CompleteExchange, documents
  <2> QED BY <2>1, <2>2, <2>3 DEF GiveUp, documents
<1>3. ASSUME NEW o \in Orders, SellHeld(o) \/ LetGo(o) \/ CancelSold(o) \/ \E x \in Pieces : Hold(o, x)
      PROVE  \A x \in Pieces : item'[x] = "UNDER_REPAIR" <=> item[x] = "UNDER_REPAIR"
  BY <1>3, MayFrom DEF SellHeld, LetGo, CancelSold, Hold, Put, SalesOK
<1>4. ASSUME NEW y \in Pieces, NEW s \in {"AVAILABLE", "DAMAGED"}, InspectQueued(y, s)
      PROVE  \A x \in Pieces : item'[x] = "UNDER_REPAIR" <=> item[x] = "UNDER_REPAIR"
  BY <1>4 DEF InspectQueued, Put
<1>5. ASSUME NEW r \in Returns, ReceiveReturn(r)
      PROVE  \A x \in Pieces : item'[x] = "UNDER_REPAIR" <=> item[x] = "UNDER_REPAIR"
  BY <1>5, MayFrom DEF ReceiveReturn, Put
<1>6. ASSUME NEW r \in Returns, NEW good \in SUBSET Pieces, InspectReturn(r, good)
      PROVE  \A x \in Pieces : item'[x] = "UNDER_REPAIR" <=> item[x] = "UNDER_REPAIR"
  <2>1. good \subseteq ret[r].lines /\ \A x \in ret[r].lines : item[x] = "RETURNED"
    BY <1>6, MayFrom DEF InspectReturn
  <2> QED BY <1>6, <2>1 DEF InspectReturn
<1>7. ASSUME NEW w \in Workers, NEW y \in Pieces, TakeOldIn(w, y)
      PROVE  \A x \in Pieces : item'[x] = "UNDER_REPAIR" <=> item[x] = "UNDER_REPAIR"
  BY <1>7, NoneAssumption, StatusesAre DEF TakeOldIn, Fresh, Put
<1>8. CASE Selling
  BY <1>2, <1>3, <1>8 DEF Selling
<1>9. CASE Returning
  BY <1>1, <1>2, <1>4, <1>5, <1>6, <1>9 DEF Returning, ReadForRequest, CreateReturn, MoveReturn
<1>10. CASE Exchanging
  BY <1>1, <1>2, <1>7, <1>10 DEF Exchanging, CreateExchange, AssessExchange, CancelExchange, ReadForExchange, CompleteExchange
<1>11. CASE \E w \in Workers : GiveUp(w)
  BY <1>1, <1>2, <1>11 DEF GiveUp
<1> QED BY <1>8, <1>9, <1>10, <1>11

(* The intake: into a hand, and out of it into a repair order.              *)
LEMMA IntakeRepairs ==
  ASSUME TypeOK, TypeOK', RepairOK, NEW w \in Workers, NEW x \in Pieces,
         UNCHANGED <<repair, adrift, byHand>>, item[x] # "UNDER_REPAIR", ~Has(w, "intake"),
         \A y \in Pieces : item'[y] = IF y = x THEN "UNDER_REPAIR" ELSE item[y],
         desk'[w].task = "intake", desk'[w].piece = x, \A v \in Workers \ {w} : desk'[v] = desk[v]
  PROVE  RepairOK'
<1>1. x \notin byHand => ~Unwritten("intake", x) /\ InRepairFor(x) = {}
  BY DEF RepairOK
<1>2. HandsOK("intake")' /\ \A y \in Pieces : Unwritten("intake", y)' <=> Unwritten("intake", y) \/ y = x
  BY <1>1, TakenUp DEF RepairOK, Followed
<1>3. \A y : InRepairFor(y)' = InRepairFor(y)
  BY DEF InRepairFor
<1> QED BY <1>1, <1>2, <1>3 DEF RepairOK

LEMMA CreateRepairs ==
  ASSUME TypeOK, TypeOK', RepairOK, NEW w \in Workers, NEW d \in Repairs, CreateRepair(w, d)
  PROVE  RepairOK'
<1> DEFINE x == desk[w].piece
<1>1. Has(w, "intake") /\ x \in Pieces
  BY TaskTypes, NoneAssumption DEF CreateRepair, Has
<1>2. [status |-> "INTAKE", piece |-> x] \in RepairDocs
  BY <1>1, RepairStagesAre DEF RepairDocs, RepairStages
<1>3. /\ repair[d] = None /\ repair'[d] = [status |-> "INTAKE", piece |-> x] /\ repair'[d] # None
      /\ \A c \in Repairs \ {d} : repair'[c] = repair[c]
  BY <1>2, NoneAssumption DEF CreateRepair, TypeOK
<1>4. /\ desk'[w] = Off /\ \A v \in Workers \ {w} : desk'[v] = desk[v]
      /\ UNCHANGED <<item, adrift, byHand>>
  BY DEF CreateRepair, Set, TypeOK, history
<1>5. HandsOK("intake")' /\ \A y \in Pieces \ byHand : Unwritten("intake", y)' <=> Unwritten("intake", y) /\ y # x
  BY <1>1, <1>4, WrittenDown DEF RepairOK, Followed
<1>6. Unwritten("intake", x)
  BY <1>1, UnwrittenIs
<1>7. x \notin byHand => InRepairFor(x) = {} /\ item[x] = "UNDER_REPAIR"
  BY <1>1, <1>6 DEF RepairOK
<1>8. repair'[d].piece = x /\ repair'[d].status = "INTAKE"
  BY <1>3
<1>9. \A y : InRepairFor(y)' = IF y = x THEN InRepairFor(y) \union {d} ELSE InRepairFor(y)
  BY <1>3, <1>8 DEF InRepairFor
<1> QED BY <1>1, <1>4, <1>5, <1>6, <1>7, <1>9 DEF RepairOK

LEMMA MovedRepairs ==
  ASSUME TypeOK, NEW d \in Repairs, NEW a \in DOMAIN RepairRules, RepairMay(d, a),
         repair' = [repair EXCEPT ![d].status = RepairRules[a].to]
  PROVE  /\ d \in InRepairFor(repair[d].piece) /\ repair[d].piece \in Pieces
         /\ \A x : InRepairFor(x)' = IF a \in HandsBack /\ x = repair[d].piece THEN InRepairFor(x) \ {d} ELSE InRepairFor(x)
<1>1. repair[d] \in RepairDocs /\ repair[d].status \notin Ended /\ repair[d] # None
  BY RepairStep DEF TypeOK
<1>2. [repair[d] EXCEPT !.status = RepairRules[a].to] \in RepairDocs
  BY <1>1, RepairStep, RepairStagesAre DEF RepairDocs
<1>3. /\ repair'[d] # None /\ repair'[d].piece = repair[d].piece /\ repair'[d].status = RepairRules[a].to
      /\ \A c \in Repairs \ {d} : repair'[c] = repair[c]
  BY <1>1, <1>2, NoneAssumption DEF TypeOK, RepairDocs
<1>4. (RepairRules[a].to \in Ended) <=> (a \in HandsBack)
  BY RepairStep
<1> QED BY <1>1, <1>3, <1>4 DEF InRepairFor, RepairDocs, Ended

LEMMA HandBackRepairs ==
  ASSUME TypeOK, TypeOK', RepairOK, NEW d \in Repairs, NEW a \in DOMAIN RepairRules, HandBack(d, a)
  PROVE  RepairOK'
<1> DEFINE x == repair[d].piece
<1>1. /\ d \in InRepairFor(x) /\ x \in Pieces
      /\ \A y : InRepairFor(y)' = IF y = x THEN InRepairFor(y) \ {d} ELSE InRepairFor(y)
  BY MovedRepairs DEF HandBack
<1>2. /\ \A y \in Pieces : y # x => item'[y] = item[y]
      /\ item'[x] # "UNDER_REPAIR"
  BY <1>1, MayFrom DEF HandBack, Put
<1>3. byHand' = byHand /\ HandsOK("intake")' /\ \A y \in Pieces : Unwritten("intake", y)' <=> Unwritten("intake", y)
  BY SameHandsKept, QuietHands DEF HandBack, history, RepairOK
<1> QED BY <1>1, <1>2, <1>3 DEF RepairOK

LEMMA NextRepairOK == ASSUME TypeOK, SalesOK, RepairOK, [Next]_vars PROVE RepairOK'
<1>0. TypeOK'
  BY NextTypeOK
<1>1. CASE UNCHANGED vars
  <2>1. UNCHANGED <<item, repair, desk, adrift, byHand>>
    BY <1>1 DEF vars, documents, history
  <2> QED BY <1>0, <2>1, QuietHands, SameHandsKept, QuietRepairs DEF RepairOK
<1>2. CASE Selling \/ Returning \/ Exchanging
  <2>1. SameHands("intake")
    BY <1>2, SellingHands, ReturningHands, ExchangingHands
  <2>2. byHand' = byHand
    BY <1>2, DeskWorkMovesNothingByHand DEF DeskWork
  <2> QED BY <1>0, <1>2, <2>1, <2>2, SameHandsKept, OthersRepair, QuietRepairs DEF RepairOK
<1>3. CASE \E w \in Workers : GiveUp(w)
  <2>1. HandsOK("intake")' /\ \A y \in Pieces : Unwritten("intake", y)' <=> Unwritten("intake", y)
    BY <1>0, <1>3, LeftBehind DEF RepairOK
  <2>2. byHand' = byHand
    BY <1>3 DEF GiveUp
  <2> QED BY <1>3, <2>1, <2>2, OthersRepair, QuietRepairs
<1>4. CASE Repairing
  <2>1. ASSUME NEW w \in Workers, TakeInKnown(w)
        PROVE  RepairOK'
    <3>1. desk[w].piece \in Pieces /\ item[desk[w].piece] # "UNDER_REPAIR" /\ ~Has(w, "intake")
      BY <2>1, MayFrom, TaskTypes DEF TakeInKnown, Has
    <3>2. /\ desk'[w].task = "intake" /\ desk'[w].piece = desk[w].piece
          /\ \A v \in Workers \ {w} : desk'[v] = desk[v]
      BY <2>1, TaskTypes DEF TakeInKnown, TypeOK, Tasks, Off
    <3>3. /\ UNCHANGED <<repair, adrift, byHand>>
          /\ \A y \in Pieces : item'[y] = IF y = desk[w].piece THEN "UNDER_REPAIR" ELSE item[y]
      BY <2>1 DEF TakeInKnown, Put, documents, history
    <3> QED BY <1>0, <3>1, <3>2, <3>3, IntakeRepairs
  <2>2. ASSUME NEW w \in Workers, NEW x \in Pieces, TakeInGuest(w, x)
        PROVE  RepairOK'
    <3>1. item[x] # "UNDER_REPAIR" /\ ~Has(w, "intake")
      BY <2>2, NoneAssumption, StatusesAre DEF TakeInGuest, Fresh, Idle, Off, Has
    <3>2. /\ desk'[w].task = "intake" /\ desk'[w].piece = x
          /\ \A v \in Workers \ {w} : desk'[v] = desk[v]
      BY <2>2 DEF TakeInGuest, Set, TypeOK
    <3>3. /\ UNCHANGED <<repair, adrift, byHand>>
          /\ \A y \in Pieces : item'[y] = IF y = x THEN "UNDER_REPAIR" ELSE item[y]
      BY <2>2 DEF TakeInGuest, Put, documents, history
    <3> QED BY <1>0, <3>1, <3>2, <3>3, IntakeRepairs
  <2>3. ASSUME NEW w \in Workers, NEW x \in Pieces, ReadForIntake(w, x)
        PROVE  RepairOK'
    <3>1. UNCHANGED <<item, repair, byHand>>
      BY <2>3 DEF ReadForIntake, documents, history
    <3>2. [task |-> "check", piece |-> x] \in Tasks /\ ~Has(w, "intake")
      BY <2>3 DEF ReadForIntake, Idle, Off, Has, Tasks
    <3>3. SameHands("intake")
      BY <2>3, <3>2, EmptyHands DEF ReadForIntake, Set, history
    <3> QED BY <1>0, <3>1, <3>3, SameHandsKept, QuietRepairs DEF RepairOK
  <2>4. ASSUME NEW d \in Repairs, NEW a \in DOMAIN RepairRules, MoveRepair(d, a)
        PROVE  RepairOK'
    <3>1. UNCHANGED <<item, desk, adrift, byHand>> /\ a \notin HandsBack
      BY <2>4 DEF MoveRepair, history
    <3>2. \A x : InRepairFor(x)' = InRepairFor(x)
      BY <2>4, MovedRepairs DEF MoveRepair
    <3>3. HandsOK("intake")' /\ \A y \in Pieces : Unwritten("intake", y)' <=> Unwritten("intake", y)
      BY <1>0, <3>1, QuietHands, SameHandsKept DEF RepairOK
    <3> QED BY <3>1, <3>2, <3>3 DEF RepairOK
  <2> QED BY <1>0, <1>4, <2>1, <2>2, <2>3, <2>4, CreateRepairs, HandBackRepairs DEF Repairing
<1>5. ASSUME NEW x \in Pieces, NEW to \in Statuses, MoveByHand(x, to)
      PROVE  RepairOK'
  <2>1. /\ UNCHANGED <<repair, desk, adrift>> /\ byHand' = byHand \union {x}
        /\ \A y \in Pieces \ {x} : item'[y] = item[y]
    BY <1>5, MovedByHand
  <2>2. HandsOK("intake")' /\ \A y \in Pieces : Unwritten("intake", y)' <=> Unwritten("intake", y)
    BY <1>0, <2>1, QuietHands, SameHandsKept DEF RepairOK
  <2> QED BY <2>1, <2>2, QuietRepairs
<1> QED BY <1>1, <1>2, <1>3, <1>4, <1>5 DEF Next

-----------------------------------------------------------------------------
(* Exchanges.                                                               *)

ClosingOK(e) ==
  exch[e] # None =>
    /\ (exch[e].status = "COMPLETED") = (exch[e].oldItem # None)
    /\ exch[e].status = "COMPLETED" /\ e \notin revalued => exch[e].difference = Price - exch[e].value

LEMMA QuietExchanges ==
  ASSUME ExchangeOK, HandsOK("exchange")', \A x \in Pieces : Unwritten("exchange", x)' <=> Unwritten("exchange", x),
         UNCHANGED shift, \A x \in Pieces : item'[x] = None => item[x] = None /\ x \notin guest',
         \A x \in Pieces : x \in Old' <=> x \in Old, \A x \in Pieces : ClosedWith(x)' = ClosedWith(x),
         \A e \in Exchanges : ClosingOK(e)'
  PROVE  ExchangeOK'
BY DEF ExchangeOK, ClosingOK

LEMMA SameOld ==
  ASSUME UNCHANGED <<shift, guest>>, \A x \in Pieces : item'[x] = None <=> item[x] = None
  PROVE  \A x \in Pieces : x \in Old' <=> x \in Old
BY DEF Old

LEMMA SameClosed ==
  ASSUME ExchangeOK, UNCHANGED <<exch, revalued>>
  PROVE  /\ \A x \in Pieces : ClosedWith(x)' = ClosedWith(x)
         /\ \A e \in Exchanges : ClosingOK(e)'
BY DEF ClosedWith, ClosingOK, ExchangeOK

(* The other desks: a piece that exists goes on existing.                   *)
LEMMA OthersExchange ==
  ASSUME TypeOK, SalesOK, Selling \/ Returning \/ Repairing \/ \E w \in Workers : GiveUp(w)
  PROVE  /\ UNCHANGED <<exch, revalued, shift>>
         /\ \/ UNCHANGED guest /\ \A x \in Pieces : item'[x] = None <=> item[x] = None
            \/ \E w \in Workers, x \in Pieces : TakeInGuest(w, x)
<1>0. None \notin Statuses
  BY NoneAssumption
<1> DEFINE Lasting == UNCHANGED guest /\ \A x \in Pieces : item'[x] = None <=> item[x] = None
<1>1. UNCHANGED <<exch, revalued, shift>>
  <2>1. CASE Selling
    BY <2>1 DEF Selling, SellHeld, LetGo, CancelSold, Hold, documents, history
  <2>2. CASE Returning
    BY <2>2 DEF Returning, InspectQueued, ReadForRequest, CreateReturn, MoveReturn, ReceiveReturn, InspectReturn, documents, history
  <2>3. CASE Repairing
    BY <2>3 DEF Repairing, ReadForIntake, TakeInKnown, TakeInGuest, CreateRepair, MoveRepair, HandBack, documents, history
  <2> QED BY <2>1, <2>2, <2>3 DEF GiveUp, documents
<1>2. CASE Selling
  <2>1. ASSUME NEW o \in Orders, SellHeld(o) \/ LetGo(o) \/ CancelSold(o) \/ \E x \in Pieces : Hold(o, x)
        PROVE  Lasting
    BY <1>0, <2>1, StatusesAre, MayFrom DEF SellHeld, LetGo, CancelSold, Hold, Put, SalesOK
  <2> QED BY <1>1, <1>2, <2>1 DEF Selling
<1>3. CASE Returning
  <2>1. ASSUME NEW x \in Pieces, NEW s \in {"AVAILABLE", "DAMAGED"}, InspectQueued(x, s)
        PROVE  Lasting
    BY <1>0, <2>1, StatusesAre DEF InspectQueued, Put
  <2>2. ASSUME NEW r \in Returns, ReceiveReturn(r)
        PROVE  Lasting
    BY <1>0, <2>2, StatusesAre, MayFrom DEF ReceiveReturn, Put
  <2>3. ASSUME NEW r \in Returns, NEW good \in SUBSET Pieces, InspectReturn(r, good)
        PROVE  Lasting
    <3>1. good \subseteq ret[r].lines /\ \A x \in ret[r].lines : item[x] = "RETURNED"
      BY <2>3, MayFrom DEF InspectReturn
    <3> QED BY <1>0, <2>3, <3>1, StatusesAre DEF InspectReturn
  <2>4. ASSUME UNCHANGED <<item, guest>>
        PROVE  Lasting
    BY <2>4
  <2> QED BY <1>1, <1>3, <2>1, <2>2, <2>3, <2>4 DEF Returning, ReadForRequest, CreateReturn, MoveReturn
<1>4. CASE Repairing
  <2>1. ASSUME NEW w \in Workers, TakeInKnown(w)
        PROVE  Lasting
    BY <1>0, <2>1, StatusesAre, MayFrom DEF TakeInKnown, Put
  <2>2. ASSUME NEW d \in Repairs, NEW a \in DOMAIN RepairRules, HandBack(d, a)
        PROVE  Lasting
    BY <1>0, <2>2, StatusesAre, MayFrom DEF HandBack, Put
  <2>3. ASSUME UNCHANGED <<item, guest>>
        PROVE  Lasting
    BY <2>3
  <2> QED BY <1>1, <1>4, <2>1, <2>2, <2>3 DEF Repairing, ReadForIntake, CreateRepair, MoveRepair
<1>5. CASE \E w \in Workers : GiveUp(w)
  BY <1>1, <1>5 DEF GiveUp
<1> QED BY <1>2, <1>3, <1>4, <1>5

LEMMA GuestExchanges ==
  ASSUME TypeOK, TypeOK', ExchangeOK, NEW w \in Workers, NEW x \in Pieces, TakeInGuest(w, x), SameHands("exchange")
  PROVE  ExchangeOK'
<1>1. /\ guest' = guest \union {x} /\ UNCHANGED <<exch, revalued, shift>>
      /\ item[x] = None /\ item'[x] = "UNDER_REPAIR" /\ \A y \in Pieces : y # x => item'[y] = item[y]
  BY DEF TakeInGuest, Fresh, Put, documents, history
<1>2. \A y \in Pieces : item'[y] = None => item[y] = None /\ y # x
  BY <1>1, NoneAssumption, StatusesAre
<1>3. \A y \in Pieces : y \in Old' <=> y \in Old
  BY <1>1 DEF Old, ExchangeOK
<1>4. HandsOK("exchange")' /\ \A y \in Pieces : Unwritten("exchange", y)' <=> Unwritten("exchange", y)
  BY SameHandsKept DEF ExchangeOK, TakeInGuest, history
<1>5. \A y \in Pieces : item'[y] = None => item[y] = None /\ y \notin guest'
  BY <1>1, <1>2 DEF ExchangeOK
<1> QED BY <1>1, <1>3, <1>4, <1>5, SameClosed, QuietExchanges

LEMMA TakenOldIn ==
  ASSUME TypeOK, TypeOK', ExchangeOK, NEW w \in Workers, NEW x \in Pieces, TakeOldIn(w, x)
  PROVE  ExchangeOK'
<1>1. /\ UNCHANGED <<guest, exch, revalued, shift, adrift, byHand>>
      /\ item[x] = None /\ item'[x] = "AVAILABLE" /\ \A y \in Pieces : y # x => item'[y] = item[y]
  BY DEF TakeOldIn, Fresh, Put, documents, history
<1>2. x \notin guest /\ shift.item[x] = None /\ x \notin Old
  BY <1>1 DEF ExchangeOK, Old
<1>3. "AVAILABLE" # None
  BY NoneAssumption, StatusesAre
<1>4. \A y \in Pieces : y \in Old' <=> y \in Old \/ y = x
  BY <1>1, <1>2, <1>3 DEF Old
<1>5. ~Unwritten("exchange", x) /\ ClosedWith(x) = {}
  BY <1>2 DEF ExchangeOK
<1>6. ~Has(w, "exchange") /\ desk[w].task = "exchange"
  BY DEF TakeOldIn, Has
<1>7. /\ desk'[w] = [desk[w] EXCEPT !.piece = x]
      /\ \A v \in Workers \ {w} : desk'[v] = desk[v]
  BY DEF TakeOldIn, TypeOK
<1>8. desk'[w].task = "exchange" /\ desk'[w].piece = x
  BY <1>6, <1>7, TaskTypes
<1>9. HandsOK("exchange")' /\ \A y \in Pieces : Unwritten("exchange", y)' <=> Unwritten("exchange", y) \/ y = x
  <2>1. HandsOK("exchange") /\ UNCHANGED <<adrift, byHand>>
    BY <1>1 DEF ExchangeOK
  <2> QED BY <1>5, <1>6, <1>7, <1>8, <2>1, TakenUp, ZenonT(40)
<1>10. \A y \in Pieces : ClosedWith(y)' = ClosedWith(y)
  BY <1>1, SameClosed
<1>11. \A e \in Exchanges : ClosingOK(e)'
  BY <1>1, SameClosed
<1>12. \A y \in Pieces : item'[y] = None => y \notin guest' /\ shift'.item[y] = None
  BY <1>1, <1>3 DEF ExchangeOK
<1> QED BY <1>4, <1>5, <1>9, <1>10, <1>11, <1>12 DEF ExchangeOK, ClosingOK

LEMMA ExchangeClosed ==
  ASSUME TypeOK, TypeOK', ExchangeOK, NEW w \in Workers, CompleteExchange(w)
  PROVE  ExchangeOK'
<1> DEFINE e == desk[w].exchange
           x == desk[w].piece
<1>1. Has(w, "exchange") /\ x \in Pieces /\ e \in Exchanges /\ x # None
  BY TaskTypes, NoneAssumption DEF CompleteExchange, Has
<1>2. exch[e] # None /\ exch[e].status = "ASSESSED" /\ exch[e] \in ExchangeDocs
  BY <1>1, ExchangeFrom DEF CompleteExchange, Closable, TypeOK, ExchangeRules
<1>3. exch[e].oldItem = None
  BY <1>1, <1>2 DEF ExchangeOK
<1>4. /\ exch' = [exch EXCEPT ![e] = [exch[e] EXCEPT !.status = "COMPLETED", !.oldItem = x,
                                                     !.difference = Price - desk[w].value]]
      /\ revalued' = IF desk[w].value = exch[e].value THEN revalued ELSE revalued \union {e}
      /\ UNCHANGED <<item, guest, shift, adrift, byHand>>
      /\ desk'[w] = Off /\ \A v \in Workers \ {w} : desk'[v] = desk[v]
  BY DEF CompleteExchange, Set, TypeOK
<1>5. /\ exch'[e].status = "COMPLETED" /\ exch'[e].oldItem = x /\ exch'[e].difference = Price - desk[w].value
      /\ exch'[e].value = exch[e].value
      /\ \A c \in Exchanges \ {e} : exch'[c] = exch[c]
  BY <1>1, <1>2, <1>4 DEF TypeOK, ExchangeDocs
<1>6. exch'[e] # None
  <2>1. exch'[e] = [exch[e] EXCEPT !.status = "COMPLETED", !.oldItem = x, !.difference = Price - desk[w].value]
    BY <1>1, <1>4 DEF TypeOK
  <2>2. desk[w].value \in Nat
    BY TaskTypes, AfterSalesAssumption DEF CompleteExchange
  <2>3. exch'[e] \in ExchangeDocs
    <3>1. [exch[e] EXCEPT !.status = "COMPLETED", !.oldItem = x, !.difference = Price - desk[w].value] \in ExchangeDocs
      BY <1>1, <1>2, <2>2, ClosedType, AfterSalesAssumption
    <3> QED BY <2>1, <3>1, Zenon
  <2> QED BY <2>3, NoneAssumption
<1>7. Unwritten("exchange", x)
  BY <1>1, UnwrittenIs
<1>8. ClosedWith(x) = {} /\ x \in Old
  BY <1>1, <1>7 DEF ExchangeOK
<1>9. HandsOK("exchange")' /\ \A y \in Pieces : Unwritten("exchange", y)' <=> Unwritten("exchange", y) /\ y # x
  BY <1>1, <1>4, WrittenDown DEF ExchangeOK, Followed
<1>10. \A y \in Pieces : ClosedWith(y)' = IF y = x THEN {e} ELSE ClosedWith(y)
  BY <1>1, <1>3, <1>5, <1>6, <1>8, NoneAssumption DEF ClosedWith
<1>11. ASSUME NEW c \in Exchanges
       PROVE  ClosingOK(c)'
  <2>1. CASE c = e
    <3>1. e \notin revalued' => desk[w].value = exch[e].value
      BY <1>4
    <3> QED BY <1>1, <1>5, <2>1, <3>1 DEF ClosingOK
  <2>2. CASE c # e
    BY <1>4, <1>5, <2>2 DEF ClosingOK, ExchangeOK
  <2> QED BY <2>1, <2>2
<1>12. \A y \in Pieces : y \in Old' <=> y \in Old
  BY <1>4, SameOld
<1>13. \A y \in Pieces : item'[y] = None => y \notin guest' /\ shift'.item[y] = None
  BY <1>4 DEF ExchangeOK
<1> QED BY <1>8, <1>9, <1>10, <1>11, <1>12, <1>13 DEF ExchangeOK, ClosingOK

(* Opening, valuing and cancelling an exchange involve no piece.            *)
LEMMA ExchangeOpen ==
  ASSUME TypeOK, TypeOK', ExchangeOK, NEW e \in Exchanges,
         \/ \E v \in Values : CreateExchange(e, v) \/ AssessExchange(e, v)
         \/ CancelExchange(e)
  PROVE  ExchangeOK'
<1>1. UNCHANGED <<item, guest, desk, adrift, revalued, byHand, shift>>
  BY DEF CreateExchange, AssessExchange, CancelExchange, history
<1>2. \A c \in Exchanges \ {e} : exch'[c] = exch[c]
  BY DEF CreateExchange, AssessExchange, CancelExchange, TypeOK
<1>3. /\ exch'[e].status # "COMPLETED" /\ exch'[e].oldItem = None
      /\ exch[e] # None => exch[e].oldItem = None
  <2>1. ASSUME NEW v \in Values, CreateExchange(e, v)
        PROVE  exch'[e].status # "COMPLETED" /\ exch'[e].oldItem = None /\ exch[e] = None
    <3>1. exch'[e] = [status |-> "ASSESSED", value |-> v, oldItem |-> None, difference |-> 0]
      BY <2>1 DEF CreateExchange, TypeOK
    <3> QED BY <2>1, <3>1 DEF CreateExchange
  <2>2. ASSUME NEW a \in DOMAIN ExchangeRules, ExchangeMay(e, a)
        PROVE  exch[e] \in ExchangeDocs /\ exch[e].status = "ASSESSED" /\ exch[e].oldItem = None
    BY <2>2, ExchangeFrom DEF TypeOK, ExchangeOK
  <2>3. ASSUME NEW v \in Values, AssessExchange(e, v)
        PROVE  exch'[e].status # "COMPLETED" /\ exch'[e].oldItem = None /\ exch[e].oldItem = None
    BY <2>2, <2>3 DEF AssessExchange, TypeOK, ExchangeDocs, ExchangeRules
  <2>4. ASSUME CancelExchange(e)
        PROVE  exch'[e].status # "COMPLETED" /\ exch'[e].oldItem = None /\ exch[e].oldItem = None
    BY <2>2, <2>4 DEF CancelExchange, TypeOK, ExchangeDocs, ExchangeRules
  <2> QED BY <2>1, <2>3, <2>4
<1>4. \A x \in Pieces : ClosedWith(x)' = ClosedWith(x)
  BY <1>2, <1>3, NoneAssumption DEF ClosedWith
<1>5. \A c \in Exchanges : ClosingOK(c)'
  BY <1>1, <1>2, <1>3 DEF ClosingOK, ExchangeOK
<1>6. HandsOK("exchange")' /\ \A y \in Pieces : Unwritten("exchange", y)' <=> Unwritten("exchange", y)
  BY <1>1, QuietHands, SameHandsKept DEF ExchangeOK
<1>7. \A x \in Pieces : x \in Old' <=> x \in Old
  BY <1>1, SameOld
<1>8. \A x \in Pieces : item'[x] = None => item[x] = None /\ x \notin guest'
  BY <1>1 DEF ExchangeOK
<1> QED BY <1>1, <1>4, <1>5, <1>6, <1>7, <1>8, QuietExchanges

LEMMA NextExchangeOK == ASSUME TypeOK, SalesOK, ExchangeOK, [Next]_vars PROVE ExchangeOK'
<1>0. TypeOK'
  BY NextTypeOK
<1>1. ASSUME UNCHANGED <<exch, revalued, shift, guest>>, \A x \in Pieces : item'[x] = None <=> item[x] = None,
             HandsOK("exchange")', \A y \in Pieces : Unwritten("exchange", y)' <=> Unwritten("exchange", y)
      PROVE  ExchangeOK'
  <2>1. \A x \in Pieces : item'[x] = None => item[x] = None /\ x \notin guest'
    BY <1>1 DEF ExchangeOK
  <2> QED BY <1>1, <2>1, SameClosed, SameOld, QuietExchanges
<1>2. CASE UNCHANGED vars
  <2>1. UNCHANGED <<item, guest, exch, desk, adrift, revalued, byHand, shift>>
    BY <1>2 DEF vars, documents, history
  <2>2. HandsOK("exchange")' /\ \A y \in Pieces : Unwritten("exchange", y)' <=> Unwritten("exchange", y)
    BY <1>0, <2>1, QuietHands, SameHandsKept DEF ExchangeOK
  <2> QED BY <1>1, <2>1, <2>2
<1>3. CASE Selling \/ Returning \/ Repairing
  <2>1. SameHands("exchange")
    BY <1>3, SellingHands, ReturningHands, RepairingHands
  <2>2. byHand' = byHand
    BY <1>3, DeskWorkMovesNothingByHand DEF DeskWork
  <2>3. HandsOK("exchange")' /\ \A y \in Pieces : Unwritten("exchange", y)' <=> Unwritten("exchange", y)
    BY <1>0, <2>1, <2>2, SameHandsKept DEF ExchangeOK
  <2> QED BY <1>0, <1>1, <1>3, <2>1, <2>3, OthersExchange, GuestExchanges
<1>4. CASE \E w \in Workers : GiveUp(w)
  <2>1. HandsOK("exchange")' /\ \A y \in Pieces : Unwritten("exchange", y)' <=> Unwritten("exchange", y)
    BY <1>0, <1>4, LeftBehind DEF ExchangeOK
  <2>2. UNCHANGED <<item, guest>>
    BY <1>4 DEF GiveUp
  <2> QED BY <1>1, <1>4, <2>1, <2>2, OthersExchange
<1>5. CASE Exchanging
  <2>1. ASSUME NEW w \in Workers, NEW e \in Exchanges, ReadForExchange(w, e)
        PROVE  ExchangeOK'
    <3>1. UNCHANGED <<item, guest, exch, adrift, revalued, byHand, shift>>
      BY <2>1 DEF ReadForExchange, documents, history
    <3>2. exch[e] \in ExchangeDocs
      BY <2>1 DEF ReadForExchange, ExchangeMay, TypeOK
    <3>3. [task |-> "exchange", exchange |-> e, value |-> exch[e].value, piece |-> None] \in Tasks /\ ~Has(w, "exchange")
      BY <2>1, <3>2 DEF ReadForExchange, Idle, Off, Has, Tasks, ExchangeDocs
    <3>4. SameHands("exchange")
      BY <2>1, <3>1, <3>3, EmptyHands DEF ReadForExchange, Set
    <3>5. HandsOK("exchange")' /\ \A y \in Pieces : Unwritten("exchange", y)' <=> Unwritten("exchange", y)
      BY <1>0, <3>1, <3>4, SameHandsKept DEF ExchangeOK
    <3> QED BY <1>1, <3>1, <3>5
  <2> QED BY <1>0, <1>5, <2>1, TakenOldIn, ExchangeClosed, ExchangeOpen DEF Exchanging
<1>6. ASSUME NEW x \in Pieces, NEW to \in Statuses, MoveByHand(x, to)
      PROVE  ExchangeOK'
  <2>1. UNCHANGED <<guest, exch, desk, adrift, revalued, shift>> /\ byHand' = byHand \union {x}
    BY <1>6, MovedByHand
  <2>2. HandsOK("exchange")' /\ \A y \in Pieces : Unwritten("exchange", y)' <=> Unwritten("exchange", y)
    BY <1>0, <2>1, QuietHands, SameHandsKept DEF ExchangeOK
  <2>3. \A y \in Pieces : item'[y] = None <=> item[y] = None
    BY <1>6, NoneAssumption DEF MoveByHand, Fresh, Put
  <2> QED BY <1>1, <2>1, <2>2, <2>3
<1> QED BY <1>2, <1>3, <1>4, <1>5, <1>6 DEF Next

-----------------------------------------------------------------------------
(* The theorems.                                                            *)

LEMMA InitIInv == Init => IInv
<1> SUFFICES ASSUME Init PROVE IInv
  OBVIOUS
<1>1. /\ shift \in Shifts /\ StartOK(shift) /\ item = shift.item /\ order = shift.order /\ buyer = shift.buyer
      /\ \A r \in Returns : ret[r] = None
      /\ \A d \in Repairs : repair[d] = None
      /\ \A e \in Exchanges : exch[e] = None
      /\ \A w \in Workers : desk[w] = Off /\ desk[w].task = "none"
      /\ guest = {} /\ adrift = {} /\ requeued = {} /\ byHand = {}
  BY ShiftsAssumption DEF Init, Off
<1>2. TypeOK
  BY InitTypeOK
<1>3. SalesOK
  <2>1. ASSUME NEW o \in Orders, NEW x \in order[o].allocated
        PROVE  /\ order[o].stage = "HELD" => item[x] = "RESERVED"
               /\ order[o].stage = "SOLD" => buyer[x] = o /\ item[x] \in Gone
    BY <1>1 DEF StartOK, Gone
  <2> QED BY <1>1, <2>1 DEF SalesOK, StartOK
<1>4. RequestsOK
  BY <1>1 DEF RequestsOK, Pending
<1>5. KeptOK
  <2>1. \A x : ReceivedFor(x) = {}
    BY <1>1 DEF ReceivedFor
  <2>2. \A x \in Pieces : item[x] = "RETURNED" => CameBack(x)
    BY <1>1 DEF StartOK, CameBack
  <2> QED BY <2>1, <2>2 DEF KeptOK
<1>6. \A task \in {"intake", "exchange"}, x \in Pieces : ~Unwritten(task, x)
  BY <1>1, UnwrittenIs DEF Has
<1>7. RepairOK
  <2>1. \A x : InRepairFor(x) = {}
    BY <1>1 DEF InRepairFor
  <2>2. \A x \in Pieces : item[x] # "UNDER_REPAIR"
    BY <1>1 DEF StartOK
  <2> QED BY <1>1, <1>6, <2>1, <2>2 DEF RepairOK, HandsOK
<1>8. ExchangeOK
  <2>1. Old = {}
    BY <1>1 DEF Old
  <2>2. \A x : ClosedWith(x) = {}
    BY <1>1 DEF ClosedWith
  <2> QED BY <1>1, <1>6, <2>1, <2>2 DEF ExchangeOK, HandsOK
<1> QED BY <1>2, <1>3, <1>4, <1>5, <1>7, <1>8 DEF IInv

LEMMA NextIInv == IInv /\ [Next]_vars => IInv'
BY NextTypeOK, NextSalesOK, NextRequestsOK, NextKeptOK, NextRepairOK, NextExchangeOK DEF IInv

THEOREM AfterSalesInvariant == Spec => []IInv
BY InitIInv, NextIInv, PTL DEF Spec

(* Pieces, documents and desks always have their types.                     *)
THEOREM AfterSalesTypes == Spec => []TypeOK
BY AfterSalesInvariant, PTL DEF IInv

LEMMA OneIn == ASSUME NEW S, \A c, d \in S : c = d, S # {} PROVE Cardinality(S) = 1
<1>1. PICK c \in S : S = {c}
  OBVIOUS
<1> QED BY <1>1, FS_Singleton

LEMMA KeptByIInv == IInv => KeptForOneDocument
<1> SUFFICES ASSUME IInv, NEW x \in Pieces \ byHand
             PROVE  /\ item[x] = "RETURNED" => \/ Cardinality(ReceivedFor(x)) = 1
                                               \/ \E o \in Orders : order[o].stage = "CANCELLED" /\ x \in order[o].allocated
                                               \/ x \in requeued
                    /\ item[x] # "RETURNED" => ReceivedFor(x) = {} \/ x \in requeued
                    /\ Cardinality(InRepairFor(x)) = IF item[x] = "UNDER_REPAIR" /\ ~Unwritten("intake", x) THEN 1 ELSE 0
  BY DEF KeptForOneDocument
<1>1. item[x] = "RETURNED" => \/ Cardinality(ReceivedFor(x)) = 1 \/ CameBack(x) \/ x \in requeued
  BY OneIn DEF IInv, KeptOK
<1>2. item[x] # "RETURNED" => ReceivedFor(x) = {} \/ x \in requeued
  BY DEF IInv, KeptOK
<1>3. CASE InRepairFor(x) = {}
  BY <1>1, <1>2, <1>3, FS_EmptySet DEF IInv, RepairOK, CameBack
<1>4. CASE InRepairFor(x) # {}
  <2>1. Cardinality(InRepairFor(x)) = 1
    BY <1>4, OneIn DEF IInv, RepairOK
  <2> QED BY <1>1, <1>2, <1>4, <2>1 DEF IInv, RepairOK, CameBack
<1> QED BY <1>3, <1>4

(* A piece in the shop's keeping is there for one return, one cancelled     *)
(* order or one open repair order, unless the inspection queue took it out  *)
(* of its return, the intake has not written its repair order, or staff     *)
(* have moved the piece by hand.                                            *)
THEOREM AlwaysKeptForOne == Spec => []KeptForOneDocument
BY AfterSalesInvariant, KeptByIInv, PTL

LEMMA TakenByIInv == IInv => TakenInOnce
<1> SUFFICES ASSUME IInv PROVE TakenInOnce
  OBVIOUS
<1>1. ASSUME NEW x \in Old
      PROVE  Cardinality(ClosedWith(x)) = IF Unwritten("exchange", x) THEN 0 ELSE 1
  <2>1. x \in Pieces
    BY DEF Old
  <2>2. CASE ClosedWith(x) = {}
    BY <2>1, <2>2, FS_EmptySet DEF IInv, ExchangeOK
  <2>3. CASE ClosedWith(x) # {}
    <3>1. Cardinality(ClosedWith(x)) = 1
      BY <2>1, <2>3, OneIn DEF IInv, ExchangeOK
    <3> QED BY <2>1, <2>3, <3>1 DEF IInv, ExchangeOK
  <2> QED BY <2>2, <2>3
<1> QED BY <1>1 DEF TakenInOnce, ClosedWith, IInv, ExchangeOK

(* A piece taken in exchange is the old item of exactly one completed       *)
(* exchange, unless the request is still between its two transactions or    *)
(* died there.                                                              *)
THEOREM AlwaysTakenInOnce == Spec => []TakenInOnce
BY AfterSalesInvariant, TakenByIInv, PTL

LEMMA ReceivedSteps ==
  ASSUME TypeOK, [Next]_vars, NEW r \in Returns, ret[r] # None, ret[r].status = "APPROVED", ret'[r].status = "RECEIVED"
  PROVE  ReceiveReturn(r)
<1>1. UNCHANGED ret => FALSE
  OBVIOUS
<1>2. ASSUME NEW w \in Workers, NEW s \in Returns, CreateReturn(w, s)
      PROVE  FALSE
  BY <1>2, NewReturn
<1>3. ASSUME NEW s \in Returns, NEW a \in {"approve", "reject", "settle", "cancel"}, MoveReturn(s, a)
      PROVE  FALSE
  BY <1>3, ReturnStep, ReturnStagesAre, StatusMoved DEF MoveReturn, ReturnMay
<1>4. ASSUME NEW s \in Returns, NEW good, InspectReturn(s, good)
      PROVE  FALSE
  BY <1>4, ReturnFrom, ReturnStagesAre, StatusMoved DEF InspectReturn
<1>5. ASSUME NEW s \in Returns, s # r, ReceiveReturn(s)
      PROVE  FALSE
  BY <1>5 DEF ReceiveReturn, TypeOK
<1>6. CASE Returning
  BY <1>1, <1>2, <1>3, <1>4, <1>5, <1>6 DEF Returning, InspectQueued, ReadForRequest, documents
<1>7. CASE Selling
  BY <1>1, <1>7 DEF Selling, SellHeld, LetGo, CancelSold, Hold, documents
<1>8. CASE Repairing
  BY <1>1, <1>8 DEF Repairing, ReadForIntake, TakeInKnown, TakeInGuest, CreateRepair, MoveRepair, HandBack, documents
<1>9. CASE Exchanging
  BY <1>1, <1>9 DEF Exchanging, CreateExchange, AssessExchange, CancelExchange, ReadForExchange, TakeOldIn, CompleteExchange, documents
<1>10. CASE \E x \in Pieces, to \in Statuses : MoveByHand(x, to)
  BY <1>1, <1>10, MovedByHand
<1> QED BY <1>1, <1>6, <1>7, <1>8, <1>9, <1>10 DEF Next, GiveUp, vars, documents

LEMMA ReceivedTakesBack ==
  ASSUME IInv, [Next]_vars, NEW r \in Returns, ret[r] # None, ret[r].status = "APPROVED", ret'[r].status = "RECEIVED",
         NEW x \in ret[r].lines
  PROVE  buyer[x] = ret[r].order \/ order[ret[r].order].stage \in {"LAPSED", "CANCELLED"} \/ x \in crossed \union byHand
<1> SUFFICES ASSUME order[ret[r].order].stage \notin {"LAPSED", "CANCELLED"}, x \notin crossed \union byHand
             PROVE  buyer[x] = ret[r].order
  OBVIOUS
<1>1. Pending(r) /\ ret[r].order \in Orders
  BY DEF Pending, IInv, TypeOK, ReturnDocs
<1>2. /\ order[ret[r].order].stage = "SOLD" /\ x \in order[ret[r].order].allocated
      /\ \A s \in Returns : Open(s) /\ x \in ret[s].lines => s = r
  BY <1>1 DEF IInv, RequestsOK, RequestOK, Over
<1>3. ~Loose(x)
  BY <1>2 DEF Back, Loose, Open
<1> QED BY <1>1, <1>2, <1>3 DEF IInv, SalesOK

(* Whatever workers do beside it, a return that is received takes back      *)
(* pieces from the order they were last sold on, unless that order's sale   *)
(* was undone, the piece is named by two requests that crossed, or staff    *)
(* have moved it by hand.                                                   *)
THEOREM AlwaysTakesBack == Spec => ReturnTakesBackItsSale
<1>1. IInv /\ [Next]_vars =>
        [\A r \in Returns :
           (ret[r] # None /\ ret[r].status = "APPROVED" /\ ret'[r].status = "RECEIVED") =>
             \A x \in ret[r].lines : \/ buyer[x] = ret[r].order
                                     \/ order[ret[r].order].stage \in {"LAPSED", "CANCELLED"}
                                     \/ x \in crossed \union byHand]_vars
  BY ReceivedTakesBack
<1> QED BY <1>1, AfterSalesInvariant, PTL DEF Spec, ReturnTakesBackItsSale
=============================================================================
