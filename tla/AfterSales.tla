----------------------------- MODULE AfterSales -----------------------------
(***************************************************************************)
(* Pieces that come back over the counter: returns of what an order sold,  *)
(* repairs, and old jewellery taken in exchange (modules/returns/, repair/ *)
(* and exchange/).                                                         *)
(*                                                                         *)
(* A move of a document is a compare-and-set on its status; where it also  *)
(* moves pieces, one transaction does both, and it is one action.  Three   *)
(* handlers are not: the request for a return checks and then creates, the *)
(* intake of a repair moves the piece and then creates its order, and the  *)
(* completion of an exchange takes the old piece in and then closes the    *)
(* exchange.  They run in a worker.  Staff can also post a movement to or  *)
(* from a partner themselves, or have a correction approved, without any   *)
(* document of this module (inventory/stock-operations.ts).                *)
(*                                                                         *)
(* What orders do to pieces and to their own list of allocations is kept   *)
(* to its outcome; Orders and SalesOrders model it in detail.              *)
(***************************************************************************)
EXTENDS StockRules, Integers, FiniteSetsExt

CONSTANTS
  Pieces,
  Orders, Trade,      \* the orders, and which of them are B2B sales orders
  Returns, Repairs, Exchanges,
  Values,             \* valuations of old jewellery
  Price,              \* the new product of an exchange
  Workers,
  Shifts,             \* the kinds of work TLC combines, and the stock they start from
  None

ASSUME AfterSalesAssumption == Trade \subseteq Orders /\ Values \subseteq Nat /\ Price \in Nat

VARIABLES
  item,          \* status of each piece that exists
  guest,         \* pieces that belong to a customer (isCustomerOwned)
  order,         \* per order: how far its sale is, and the pieces its allocations name
  ret, repair, exch,
  desk,          \* what each worker is doing, and what it has read
  buyer,         \* history: the order each piece was last sold on
  crossed,       \* history: pieces named by two returns whose requests overlapped
  requeued,      \* history: pieces inspected outside the return they came in on
  adrift,        \* history: what was taken in, for a repair or an exchange, and never written down
  revalued,      \* history: exchanges closed on an earlier valuation
  byHand,        \* history: pieces staff moved themselves
  shift          \* bound: the work done, and the pieces staff may move themselves, and to where

documents == <<ret, repair, exch>>
history == <<crossed, requeued, adrift, revalued, byHand>>
vars == <<item, guest, order, documents, desk, buyer, history, shift>>

Step(from, to) == [from |-> from, to |-> to]

ReturnRules ==
  [ approve |-> Step({"REQUESTED"}, "APPROVED"),
    reject  |-> Step({"REQUESTED"}, "REJECTED"),
    receive |-> Step({"APPROVED"}, "RECEIVED"),
    inspect |-> Step({"RECEIVED"}, "INSPECTED"),
    settle  |-> Step({"INSPECTED"}, "SETTLED"),
    cancel  |-> Step({"REQUESTED", "APPROVED"}, "CANCELLED") ]

RepairRules ==
  [ inspect         |-> Step({"INTAKE"}, "INSPECTED"),
    estimate        |-> Step({"INSPECTED", "ESTIMATED"}, "ESTIMATED"),
    approveEstimate |-> Step({"ESTIMATED"}, "APPROVED"),
    declineEstimate |-> Step({"ESTIMATED"}, "DECLINED"),
    start           |-> Step({"APPROVED"}, "IN_PROGRESS"),
    recordWork      |-> Step({"IN_PROGRESS"}, "QC_PENDING"),
    qcPass          |-> Step({"QC_PENDING"}, "READY"),
    qcFail          |-> Step({"QC_PENDING"}, "QC_FAILED"),
    rework          |-> Step({"QC_FAILED"}, "IN_PROGRESS"),
    deliver         |-> Step({"READY"}, "DELIVERED"),
    cancel          |-> Step({"INTAKE", "INSPECTED", "ESTIMATED", "APPROVED", "IN_PROGRESS",
                              "QC_PENDING", "QC_FAILED"}, "CANCELLED") ]

HandsBack == {"deliver", "declineEstimate", "cancel"}

ExchangeRules ==
  [ assess   |-> Step({"ASSESSED"}, "ASSESSED"),   \* no exchange is stored as DRAFT
    complete |-> Step({"ASSESSED"}, "COMPLETED"),
    cancel   |-> Step({"ASSESSED"}, "CANCELLED") ]

Stages(rules) == UNION {rules[a].from \union {rules[a].to} : a \in DOMAIN rules}

OrderDocs == [stage : {"NEW", "HELD", "SOLD", "LAPSED", "CANCELLED"}, allocated : SUBSET Pieces]
ReturnDocs == [status : Stages(ReturnRules), order : Orders, lines : SUBSET Pieces]
RepairDocs == [status : Stages(RepairRules), piece : Pieces]
ExchangeDocs ==
  [status : Stages(ExchangeRules), value : Values, oldItem : Pieces \union {None}, difference : Int]

Off == [task |-> "none"]

Tasks ==
  {Off}
  \union [task : {"request"}, order : Orders, lines : SUBSET Pieces]
  \union [task : {"check", "intake"}, piece : Pieces]
  \union [task : {"exchange"}, exchange : Exchanges, value : Values, piece : Pieces \union {None}]

TypeOK ==
  /\ item \in [Pieces -> Statuses \union {None}]
  /\ order \in [Orders -> OrderDocs]
  /\ ret \in [Returns -> ReturnDocs \union {None}]
  /\ repair \in [Repairs -> RepairDocs \union {None}]
  /\ exch \in [Exchanges -> ExchangeDocs \union {None}]
  /\ desk \in [Workers -> Tasks]
  /\ buyer \in [Pieces -> Orders \union {None}]
  /\ guest \subseteq Pieces /\ crossed \subseteq Pieces /\ requeued \subseteq Pieces
  /\ adrift \subseteq {"intake", "exchange"} \X Pieces
  /\ revalued \subseteq Exchanges /\ byHand \subseteq Pieces

(* A shift starts with nobody at work and no document of this module, so   *)
(* no piece is under repair, and only a cancelled sale has one come back.  *)
StartOK(s) ==
  /\ s.item \in [Pieces -> Statuses \union {None}]
  /\ s.order \in [Orders -> OrderDocs]
  /\ s.buyer \in [Pieces -> Orders \union {None}] /\ s.free \subseteq Pieces \X Statuses
  /\ \A x \in Pieces : /\ s.item[x] # "UNDER_REPAIR"
                       /\ s.item[x] = "RETURNED" =>
                            \E o \in Orders : s.order[o].stage = "CANCELLED" /\ x \in s.order[o].allocated
  /\ \A o \in Orders : /\ s.order[o].stage = "NEW" => s.order[o].allocated = {}
                       /\ \A x \in s.order[o].allocated :
                           /\ s.order[o].stage = "HELD" => s.item[x] = "RESERVED"
                           /\ s.order[o].stage = "SOLD" => s.item[x] = "SOLD" /\ s.buyer[x] = o
  /\ \A o, p \in Orders : o # p /\ s.order[o].stage = "HELD" /\ s.order[p].stage = "HELD" =>
                          s.order[o].allocated \intersect s.order[p].allocated = {}

ASSUME ShiftsAssumption == \A s \in Shifts : StartOK(s)

ASSUME NoneAssumption ==
  None \notin Pieces \union Statuses \union ReturnDocs \union RepairDocs \union ExchangeDocs

May(m, x, to) == item[x] # None /\ <<item[x], to>> \in MovementRules[m].moves
Put(S, status) == item' = [x \in Pieces |-> IF x \in S THEN status ELSE item[x]]
Fresh(x) == item[x] = None

Idle(w) == desk[w] = Off
Set(w, t) == desk' = [desk EXCEPT ![w] = t]
InHand(w) ==
  IF desk[w].task \in {"intake", "exchange"} /\ desk[w].piece # None
  THEN {<<desk[w].task, desk[w].piece>>} ELSE {}

-----------------------------------------------------------------------------
(* Orders: which piece is promised, sold and given back                    *)

Hold(o, x) ==
  /\ order[o].stage = "NEW" /\ May("RESERVATION", x, "RESERVED")
  /\ order' = [order EXCEPT ![o] = [stage |-> "HELD", allocated |-> {x}]]
  /\ Put({x}, "RESERVED")
  /\ UNCHANGED <<guest, documents, desk, buyer, history, shift>>

(* What an order lists once its pieces are sold: a web order keeps its     *)
(* allocations, the invoice of a sales order takes them off.               *)
StillListed(o) == IF o \in Trade THEN {} ELSE order[o].allocated

SellHeld(o) ==
  /\ order[o].stage = "HELD"
  /\ order' = [order EXCEPT ![o] = [stage |-> "SOLD", allocated |-> StillListed(o)]]
  /\ Put(order[o].allocated, "SOLD")
  /\ buyer' = [x \in Pieces |-> IF x \in order[o].allocated THEN o ELSE buyer[x]]
  /\ UNCHANGED <<guest, documents, desk, history, shift>>

(* A web order that ends without a sale keeps its allocations too.         *)
LetGo(o) ==
  /\ order[o].stage = "HELD"
  /\ order' = [order EXCEPT ![o] = [stage |-> "LAPSED", allocated |-> StillListed(o)]]
  /\ Put(order[o].allocated, "AVAILABLE")
  /\ UNCHANGED <<guest, documents, desk, buyer, history, shift>>

(* A paid web order is cancelled, and nothing moves it past the point where *)
(* it can be: the pieces it lists and that are sold await inspection.      *)
CancelSold(o) ==
  /\ o \notin Trade /\ order[o].stage = "SOLD"
  /\ order' = [order EXCEPT ![o].stage = "CANCELLED"]
  /\ Put({x \in order[o].allocated : item[x] = "SOLD"}, "RETURNED")
  /\ UNCHANGED <<guest, documents, desk, buyer, history, shift>>

(* The inspection queue takes any piece that is RETURNED.                  *)
InspectQueued(x, outcome) ==
  /\ May("RETURN", x, outcome) /\ item[x] = "RETURNED"
  /\ Put({x}, outcome)
  /\ requeued' = requeued \union {y \in {x} : \E r \in Returns : ret[r] # None /\ ret[r].status = "RECEIVED" /\ x \in ret[r].lines}
  /\ UNCHANGED <<guest, order, documents, desk, buyer, crossed, adrift, revalued, byHand, shift>>

-----------------------------------------------------------------------------
(* Returns                                                                 *)

(* The status of a return that still counts against a new one: all but two. *)
UnsettledOnly(r) == ret[r] # None /\ ret[r].status \notin {"REJECTED", "CANCELLED", "SETTLED"}
Open(r) == ret[r] # None /\ ret[r].status \notin {"REJECTED", "CANCELLED"}

ReadForRequest(w, o, S) ==
  /\ Idle(w)
  /\ S \subseteq order[o].allocated
  /\ \A x \in S : item[x] = "SOLD"
  /\ \A r \in Returns : Open(r) => ret[r].lines \intersect S = {}
  /\ Set(w, [task |-> "request", order |-> o, lines |-> S])
  /\ UNCHANGED <<item, guest, order, documents, buyer, history, shift>>

CreateReturn(w, r) ==
  /\ desk[w].task = "request" /\ ret[r] = None
  /\ ret' = [ret EXCEPT ![r] = [status |-> "REQUESTED", order |-> desk[w].order, lines |-> desk[w].lines]]
  /\ crossed' = crossed \union {x \in desk[w].lines : item[x] # "SOLD" \/ \E s \in Returns : Open(s) /\ x \in ret[s].lines}
  /\ Set(w, Off)
  /\ UNCHANGED <<item, guest, order, repair, exch, buyer, requeued, adrift, revalued, byHand, shift>>

ReturnMay(r, a) == ret[r] # None /\ ret[r].status \in ReturnRules[a].from

MoveReturn(r, a) ==
  /\ ReturnMay(r, a)
  /\ ret' = [ret EXCEPT ![r].status = ReturnRules[a].to]
  /\ UNCHANGED <<item, guest, order, repair, exch, desk, buyer, history, shift>>

(* All the pieces of a return come back, and are inspected, together.      *)
ReceiveReturn(r) ==
  /\ ReturnMay(r, "receive")
  /\ \A x \in ret[r].lines : May("RETURN", x, "RETURNED")
  /\ ret' = [ret EXCEPT ![r].status = "RECEIVED"]
  /\ Put(ret[r].lines, "RETURNED")
  /\ UNCHANGED <<guest, order, repair, exch, desk, buyer, history, shift>>

(* A variant that inspects the pieces it is told of and closes all the same. *)
InspectPart(r, good) ==
  /\ ReturnMay(r, "inspect")
  /\ good \subseteq ret[r].lines /\ \A x \in good : May("RETURN", x, "AVAILABLE")
  /\ ret' = [ret EXCEPT ![r].status = "INSPECTED"]
  /\ Put(good, "AVAILABLE")
  /\ UNCHANGED <<guest, order, repair, exch, desk, buyer, history, shift>>

InspectReturn(r, good) ==
  /\ ReturnMay(r, "inspect")
  /\ good \subseteq ret[r].lines
  /\ \A x \in ret[r].lines : May("RETURN", x, IF x \in good THEN "AVAILABLE" ELSE "DAMAGED")
  /\ ret' = [ret EXCEPT ![r].status = "INSPECTED"]
  /\ item' = [x \in Pieces |-> IF x \in good THEN "AVAILABLE" ELSE IF x \in ret[r].lines THEN "DAMAGED" ELSE item[x]]
  /\ UNCHANGED <<guest, order, repair, exch, desk, buyer, history, shift>>

-----------------------------------------------------------------------------
(* Repairs                                                                 *)

(* The intake moves the piece, one that was sold or one of the customer's  *)
(* own, in a transaction of its own; the repair order is written after it. *)
(* A known piece must be SOLD when it is looked up, but the movement takes *)
(* it from the shelf as well.                                              *)
ReadForIntake(w, x) ==
  /\ Idle(w) /\ item[x] = "SOLD"
  /\ Set(w, [task |-> "check", piece |-> x])
  /\ UNCHANGED <<item, guest, order, documents, buyer, history, shift>>

TakeInKnown(w) ==
  /\ desk[w].task = "check" /\ May("REPAIR_OUT", desk[w].piece, "UNDER_REPAIR")
  /\ Put({desk[w].piece}, "UNDER_REPAIR")
  /\ desk' = [desk EXCEPT ![w].task = "intake"]
  /\ UNCHANGED <<guest, order, documents, buyer, history, shift>>

TakeInGuest(w, x) ==
  /\ Idle(w) /\ Fresh(x)
  /\ Put({x}, "UNDER_REPAIR")
  /\ guest' = guest \union {x}
  /\ Set(w, [task |-> "intake", piece |-> x])
  /\ UNCHANGED <<order, documents, buyer, history, shift>>

CreateRepair(w, d) ==
  /\ desk[w].task = "intake" /\ repair[d] = None
  /\ repair' = [repair EXCEPT ![d] = [status |-> "INTAKE", piece |-> desk[w].piece]]
  /\ Set(w, Off)
  /\ UNCHANGED <<item, guest, order, ret, exch, buyer, history, shift>>

RepairMay(d, a) == repair[d] # None /\ repair[d].status \in RepairRules[a].from

MoveRepair(d, a) ==
  /\ a \notin HandsBack /\ RepairMay(d, a)
  /\ repair' = [repair EXCEPT ![d].status = RepairRules[a].to]
  /\ UNCHANGED <<item, guest, order, ret, exch, desk, buyer, history, shift>>

HandBack(d, a) ==
  /\ a \in HandsBack /\ RepairMay(d, a)
  /\ LET x == repair[d].piece
         to == IF x \in guest THEN "RETURNED_TO_CUSTOMER" ELSE "SOLD" IN
       May("REPAIR_RETURN", x, to) /\ Put({x}, to)
  /\ repair' = [repair EXCEPT ![d].status = RepairRules[a].to]
  /\ UNCHANGED <<guest, order, ret, exch, desk, buyer, history, shift>>

-----------------------------------------------------------------------------
(* Exchanges                                                               *)

CreateExchange(e, v) ==
  /\ exch[e] = None
  /\ exch' = [exch EXCEPT ![e] = [status |-> "ASSESSED", value |-> v, oldItem |-> None, difference |-> 0]]
  /\ UNCHANGED <<item, guest, order, ret, repair, desk, buyer, history, shift>>

ExchangeMay(e, a) == exch[e] # None /\ exch[e].status \in ExchangeRules[a].from

AssessExchange(e, v) ==
  /\ ExchangeMay(e, "assess")
  /\ exch' = [exch EXCEPT ![e].value = v]
  /\ UNCHANGED <<item, guest, order, ret, repair, desk, buyer, history, shift>>

CancelExchange(e) ==
  /\ ExchangeMay(e, "cancel")
  /\ exch' = [exch EXCEPT ![e].status = "CANCELLED"]
  /\ UNCHANGED <<item, guest, order, ret, repair, desk, buyer, history, shift>>

ReadForExchange(w, e) ==
  /\ Idle(w) /\ ExchangeMay(e, "complete")
  /\ Set(w, [task |-> "exchange", exchange |-> e, value |-> exch[e].value, piece |-> None])
  /\ UNCHANGED <<item, guest, order, documents, buyer, history, shift>>

TakeOldIn(w, x) ==
  /\ desk[w].task = "exchange" /\ desk[w].piece = None /\ Fresh(x)
  /\ Put({x}, "AVAILABLE")
  /\ desk' = [desk EXCEPT ![w].piece = x]
  /\ UNCHANGED <<guest, order, documents, buyer, history, shift>>

(* The exchange is closed if it is still open, with the difference to the  *)
(* valuation read at the start; a variant that does not look again.        *)
CloseAnyway(e) == exch[e] # None
Closable(e) == ExchangeMay(e, "complete")

CompleteExchange(w) ==
  /\ desk[w].task = "exchange" /\ desk[w].piece # None
  /\ LET e == desk[w].exchange IN
       /\ Closable(e)
       /\ exch' = [exch EXCEPT ![e] = [exch[e] EXCEPT !.status = "COMPLETED", !.oldItem = desk[w].piece,
                                                      !.difference = Price - desk[w].value]]
       /\ revalued' = IF desk[w].value = exch[e].value THEN revalued ELSE revalued \union {e}
  /\ Set(w, Off)
  /\ UNCHANGED <<item, guest, order, ret, repair, buyer, crossed, requeued, adrift, byHand, shift>>

-----------------------------------------------------------------------------
(* What staff post to the stock themselves: a movement to a partner or     *)
(* back (movePartner), or an approved correction (approveAdjustment), which *)
(* may make any legal change.  Nothing asks for a document; only a piece   *)
(* held for an order is refused.                                           *)
HeldForOrder(x) == \E o \in Orders : order[o].stage = "HELD" /\ x \in order[o].allocated

MoveByHand(x, to) ==
  /\ <<x, to>> \in shift.free /\ ~Fresh(x) /\ ~HeldForOrder(x)
  /\ Legal(item[x], to)
  /\ Put({x}, to)
  /\ byHand' = byHand \union {x}
  /\ UNCHANGED <<guest, order, documents, desk, buyer, crossed, requeued, adrift, revalued, shift>>

(* A worker whose next write is refused, or that dies before it.           *)
GiveUp(w) ==
  /\ ~Idle(w)
  /\ adrift' = adrift \union InHand(w)
  /\ Set(w, Off)
  /\ UNCHANGED <<item, guest, order, documents, buyer, crossed, requeued, revalued, byHand, shift>>

Init ==
  /\ shift \in Shifts
  /\ item = shift.item /\ order = shift.order
  /\ ret = [r \in Returns |-> None] /\ repair = [d \in Repairs |-> None] /\ exch = [e \in Exchanges |-> None]
  /\ desk = [w \in Workers |-> Off]
  /\ buyer = shift.buyer
  /\ guest = {} /\ crossed = {} /\ requeued = {} /\ adrift = {} /\ revalued = {} /\ byHand = {}

Selling ==
  \E o \in Orders : SellHeld(o) \/ LetGo(o) \/ CancelSold(o) \/ \E x \in Pieces : Hold(o, x)

Returning ==
  \/ \E x \in Pieces, outcome \in {"AVAILABLE", "DAMAGED"} : InspectQueued(x, outcome)
  \/ \E w \in Workers, o \in Orders, S \in (SUBSET Pieces) \ {{}} : ReadForRequest(w, o, S)
  \/ \E r \in Returns :
       \/ \E w \in Workers : CreateReturn(w, r)
       \/ \E a \in {"approve", "reject", "settle", "cancel"} : MoveReturn(r, a)
       \/ ReceiveReturn(r)
       \/ \E good \in SUBSET Pieces : InspectReturn(r, good)

Repairing ==
  \/ \E w \in Workers : TakeInKnown(w) \/ \E x \in Pieces : ReadForIntake(w, x) \/ TakeInGuest(w, x)
  \/ \E d \in Repairs :
       \/ \E w \in Workers : CreateRepair(w, d)
       \/ \E a \in DOMAIN RepairRules : MoveRepair(d, a) \/ HandBack(d, a)

Exchanging ==
  \/ \E w \in Workers, x \in Pieces : TakeOldIn(w, x)
  \/ \E w \in Workers : CompleteExchange(w)
  \/ \E e \in Exchanges :
       \/ \E v \in Values : CreateExchange(e, v) \/ AssessExchange(e, v)
       \/ CancelExchange(e)
       \/ \E w \in Workers : ReadForExchange(w, e)

Next ==
  \/ "selling" \in shift.acts /\ Selling
  \/ "returning" \in shift.acts /\ Returning
  \/ "repairing" \in shift.acts /\ Repairing
  \/ "exchanging" \in shift.acts /\ Exchanging
  \/ \E w \in Workers : GiveUp(w)
  \/ \E x \in Pieces, to \in Statuses : MoveByHand(x, to)

Spec == Init /\ [][Next]_vars

-----------------------------------------------------------------------------
(* Properties                                                              *)

ReceivedFor(x) == {r \in Returns : ret[r] # None /\ ret[r].status = "RECEIVED" /\ x \in ret[r].lines}
InRepairFor(x) == {d \in Repairs : repair[d] # None /\ repair[d].piece = x
                                   /\ repair[d].status \notin {"DECLINED", "DELIVERED", "CANCELLED"}}
Unwritten(task, x) == <<task, x>> \in adrift \union UNION {InHand(w) : w \in Workers}

(* A piece in the shop's keeping is there for exactly one document: a      *)
(* returned piece for the return that took it in or the order that was     *)
(* cancelled, a piece under repair for one open repair order, or for a     *)
(* request that has not written it, and may have died before it did.  Only *)
(* of a piece that staff moved by hand do the documents know nothing.      *)
KeptForOneDocument ==
  \A x \in Pieces \ byHand :
    /\ item[x] = "RETURNED" => \/ Cardinality(ReceivedFor(x)) = 1
                               \/ \E o \in Orders : order[o].stage = "CANCELLED" /\ x \in order[o].allocated
                               \/ x \in requeued
    /\ item[x] # "RETURNED" => ReceivedFor(x) = {} \/ x \in requeued
    /\ Cardinality(InRepairFor(x)) = IF item[x] = "UNDER_REPAIR" /\ ~Unwritten("intake", x) THEN 1 ELSE 0

(* A return takes a piece back from the order it was last sold on, as long *)
(* as that order's sale stands, no second return was let in beside it, and *)
(* staff did not put the piece back on the shelf themselves.               *)
ReturnTakesBackItsSale ==
  [][\A r \in Returns :
       (ret[r] # None /\ ret[r].status = "APPROVED" /\ ret'[r].status = "RECEIVED") =>
         \A x \in ret[r].lines : \/ buyer[x] = ret[r].order
                                 \/ order[ret[r].order].stage \in {"LAPSED", "CANCELLED"}
                                 \/ x \in crossed \union byHand]_vars

Old == {x \in Pieces : item[x] # None} \ (guest \union {x \in Pieces : shift.item[x] # None})

(* A piece taken in exchange is the old item of exactly one exchange, which *)
(* is COMPLETED and settled at the difference to its valuation, unless the  *)
(* request died in between or the piece was valued again meanwhile.         *)
TakenInOnce ==
  /\ \A x \in Old :
       Cardinality({e \in Exchanges : exch[e] # None /\ exch[e].oldItem = x}) = IF Unwritten("exchange", x) THEN 0 ELSE 1
  /\ \A e \in Exchanges : exch[e] # None =>
       /\ (exch[e].status = "COMPLETED") = (exch[e].oldItem # None)
       /\ exch[e].status = "COMPLETED" /\ e \notin revalued => exch[e].difference = Price - exch[e].value

(* Said of the code, and not kept by it (see the README):                  *)
(* A return is raised only for pieces that were last sold on the order it  *)
(* names.                                                                  *)
RequestedOfItsSale ==
  [][\A r \in Returns : ret[r] = None /\ ret'[r] # None => \A x \in ret'[r].lines : buyer[x] = ret'[r].order]_vars

(* business-rules.md 19.2 and repair-status.ts: taking a customer's piece  *)
(* in and creating its repair order happen together.  A request that dies  *)
(* between the two leaves the piece under repair for no order.             *)
IntakeIsAtomic ==
  \A x \in guest : item[x] = "UNDER_REPAIR" => \/ InRepairFor(x) # {}
                                              \/ \E w \in Workers : <<"intake", x>> \in InHand(w)

(* business-rules.md 19.5 and movement-rules.ts: a customer's own piece    *)
(* never becomes stock for sale.  A REPAIR_IN posted by hand makes it so.  *)
CustomersPieceNeverForSale == \A x \in guest : item[x] # "AVAILABLE"
=============================================================================
