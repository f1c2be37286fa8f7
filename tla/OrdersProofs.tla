---------------------------- MODULE OrdersProofs ----------------------------
(* Proofs about Orders: for any number of orders, pieces, payments and      *)
(* workers, and whatever the provider answers, a confirmed order owns its   *)
(* pieces and its money, no payment is recorded as refunded beyond what it  *)
(* captured, and the pieces move only as the inventory allows; and where    *)
(* every answer arrives, the provider sends back no more than it captured.  *)
EXTENDS Orders, TLAPS, FiniteSetTheorems, SequenceTheorems

-----------------------------------------------------------------------------
(* The inductive invariant: first the documents, the pieces and the         *)
(* provider's records.                                                      *)

PieceDocs ==
  {d \in [status : {"AVAILABLE", "RESERVED", "SOLD", "RETURNED"},
          holder : Orders \union {None}, buyer : Orders \union {None}] :
     d.status # "RESERVED" => d.holder = None}

DocsOK ==
  /\ order \in [Orders -> OrderDocs \union {None}]
  /\ payment \in [Payments -> PaymentDocs \union {None}]
  /\ piece \in [Pieces -> PieceDocs]
  /\ gateway \in [Payments -> GatewayRecords]
  /\ sent \subseteq Events
  /\ scope \in Scopes

(* What has been refunded, or may be, never exceeds what was captured; and  *)
(* what has refunds can not be captured any more.                           *)
MoneyOK(d) ==
  /\ RefundedIn(d.refunds, {"PENDING", "SUCCEEDED"}) <= d.captured
  /\ d.refunds # <<>> => d.status \notin Capturable

PaymentOK(p) == payment[p] # None => order[payment[p].ord] # None /\ MoneyOK(payment[p])

GatewayOK(p) ==
  /\ payment[p] = None => gateway[p].state = "none"
  /\ gateway[p].state # "captured" => gateway[p].amount = 0

Owned(o) == \A x \in order[o].alloc : piece[x].status = "SOLD" /\ piece[x].buyer = o

Settled(o) ==
  LET p == order[o].paidBy IN
  p \in Payments /\ payment[p] # None /\ gateway[p].state = "captured" /\ gateway[p].amount = Total

OrderOK(o) ==
  order[o] # None =>
    /\ Status(o) \in Payable \union {"CONFIRMED"} => Cardinality(order[o].alloc) = Need
    /\ Status(o) = "CONFIRMED" => Owned(o) /\ Settled(o)

DataOK ==
  /\ DocsOK
  /\ \A p \in Payments : PaymentOK(p) /\ GatewayOK(p)
  /\ \A o \in Orders : OrderOK(o)

-----------------------------------------------------------------------------
(* Then what each worker is about to do with them.                          *)

Fields == {"pc", "job", "ord", "pay", "todo", "seen", "k", "amount"}

(* The pcs that concern the payment work[w].pay.                            *)
OfPayment ==
  {"voidAsk", "start", "bind", "closeAsk", "authorize", "failMark", "failLook", "failMove",
   "capRead", "capOrder", "capTxn", "capLook", "capRecord", "capCancel",
   "refRead", "refReserve", "refAsk", "refBind", "settle", "total", "after"}

Known(p) == p \in Payments /\ payment[p] # None

Over(o) == Status(o) \in {"CANCELLED", "REFUNDED"}

TaskOK(d) ==
  d.pc # "idle" =>
    /\ d.ord \in Orders /\ order[d.ord] # None
    /\ d.pc \in OfPayment => Known(d.pay)
    /\ d.pc \in {"held", "free"} /\ d.seen = "STOCK_UNAVAILABLE" => Known(d.pay)
    /\ d.pc \in {"older", "void", "voidAsk"} => d.seen # "STOCK_UNAVAILABLE"
    /\ d.pc \in {"void", "voidAsk"} \/ d.job \in {"cancel", "expire"} => \A t \in d.todo : Known(t[1])
    /\ d.pc \in {"openRead", "loop"} => d.job \in {"cancel", "expire"}
    /\ d.pc \in {"pick", "hold"} => d.job = "place"
    /\ d.pc = "hold" => d.todo \subseteq Pieces /\ Cardinality(d.todo) = Need
    /\ d.pc = "start" => gateway[d.pay].state = "none"
    /\ d.pc = "capTxn" => gateway[d.pay].state = "captured" /\ gateway[d.pay].amount = Total
    /\ d.pc = "create" => d.k \in Nat
    /\ d.pc \in {"refReserve", "total"} => d.amount \in Nat
    /\ d.pc = "settle" => d.seen \in {"SUCCEEDED", "FAILED"}
    /\ d.pc = "unsell" => Over(d.ord) /\ Owned(d.ord) /\ Settled(d.ord)

WorkOK(w) == DOMAIN work[w] = Fields /\ TaskOK(work[w])

(* No two workers start one payment, or take back one order's pieces.       *)
Apart(v, w) ==
  /\ At(v, "start") /\ At(w, "start") => work[v].pay # work[w].pay
  /\ At(v, "unsell") /\ At(w, "unsell") => work[v].ord # work[w].ord

OrdersOK ==
  /\ DataOK
  /\ DOMAIN work = Workers
  /\ \A w \in Workers : WorkOK(w)
  /\ \A v, w \in Workers : v # w => Apart(v, w)

-----------------------------------------------------------------------------
(* What a step may not take back: what exists stays, a closed order keeps   *)
(* its pieces and its payment, captured money stays captured, and what is   *)
(* sold stays sold.                                                         *)

OrdersKept ==
  \A o \in Orders : order[o] # None =>
    /\ order'[o] # None
    /\ Over(o) => Over(o)'
    /\ Status(o) \in {"CONFIRMED", "CANCELLED", "REFUNDED"} =>
         order'[o].alloc = order[o].alloc /\ order'[o].paidBy = order[o].paidBy

PaymentsKept == \A p \in Payments : payment[p] # None => payment'[p] # None

GatewayKept ==
  \A p \in Payments :
    /\ gateway[p].state = "none" => gateway'[p].state = "none"
    /\ gateway[p].state = "captured" => gateway'[p].state = "captured" /\ gateway'[p].amount = gateway[p].amount

PiecesKept == \A x \in Pieces : piece[x].status = "SOLD" => piece'[x] = piece[x]

Kept == OrdersKept /\ PaymentsKept /\ GatewayKept /\ PiecesKept

(* Only worker w moves, and it stays apart from the others.                 *)
Turn(w) ==
  /\ DOMAIN work' = Workers
  /\ \A v \in Workers : v # w => work'[v] = work[v]

LEMMA TaskStays ==
  ASSUME DataOK, DocsOK', Kept, NEW d, TaskOK(d)
  PROVE  TaskOK(d)'
<1> SUFFICES ASSUME d.pc # "idle" PROVE TaskOK(d)'
  BY DEF TaskOK
<1>1. d.ord \in Orders /\ order[d.ord] # None /\ order'[d.ord] # None
  BY DEF TaskOK, Kept, OrdersKept
<1>2. \A p : Known(p) => Known(p)'
  BY DEF Known, Kept, PaymentsKept
<1>3. d.pc = "unsell" => Over(d.ord)' /\ Owned(d.ord)' /\ Settled(d.ord)'
  <2> SUFFICES ASSUME d.pc = "unsell" PROVE Over(d.ord)' /\ Owned(d.ord)' /\ Settled(d.ord)'
    OBVIOUS
  <2>1. Over(d.ord) /\ Owned(d.ord) /\ Settled(d.ord)
    BY DEF TaskOK
  <2>2. order'[d.ord].alloc = order[d.ord].alloc /\ order'[d.ord].paidBy = order[d.ord].paidBy /\ Over(d.ord)'
    BY <1>1, <2>1 DEF Kept, OrdersKept, Over
  <2>3. order[d.ord].alloc \subseteq Pieces
    BY <1>1 DEF DataOK, DocsOK, OrderDocs
  <2>4. Owned(d.ord)'
    BY <2>1, <2>2, <2>3 DEF Owned, Kept, PiecesKept
  <2>5. Settled(d.ord)'
    BY <2>1, <2>2 DEF Settled, Kept, PaymentsKept, GatewayKept
  <2> QED BY <2>2, <2>4, <2>5
<1>4. d.pc = "start" => gateway'[d.pay].state = "none"
  BY DEF TaskOK, Known, OfPayment, Kept, GatewayKept
<1>5. d.pc = "capTxn" => gateway'[d.pay].state = "captured" /\ gateway'[d.pay].amount = Total
  BY DEF TaskOK, Known, OfPayment, Kept, GatewayKept
<1> QED BY <1>1, <1>2, <1>3, <1>4, <1>5 DEF TaskOK

LEMMA WorkerStep ==
  ASSUME OrdersOK, DataOK', Kept, NEW w \in Workers, Turn(w), WorkOK(w)',
         ~(At(w, "start"))', ~(At(w, "unsell"))'
  PROVE  OrdersOK'
<1>1. \A v \in Workers : v # w => WorkOK(v)'
  BY TaskStays DEF OrdersOK, Turn, WorkOK, DataOK
<1>2. \A u, v \in Workers : u # v => Apart(u, v)'
  BY DEF OrdersOK, Turn, Apart, At
<1> QED BY <1>1, <1>2 DEF OrdersOK, Turn

LEMMA WorldStep ==
  ASSUME OrdersOK, DataOK', Kept, UNCHANGED work
  PROVE  OrdersOK'
<1>1. \A v \in Workers : WorkOK(v)'
  BY TaskStays DEF OrdersOK, WorkOK, DataOK
<1>2. \A u, v \in Workers : u # v => Apart(u, v)'
  BY DEF OrdersOK, Apart, At
<1> QED BY <1>1, <1>2 DEF OrdersOK

-----------------------------------------------------------------------------
(* The few ways in which a step writes: a status of an order, a payment, a  *)
(* record of the provider, some pieces that are not sold.                   *)

LEMMA NoneIsNoDocument ==
  None \notin OrderDocs /\ None \notin PaymentDocs /\ None \notin Orders /\ None \notin Payments
BY OrderDocumentsAssumption, OrdersAssumption

LEMMA NothingWritten ==
  ASSUME DataOK, UNCHANGED <<order, payment, piece, gateway, sent, scope>>
  PROVE  DataOK' /\ Kept
<1>1. DocsOK' /\ (\A p \in Payments : PaymentOK(p)' /\ GatewayOK(p)')
  BY DEF DataOK, DocsOK, PaymentOK, GatewayOK
<1>2. \A o \in Orders : OrderOK(o)'
  BY DEF DataOK, OrderOK, Status, Owned, Settled
<1>3. Kept
  BY DEF Kept, OrdersKept, PaymentsKept, GatewayKept, PiecesKept, Over, Status
<1> QED BY <1>1, <1>2, <1>3 DEF DataOK

(* The moves an order makes, but for its hold and its confirmation.         *)
LEMMA StatusWritten ==
  ASSUME DataOK, NEW o \in Orders, order[o] # None,
         NEW s \in Payable \union {"CANCELLED", "REFUNDED"},
         s \in Payable => Status(o) \in Payable,
         order' = [order EXCEPT ![o].status = s],
         UNCHANGED <<payment, piece, gateway, sent, scope>>
  PROVE  DataOK' /\ Kept /\ order'[o].alloc = order[o].alloc /\ order'[o].paidBy = order[o].paidBy
         /\ Status(o)' = s
<1>1. order[o] \in OrderDocs
  BY DEF DataOK, DocsOK
<1>2. /\ order'[o] \in OrderDocs /\ order'[o].status = s
      /\ order'[o].alloc = order[o].alloc /\ order'[o].paidBy = order[o].paidBy
  BY <1>1 DEF DataOK, DocsOK, OrderDocs, OrderStatuses, Payable
<1>3. \A q \in Orders : q # o => order'[q] = order[q]
  BY DEF DataOK, DocsOK
<1>4. order'[o] # None
  BY <1>2, NoneIsNoDocument
<1>5. DocsOK'
  BY <1>2, <1>3 DEF DataOK, DocsOK
<1>6. \A p \in Payments : PaymentOK(p)' /\ GatewayOK(p)'
  BY <1>3, <1>4 DEF DataOK, DocsOK, PaymentOK, PaymentDocs, GatewayOK
<1>7. \A q \in Orders : OrderOK(q)'
  <2> SUFFICES ASSUME NEW q \in Orders PROVE OrderOK(q)'
    OBVIOUS
  <2>1. CASE q # o
    BY <1>3, <2>1 DEF DataOK, OrderOK, Status, Owned, Settled
  <2>2. CASE q = o
    BY <1>2, <2>2 DEF DataOK, OrderOK, Status, Payable
  <2> QED BY <2>1, <2>2
<1>8. OrdersKept
  BY <1>2, <1>3, <1>4 DEF OrdersKept, Over, Status, Payable
<1>9. Kept
  BY <1>8 DEF Kept, PaymentsKept, GatewayKept, PiecesKept
<1> QED BY <1>2, <1>5, <1>6, <1>7, <1>9 DEF DataOK, Status

LEMMA PaymentWritten ==
  ASSUME DataOK, NEW p \in Payments, NEW d \in PaymentDocs, order[d.ord] # None, MoneyOK(d),
         payment' = [payment EXCEPT ![p] = d],
         UNCHANGED <<order, piece, gateway, sent, scope>>
  PROVE  DataOK' /\ Kept
<1>1. d # None
  BY NoneIsNoDocument
<1>2. \A q \in Payments : payment'[q] = IF q = p THEN d ELSE payment[q]
  BY DEF DataOK, DocsOK
<1>3. DocsOK'
  BY <1>2 DEF DataOK, DocsOK
<1>4. \A q \in Payments : PaymentOK(q)' /\ GatewayOK(q)'
  BY <1>1, <1>2 DEF DataOK, PaymentOK, GatewayOK
<1>5. PaymentsKept
  BY <1>1, <1>2 DEF PaymentsKept
<1>6. \A o \in Orders : OrderOK(o)'
  BY <1>5 DEF DataOK, OrderOK, Status, Owned, Settled, PaymentsKept
<1>7. Kept
  BY <1>5 DEF Kept, OrdersKept, GatewayKept, PiecesKept, Over, Status
<1> QED BY <1>3, <1>4, <1>6, <1>7 DEF DataOK

(* The provider changes its mind only about what it has not captured.       *)
LEMMA GatewayWritten ==
  ASSUME DataOK, NEW p \in Payments, NEW g \in GatewayRecords,
         gateway[p].state = "none" => g.state = "none",
         gateway[p].state = "captured" => g.state = "captured" /\ g.amount = gateway[p].amount,
         g.state # "captured" => g.amount = 0,
         gateway' = [gateway EXCEPT ![p] = g], sent' \subseteq Events,
         UNCHANGED <<order, payment, piece, scope>>
  PROVE  DataOK' /\ Kept
<1>1. \A q \in Payments : gateway'[q] = IF q = p THEN g ELSE gateway[q]
  BY DEF DataOK, DocsOK
<1>2. DocsOK'
  BY <1>1 DEF DataOK, DocsOK
<1>3. GatewayKept
  BY <1>1 DEF GatewayKept
<1>4. \A q \in Payments : PaymentOK(q)' /\ GatewayOK(q)'
  BY <1>1 DEF DataOK, PaymentOK, GatewayOK
<1>5. \A o \in Orders : OrderOK(o)'
  BY <1>3 DEF DataOK, OrderOK, Status, Owned, Settled, GatewayKept
<1>6. Kept
  BY <1>3 DEF Kept, OrdersKept, PaymentsKept, PiecesKept, Over, Status
<1> QED BY <1>2, <1>4, <1>5, <1>6 DEF DataOK

LEMMA PiecesWritten ==
  ASSUME DataOK, piece' \in [Pieces -> PieceDocs], PiecesKept,
         UNCHANGED <<order, payment, gateway, sent, scope>>
  PROVE  DataOK' /\ Kept
<1>1. DocsOK' /\ (\A p \in Payments : PaymentOK(p)' /\ GatewayOK(p)')
  BY DEF DataOK, DocsOK, PaymentOK, GatewayOK
<1>2. \A o \in Orders : order[o] # None => order[o].alloc \subseteq Pieces
  BY DEF DataOK, DocsOK, OrderDocs
<1>3. \A o \in Orders : OrderOK(o)'
  BY <1>2 DEF DataOK, OrderOK, Status, Owned, Settled, PiecesKept
<1>4. Kept
  BY DEF Kept, OrdersKept, PaymentsKept, GatewayKept, Over, Status
<1> QED BY <1>1, <1>3, <1>4 DEF DataOK

-----------------------------------------------------------------------------
(* What refunds come to.                                                    *)

LEMMA UpTo ==
  ASSUME NEW n \in Nat
  PROVE  IsFiniteSet(1..n) /\ Cardinality(1..n) = n
<1>1. IsFiniteSet(1..n) /\ Cardinality(1..n) = IF 1 > n THEN 0 ELSE n - 1 + 1
  BY FS_Interval
<1> QED BY <1>1

LEMMA UnitsAreFinite ==
  ASSUME NEW refunds \in Seq(Refunds), NEW S, S \subseteq DOMAIN refunds
  PROVE  IsFiniteSet(Units(refunds, S)) /\ Sum(refunds, S) \in Nat
<1> DEFINE D == 1..Len(refunds)
           Part(k) == {k} \X (1..refunds[k].amount)
           Parts == {Part(k) : k \in D}
<1>1. IsFiniteSet(D)
  BY FS_Interval
<1>2. \A k \in D : IsFiniteSet(Part(k))
  <2> SUFFICES ASSUME NEW k \in D PROVE IsFiniteSet(Part(k))
    OBVIOUS
  <2>1. refunds[k] \in Refunds
    OBVIOUS
  <2>2. refunds[k].amount \in Nat
    BY <2>1 DEF Refunds
  <2>3. IsFiniteSet(1..refunds[k].amount)
    BY <2>2, UpTo
  <2>4. IsFiniteSet({k})
    BY FS_Singleton
  <2> QED BY <2>3, <2>4, FS_Product
<1>3. IsFiniteSet(Parts)
  <2>1. PICK n \in Nat : n = Len(refunds)
    OBVIOUS
  <2> DEFINE f == [k \in D |-> Part(k)]
  <2>2. f \in Surjection(D, Parts)
    BY DEF Surjection
  <2> QED BY <1>1, <2>2, FS_Surjection
<1>4. IsFiniteSet(UNION Parts)
  BY <1>2, <1>3, FS_UNION
<1>5. Units(refunds, S) \subseteq UNION Parts
  BY DEF Units
<1> QED BY <1>4, <1>5, FS_Subset, FS_CardinalityType DEF Sum

LEMMA SumGrows ==
  ASSUME NEW rs \in Seq(Refunds), NEW ts \in Seq(Refunds), NEW S, NEW T,
         S \subseteq T, S \subseteq DOMAIN rs, T \subseteq DOMAIN ts,
         \A k \in S : rs[k].amount = ts[k].amount
  PROVE  Sum(rs, S) <= Sum(ts, T)
<1>1. Units(rs, S) \subseteq Units(ts, T)
  BY DEF Units
<1>2. IsFiniteSet(Units(ts, T))
  BY UnitsAreFinite
<1> QED BY <1>1, <1>2, FS_Subset DEF Sum

LEMMA NothingRefunded ==
  ASSUME NEW statuses
  PROVE  RefundedIn(<<>>, statuses) = 0
<1>1. Among(<<>>, statuses) = {}
  BY DEF Among
<1>2. Units(<<>>, {}) = {}
  BY DEF Units
<1> QED BY <1>1, <1>2, FS_EmptySet DEF RefundedIn, Sum

LEMMA RefundedIsNat ==
  ASSUME NEW refunds \in Seq(Refunds), NEW statuses
  PROVE  RefundedIn(refunds, statuses) \in Nat
BY UnitsAreFinite DEF RefundedIn, Among

LEMMA RefundAdded ==
  ASSUME NEW refunds \in Seq(Refunds), NEW r \in Refunds, NEW statuses
  PROVE  RefundedIn(Append(refunds, r), statuses) <= RefundedIn(refunds, statuses) + r.amount
<1> DEFINE rs == Append(refunds, r)
           n == Len(refunds) + 1
           S == Among(refunds, statuses)
           T == Among(rs, statuses)
           new == {n} \X (1..r.amount)
<1>1. rs \in Seq(Refunds) /\ DOMAIN rs = 1..n /\ rs[n] = r /\ \A k \in 1..Len(refunds) : rs[k] = refunds[k]
  OBVIOUS
<1>2. T \subseteq S \union {n}
  BY <1>1 DEF Among
<1>3. S \subseteq 1..Len(refunds) /\ S \subseteq DOMAIN refunds
  BY DEF Among
<1> HIDE DEF rs, S, T
<1>4. Units(rs, T) \subseteq Units(refunds, S) \union new
  BY <1>1, <1>2, <1>3 DEF Units
<1>5. IsFiniteSet(Units(refunds, S)) /\ Sum(refunds, S) \in Nat
  BY <1>3, UnitsAreFinite
<1>6. IsFiniteSet(new) /\ Cardinality(new) = r.amount /\ r.amount \in Nat
  <2>1. r.amount \in Nat
    BY DEF Refunds
  <2>2. IsFiniteSet({n}) /\ Cardinality({n}) = 1
    BY FS_Singleton
  <2>3. IsFiniteSet(1..r.amount) /\ Cardinality(1..r.amount) = r.amount
    BY <2>1, UpTo
  <2> QED BY <2>1, <2>2, <2>3, FS_Product
<1> HIDE DEF new
<1>7. /\ IsFiniteSet(Units(refunds, S) \union new)
      /\ Cardinality(Units(refunds, S) \union new) <= Sum(refunds, S) + r.amount
  <2>1. IsFiniteSet(Units(refunds, S) \cap new) /\ Cardinality(Units(refunds, S) \cap new) \in Nat
    BY <1>5, FS_Intersection, FS_CardinalityType
  <2>2. /\ IsFiniteSet(Units(refunds, S) \union new)
        /\ Cardinality(Units(refunds, S) \union new)
             = Cardinality(Units(refunds, S)) + Cardinality(new) - Cardinality(Units(refunds, S) \cap new)
    BY <1>5, <1>6, FS_Union
  <2> QED BY <1>5, <1>6, <2>1, <2>2 DEF Sum
<1>8. Cardinality(Units(rs, T)) <= Cardinality(Units(refunds, S) \union new)
  BY <1>4, <1>7, FS_Subset
<1>9. Cardinality(Units(rs, T)) \in Nat /\ Cardinality(Units(refunds, S) \union new) \in Nat
  <2>1. IsFiniteSet(Units(rs, T))
    BY <1>4, <1>7, FS_Subset
  <2> QED BY <2>1, <1>7, FS_CardinalityType
<1> QED BY <1>5, <1>6, <1>7, <1>8, <1>9 DEF RefundedIn, Sum, S, T, rs

-----------------------------------------------------------------------------
(* How a worker goes on.                                                    *)

LEMMA Goes ==
  ASSUME OrdersOK, NEW w \in Workers, NEW c, Goto(w, c)
  PROVE  /\ Turn(w) /\ DOMAIN work'[w] = Fields /\ work'[w].pc = c
         /\ \A f \in Fields \ {"pc"} : work'[w][f] = work[w][f]
BY DEF OrdersOK, Goto, Turn, WorkOK, Fields

LEMMA GoesWith ==
  ASSUME OrdersOK, NEW w \in Workers, NEW c, NEW s, GotoWith(w, c, s)
  PROVE  /\ Turn(w) /\ DOMAIN work'[w] = Fields /\ work'[w].pc = c /\ work'[w].seen = s
         /\ \A f \in Fields \ {"pc", "seen"} : work'[w][f] = work[w][f]
BY DEF OrdersOK, GotoWith, Turn, WorkOK, Fields

LEMMA Stops ==
  ASSUME OrdersOK, DataOK', Kept, NEW w \in Workers, Stop(w)
  PROVE  OrdersOK'
<1>1. Turn(w) /\ work'[w] = Idle
  BY DEF OrdersOK, Stop, Turn
<1>2. WorkOK(w)' /\ ~At(w, "start")' /\ ~At(w, "unsell")'
  BY <1>1 DEF WorkOK, TaskOK, Idle, Fields, At
<1> QED BY <1>1, <1>2, WorkerStep

(* To a pc that asks for nothing more than was known.                       *)
Easy ==
  {"ack", "loop", "giveUp", "recheck", "cancelMove", "voidRead", "cancelPaid",
   "reopen", "count", "held", "free"}

EasyOfPayment == OfPayment \ {"voidAsk", "start", "capTxn", "refReserve", "total", "settle"}

LEMMA GoesOn ==
  ASSUME OrdersOK, DataOK', Kept, NEW w \in Workers, work[w].pc # "idle",
         NEW c \in Easy \union EasyOfPayment, Goto(w, c),
         c \in EasyOfPayment => Known(work[w].pay), c = "loop" => InLoop(w),
         c \in {"held", "free"} /\ work[w].seen = "STOCK_UNAVAILABLE" => Known(work[w].pay)
  PROVE  OrdersOK'
<1>1. /\ Turn(w) /\ DOMAIN work'[w] = Fields /\ work'[w].pc = c
      /\ work'[w].ord = work[w].ord /\ work'[w].pay = work[w].pay /\ work'[w].job = work[w].job
      /\ work'[w].todo = work[w].todo /\ work'[w].seen = work[w].seen
  BY Goes DEF Fields
<1>2. PICK d : d = work[w]
  OBVIOUS
<1>3. TaskOK(d) /\ TaskOK(d)'
  BY <1>2, TaskStays DEF OrdersOK, WorkOK, DataOK
<1>4. c \in EasyOfPayment \/ (c \in {"held", "free"} /\ d.seen = "STOCK_UNAVAILABLE") => Known(d.pay)'
  BY <1>2 DEF Known, Kept, PaymentsKept
<1>5. TaskOK(work[w])'
  BY <1>1, <1>2, <1>3, <1>4 DEF TaskOK, InLoop, Easy, EasyOfPayment, OfPayment
<1>6. WorkOK(w)' /\ ~At(w, "start")' /\ ~At(w, "unsell")'
  BY <1>1, <1>5 DEF WorkOK, At, Easy, EasyOfPayment, OfPayment
<1> QED BY <1>1, <1>6, WorkerStep

(* The same, with what it has seen: never to a wait for the pieces.         *)
LEMMA GoesOnWith ==
  ASSUME OrdersOK, DataOK', Kept, NEW w \in Workers, work[w].pc # "idle",
         NEW c \in EasyOfPayment, NEW s, GotoWith(w, c, s), Known(work[w].pay)
  PROVE  OrdersOK'
<1>1. /\ Turn(w) /\ DOMAIN work'[w] = Fields /\ work'[w].pc = c
      /\ work'[w].ord = work[w].ord /\ work'[w].pay = work[w].pay /\ work'[w].job = work[w].job
      /\ work'[w].todo = work[w].todo
  BY GoesWith DEF Fields
<1>2. PICK d : d = work[w]
  OBVIOUS
<1>3. TaskOK(d) /\ TaskOK(d)'
  BY <1>2, TaskStays DEF OrdersOK, WorkOK, DataOK
<1>4. Known(d.pay)'
  BY <1>2 DEF Known, Kept, PaymentsKept
<1>5. TaskOK(work[w])'
  BY <1>1, <1>2, <1>3, <1>4 DEF TaskOK, EasyOfPayment, OfPayment
<1>6. WorkOK(w)' /\ ~At(w, "start")' /\ ~At(w, "unsell")'
  BY <1>1, <1>5 DEF WorkOK, At, EasyOfPayment, OfPayment
<1> QED BY <1>1, <1>6, WorkerStep

(* Where apply(), an exception and releaseHeldPieces return to.             *)
LEMMA Returns ==
  ASSUME OrdersOK, DataOK', Kept, NEW w \in Workers, work[w].pc # "idle",
         Return(w) \/ Throw(w) \/ (AfterRelease(w) /\ (work[w].seen = "STOCK_UNAVAILABLE" => Known(work[w].pay)))
  PROVE  OrdersOK'
<1>1. Stop(w) \/ Goto(w, "ack") \/ (Goto(w, "loop") /\ InLoop(w))
      \/ (Goto(w, "refRead") /\ Known(work[w].pay))
  BY DEF Return, Throw, AfterRelease
<1>2. CASE Stop(w)
  BY <1>2, Stops
<1>3. CASE Goto(w, "ack") \/ (Goto(w, "loop") /\ InLoop(w))
  <2>1. PICK c \in {"ack", "loop"} : Goto(w, c) /\ (c = "loop" => InLoop(w))
    BY <1>3
  <2>2. c \in Easy \union EasyOfPayment /\ c \notin EasyOfPayment /\ c \notin {"held", "free"}
    BY DEF Easy, EasyOfPayment, OfPayment
  <2> QED BY <2>1, <2>2, GoesOn
<1>4. CASE Goto(w, "refRead") /\ Known(work[w].pay)
  BY <1>4, GoesOn DEF Easy, EasyOfPayment, OfPayment
<1> QED BY <1>1, <1>2, <1>3, <1>4

-----------------------------------------------------------------------------
(* Steps that write nothing but what the worker keeps in mind.              *)

Look(w) ==
  \/ PickPieces(w) \/ FindOlder(w) \/ VoidDone(w) \/ CountAttempts(w) \/ Acknowledge(w) \/ FailLook(w)
  \/ CaptureRead(w) \/ CaptureDecide(w) \/ CaptureRefused(w) \/ CaptureLookAgain(w) \/ StillHeld(w)
  \/ RefundRead(w) \/ OpenRead(w) \/ Loop(w) \/ Recheck(w) \/ VoidRead(w)

LEMMA LookSteps ==
  ASSUME OrdersOK, NEW w \in Workers, Look(w), UNCHANGED scope
  PROVE  OrdersOK'
<1>1. UNCHANGED <<order, payment, piece, gateway, sent, scope>>
  BY DEF Look, PickPieces, FindOlder, VoidDone, CountAttempts, Acknowledge, FailLook, CaptureRead, CaptureDecide,
         CaptureRefused, CaptureLookAgain, StillHeld, RefundRead, OpenRead, Loop, Recheck, VoidRead
<1>2. DataOK' /\ Kept
  BY <1>1, NothingWritten DEF OrdersOK
<1>3. DOMAIN work = Workers /\ DOMAIN work[w] = Fields /\ TaskOK(work[w])
  BY DEF OrdersOK, WorkOK
<1>4. ASSUME NEW c \in Easy \ {"loop"}, Goto(w, c), ~At(w, "idle"), c \notin {"held", "free"} \/ work[w].seen # "STOCK_UNAVAILABLE"
      PROVE  OrdersOK'
  BY <1>2, <1>4, GoesOn DEF At, Easy, EasyOfPayment, OfPayment
<1>5. ASSUME NEW c \in EasyOfPayment, Goto(w, c), ~At(w, "idle"), Known(work[w].pay)
      PROVE  OrdersOK'
  BY <1>2, <1>5, GoesOn DEF At, Easy, EasyOfPayment, OfPayment
<1>6. ASSUME ~At(w, "idle"), Return(w)
      PROVE  OrdersOK'
  BY <1>2, <1>6, Returns DEF At
<1>7. CASE PickPieces(w)
  <2>1. CASE Goto(w, "giveUp")
    BY <1>4, <1>7, <2>1 DEF PickPieces, At, Easy
  <2>2. CASE \E S \in kSubset(Need, OnShelf) : work' = [work EXCEPT ![w].pc = "hold", ![w].todo = S]
    <3>1. PICK S \in kSubset(Need, OnShelf) : work' = [work EXCEPT ![w].pc = "hold", ![w].todo = S]
      BY <2>2
    <3>2. S \subseteq Pieces /\ Cardinality(S) = Need
      BY DEF kSubset, OnShelf
    <3>3. /\ Turn(w) /\ DOMAIN work'[w] = Fields /\ work'[w].pc = "hold" /\ work'[w].todo = S
          /\ work'[w].ord = work[w].ord /\ work'[w].job = work[w].job
      BY <1>3, <3>1 DEF Turn, Fields
    <3>4. work[w].job = "place" /\ work[w].ord \in Orders /\ order'[work[w].ord] # None
      BY <1>1, <1>3, <1>7 DEF PickPieces, At, TaskOK
    <3>5. TaskOK(work[w])'
      BY <3>2, <3>3, <3>4 DEF TaskOK, OfPayment
    <3> QED BY <1>2, <3>3, <3>5, WorkerStep DEF WorkOK, At
  <2> QED BY <1>7, <2>1, <2>2 DEF PickPieces
<1>8. CASE FindOlder(w) \/ OpenRead(w) \/ VoidRead(w)
  <2> DEFINE todo == OpenList(work[w].ord)
  <2>1. \A t \in todo : Known(t[1])'
    BY <1>1 DEF OpenList, OpenAttempts, Attempts, Known
  <2>2. /\ Turn(w) /\ DOMAIN work'[w] = Fields /\ work'[w].pc \in {"void", "loop"} /\ work'[w].todo = todo
        /\ work'[w].ord = work[w].ord
        /\ work'[w].pc = "void" => work'[w].seen # "STOCK_UNAVAILABLE"
        /\ work'[w].pc = "loop" => work'[w].job \in {"cancel", "expire"}
    BY <1>3, <1>8 DEF FindOlder, OpenRead, VoidRead, Turn, Fields, At, TaskOK
  <2> HIDE DEF todo
  <2>3. work[w].ord \in Orders /\ order'[work[w].ord] # None
    BY <1>1, <1>3, <1>8 DEF FindOlder, OpenRead, VoidRead, At, TaskOK
  <2>4. TaskOK(work[w])'
    BY <2>1, <2>2, <2>3 DEF TaskOK, OfPayment
  <2> QED BY <1>2, <2>2, <2>4, WorkerStep DEF WorkOK, At
<1>9. CASE VoidDone(w)
  <2>1. work[w].seen # "STOCK_UNAVAILABLE"
    BY <1>3, <1>9 DEF VoidDone, At, TaskOK
  <2> QED BY <1>4, <1>9, <2>1 DEF VoidDone, At, Easy
<1>10. CASE CountAttempts(w)
  <2>1. /\ Turn(w) /\ DOMAIN work'[w] = Fields /\ work'[w].pc = "create" /\ work'[w].ord = work[w].ord
        /\ work'[w].todo = work[w].todo /\ work'[w].job = work[w].job
        /\ work'[w].k = Cardinality(Attempts(work[w].ord)) + 1
    BY <1>3, <1>10 DEF CountAttempts, Turn, Fields
  <2>2. TaskOK(work[w]) /\ work[w].pc = "count"
    BY <1>3, <1>10 DEF CountAttempts, At
  <2>3. work'[w].k \in Nat
    <3>1. Attempts(work[w].ord) \in SUBSET Payments
      BY DEF Attempts
    <3>2. Cardinality(Attempts(work[w].ord)) \in Nat
      BY <3>1, OrdersAssumption, FS_Subset, FS_CardinalityType
    <3> QED BY <2>1, <3>2
  <2>4. TaskOK(work[w])'
    BY <1>1, <2>1, <2>2, <2>3 DEF TaskOK, OfPayment, Known
  <2> QED BY <1>2, <2>1, <2>4, WorkerStep DEF WorkOK, At
<1>11. CASE RefundRead(w) /\ ~Return(w)
  <2> DEFINE left == payment[work[w].pay].captured - Committed(work[w].pay)
  <2>1. TaskOK(work[w]) /\ work[w].pc = "refRead"
    BY <1>3, <1>11 DEF RefundRead, At
  <2>2. Known(work[w].pay)
    BY <2>1 DEF TaskOK, OfPayment
  <2>3. payment[work[w].pay] \in PaymentDocs
    BY <2>2 DEF Known, OrdersOK, DataOK, DocsOK
  <2>4. left \in Int
    BY <2>3, RefundedIsNat DEF PaymentDocs, Committed
  <2>5. left > 0 /\ work' = [work EXCEPT ![w].pc = "refReserve", ![w].amount = left]
    BY <1>11 DEF RefundRead
  <2> HIDE DEF left
  <2>6. /\ Turn(w) /\ DOMAIN work'[w] = Fields /\ work'[w].pc = "refReserve" /\ work'[w].ord = work[w].ord
        /\ work'[w].todo = work[w].todo /\ work'[w].job = work[w].job /\ work'[w].pay = work[w].pay
        /\ work'[w].amount \in Nat
    BY <1>3, <2>4, <2>5 DEF Turn, Fields
  <2>7. TaskOK(work[w])'
    BY <1>1, <2>1, <2>2, <2>6 DEF TaskOK, OfPayment, Known
  <2> QED BY <1>2, <2>6, <2>7, WorkerStep DEF WorkOK, At
<1>12. CASE RefundRead(w) /\ Return(w)
  BY <1>6, <1>12 DEF RefundRead, At
<1>13. CASE Acknowledge(w)
  BY <1>2, <1>13, Stops DEF Acknowledge
<1>14. CASE FailLook(w)
  BY <1>3, <1>5, <1>6, <1>14 DEF FailLook, At, TaskOK, OfPayment, EasyOfPayment
<1>15. CASE CaptureRead(w) \/ CaptureRefused(w)
  <2>1. ~At(w, "idle") /\ Known(work[w].pay)
    BY <1>3, <1>15 DEF CaptureRead, CaptureRefused, At, TaskOK, OfPayment
  <2>2. PICK c \in {"capOrder", "capLook"} : \E s : GotoWith(w, c, s)
    BY <1>15 DEF CaptureRead, CaptureRefused
  <2> QED BY <1>2, <2>1, <2>2, GoesOnWith DEF At, EasyOfPayment, OfPayment
<1>16. CASE CaptureDecide(w)
  <2> DEFINE p == work[w].pay
  <2>1. TaskOK(work[w]) /\ work[w].pc = "capOrder"
    BY <1>3, <1>16 DEF CaptureDecide, At
  <2>2. Known(p)
    BY <2>1 DEF TaskOK, OfPayment
  <2>3. CASE Return(w)
    BY <1>6, <2>1, <2>3 DEF At
  <2>4. CASE GotoWith(w, "capRecord", "NOT_PAYABLE")
    BY <1>2, <2>1, <2>2, <2>4, GoesOnWith DEF EasyOfPayment, OfPayment
  <2>5. CASE Goto(w, "capTxn") /\ gateway[p].amount = Total
    <3>1. gateway[p].state = "captured"
      BY <2>2, <2>5, OrdersAssumption DEF Known, OrdersOK, DataOK, GatewayOK
    <3>2. /\ Turn(w) /\ DOMAIN work'[w] = Fields /\ work'[w].pc = "capTxn" /\ work'[w].ord = work[w].ord
          /\ work'[w].todo = work[w].todo /\ work'[w].job = work[w].job /\ work'[w].pay = work[w].pay
      BY <2>5, Goes DEF Fields
    <3>3. TaskOK(work[w])'
      BY <1>1, <2>1, <2>2, <2>5, <3>1, <3>2 DEF TaskOK, OfPayment, Known
    <3> QED BY <1>2, <3>2, <3>3, WorkerStep DEF WorkOK, At
  <2> QED BY <1>16, <2>3, <2>4, <2>5 DEF CaptureDecide
<1>17. CASE CaptureLookAgain(w)
  BY <1>3, <1>5, <1>6, <1>17 DEF CaptureLookAgain, At, TaskOK, OfPayment, EasyOfPayment
<1>18. CASE StillHeld(w)
  <2>1. TaskOK(work[w]) /\ work[w].pc = "held"
    BY <1>3, <1>18 DEF StillHeld, At
  <2>2. CASE AfterRelease(w)
    BY <1>2, <2>1, <2>2, Returns DEF TaskOK
  <2>3. CASE \E n : work' = [work EXCEPT ![w].pc = "free", ![w].k = n]
    <3>1. /\ Turn(w) /\ DOMAIN work'[w] = Fields /\ work'[w].pc = "free" /\ work'[w].ord = work[w].ord
          /\ work'[w].todo = work[w].todo /\ work'[w].job = work[w].job /\ work'[w].pay = work[w].pay
          /\ work'[w].seen = work[w].seen
      BY <1>3, <2>3 DEF Turn, Fields
    <3>2. TaskOK(work[w])'
      BY <1>1, <2>1, <3>1 DEF TaskOK, OfPayment, Known
    <3> QED BY <1>2, <3>1, <3>2, WorkerStep DEF WorkOK, At
  <2> QED BY <1>18, <2>2, <2>3 DEF StillHeld
<1>19. CASE Loop(w)
  <2>1. TaskOK(work[w]) /\ work[w].pc = "loop"
    BY <1>3, <1>19 DEF Loop, At
  <2>2. CASE Goto(w, "recheck")
    BY <1>4, <2>1, <2>2 DEF At, Easy
  <2>3. CASE ~Goto(w, "recheck")
    <3>1. PICK p \in Payments, bound \in BOOLEAN :
            /\ <<p, bound>> \in work[w].todo
            /\ work' = [work EXCEPT ![w].todo = @ \ {<<p, bound>>}, ![w].pay = p, ![w].seen = "none",
                          ![w].pc = IF bound /\ gateway[p].state # "open" THEN ReportOf(gateway[p].state) ELSE "loop"]
      BY <1>19, <2>3 DEF Loop
    <3>2. /\ Turn(w) /\ DOMAIN work'[w] = Fields /\ work'[w].pay = p /\ work'[w].job = work[w].job
          /\ work'[w].pc \in {"loop", "capRead", "failMark", "authorize"}
          /\ work'[w].todo \subseteq work[w].todo /\ work'[w].ord = work[w].ord
      BY <1>3, <3>1 DEF Turn, Fields, ReportOf
    <3>3. Known(p)
      BY <2>1, <3>1 DEF TaskOK
    <3>4. TaskOK(work[w])'
      BY <1>1, <2>1, <3>2, <3>3 DEF TaskOK, OfPayment, Known
    <3> QED BY <1>2, <3>2, <3>4, WorkerStep DEF WorkOK, At
  <2> QED BY <2>2, <2>3
<1>20. CASE Recheck(w)
  BY <1>2, <1>3, <1>4, <1>20, Stops DEF Recheck, At, Easy
<1> QED BY <1>7, <1>8, <1>9, <1>10, <1>11, <1>12, <1>13, <1>14, <1>15, <1>16, <1>17, <1>18, <1>19, <1>20 DEF Look

-----------------------------------------------------------------------------
(* A request, which begins a handler, and the world outside.                *)

LEMMA Begins ==
  ASSUME OrdersOK, DataOK', Kept, NEW w \in Workers, NEW d, work' = [work EXCEPT ![w] = d],
         DOMAIN d = Fields, d.pc \notin {"start", "unsell"}, TaskOK(d)'
  PROVE  OrdersOK'
<1>1. Turn(w) /\ work'[w] = d
  BY DEF OrdersOK, Turn
<1>2. WorkOK(w)'
  BY <1>1 DEF WorkOK
<1> QED BY <1>1, <1>2, WorkerStep DEF At

Ask(w) ==
  \/ \E o \in Orders : Initiate(w, o) \/ Cancel(w, o) \/ Expire(w, o)
  \/ \E p \in Payments : VerifyReturn(w, p) \/ CancelPayment(w, p)
  \/ \E e \in sent : Webhook(w, e)

LEMMA AskSteps ==
  ASSUME OrdersOK, NEW w \in Workers, Ask(w), UNCHANGED scope
  PROVE  OrdersOK'
<1>1. UNCHANGED <<order, payment, piece, gateway, sent, scope>>
  BY DEF Ask, Initiate, Cancel, Expire, VerifyReturn, CancelPayment, Webhook
<1>2. DataOK' /\ Kept
  BY <1>1, NothingWritten DEF OrdersOK
<1>3. ASSUME NEW o \in Orders, Initiate(w, o)
      PROVE  OrdersOK'
  <2>1. PICK d : d = [[Idle EXCEPT !.pc = "older", !.ord = o, !.seen = Status(o)] EXCEPT !.job = "initiate"]
    OBVIOUS
  <2>2. DOMAIN d = Fields /\ d.pc = "older" /\ d.ord = o /\ d.seen = Status(o) /\ d.job = "initiate"
    BY <2>1 DEF Idle, Fields
  <2>3. order'[o] # None /\ Status(o) # "STOCK_UNAVAILABLE"
    BY <1>1, <1>3 DEF Initiate, Payable
  <2>4. TaskOK(d)'
    BY <2>2, <2>3 DEF TaskOK, OfPayment
  <2>5. work' = [work EXCEPT ![w] = d]
    BY <1>3, <2>1 DEF Initiate, Begin
  <2> QED BY <1>2, <2>2, <2>4, <2>5, Begins
<1>4. ASSUME NEW o \in Orders, Cancel(w, o) \/ Expire(w, o)
      PROVE  OrdersOK'
  <2>1. PICK c \in {"openRead", "cancelPaid"}, job \in {"cancel", "expire"} :
          Begin(w, job, [Idle EXCEPT !.pc = c, !.ord = o])
    BY <1>4 DEF Cancel, Expire
  <2>2. PICK d : d = [[Idle EXCEPT !.pc = c, !.ord = o] EXCEPT !.job = job]
    OBVIOUS
  <2>3. DOMAIN d = Fields /\ d.pc = c /\ d.ord = o /\ d.job = job /\ d.todo = {}
    BY <2>2 DEF Idle, Fields
  <2>4. order'[o] # None
    BY <1>1, <1>4 DEF Cancel, Expire
  <2>5. TaskOK(d)'
    BY <2>3, <2>4 DEF TaskOK, OfPayment
  <2>6. work' = [work EXCEPT ![w] = d]
    BY <2>1, <2>2 DEF Begin
  <2> QED BY <1>2, <2>3, <2>5, <2>6, Begins
<1>5. ASSUME NEW p \in Payments, payment[p] # None
      PROVE  Known(p)' /\ payment[p].ord \in Orders /\ order'[payment[p].ord] # None
  BY <1>1, <1>5 DEF Known, OrdersOK, DataOK, DocsOK, PaymentOK, PaymentDocs
<1>6. ASSUME NEW p \in Payments, VerifyReturn(w, p) \/ CancelPayment(w, p)
      PROVE  OrdersOK'
  <2>1. PICK c \in {"capRead", "failMark", "authorize", "closeAsk"}, job \in {"return", "close"} :
          Begin(w, job, [Idle EXCEPT !.pc = c, !.ord = payment[p].ord, !.pay = p])
    BY <1>6 DEF VerifyReturn, CancelPayment, ReportOf
  <2>2. PICK d : d = [[Idle EXCEPT !.pc = c, !.ord = payment[p].ord, !.pay = p] EXCEPT !.job = job]
    OBVIOUS
  <2>3. DOMAIN d = Fields /\ d.pc = c /\ d.ord = payment[p].ord /\ d.pay = p /\ d.job = job
    BY <2>2 DEF Idle, Fields
  <2>4. Known(p)' /\ payment[p].ord \in Orders /\ order'[payment[p].ord] # None
    BY <1>5, <1>6 DEF VerifyReturn, CancelPayment
  <2>5. TaskOK(d)'
    BY <2>3, <2>4 DEF TaskOK, OfPayment
  <2>6. work' = [work EXCEPT ![w] = d]
    BY <2>1, <2>2 DEF Begin
  <2> QED BY <1>2, <2>3, <2>5, <2>6, Begins
<1>7. ASSUME NEW e \in sent, Webhook(w, e)
      PROVE  OrdersOK'
  <2>1. PICK p : p = e[1]
    OBVIOUS
  <2>2. PICK c \in {"capRead", "failMark", "authorize", "settle"}, s \in {"SUCCEEDED", "FAILED"} :
          Begin(w, "webhook", [Idle EXCEPT !.pc = c, !.ord = payment[p].ord, !.pay = p, !.todo = {e}, !.k = e[3], !.seen = s])
    BY <1>7, <2>1 DEF Webhook
  <2>3. PICK d : d = [[Idle EXCEPT !.pc = c, !.ord = payment[p].ord, !.pay = p, !.todo = {e}, !.k = e[3], !.seen = s]
                        EXCEPT !.job = "webhook"]
    OBVIOUS
  <2>4. /\ DOMAIN d = Fields /\ d.pc = c /\ d.ord = payment[p].ord /\ d.pay = p /\ d.job = "webhook"
        /\ d.seen = s
    BY <2>3 DEF Idle, Fields
  <2>5. p \in Payments
    BY <2>1 DEF OrdersOK, DataOK, DocsOK, Events
  <2>6. Known(p)' /\ payment[p].ord \in Orders /\ order'[payment[p].ord] # None
    BY <1>5, <1>7, <2>1, <2>5 DEF Webhook
  <2>7. TaskOK(d)'
    BY <2>4, <2>6 DEF TaskOK, OfPayment
  <2>8. work' = [work EXCEPT ![w] = d]
    BY <2>2, <2>3 DEF Begin
  <2> QED BY <1>2, <2>4, <2>7, <2>8, Begins
<1> QED BY <1>3, <1>4, <1>6, <1>7 DEF Ask

LEMMA PlaceStep ==
  ASSUME OrdersOK, NEW w \in Workers, NEW o \in Orders, Place(w, o), UNCHANGED scope
  PROVE  OrdersOK'
<1> DEFINE d == [status |-> "DRAFT", alloc |-> {}, paidBy |-> None]
<1>1. d \in OrderDocs /\ d # None /\ d.status = "DRAFT"
  BY NoneIsNoDocument DEF OrderDocs, OrderStatuses
<1>2. order[o] = None /\ order' = [order EXCEPT ![o] = d]
      /\ UNCHANGED <<payment, piece, gateway, sent, scope>>
  BY DEF Place
<1>3. \A q \in Orders : order'[q] = IF q = o THEN d ELSE order[q]
  BY <1>2 DEF OrdersOK, DataOK, DocsOK
<1> HIDE DEF d
<1>4. DataOK'
  <2>1. DocsOK'
    BY <1>1, <1>2, <1>3 DEF OrdersOK, DataOK, DocsOK
  <2>2. \A p \in Payments : PaymentOK(p)' /\ GatewayOK(p)'
    BY <1>1, <1>2, <1>3 DEF OrdersOK, DataOK, DocsOK, PaymentOK, PaymentDocs, GatewayOK
  <2>3. \A q \in Orders : OrderOK(q)'
    <3> SUFFICES ASSUME NEW q \in Orders PROVE OrderOK(q)'
      OBVIOUS
    <3>1. CASE q = o
      BY <1>1, <1>3, <3>1 DEF OrderOK, Status, Payable
    <3>2. CASE q # o
      BY <1>2, <1>3, <3>2 DEF OrdersOK, DataOK, OrderOK, Status, Owned, Settled
    <3> QED BY <3>1, <3>2
  <2> QED BY <2>1, <2>2, <2>3 DEF DataOK
<1>5. Kept
  BY <1>2, <1>3 DEF Kept, OrdersKept, PaymentsKept, GatewayKept, PiecesKept, Over, Status
<1>6. PICK t : t = [[Idle EXCEPT !.pc = "pick", !.ord = o, !.k = 1] EXCEPT !.job = "place"]
  OBVIOUS
<1>7. DOMAIN t = Fields /\ t.pc = "pick" /\ t.ord = o /\ t.job = "place"
  BY <1>6 DEF Idle, Fields
<1>8. TaskOK(t)'
  BY <1>1, <1>3, <1>7 DEF TaskOK, OfPayment
<1>9. work' = [work EXCEPT ![w] = t]
  BY <1>6 DEF Place, Begin
<1> QED BY <1>4, <1>5, <1>7, <1>8, <1>9, Begins

-----------------------------------------------------------------------------
(* Steps that move an order.                                                *)

LEMMA OrderSteps ==
  ASSUME OrdersOK, NEW w \in Workers, UNCHANGED scope,
         GiveUp(w) \/ Reopen(w) \/ FailMove(w) \/ CaptureCancel(w) \/ CancelMove(w) \/ AfterRefund(w)
  PROVE  OrdersOK'
<1>1. TaskOK(work[w]) /\ DataOK
  BY DEF OrdersOK, WorkOK
<1>2. ASSUME NEW o \in Orders, order[o] # None, NEW s \in Payable \union {"CANCELLED", "REFUNDED"},
             s \in Payable => Status(o) \in Payable, UNCHANGED <<payment, piece, gateway, sent>>,
             order' \in {order, [order EXCEPT ![o].status = s]}
      PROVE  DataOK' /\ Kept
  BY <1>1, <1>2, StatusWritten, NothingWritten
<1>3. ASSUME ~At(w, "idle"), DataOK' /\ Kept, NEW c \in {"count", "refRead", "voidRead", "held"}, Goto(w, c),
             c \in {"refRead", "held"} => Known(work[w].pay)
      PROVE  OrdersOK'
  BY <1>3, GoesOn DEF At, Easy, EasyOfPayment, OfPayment
<1>4. ASSUME ~At(w, "idle"), DataOK' /\ Kept, Return(w) \/ Stop(w)
      PROVE  OrdersOK'
  BY <1>4, Returns, Stops DEF At
<1>5. CASE GiveUp(w)
  <2>1. work[w].ord \in Orders /\ order[work[w].ord] # None
    BY <1>1, <1>5 DEF GiveUp, At, TaskOK
  <2>2. DataOK' /\ Kept
    BY <1>2, <1>5, <2>1 DEF GiveUp, Payable
  <2> QED BY <1>4, <1>5, <2>2 DEF GiveUp, At
<1>6. CASE Reopen(w)
  <2>1. work[w].ord \in Orders /\ order[work[w].ord] # None
    BY <1>1, <1>6 DEF Reopen, At, TaskOK
  <2>2. DataOK' /\ Kept
    BY <1>2, <1>6, <2>1 DEF Reopen, Payable
  <2> QED BY <1>3, <1>6, <2>2 DEF Reopen, At
<1>7. CASE FailMove(w)
  <2>1. Known(work[w].pay)
    BY <1>1, <1>7 DEF FailMove, At, TaskOK, OfPayment
  <2>2. payment[work[w].pay].ord \in Orders /\ order[payment[work[w].pay].ord] # None
    BY <1>1, <2>1 DEF Known, DataOK, DocsOK, PaymentOK, PaymentDocs
  <2>3. DataOK' /\ Kept
    BY <1>2, <1>7, <2>2 DEF FailMove, Payable
  <2> QED BY <1>4, <1>7, <2>3 DEF FailMove, At
<1>8. CASE CaptureCancel(w)
  <2>1. work[w].ord \in Orders /\ order[work[w].ord] # None /\ Known(work[w].pay)
    BY <1>1, <1>8 DEF CaptureCancel, At, TaskOK, OfPayment
  <2>2. DataOK' /\ Kept
    BY <1>2, <1>8, <2>1 DEF CaptureCancel, Payable
  <2> QED BY <1>3, <1>8, <2>1, <2>2 DEF CaptureCancel, At
<1>9. CASE CancelMove(w)
  <2>1. work[w].ord \in Orders /\ order[work[w].ord] # None
    BY <1>1, <1>9 DEF CancelMove, At, TaskOK
  <2>2. DataOK' /\ Kept
    BY <1>2, <1>9, <2>1 DEF CancelMove, Payable
  <2> QED BY <1>3, <1>4, <1>9, <2>2 DEF CancelMove, At
<1>10. CASE AfterRefund(w)
  <2>1. work[w].ord \in Orders /\ order[work[w].ord] # None
    BY <1>1, <1>10 DEF AfterRefund, At, TaskOK
  <2>2. DataOK' /\ Kept
    BY <1>2, <1>10, <2>1 DEF AfterRefund, Payable
  <2> QED BY <1>4, <1>10, <2>2 DEF AfterRefund, At
<1> QED BY <1>5, <1>6, <1>7, <1>8, <1>9, <1>10

(* The order is cancelled, and its pieces are this worker's to take back.   *)
LEMMA CancelPaidStep ==
  ASSUME OrdersOK, NEW w \in Workers, CancelPaid(w), UNCHANGED scope
  PROVE  OrdersOK'
<1>1. PICK o : o = work[w].ord
  OBVIOUS
<1>2. TaskOK(work[w]) /\ DataOK /\ o \in Orders /\ order[o] # None /\ ~At(w, "idle")
  BY <1>1 DEF OrdersOK, WorkOK, TaskOK, CancelPaid, At
<1>3. CASE Status(o) # "CONFIRMED"
  <2>1. DataOK' /\ Kept /\ Stop(w)
    BY <1>1, <1>2, <1>3, NothingWritten DEF CancelPaid
  <2> QED BY <2>1, Stops
<1>4. CASE Status(o) = "CONFIRMED"
  <2>1. /\ order' = [order EXCEPT ![o].status = "CANCELLED"]
        /\ work' = [work EXCEPT ![w].pc = "unsell", ![w].job = "refund"]
        /\ UNCHANGED <<payment, piece, gateway, sent>>
    BY <1>1, <1>4 DEF CancelPaid
  <2>2. /\ DataOK' /\ Kept
        /\ order'[o].alloc = order[o].alloc /\ order'[o].paidBy = order[o].paidBy /\ Status(o)' = "CANCELLED"
    BY <1>2, <2>1, StatusWritten DEF Payable
  <2>3. Owned(o)' /\ Settled(o)'
    BY <1>2, <1>4, <2>1, <2>2 DEF DataOK, OrderOK, Owned, Settled
  <2>4. /\ Turn(w) /\ DOMAIN work'[w] = Fields /\ work'[w].pc = "unsell" /\ work'[w].ord = o
        /\ work'[w].job = "refund"
    BY <1>1, <2>1 DEF OrdersOK, WorkOK, Turn, Fields
  <2>5. TaskOK(work[w])'
    BY <1>2, <2>2, <2>3, <2>4 DEF TaskOK, OfPayment, Over, Kept, OrdersKept
  <2>6. \A v \in Workers : v # w => WorkOK(v)'
    BY <2>2, <2>4, TaskStays DEF OrdersOK, Turn, WorkOK, DataOK
  <2>7. \A v \in Workers : v # w /\ At(v, "unsell") => work[v].ord # o
    BY <1>4 DEF OrdersOK, WorkOK, TaskOK, At, Over
  <2>8. \A u, v \in Workers : u # v => Apart(u, v)'
    BY <2>4, <2>7 DEF OrdersOK, Turn, Apart, At
  <2> QED BY <2>2, <2>4, <2>5, <2>6, <2>8 DEF OrdersOK, WorkOK, Turn
<1> QED BY <1>3, <1>4

-----------------------------------------------------------------------------
(* Steps that write a payment.                                              *)

LEMMA PaymentRewritten ==
  ASSUME DataOK, NEW p, Known(p), NEW d \in PaymentDocs, d.ord = payment[p].ord, MoneyOK(d),
         payment' = [payment EXCEPT ![p] = d],
         UNCHANGED <<order, piece, gateway, sent, scope>>
  PROVE  DataOK' /\ Kept
BY PaymentWritten DEF Known, DataOK, PaymentOK

(* A new status leaves the money as it was.                                 *)
LEMMA StatusRewritten ==
  ASSUME DataOK, NEW p, Known(p), NEW s \in PaymentStatuses,
         s \in Capturable => payment[p].status \in Capturable,
         payment' = [payment EXCEPT ![p].status = s],
         UNCHANGED <<order, piece, gateway, sent, scope>>
  PROVE  DataOK' /\ Kept
<1>1. PICK d : d = [payment[p] EXCEPT !.status = s]
  OBVIOUS
<1>2. payment[p] \in PaymentDocs /\ MoneyOK(payment[p])
  BY DEF Known, DataOK, DocsOK, PaymentOK
<1>3. /\ d \in PaymentDocs /\ d.ord = payment[p].ord /\ d.refunds = payment[p].refunds
      /\ d.captured = payment[p].captured /\ d.status = s
  BY <1>1, <1>2 DEF PaymentDocs
<1>4. MoneyOK(d)
  BY <1>2, <1>3 DEF MoneyOK
<1>5. payment' = [payment EXCEPT ![p] = d]
  BY <1>1
<1> QED BY <1>3, <1>4, <1>5, PaymentRewritten

(* So do its refunds, as long as no more of them is under way or done.      *)
LEMMA RefundsRewritten ==
  ASSUME DataOK, NEW p, Known(p), NEW refunds \in Seq(Refunds),
         RefundedIn(refunds, {"PENDING", "SUCCEEDED"}) <= payment[p].captured,
         refunds # <<>> => payment[p].status \notin Capturable,
         payment' = [payment EXCEPT ![p].refunds = refunds],
         UNCHANGED <<order, piece, gateway, sent, scope>>
  PROVE  DataOK' /\ Kept
<1>1. PICK d : d = [payment[p] EXCEPT !.refunds = refunds]
  OBVIOUS
<1>2. payment[p] \in PaymentDocs
  BY DEF Known, DataOK, DocsOK
<1>3. /\ d \in PaymentDocs /\ d.ord = payment[p].ord /\ d.refunds = refunds
      /\ d.captured = payment[p].captured /\ d.status = payment[p].status
  BY <1>1, <1>2 DEF PaymentDocs
<1>4. MoneyOK(d)
  BY <1>3 DEF MoneyOK
<1>5. payment' = [payment EXCEPT ![p] = d]
  BY <1>1
<1> QED BY <1>3, <1>4, <1>5, PaymentRewritten

(* A refund that is not under way any more adds nothing if it changes.      *)
LEMMA RefundReplaced ==
  ASSUME NEW refunds \in Seq(Refunds), NEW k, NEW r, NEW after, after = [refunds EXCEPT ![k] = r],
         k \in DOMAIN refunds =>
           /\ r \in Refunds /\ r.amount = refunds[k].amount
           /\ r.status \in {"PENDING", "SUCCEEDED"} => refunds[k].status \in {"PENDING", "SUCCEEDED"}
  PROVE  /\ after \in Seq(Refunds) /\ (after # <<>> => refunds # <<>>)
         /\ RefundedIn(after, {"PENDING", "SUCCEEDED"}) <= RefundedIn(refunds, {"PENDING", "SUCCEEDED"})
<1>1. CASE k \notin DOMAIN refunds
  <2>1. after = refunds
    BY <1>1
  <2>2. RefundedIn(refunds, {"PENDING", "SUCCEEDED"}) \in Nat
    BY RefundedIsNat
  <2>3. RefundedIn(after, {"PENDING", "SUCCEEDED"}) = RefundedIn(refunds, {"PENDING", "SUCCEEDED"})
    BY <2>1
  <2>4. after \in Seq(Refunds) /\ (after # <<>> => refunds # <<>>)
    BY <2>1
  <2>5. RefundedIn(after, {"PENDING", "SUCCEEDED"}) <= RefundedIn(refunds, {"PENDING", "SUCCEEDED"})
    BY <2>2, <2>3
  <2> QED BY <2>4, <2>5
<1>2. CASE k \in DOMAIN refunds
  <2>1. PICK n \in Nat : n = Len(refunds) /\ DOMAIN refunds = 1..n
    OBVIOUS
  <2>2. after \in [1..n -> Refunds] /\ \A j \in 1..n : after[j] = IF j = k THEN r ELSE refunds[j]
    BY <1>2, <2>1
  <2>3. after \in Seq(Refunds)
    <3>1. after \in UNION {[1..m -> Refunds] : m \in Nat}
      BY <2>2
    <3> QED BY <3>1, SeqDef, Zenon
  <2>4. /\ DOMAIN after = DOMAIN refunds /\ (after # <<>> => refunds # <<>>)
        /\ \A j \in DOMAIN refunds : after[j].amount = refunds[j].amount
    BY <1>2, <2>1, <2>2
  <2> DEFINE S == Among(after, {"PENDING", "SUCCEEDED"})
             T == Among(refunds, {"PENDING", "SUCCEEDED"})
  <2>5. S \subseteq T /\ S \subseteq DOMAIN after /\ T \subseteq DOMAIN refunds
    BY <1>2, <2>1, <2>2, <2>4 DEF Among
  <2> HIDE DEF S, T
  <2>6. Sum(after, S) <= Sum(refunds, T)
    BY <2>3, <2>4, <2>5, SumGrows
  <2> QED BY <2>3, <2>4, <2>6 DEF RefundedIn, S, T
<1> QED BY <1>1, <1>2

LEMMA RefundRewritten ==
  ASSUME DataOK, NEW p, Known(p), NEW k, NEW r,
         k \in DOMAIN payment[p].refunds =>
           /\ r \in Refunds /\ r.amount = payment[p].refunds[k].amount
           /\ r.status \in {"PENDING", "SUCCEEDED"} => payment[p].refunds[k].status \in {"PENDING", "SUCCEEDED"},
         payment' = [payment EXCEPT ![p].refunds = [payment[p].refunds EXCEPT ![k] = r]],
         UNCHANGED <<order, piece, gateway, sent, scope>>
  PROVE  DataOK' /\ Kept
<1>1. payment[p] \in PaymentDocs /\ MoneyOK(payment[p])
  BY DEF Known, DataOK, DocsOK, PaymentOK
<1>2. PICK refunds \in Seq(Refunds) : refunds = payment[p].refunds
  BY <1>1 DEF PaymentDocs
<1>3. PICK after : after = [refunds EXCEPT ![k] = r]
  OBVIOUS
<1>4. /\ after \in Seq(Refunds) /\ (after # <<>> => refunds # <<>>)
      /\ RefundedIn(after, {"PENDING", "SUCCEEDED"}) <= RefundedIn(refunds, {"PENDING", "SUCCEEDED"})
  BY <1>2, <1>3, RefundReplaced
<1>5. RefundedIn(after, {"PENDING", "SUCCEEDED"}) \in Nat /\ RefundedIn(refunds, {"PENDING", "SUCCEEDED"}) \in Nat
  BY <1>4, RefundedIsNat
<1>6. RefundedIn(after, {"PENDING", "SUCCEEDED"}) <= payment[p].captured /\ (after # <<>> => payment[p].status \notin Capturable)
  BY <1>1, <1>2, <1>4, <1>5 DEF MoneyOK, PaymentDocs
<1> QED BY <1>2, <1>3, <1>4, <1>6, RefundsRewritten

LEMMA PaymentSteps ==
  ASSUME OrdersOK, NEW w \in Workers, UNCHANGED scope,
         VoidMark(w) \/ BindReference(w) \/ Authorize(w) \/ FailMark(w) \/ CaptureRecord(w)
           \/ RefundReserve(w) \/ RefundBind(w) \/ SettleRefund(w) \/ SettleTotal(w)
  PROVE  OrdersOK'
<1>1. PICK p : p = work[w].pay
  OBVIOUS
<1>2. TaskOK(work[w]) /\ DataOK /\ DOMAIN work = Workers /\ DOMAIN work[w] = Fields
  BY DEF OrdersOK, WorkOK
<1>3. ASSUME ~At(w, "idle"), DataOK' /\ Kept, Return(w) \/ Stop(w)
      PROVE  OrdersOK'
  BY <1>3, Returns, Stops DEF At
<1>4. UNCHANGED <<order, piece, gateway, sent, scope>>
  BY DEF VoidMark, BindReference, Authorize, FailMark, CaptureRecord, RefundReserve, RefundBind, SettleRefund, SettleTotal
<1>5. ASSUME UNCHANGED payment
      PROVE  DataOK' /\ Kept
  BY <1>2, <1>4, <1>5, NothingWritten
<1>6. CASE VoidMark(w)
  <2>1. PICK old \in work[w].todo :
          /\ payment' = [payment EXCEPT ![old[1]].status = IF @ \in Open THEN "FAILED" ELSE @]
          /\ work' = [work EXCEPT ![w].todo = @ \ {old}, ![w].pc = IF old[2] THEN "voidAsk" ELSE "void", ![w].pay = old[1]]
    BY <1>6 DEF VoidMark
  <2>2. /\ work[w].pc = "void" /\ \A t \in work[w].todo : Known(t[1])
        /\ work[w].ord \in Orders /\ order[work[w].ord] # None /\ work[w].seen # "STOCK_UNAVAILABLE"
    BY <1>2, <1>6 DEF VoidMark, At, TaskOK
  <2>3. PICK q : q = old[1]
    OBVIOUS
  <2>4. Known(q) /\ payment[q] \in PaymentDocs
    BY <1>2, <2>2, <2>3 DEF Known, DataOK, DocsOK
  <2>5. PICK s \in PaymentStatuses : s = (IF payment[q].status \in Open THEN "FAILED" ELSE payment[q].status)
    BY <2>4 DEF PaymentDocs, PaymentStatuses
  <2>6. payment' = [payment EXCEPT ![q].status = s] /\ (s \in Capturable => payment[q].status \in Capturable)
    BY <2>1, <2>3, <2>4, <2>5 DEF Known, DataOK, DocsOK, Open, Capturable
  <2>7. DataOK' /\ Kept
    BY <1>2, <1>4, <2>4, <2>6, StatusRewritten
  <2>8. \A t \in work[w].todo : Known(t[1])'
    BY <2>2, <2>7 DEF Known, Kept, PaymentsKept
  <2>9. /\ Turn(w) /\ DOMAIN work'[w] = Fields /\ work'[w].pc \in {"void", "voidAsk"} /\ work'[w].pay = q
        /\ work'[w].todo \subseteq work[w].todo /\ work'[w].ord = work[w].ord /\ work'[w].seen = work[w].seen
    BY <1>2, <2>1, <2>3 DEF Turn, Fields
  <2>10. TaskOK(work[w])'
    BY <1>4, <2>2, <2>3, <2>8, <2>9 DEF TaskOK, OfPayment
  <2> QED BY <2>7, <2>9, <2>10, WorkerStep DEF WorkOK, At
<1>7. ASSUME At(w, "bind") \/ At(w, "authorize") \/ At(w, "failMark") \/ At(w, "capRecord") \/ At(w, "refReserve")
               \/ At(w, "refBind") \/ At(w, "settle") \/ At(w, "total")
      PROVE  /\ Known(p) /\ payment[p] \in PaymentDocs /\ MoneyOK(payment[p]) /\ ~At(w, "idle")
             /\ payment \in [Payments -> PaymentDocs \union {None}]
  BY <1>1, <1>2, <1>7 DEF At, TaskOK, OfPayment, Known, DataOK, DocsOK, PaymentOK
<1>8. CASE BindReference(w)
  <2>1. PICK d : d = [payment[p] EXCEPT !.bound = TRUE]
    OBVIOUS
  <2>2. Known(p) /\ payment[p] \in PaymentDocs /\ MoneyOK(payment[p]) /\ ~At(w, "idle")
    BY <1>7, <1>8 DEF BindReference
  <2>3. /\ d \in PaymentDocs /\ d.ord = payment[p].ord /\ d.refunds = payment[p].refunds
        /\ d.captured = payment[p].captured /\ d.status = payment[p].status
    BY <2>1, <2>2 DEF PaymentDocs
  <2>4. MoneyOK(d) /\ payment' = [payment EXCEPT ![p] = d]
    BY <1>1, <1>8, <2>1, <2>2, <2>3 DEF MoneyOK, BindReference
  <2>5. DataOK' /\ Kept
    BY <1>2, <1>4, <2>2, <2>3, <2>4, PaymentRewritten
  <2> QED BY <1>3, <1>8, <2>2, <2>5 DEF BindReference
<1>9. CASE Authorize(w)
  <2>1. Known(p) /\ payment[p] \in PaymentDocs /\ ~At(w, "idle")
    BY <1>7, <1>9 DEF Authorize
  <2>2. PICK s \in PaymentStatuses : s = (IF payment[p].status = "PENDING" THEN "AUTHORIZED" ELSE payment[p].status)
    BY <2>1 DEF PaymentDocs, PaymentStatuses
  <2>3. payment' = [payment EXCEPT ![p].status = s] /\ (s \in Capturable => payment[p].status \in Capturable)
    BY <1>1, <1>2, <1>9, <2>1, <2>2 DEF Authorize, Known, DataOK, DocsOK, Capturable
  <2>4. DataOK' /\ Kept
    BY <1>2, <1>4, <2>1, <2>3, StatusRewritten
  <2> QED BY <1>3, <1>9, <2>1, <2>4 DEF Authorize
<1>10. CASE FailMark(w) /\ payment[p].status \in Open
  <2>1. Known(p) /\ ~At(w, "idle")
    BY <1>7, <1>10 DEF FailMark
  <2>2. payment' = [payment EXCEPT ![p].status = "FAILED"] /\ Goto(w, "failLook") /\ payment[p].status \in Capturable
    BY <1>1, <1>10 DEF FailMark, Open, Capturable
  <2>3. DataOK' /\ Kept
    BY <1>2, <1>4, <2>1, <2>2, StatusRewritten DEF PaymentStatuses
  <2> QED BY <1>1, <2>1, <2>2, <2>3, GoesOn DEF At, EasyOfPayment, OfPayment
<1>11. CASE FailMark(w) /\ payment[p].status \notin Open
  BY <1>1, <1>3, <1>5, <1>11 DEF FailMark, At
<1>12. CASE CaptureRecord(w)
  <2>1. Known(p) /\ payment[p] \in PaymentDocs /\ MoneyOK(payment[p]) /\ ~At(w, "idle")
    BY <1>7, <1>12 DEF CaptureRecord
  <2>2. DataOK' /\ Kept
    <3>1. CASE payment[p].status \notin Capturable
      BY <1>1, <1>5, <1>12, <3>1 DEF CaptureRecord, Captured
    <3>2. CASE payment[p].status \in Capturable
      <4>1. PICK d : d = [payment[p] EXCEPT !.status = "CAPTURED", !.captured = gateway[p].amount]
        OBVIOUS
      <4>2. gateway[p].amount \in Nat
        BY <2>1 DEF Known, OrdersOK, DataOK, DocsOK, GatewayRecords
      <4>3. /\ d \in PaymentDocs /\ d.ord = payment[p].ord /\ d.refunds = <<>>
            /\ d.captured = gateway[p].amount
        BY <2>1, <3>2, <4>1, <4>2 DEF PaymentDocs, PaymentStatuses, MoneyOK
      <4>4. MoneyOK(d)
        BY <4>2, <4>3, NothingRefunded DEF MoneyOK
      <4>5. payment' = [payment EXCEPT ![p] = d]
        BY <1>1, <1>12, <3>2, <4>1 DEF CaptureRecord, Captured
      <4> QED BY <1>2, <1>4, <2>1, <4>3, <4>4, <4>5, PaymentRewritten
    <3> QED BY <3>1, <3>2
  <2>3. PICK c \in {"capCancel", "refRead"} : Goto(w, c)
    BY <1>12 DEF CaptureRecord
  <2> QED BY <1>1, <2>1, <2>2, <2>3, GoesOn DEF At, Easy, EasyOfPayment, OfPayment
<1>13. CASE RefundReserve(w)
  <2>1. CASE UNCHANGED payment /\ Return(w)
    BY <1>3, <1>5, <1>13, <2>1 DEF RefundReserve, At
  <2>2. CASE ~(UNCHANGED payment /\ Return(w))
    <3>1. /\ payment[p].status \in {"CAPTURED", "PARTIALLY_REFUNDED"}
          /\ Committed(p) + work[w].amount <= payment[p].captured
          /\ payment' = [payment EXCEPT ![p].refunds = Append(@, [amount |-> work[w].amount, status |-> "PENDING", bound |-> FALSE])]
          /\ work' = [work EXCEPT ![w].pc = "refAsk", ![w].k = Len(payment[p].refunds) + 1]
      BY <1>1, <1>13, <2>2 DEF RefundReserve
    <3>2. Known(p) /\ payment[p] \in PaymentDocs /\ ~At(w, "idle")
      BY <1>7, <1>13 DEF RefundReserve
    <3>3. TaskOK(work[w]) /\ work[w].amount \in Nat /\ work[w].pc = "refReserve"
      BY <1>2, <1>13 DEF RefundReserve, At, TaskOK
    <3>4. PICK r \in Refunds : r = [amount |-> work[w].amount, status |-> "PENDING", bound |-> FALSE]
      BY <3>3 DEF Refunds
    <3>5. PICK refunds \in Seq(Refunds) : refunds = payment[p].refunds
      BY <3>2 DEF PaymentDocs
    <3>6. PICK added \in Seq(Refunds) : added = Append(refunds, r)
      BY AppendProperties
    <3>7. /\ RefundedIn(added, {"PENDING", "SUCCEEDED"}) <= RefundedIn(refunds, {"PENDING", "SUCCEEDED"}) + r.amount
          /\ RefundedIn(added, {"PENDING", "SUCCEEDED"}) \in Nat /\ RefundedIn(refunds, {"PENDING", "SUCCEEDED"}) \in Nat
      BY <3>6, RefundAdded, RefundedIsNat
    <3>8. RefundedIn(added, {"PENDING", "SUCCEEDED"}) <= payment[p].captured
      BY <3>1, <3>2, <3>3, <3>4, <3>5, <3>7 DEF Committed, PaymentDocs
    <3>9. payment' = [payment EXCEPT ![p].refunds = added] /\ payment[p].status \notin Capturable
      BY <1>7, <3>1, <3>2, <3>4, <3>5, <3>6 DEF Known, Capturable
    <3>10. DataOK' /\ Kept
      BY <1>2, <1>4, <3>2, <3>8, <3>9, RefundsRewritten
    <3>11. /\ Turn(w) /\ DOMAIN work'[w] = Fields /\ work'[w].pc = "refAsk" /\ work'[w].pay = p
           /\ work'[w].todo = work[w].todo /\ work'[w].ord = work[w].ord /\ work'[w].job = work[w].job
      BY <1>1, <1>2, <3>1 DEF Turn, Fields
    <3>12. TaskOK(work[w])'
      BY <3>2, <3>3, <3>10, <3>11 DEF TaskOK, OfPayment, Known, Kept, OrdersKept, PaymentsKept
    <3> QED BY <3>10, <3>11, <3>12, WorkerStep DEF WorkOK, At
  <2> QED BY <2>1, <2>2
<1>14. CASE RefundBind(w)
  <2>1. PICK k : k = work[w].k
    OBVIOUS
  <2>2. Known(p) /\ payment[p] \in PaymentDocs /\ ~At(w, "idle")
    BY <1>7, <1>14 DEF RefundBind
  <2>3. PICK r : r = [payment[p].refunds[k] EXCEPT !.bound = TRUE]
    OBVIOUS
  <2>4. k \in DOMAIN payment[p].refunds => payment[p].refunds[k] \in Refunds
    BY <2>2 DEF PaymentDocs
  <2>5. k \in DOMAIN payment[p].refunds =>
          r \in Refunds /\ r.amount = payment[p].refunds[k].amount /\ r.status = payment[p].refunds[k].status
    BY <2>3, <2>4 DEF Refunds
  <2>6. payment' = [payment EXCEPT ![p].refunds = [payment[p].refunds EXCEPT ![k] = r]]
    BY <1>1, <1>14, <2>1, <2>3 DEF RefundBind
  <2>7. DataOK' /\ Kept
    BY <1>2, <1>4, <2>2, <2>5, <2>6, RefundRewritten
  <2> QED BY <1>3, <1>14, <2>2, <2>7 DEF RefundBind
<1>15. CASE SettleRefund(w) /\ UNCHANGED payment /\ (Return(w) \/ Stop(w))
  BY <1>3, <1>5, <1>15 DEF SettleRefund, At
<1>16. CASE SettleRefund(w) /\ ~(UNCHANGED payment /\ (Return(w) \/ Stop(w)))
  <2>1. PICK k : k = work[w].k
    OBVIOUS
  <2>2. PICK s : s = work[w].seen
    OBVIOUS
  <2> DEFINE after == [payment[p].refunds EXCEPT ![k].status = s, ![k].bound = @ \/ s = "SUCCEEDED"]
  <2>3. /\ payment[p].refunds[k].status = "PENDING"
        /\ payment' = [payment EXCEPT ![p].refunds = after]
        /\ work' = [work EXCEPT ![w].pc = "total", ![w].amount = RefundedIn(after, {"SUCCEEDED"})]
    BY <1>1, <1>16, <2>1, <2>2 DEF SettleRefund
  <2>4. Known(p) /\ payment[p] \in PaymentDocs /\ ~At(w, "idle")
    BY <1>7, <1>16 DEF SettleRefund
  <2>5. TaskOK(work[w]) /\ work[w].pc = "settle" /\ s \in {"SUCCEEDED", "FAILED"}
    BY <1>2, <1>16, <2>2 DEF SettleRefund, At, TaskOK
  <2>6. PICK b : b = (payment[p].refunds[k].bound \/ s = "SUCCEEDED")
    OBVIOUS
  <2>7. PICK r : r = [payment[p].refunds[k] EXCEPT !.status = s, !.bound = b]
    OBVIOUS
  <2>8. k \in DOMAIN payment[p].refunds => payment[p].refunds[k] \in Refunds
    BY <2>4 DEF PaymentDocs
  <2>9. k \in DOMAIN payment[p].refunds => r \in Refunds /\ r.amount = payment[p].refunds[k].amount
    BY <2>5, <2>6, <2>7, <2>8 DEF Refunds
  <2>10. after = [payment[p].refunds EXCEPT ![k] = r]
    BY <2>6, <2>7
  <2>11. DataOK' /\ Kept
    <3>1. payment' = [payment EXCEPT ![p].refunds = [payment[p].refunds EXCEPT ![k] = r]]
      BY <2>3, <2>10
    <3>2. payment[p].refunds[k].status \in {"PENDING", "SUCCEEDED"}
      BY <2>3
    <3> QED BY <1>2, <1>4, <2>4, <2>9, <3>1, <3>2, RefundRewritten
  <2>12. PICK n : n = RefundedIn(after, {"SUCCEEDED"})
    OBVIOUS
  <2>13. n \in Nat
    <3>1. PICK refunds \in Seq(Refunds) : refunds = payment[p].refunds
      BY <2>4 DEF PaymentDocs
    <3>2. PICK t : t = after
      OBVIOUS
    <3>3. t \in Seq(Refunds)
      BY <2>3, <2>9, <2>10, <3>1, <3>2, RefundReplaced
    <3> QED BY <2>12, <3>2, <3>3, RefundedIsNat
  <2>14. work' = [work EXCEPT ![w].pc = "total", ![w].amount = n]
    BY <2>3, <2>12
  <2> HIDE DEF after
  <2>15. /\ Turn(w) /\ DOMAIN work'[w] = Fields /\ work'[w].pc = "total" /\ work'[w].pay = p /\ work'[w].amount \in Nat
         /\ work'[w].todo = work[w].todo /\ work'[w].ord = work[w].ord /\ work'[w].job = work[w].job
    BY <1>1, <1>2, <2>13, <2>14 DEF Turn, Fields
  <2>16. TaskOK(work[w])'
    BY <2>4, <2>5, <2>11, <2>15 DEF TaskOK, OfPayment, Known, Kept, OrdersKept, PaymentsKept
  <2> QED BY <2>11, <2>15, <2>16, WorkerStep DEF WorkOK, At
<1>17. CASE SettleTotal(w)
  <2>1. Known(p) /\ payment[p] \in PaymentDocs /\ MoneyOK(payment[p]) /\ ~At(w, "idle")
    BY <1>7, <1>17 DEF SettleTotal
  <2>2. work[w].amount \in Nat
    BY <1>2, <1>17 DEF SettleTotal, At, TaskOK
  <2>3. PICK s : s = PaymentStatusFor(payment[p].captured, work[w].amount)
    OBVIOUS
  <2>4. s \in {"CAPTURED", "PARTIALLY_REFUNDED", "REFUNDED"}
    BY <2>3 DEF PaymentStatusFor
  <2>5. PICK d : d = [payment[p] EXCEPT !.refunded = work[w].amount, !.status = s]
    OBVIOUS
  <2>6. /\ d \in PaymentDocs /\ d.ord = payment[p].ord /\ d.refunds = payment[p].refunds
        /\ d.captured = payment[p].captured /\ d.status = s
    BY <2>1, <2>2, <2>4, <2>5 DEF PaymentDocs, PaymentStatuses
  <2>7. MoneyOK(d)
    BY <2>1, <2>4, <2>6 DEF MoneyOK, Capturable
  <2>8. payment' = [payment EXCEPT ![p] = d]
    BY <1>1, <1>17, <2>3, <2>5 DEF SettleTotal
  <2>9. DataOK' /\ Kept
    BY <1>2, <1>4, <2>1, <2>6, <2>7, <2>8, PaymentRewritten
  <2>10. CASE Goto(w, "after")
    BY <1>1, <2>1, <2>9, <2>10, GoesOn DEF At, EasyOfPayment, OfPayment
  <2>11. CASE Return(w)
    BY <1>3, <2>1, <2>9, <2>11
  <2> QED BY <1>17, <2>10, <2>11 DEF SettleTotal
<1> QED BY <1>6, <1>8, <1>9, <1>10, <1>11, <1>12, <1>13, <1>14, <1>15, <1>16, <1>17

(* A new payment is this worker's alone to start.                           *)
LEMMA CreatePaymentStep ==
  ASSUME OrdersOK, NEW w \in Workers, CreatePayment(w), UNCHANGED scope
  PROVE  OrdersOK'
<1>1. PICK o : o = work[w].ord
  OBVIOUS
<1>2. /\ TaskOK(work[w]) /\ DataOK /\ o \in Orders /\ order[o] # None /\ work[w].pc = "create"
      /\ work[w].k \in Nat /\ DOMAIN work = Workers /\ DOMAIN work[w] = Fields
  BY <1>1 DEF OrdersOK, WorkOK, TaskOK, CreatePayment, At
<1>3. CASE Stop(w) /\ UNCHANGED payment
  <2>1. DataOK' /\ Kept
    BY <1>2, <1>3, NothingWritten DEF CreatePayment
  <2> QED BY <1>3, <2>1, Stops
<1>4. CASE ~(Stop(w) /\ UNCHANGED payment)
  <2>1. PICK p \in Payments :
          /\ payment[p] = None
          /\ payment' = [payment EXCEPT ![p] =
               [ord |-> o, status |-> "PENDING", bound |-> FALSE, attempt |-> work[w].k,
                captured |-> 0, refunded |-> 0, refunds |-> <<>>]]
          /\ work' = [work EXCEPT ![w].pc = "start", ![w].pay = p]
    BY <1>1, <1>4 DEF CreatePayment
  <2>2. PICK d : d = [ord |-> o, status |-> "PENDING", bound |-> FALSE, attempt |-> work[w].k,
                      captured |-> 0, refunded |-> 0, refunds |-> <<>>]
    OBVIOUS
  <2>3. d \in PaymentDocs /\ d.ord = o
    BY <1>2, <2>2 DEF PaymentDocs, PaymentStatuses
  <2>4. MoneyOK(d)
    BY <2>2, NothingRefunded DEF MoneyOK
  <2>5. DataOK' /\ Kept
    BY <1>2, <2>1, <2>2, <2>3, <2>4, PaymentWritten DEF CreatePayment
  <2>6. gateway[p].state = "none" /\ gateway' = gateway /\ payment'[p] # None
    BY <1>2, <2>1, <2>2, <2>3, NoneIsNoDocument DEF DataOK, DocsOK, GatewayOK, CreatePayment
  <2>7. /\ Turn(w) /\ DOMAIN work'[w] = Fields /\ work'[w].pc = "start" /\ work'[w].pay = p /\ work'[w].ord = o
        /\ work'[w].todo = work[w].todo /\ work'[w].job = work[w].job
    BY <1>1, <1>2, <2>1 DEF Turn, Fields
  <2>8. TaskOK(work[w])'
    BY <1>2, <2>5, <2>6, <2>7 DEF TaskOK, OfPayment, Known, Kept, OrdersKept, PaymentsKept
  <2>9. \A v \in Workers : v # w => WorkOK(v)'
    BY <2>5, <2>7, TaskStays DEF OrdersOK, Turn, WorkOK, DataOK
  <2>10. \A v \in Workers : v # w /\ At(v, "start") => work[v].pay # p
    BY <2>1 DEF OrdersOK, WorkOK, TaskOK, At, OfPayment, Known
  <2>11. \A u, v \in Workers : u # v => Apart(u, v)'
    BY <2>7, <2>10 DEF OrdersOK, Turn, Apart, At
  <2> QED BY <2>5, <2>7, <2>8, <2>9, <2>11 DEF OrdersOK, WorkOK, Turn
<1> QED BY <1>3, <1>4

-----------------------------------------------------------------------------
(* Steps that ask the provider, or that it takes by itself.                 *)

LEMMA VoidedIs ==
  ASSUME DataOK, NEW p, Known(p), gateway' \in {gateway, Voided(p)},
         UNCHANGED <<order, payment, piece, sent, scope>>
  PROVE  DataOK' /\ Kept
<1>1. CASE gateway' = gateway
  BY <1>1, NothingWritten
<1>2. CASE gateway' # gateway
  <2>1. PICK g : g = [gateway[p] EXCEPT !.state = "failed"]
    OBVIOUS
  <2>2. gateway[p].state \in {"open", "authorized"} /\ gateway' = [gateway EXCEPT ![p] = g]
    BY <1>2, <2>1 DEF Voided
  <2>3. gateway[p] \in GatewayRecords /\ gateway[p].amount = 0
    BY <2>2 DEF Known, DataOK, DocsOK, GatewayOK
  <2>4. g \in GatewayRecords /\ g.state = "failed" /\ g.amount = 0
    BY <2>1, <2>3 DEF GatewayRecords
  <2> QED BY <2>2, <2>3, <2>4, GatewayWritten DEF Known, DataOK, DocsOK
<1> QED BY <1>1, <1>2

LEMMA AskProviderSteps ==
  ASSUME OrdersOK, NEW w \in Workers, VoidAsk(w) \/ CloseAsk(w) \/ RefundAsk(w), UNCHANGED scope
  PROVE  OrdersOK'
<1>1. PICK p : p = work[w].pay
  OBVIOUS
<1>2. TaskOK(work[w]) /\ DataOK /\ DOMAIN work = Workers /\ DOMAIN work[w] = Fields
  BY DEF OrdersOK, WorkOK
<1>3. Known(p) /\ work[w].ord \in Orders /\ order[work[w].ord] # None /\ ~At(w, "idle")
  BY <1>1, <1>2 DEF TaskOK, OfPayment, VoidAsk, CloseAsk, RefundAsk, At
<1>4. CASE VoidAsk(w)
  <2>1. DataOK' /\ Kept
    BY <1>1, <1>2, <1>3, <1>4, VoidedIs DEF VoidAsk
  <2>2. /\ Turn(w) /\ DOMAIN work'[w] = Fields /\ work'[w].pc = "void" /\ work'[w].todo = work[w].todo
        /\ work'[w].ord = work[w].ord /\ work'[w].seen = work[w].seen
    BY <1>4, Goes DEF VoidAsk, Fields
  <2>3. TaskOK(work[w]) /\ work[w].pc = "voidAsk"
    BY <1>2, <1>4 DEF VoidAsk, At
  <2>4. TaskOK(work[w])'
    BY <1>3, <2>1, <2>2, <2>3 DEF TaskOK, OfPayment, Known, Kept, OrdersKept, PaymentsKept
  <2> QED BY <2>1, <2>2, <2>4, WorkerStep DEF WorkOK, At
<1>5. CASE CloseAsk(w)
  <2>1. DataOK' /\ Kept
    BY <1>1, <1>2, <1>3, <1>5, VoidedIs DEF CloseAsk
  <2> QED BY <1>1, <1>3, <1>5, <2>1, GoesOn DEF CloseAsk, At, EasyOfPayment, OfPayment
<1>6. CASE RefundAsk(w)
  <2>1. PICK k : k = work[w].k
    OBVIOUS
  <2>2. PICK r \in {"done", "pending", "failed"} : gateway' = [gateway EXCEPT ![p].refunds[k] = r]
    BY <1>1, <1>6, <2>1 DEF RefundAsk
  <2>3. PICK g : g = [gateway[p] EXCEPT !.refunds[k] = r]
    OBVIOUS
  <2>4. gateway[p] \in GatewayRecords
    BY <1>2, <1>3 DEF Known, DataOK, DocsOK
  <2>5. g \in GatewayRecords /\ g.state = gateway[p].state /\ g.amount = gateway[p].amount
    BY <2>3, <2>4 DEF GatewayRecords
  <2>6. gateway' = [gateway EXCEPT ![p] = g]
    BY <2>2, <2>3
  <2>7. DataOK' /\ Kept
    BY <1>2, <1>3, <1>6, <2>5, <2>6, GatewayWritten DEF Known, DataOK, DocsOK, GatewayOK, RefundAsk
  <2>8. Goto(w, "refBind") \/ \E s \in {"SUCCEEDED", "FAILED"} : GotoWith(w, "settle", s)
    BY <1>6 DEF RefundAsk
  <2>9. CASE Goto(w, "refBind")
    BY <1>1, <1>3, <2>7, <2>9, GoesOn DEF At, EasyOfPayment, OfPayment
  <2>10. CASE \E s \in {"SUCCEEDED", "FAILED"} : GotoWith(w, "settle", s)
    <3>1. /\ Turn(w) /\ DOMAIN work'[w] = Fields /\ work'[w].pc = "settle" /\ work'[w].pay = p
          /\ work'[w].seen \in {"SUCCEEDED", "FAILED"}
          /\ work'[w].todo = work[w].todo /\ work'[w].ord = work[w].ord /\ work'[w].job = work[w].job
      BY <1>1, <2>10, GoesWith DEF Fields
    <3>2. TaskOK(work[w])'
      BY <1>2, <1>3, <2>7, <3>1 DEF TaskOK, OfPayment, Known, Kept, OrdersKept, PaymentsKept, At
    <3> QED BY <2>7, <3>1, <3>2, WorkerStep DEF WorkOK, At
  <2> QED BY <2>8, <2>9, <2>10
<1> QED BY <1>4, <1>5, <1>6

(* The payment is opened at the provider, by the one worker that made it.   *)
LEMMA StartStep ==
  ASSUME OrdersOK, NEW w \in Workers, StartAtProvider(w), UNCHANGED scope
  PROVE  OrdersOK'
<1>1. PICK p : p = work[w].pay
  OBVIOUS
<1>2. /\ TaskOK(work[w]) /\ DataOK /\ work[w].pc = "start" /\ Known(p) /\ gateway[p].state = "none"
      /\ DOMAIN work = Workers /\ DOMAIN work[w] = Fields
  BY <1>1 DEF OrdersOK, WorkOK, TaskOK, OfPayment, StartAtProvider, At
<1>3. CASE Goto(w, "failMark") /\ UNCHANGED gateway
  <2>1. DataOK' /\ Kept
    BY <1>2, <1>3, NothingWritten DEF StartAtProvider
  <2> QED BY <1>1, <1>2, <1>3, <2>1, GoesOn DEF At, EasyOfPayment, OfPayment
<1>4. CASE gateway' = [gateway EXCEPT ![p].state = "open"] /\ Goto(w, "bind")
  <2>1. UNCHANGED <<order, payment, piece, sent, scope>>
    BY DEF StartAtProvider
  <2>2. \A q \in Payments : gateway'[q] = IF q = p THEN [gateway[p] EXCEPT !.state = "open"] ELSE gateway[q]
    BY <1>2, <1>4 DEF DataOK, DocsOK
  <2>3. gateway[p] \in GatewayRecords /\ gateway[p].amount = 0
    BY <1>2 DEF Known, DataOK, DocsOK, GatewayOK
  <2>4. gateway'[p] \in GatewayRecords /\ gateway'[p].state = "open" /\ gateway'[p].amount = 0
    BY <1>2, <2>2, <2>3 DEF Known, GatewayRecords
  <2>5. DocsOK'
    BY <1>2, <1>4, <2>1, <2>2, <2>4 DEF DataOK, DocsOK
  <2>6. \A q \in Payments : PaymentOK(q)' /\ GatewayOK(q)'
    BY <1>2, <2>1, <2>2, <2>4 DEF DataOK, PaymentOK, GatewayOK, Known
  <2>7. \A o \in Orders : OrderOK(o)'
    BY <1>2, <2>1, <2>2 DEF DataOK, OrderOK, Status, Owned, Settled
  <2>8. DataOK'
    BY <2>5, <2>6, <2>7 DEF DataOK
  <2>9. /\ Turn(w) /\ DOMAIN work'[w] = Fields /\ work'[w].pc = "bind" /\ work'[w].pay = p
        /\ work'[w].todo = work[w].todo /\ work'[w].ord = work[w].ord /\ work'[w].job = work[w].job
    BY <1>1, <1>4, Goes DEF Fields
  <2>10. TaskOK(work[w])'
    BY <1>2, <2>1, <2>9 DEF TaskOK, OfPayment, Known
  <2>11. \A v \in Workers : v # w => WorkOK(v)'
    <3> SUFFICES ASSUME NEW v \in Workers, v # w PROVE WorkOK(v)'
      OBVIOUS
    <3>1. TaskOK(work[v]) /\ DOMAIN work[v] = Fields /\ work'[v] = work[v] /\ (work[v].pc = "start" => work[v].pay # p)
      BY <1>1, <1>2, <2>9 DEF OrdersOK, WorkOK, Turn, Apart, At
    <3>2. \A o \in Orders : Over(o)' = Over(o) /\ Owned(o)' = Owned(o) /\ (Settled(o) => Settled(o)')
      BY <1>2, <2>1, <2>2 DEF Over, Status, Owned, Settled
    <3>3. \A q \in Payments : q # p => gateway'[q] = gateway[q]
      BY <2>2
    <3>4. work[v].pc \in {"start", "capTxn"} => work[v].pay \in Payments /\ work[v].pay # p
      BY <1>2, <3>1 DEF TaskOK, OfPayment, Known
    <3>5. \A q : Known(q)' = Known(q)
      BY <2>1 DEF Known
    <3>6. TaskOK(work[v])'
      BY <2>1, <3>1, <3>2, <3>3, <3>4, <3>5 DEF TaskOK
    <3> QED BY <3>1, <3>6 DEF WorkOK
  <2>12. \A u, v \in Workers : u # v => Apart(u, v)'
    BY <2>9 DEF OrdersOK, Turn, Apart, At
  <2> QED BY <2>8, <2>9, <2>10, <2>11, <2>12 DEF OrdersOK, WorkOK, Turn
<1> QED BY <1>1, <1>3, <1>4 DEF StartAtProvider

-----------------------------------------------------------------------------
(* Steps that move pieces: held for a draft, sold with the money, freed,    *)
(* and taken back.                                                          *)

LEMMA HoldStep ==
  ASSUME OrdersOK, NEW w \in Workers, HoldPieces(w), UNCHANGED scope
  PROVE  OrdersOK'
<1>1. PICK o : o = work[w].ord
  OBVIOUS
<1>2. PICK S : S = work[w].todo
  OBVIOUS
<1>3. /\ TaskOK(work[w]) /\ DataOK /\ o \in Orders /\ order[o] # None /\ work[w].pc = "hold"
      /\ S \subseteq Pieces /\ Cardinality(S) = Need /\ work[w].job = "place"
      /\ DOMAIN work = Workers /\ DOMAIN work[w] = Fields
  BY <1>1, <1>2 DEF OrdersOK, WorkOK, TaskOK, HoldPieces, At
<1>4. UNCHANGED <<payment, gateway, sent, scope>>
  BY DEF HoldPieces
<1>5. CASE ~(S \subseteq OnShelf)
  <2>1. DataOK' /\ Kept
    BY <1>1, <1>2, <1>3, <1>4, <1>5, NothingWritten DEF HoldPieces
  <2>2. CASE Goto(w, "giveUp")
    BY <1>3, <2>1, <2>2, GoesOn DEF Easy, EasyOfPayment, OfPayment
  <2>3. CASE work' = [work EXCEPT ![w].pc = "pick", ![w].k = @ + 1, ![w].todo = {}]
    <3>1. /\ Turn(w) /\ DOMAIN work'[w] = Fields /\ work'[w].pc = "pick" /\ work'[w].ord = o
          /\ work'[w].job = "place"
      BY <1>1, <1>3, <2>3 DEF Turn, Fields
    <3>2. TaskOK(work[w])'
      BY <1>3, <2>1, <3>1 DEF TaskOK, OfPayment, Kept, OrdersKept
    <3> QED BY <2>1, <3>1, <3>2, WorkerStep DEF WorkOK, At
  <2> QED BY <1>1, <1>2, <1>5, <2>2, <2>3 DEF HoldPieces
<1>6. CASE S \subseteq OnShelf
  <2>1. /\ piece' = [x \in Pieces |-> IF x \in S THEN [piece[x] EXCEPT !.status = "RESERVED", !.holder = o] ELSE piece[x]]
        /\ order' = IF Status(o) = "DRAFT"
                    THEN [order EXCEPT ![o].status = "PENDING_PAYMENT", ![o].alloc = S] ELSE order
        /\ Stop(w)
    BY <1>1, <1>2, <1>6 DEF HoldPieces
  <2>2. piece \in [Pieces -> PieceDocs]
    BY <1>3 DEF DataOK, DocsOK
  <2>3. piece' \in [Pieces -> PieceDocs] /\ PiecesKept
    BY <1>3, <1>6, <2>1, <2>2 DEF PieceDocs, PiecesKept, OnShelf
  <2>4. CASE Status(o) # "DRAFT"
    <3>1. DataOK' /\ Kept
      BY <1>3, <1>4, <2>1, <2>3, <2>4, PiecesWritten
    <3> QED BY <2>1, <3>1, Stops
  <2>5. CASE Status(o) = "DRAFT"
    <3>1. order[o] \in OrderDocs /\ order' = [order EXCEPT ![o].status = "PENDING_PAYMENT", ![o].alloc = S]
      BY <1>3, <2>1, <2>5 DEF DataOK, DocsOK
    <3>2. /\ order'[o] \in OrderDocs /\ order'[o].status = "PENDING_PAYMENT" /\ order'[o].alloc = S
          /\ \A q \in Orders : q # o => order'[q] = order[q]
      BY <1>3, <3>1 DEF DataOK, DocsOK, OrderDocs, OrderStatuses
    <3>3. order'[o] # None
      BY <3>2, NoneIsNoDocument
    <3>4. DocsOK'
      BY <1>3, <1>4, <2>3, <3>1, <3>2 DEF DataOK, DocsOK
    <3>5. \A p \in Payments : PaymentOK(p)' /\ GatewayOK(p)'
      BY <1>3, <1>4, <3>2, <3>3 DEF DataOK, DocsOK, PaymentOK, PaymentDocs, GatewayOK
    <3>6. \A q \in Orders : OrderOK(q)'
      <4> SUFFICES ASSUME NEW q \in Orders PROVE OrderOK(q)'
        OBVIOUS
      <4>1. CASE q = o
        BY <1>3, <3>2, <4>1 DEF OrderOK, Status
      <4>2. CASE q # o /\ order[q] # None
        <5>1. order[q].alloc \subseteq Pieces /\ OrderOK(q) /\ order'[q] = order[q]
          BY <1>3, <3>2, <4>2 DEF DataOK, DocsOK, OrderDocs
        <5>2. Owned(q) => Owned(q)'
          BY <2>3, <5>1 DEF Owned, PiecesKept
        <5>3. Settled(q) => Settled(q)'
          BY <1>4, <5>1 DEF Settled
        <5> QED BY <5>1, <5>2, <5>3 DEF OrderOK, Status
      <4>3. CASE q # o /\ order[q] = None
        BY <3>2, <4>3 DEF OrderOK
      <4> QED BY <4>1, <4>2, <4>3
    <3>7. Kept
      BY <1>4, <2>3, <2>5, <3>2, <3>3 DEF Kept, OrdersKept, PaymentsKept, GatewayKept, Over, Status
    <3> QED BY <2>1, <3>4, <3>5, <3>6, <3>7, Stops DEF DataOK
  <2> QED BY <2>4, <2>5
<1> QED BY <1>5, <1>6

(* The money, the order and the pieces, in one transaction.                 *)
LEMMA CommitStep ==
  ASSUME OrdersOK, NEW w \in Workers, CaptureCommit(w), UNCHANGED scope
  PROVE  OrdersOK'
<1>1. PICK o : o = work[w].ord
  OBVIOUS
<1>2. PICK p : p = work[w].pay
  OBVIOUS
<1>3. /\ TaskOK(work[w]) /\ DataOK /\ o \in Orders /\ order[o] # None /\ work[w].pc = "capTxn" /\ Known(p)
      /\ gateway[p].state = "captured" /\ gateway[p].amount = Total
  BY <1>1, <1>2 DEF OrdersOK, WorkOK, TaskOK, OfPayment, CaptureCommit, At
<1>4. /\ Status(o) \in Payable /\ Sellable(o) /\ payment' = Captured(p)
      /\ order' = [order EXCEPT ![o].status = "CONFIRMED", ![o].paidBy = p]
      /\ piece' = [x \in Pieces |-> IF x \in order[o].alloc
                                    THEN [status |-> "SOLD", holder |-> None, buyer |-> o] ELSE piece[x]]
      /\ Return(w) /\ UNCHANGED <<gateway, sent, scope>>
  BY <1>1, <1>2 DEF CaptureCommit
<1>5. order[o] \in OrderDocs /\ piece \in [Pieces -> PieceDocs] /\ payment[p] \in PaymentDocs /\ MoneyOK(payment[p])
  BY <1>3 DEF DataOK, DocsOK, Known, PaymentOK
<1>6. /\ order'[o] \in OrderDocs /\ order'[o].status = "CONFIRMED" /\ order'[o].alloc = order[o].alloc
      /\ order'[o].paidBy = p /\ \A q \in Orders : q # o => order'[q] = order[q]
  BY <1>3, <1>4, <1>5 DEF DataOK, DocsOK, OrderDocs, OrderStatuses, Known
<1>7. order'[o] # None
  BY <1>6, NoneIsNoDocument
<1>8. /\ payment'[p] \in PaymentDocs /\ payment'[p].ord = payment[p].ord /\ MoneyOK(payment'[p])
      /\ \A q \in Payments : q # p => payment'[q] = payment[q]
      /\ payment' \in [Payments -> PaymentDocs \union {None}]
  <2>1. CASE payment[p].status \notin Capturable
    BY <1>3, <1>4, <1>5, <2>1 DEF Captured, DataOK, DocsOK
  <2>2. CASE payment[p].status \in Capturable
    <3>1. PICK d : d = [payment[p] EXCEPT !.status = "CAPTURED", !.captured = gateway[p].amount]
      OBVIOUS
    <3>2. d \in PaymentDocs /\ d.ord = payment[p].ord /\ d.refunds = <<>> /\ d.captured = Total
      BY <1>3, <1>5, <2>2, <3>1, OrdersAssumption DEF PaymentDocs, PaymentStatuses, MoneyOK
    <3>3. MoneyOK(d)
      BY <3>2, NothingRefunded, OrdersAssumption DEF MoneyOK
    <3>4. payment' = [payment EXCEPT ![p] = d]
      BY <1>4, <2>2, <3>1 DEF Captured
    <3>5. payment'[p] = d
      BY <1>3, <3>4 DEF Known, DataOK, DocsOK
    <3> QED BY <1>3, <3>2, <3>3, <3>4, <3>5 DEF DataOK, DocsOK
  <2> QED BY <2>1, <2>2
<1>9. payment'[p] # None
  BY <1>8, NoneIsNoDocument
<1>10. piece' \in [Pieces -> PieceDocs] /\ PiecesKept
  BY <1>3, <1>4, <1>5 DEF PieceDocs, PiecesKept, Sellable
<1>11. DocsOK'
  BY <1>3, <1>4, <1>6, <1>8, <1>10 DEF DataOK, DocsOK
<1>12. \A q \in Payments : PaymentOK(q)' /\ GatewayOK(q)'
  <2> SUFFICES ASSUME NEW q \in Payments PROVE PaymentOK(q)' /\ GatewayOK(q)'
    OBVIOUS
  <2>1. CASE q = p
    BY <1>3, <1>4, <1>6, <1>7, <1>8, <1>9, <2>1 DEF DataOK, PaymentOK, GatewayOK, Known, DocsOK, PaymentDocs
  <2>2. CASE q # p
    BY <1>3, <1>4, <1>6, <1>7, <1>8, <2>2, ZenonT(40) DEF DataOK, PaymentOK, GatewayOK, DocsOK, PaymentDocs
  <2> QED BY <2>1, <2>2
<1>13. \A q \in Orders : OrderOK(q)'
  <2> SUFFICES ASSUME NEW q \in Orders PROVE OrderOK(q)'
    OBVIOUS
  <2>1. CASE q = o
    <3>1. order[o].alloc \subseteq Pieces /\ Cardinality(order[o].alloc) = Need
      BY <1>3, <1>4, <1>5 DEF DataOK, OrderOK, OrderDocs
    <3>2. Owned(o)'
      BY <1>4, <1>6, <3>1 DEF Owned
    <3>3. Settled(o)'
      BY <1>3, <1>4, <1>6, <1>9 DEF Settled, Known
    <3> QED BY <1>6, <2>1, <3>1, <3>2, <3>3 DEF OrderOK
  <2>2. CASE q # o /\ order[q] # None
    <3>1. order[q].alloc \subseteq Pieces /\ OrderOK(q) /\ order'[q] = order[q]
      BY <1>3, <1>6, <2>2 DEF DataOK, DocsOK, OrderDocs
    <3>2. Owned(q) => Owned(q)'
      BY <1>10, <3>1 DEF Owned, PiecesKept
    <3>3. Settled(q) => Settled(q)'
      BY <1>4, <1>8, <1>9, <3>1 DEF Settled
    <3> QED BY <3>1, <3>2, <3>3 DEF OrderOK, Status
  <2>3. CASE q # o /\ order[q] = None
    BY <1>6, <2>3 DEF OrderOK
  <2> QED BY <2>1, <2>2, <2>3
<1>14. Kept
  <2>1. OrdersKept
    BY <1>4, <1>6, <1>7 DEF OrdersKept, Over, Status, Payable
  <2>2. PaymentsKept
    BY <1>8, <1>9 DEF PaymentsKept
  <2> QED BY <1>4, <1>10, <2>1, <2>2 DEF Kept, GatewayKept
<1>15. DataOK'
  BY <1>11, <1>12, <1>13 DEF DataOK
<1> QED BY <1>3, <1>4, <1>14, <1>15, Returns

LEMMA FreeStep ==
  ASSUME OrdersOK, NEW w \in Workers, FreeHeld(w), UNCHANGED scope
  PROVE  OrdersOK'
<1>1. /\ TaskOK(work[w]) /\ DataOK /\ work[w].pc = "free" /\ piece \in [Pieces -> PieceDocs]
      /\ UNCHANGED <<order, payment, gateway, sent, scope>>
  BY DEF OrdersOK, WorkOK, FreeHeld, At, DataOK, DocsOK
<1>2. piece' \in [Pieces -> PieceDocs] /\ PiecesKept
  <2>1. CASE UNCHANGED piece
    BY <1>1, <2>1 DEF PiecesKept
  <2>2. CASE ~UNCHANGED piece
    <3>1. PICK H : /\ \A x \in H : piece[x].status = "RESERVED"
                   /\ piece' = [x \in Pieces |-> IF x \in H THEN [piece[x] EXCEPT !.status = "AVAILABLE", !.holder = None]
                                                ELSE piece[x]]
      <4> DEFINE H == {x \in order[work[w].ord].alloc : piece[x].status = "RESERVED" /\ piece[x].holder = work[w].ord}
      <4>1. /\ \A x \in H : piece[x].status = "RESERVED"
            /\ piece' = [x \in Pieces |-> IF x \in H THEN [piece[x] EXCEPT !.status = "AVAILABLE", !.holder = None]
                                         ELSE piece[x]]
        BY <2>2 DEF FreeHeld
      <4> HIDE DEF H
      <4> QED BY <4>1
    <3> QED BY <1>1, <3>1 DEF PieceDocs, PiecesKept
  <2> QED BY <2>1, <2>2
<1>3. DataOK' /\ Kept
  BY <1>1, <1>2, PiecesWritten
<1>4. Stop(w) \/ Throw(w) \/ AfterRelease(w)
  BY DEF FreeHeld
<1> QED BY <1>1, <1>3, <1>4, Returns, Stops DEF TaskOK

(* The pieces come back from the order they are owned by, so from no other. *)
LEMMA UnsellStep ==
  ASSUME OrdersOK, NEW w \in Workers, Unsell(w), UNCHANGED scope
  PROVE  OrdersOK'
<1>1. PICK o : o = work[w].ord
  OBVIOUS
<1>2. /\ TaskOK(work[w]) /\ DataOK /\ work[w].pc = "unsell" /\ o \in Orders /\ order[o] # None
      /\ Over(o) /\ Owned(o) /\ Settled(o) /\ piece \in [Pieces -> PieceDocs]
      /\ DOMAIN work = Workers /\ DOMAIN work[w] = Fields
  BY <1>1 DEF OrdersOK, WorkOK, TaskOK, Unsell, At, DataOK, DocsOK
<1>3. /\ piece' = [x \in Pieces |-> IF x \in order[o].alloc /\ piece[x].status = "SOLD"
                                    THEN [piece[x] EXCEPT !.status = "RETURNED"] ELSE piece[x]]
      /\ work' = [work EXCEPT ![w].pc = "refRead", ![w].pay = order[o].paidBy]
      /\ UNCHANGED <<order, payment, gateway, sent, scope>>
  BY <1>1 DEF Unsell
<1>4. piece' \in [Pieces -> PieceDocs]
  BY <1>2, <1>3 DEF PieceDocs
<1>5. ASSUME NEW q \in Orders, order[q] # None, Owned(q), q # o
      PROVE  Owned(q)'
  <2>1. order[q].alloc \subseteq Pieces
    BY <1>2, <1>5 DEF DataOK, DocsOK, OrderDocs
  <2>2. \A x \in order[q].alloc : x \notin order[o].alloc
    BY <1>2, <1>5 DEF Owned
  <2> QED BY <1>3, <1>5, <2>1, <2>2 DEF Owned
<1>6. \A q : Settled(q)' = Settled(q) /\ Over(q)' = Over(q) /\ Status(q)' = Status(q) /\ Known(q)' = Known(q)
  BY <1>3 DEF Settled, Over, Status, Known
<1>7. DataOK'
  <2>1. DocsOK' /\ (\A p \in Payments : PaymentOK(p)' /\ GatewayOK(p)')
    BY <1>2, <1>3, <1>4 DEF DataOK, DocsOK, PaymentOK, GatewayOK
  <2>2. \A q \in Orders : OrderOK(q)'
    <3> SUFFICES ASSUME NEW q \in Orders PROVE OrderOK(q)'
      OBVIOUS
    <3>1. OrderOK(q)
      BY <1>2 DEF DataOK
    <3>2. CASE q = o
      BY <1>2, <1>3, <1>6, <3>1, <3>2 DEF OrderOK, Over, Payable
    <3>3. CASE q # o
      BY <1>3, <1>5, <1>6, <3>1, <3>3 DEF OrderOK
    <3> QED BY <3>2, <3>3
  <2> QED BY <2>1, <2>2 DEF DataOK
<1>8. /\ Turn(w) /\ DOMAIN work'[w] = Fields /\ work'[w].pc = "refRead" /\ work'[w].pay = order[o].paidBy
      /\ work'[w].todo = work[w].todo /\ work'[w].ord = o /\ work'[w].job = work[w].job
  BY <1>1, <1>2, <1>3 DEF Turn, Fields
<1>9. Known(order[o].paidBy)
  BY <1>2 DEF Settled, Known
<1>10. TaskOK(work[w])'
  BY <1>2, <1>3, <1>6, <1>8, <1>9 DEF TaskOK, OfPayment
<1>11. \A v \in Workers : v # w => WorkOK(v)'
  <2> SUFFICES ASSUME NEW v \in Workers, v # w PROVE WorkOK(v)'
    OBVIOUS
  <2>1. TaskOK(work[v]) /\ DOMAIN work[v] = Fields /\ work'[v] = work[v] /\ (work[v].pc = "unsell" => work[v].ord # o)
    BY <1>1, <1>2, <1>8 DEF OrdersOK, WorkOK, Turn, Apart, At
  <2>2. work[v].pc = "unsell" => work[v].ord \in Orders /\ order[work[v].ord] # None /\ Owned(work[v].ord)
    BY <2>1 DEF TaskOK
  <2>3. PICK q : q = work[v].ord
    OBVIOUS
  <2>4. work[v].pc = "unsell" => Owned(q)'
    BY <1>5, <2>1, <2>2, <2>3
  <2>5. TaskOK(work[v])'
    BY <1>3, <1>6, <2>1, <2>3, <2>4 DEF TaskOK
  <2> QED BY <2>1, <2>5 DEF WorkOK
<1>12. \A u, v \in Workers : u # v => Apart(u, v)'
  BY <1>8 DEF OrdersOK, Turn, Apart, At
<1> QED BY <1>7, <1>8, <1>10, <1>11, <1>12 DEF OrdersOK, WorkOK, Turn

LEMMA OutsideSteps ==
  ASSUME OrdersOK, Outside, UNCHANGED scope
  PROVE  OrdersOK'
<1>1. DataOK /\ piece \in [Pieces -> PieceDocs] /\ gateway \in [Payments -> GatewayRecords] /\ sent \subseteq Events
  BY DEF OrdersOK, DataOK, DocsOK
<1>2. CASE \E o \in Orders : HoldOver(o)
  <2>1. DataOK' /\ Kept /\ UNCHANGED work
    BY <1>1, <1>2, NothingWritten DEF HoldOver
  <2> QED BY <2>1, WorldStep
<1>3. CASE \E x \in Pieces : SweepPiece(x) \/ InspectReturned(x)
  <2>1. piece' \in [Pieces -> PieceDocs] /\ PiecesKept /\ UNCHANGED <<order, payment, gateway, sent, work>>
    BY <1>1, <1>3 DEF SweepPiece, InspectReturned, PieceDocs, PiecesKept
  <2>2. DataOK' /\ Kept
    BY <1>1, <2>1, PiecesWritten
  <2> QED BY <2>1, <2>2, WorldStep
<1>4. ASSUME NEW p \in Payments, NEW g \in GatewayRecords,
             gateway[p].state \in {"open", "authorized"} \/ (g.state = gateway[p].state /\ g.amount = gateway[p].amount),
             g.state = "none" => gateway[p].state = "none",
             g.state # "captured" => g.amount = 0,
             gateway' = [gateway EXCEPT ![p] = g], sent' \subseteq Events,
             UNCHANGED <<order, payment, piece, work>>
      PROVE  OrdersOK'
  <2>1. DataOK' /\ Kept
    BY <1>1, <1>4, GatewayWritten
  <2> QED BY <1>4, <2>1, WorldStep
<1>5. CASE \E p \in Payments : Authorizes(p) \/ Declines(p)
  <2>1. PICK p \in Payments, s \in {"authorized", "failed"} :
          /\ gateway[p].state \in {"open", "authorized"} /\ gateway' = [gateway EXCEPT ![p].state = s]
          /\ UNCHANGED <<order, payment, piece, work>>
          /\ sent' \in {sent \union {<<p, "AUTHORIZED", 0>>}, sent \union {<<p, "FAILED", 0>>}}
    BY <1>5 DEF Authorizes, Declines
  <2>2. PICK g : g = [gateway[p] EXCEPT !.state = s]
    OBVIOUS
  <2>3. g \in GatewayRecords /\ g.state = s /\ g.amount = 0
    BY <1>1, <2>1, <2>2 DEF GatewayRecords, DataOK, GatewayOK
  <2>4. sent' \subseteq Events
    BY <1>1, <2>1, OrdersAssumption DEF Events
  <2>5. gateway' = [gateway EXCEPT ![p] = g]
    BY <2>1, <2>2
  <2>6. g.state # "none" /\ g.state # "captured"
    BY <2>3
  <2> QED BY <1>4, <2>1, <2>3, <2>4, <2>5, <2>6
<1>6. CASE \E p \in Payments, amount \in Amounts : amount \in scope.amounts /\ Pays(p, amount)
  <2>1. PICK p \in Payments, amount \in Amounts : Pays(p, amount)
    BY <1>6
  <2>2. PICK g : g = [gateway[p] EXCEPT !.state = "captured", !.amount = amount]
    OBVIOUS
  <2>3. g \in GatewayRecords /\ g.state = "captured"
    BY <1>1, <2>2, OrdersAssumption DEF GatewayRecords
  <2>4. sent' \subseteq Events
    BY <1>1, <2>1, OrdersAssumption DEF Events, Pays
  <2>5. /\ gateway' = [gateway EXCEPT ![p] = g] /\ gateway[p].state \in {"open", "authorized"}
        /\ UNCHANGED <<order, payment, piece, work>>
    BY <2>1, <2>2 DEF Pays
  <2>6. g.state # "none"
    BY <2>3
  <2> QED BY <1>4, <2>3, <2>4, <2>5, <2>6
<1>7. CASE \E p \in Payments, k \in 1..MaxRefunds : RefundSettles(p, k, TRUE) \/ RefundSettles(p, k, FALSE)
  <2>1. PICK p \in Payments, k \in 1..MaxRefunds, ok \in BOOLEAN : RefundSettles(p, k, ok)
    BY <1>7
  <2>2. PICK s \in {"done", "failed"} : gateway' = [gateway EXCEPT ![p].refunds[k] = s]
    BY <2>1 DEF RefundSettles
  <2>3. PICK g : g = [gateway[p] EXCEPT !.refunds[k] = s]
    OBVIOUS
  <2>4. g \in GatewayRecords /\ g.state = gateway[p].state /\ g.amount = gateway[p].amount
    BY <1>1, <2>3 DEF GatewayRecords
  <2>5. sent' \subseteq Events
    BY <1>1, <2>1 DEF Events, RefundSettles
  <2>6. gateway' = [gateway EXCEPT ![p] = g] /\ UNCHANGED <<order, payment, piece, work>>
    BY <2>1, <2>2, <2>3 DEF RefundSettles
  <2>7. g.state # "captured" => g.amount = 0
    BY <1>1, <2>4 DEF DataOK, GatewayOK
  <2> QED BY <1>4, <2>4, <2>5, <2>6, <2>7
<1> QED BY <1>2, <1>3, <1>5, <1>6, <1>7 DEF Outside

-----------------------------------------------------------------------------
(* The invariant, and what follows from it.                                 *)

LEMMA Starts == Init => OrdersOK
<1> SUFFICES ASSUME Init PROVE OrdersOK
  OBVIOUS
<1>1. DocsOK
  <2>1. \A p \in Payments : gateway[p] \in GatewayRecords
    BY DEF Init, GatewayRecords
  <2> QED BY <2>1 DEF Init, DocsOK, PieceDocs, Events
<1>2. \A p \in Payments : PaymentOK(p) /\ GatewayOK(p)
  BY DEF Init, PaymentOK, GatewayOK
<1>3. \A o \in Orders : OrderOK(o)
  BY DEF Init, OrderOK
<1>4. DOMAIN work = Workers /\ \A w \in Workers : WorkOK(w) /\ work[w].pc = "idle"
  BY DEF Init, WorkOK, Idle, Fields, TaskOK
<1> QED BY <1>1, <1>2, <1>3, <1>4 DEF OrdersOK, DataOK, Apart, At

LEMMA Steps == OrdersOK /\ [Next]_<<vars, scope>> => OrdersOK'
<1> SUFFICES ASSUME OrdersOK, [Next]_<<vars, scope>> PROVE OrdersOK'
  OBVIOUS
<1>1. CASE UNCHANGED <<vars, scope>>
  <2>1. DataOK' /\ Kept /\ UNCHANGED work
    BY <1>1, NothingWritten DEF vars, OrdersOK
  <2> QED BY <2>1, WorldStep
<1>2. CASE Requests /\ UNCHANGED scope
  <2>1. PICK w \in Workers : (\E o \in Orders : Place(w, o)) \/ Ask(w)
    BY <1>2 DEF Requests, Ask
  <2> QED BY <1>2, <2>1, PlaceStep, AskSteps
<1>3. ASSUME NEW w \in Workers, HandlerStep(w), UNCHANGED scope
      PROVE  OrdersOK'
  <2>1. \/ Look(w)
        \/ GiveUp(w) \/ Reopen(w) \/ FailMove(w) \/ CaptureCancel(w) \/ CancelMove(w) \/ AfterRefund(w)
        \/ CancelPaid(w)
        \/ VoidMark(w) \/ BindReference(w) \/ Authorize(w) \/ FailMark(w) \/ CaptureRecord(w)
             \/ RefundReserve(w) \/ RefundBind(w) \/ SettleRefund(w) \/ SettleTotal(w)
        \/ CreatePayment(w) \/ StartAtProvider(w)
        \/ VoidAsk(w) \/ CloseAsk(w) \/ RefundAsk(w)
        \/ HoldPieces(w) \/ CaptureCommit(w) \/ FreeHeld(w) \/ Unsell(w)
    BY <1>3 DEF HandlerStep, Look
  <2>2. CASE Look(w)
    BY <1>3, <2>2, LookSteps
  <2>3. CASE GiveUp(w) \/ Reopen(w) \/ FailMove(w) \/ CaptureCancel(w) \/ CancelMove(w) \/ AfterRefund(w)
    BY <1>3, <2>3, OrderSteps
  <2>4. CASE CancelPaid(w)
    BY <1>3, <2>4, CancelPaidStep
  <2>5. CASE VoidMark(w) \/ BindReference(w) \/ Authorize(w) \/ FailMark(w) \/ CaptureRecord(w)
               \/ RefundReserve(w) \/ RefundBind(w) \/ SettleRefund(w) \/ SettleTotal(w)
    BY <1>3, <2>5, PaymentSteps
  <2>6. CASE CreatePayment(w) \/ StartAtProvider(w)
    BY <1>3, <2>6, CreatePaymentStep, StartStep
  <2>7. CASE VoidAsk(w) \/ CloseAsk(w) \/ RefundAsk(w)
    BY <1>3, <2>7, AskProviderSteps
  <2>8. CASE HoldPieces(w) \/ CaptureCommit(w) \/ FreeHeld(w) \/ Unsell(w)
    BY <1>3, <2>8, HoldStep, CommitStep, FreeStep, UnsellStep
  <2> QED BY <2>1, <2>2, <2>3, <2>4, <2>5, <2>6, <2>7, <2>8
<1>4. CASE Outside /\ UNCHANGED scope
  BY <1>4, OutsideSteps
<1>5. ASSUME NEW w \in Workers, Crash(w), UNCHANGED scope
      PROVE  OrdersOK'
  <2>1. DataOK' /\ Kept
    BY <1>5, NothingWritten DEF Crash, OrdersOK
  <2> QED BY <1>5, <2>1, Stops DEF Crash
<1> QED BY <1>1, <1>2, <1>3, <1>4, <1>5 DEF Next

LEMMA OrdersInvariant == Spec => []OrdersOK
<1>1. Init => OrdersOK
  BY Starts
<1>2. OrdersOK /\ [Next]_<<vars, scope>> => OrdersOK'
  BY Steps
<1> QED BY <1>1, <1>2, PTL DEF Spec

(* ConfirmedOwnsPieces: a confirmed order owns its pieces, and the provider *)
(* took its total, however its handlers, the sweep and the provider race.   *)
(* (sellPieces and moveOrder in one transaction, order-inventory.ts.)       *)
THEOREM ConfirmedOwn == Spec => []ConfirmedOwnsPieces
<1>1. OrdersOK => ConfirmedOwnsPieces
  <2> SUFFICES ASSUME OrdersOK, NEW o \in Orders, order[o] # None, Status(o) = "CONFIRMED"
               PROVE  /\ Cardinality(order[o].alloc) = Need
                      /\ \A x \in order[o].alloc : piece[x].status = "SOLD" /\ piece[x].buyer = o
                      /\ order[o].paidBy # None
                      /\ gateway[order[o].paidBy].state = "captured" /\ gateway[order[o].paidBy].amount = Total
    BY DEF ConfirmedOwnsPieces
  <2>1. Cardinality(order[o].alloc) = Need /\ Owned(o) /\ Settled(o)
    BY DEF OrdersOK, DataOK, OrderOK
  <2> QED BY <2>1, NoneIsNoDocument DEF Owned, Settled
<1> QED BY <1>1, OrdersInvariant, PTL

(* RefundWithinCapture: no payment is refunded, or being refunded, beyond   *)
(* what it captured, whatever the provider answers (payment.service.ts).    *)
THEOREM RefundsWithinCapture == Spec => []RefundWithinCapture
<1>1. OrdersOK => RefundWithinCapture
  BY DEF OrdersOK, DataOK, PaymentOK, MoneyOK, RefundWithinCapture, Committed
<1> QED BY <1>1, OrdersInvariant, PTL

-----------------------------------------------------------------------------
(* The pieces, as the inventory sees them.                                  *)

LEMMA Moving ==
  /\ Inventory!Legal("RESERVED", "AVAILABLE") /\ Inventory!Legal("RESERVED", "SOLD") /\ Inventory!Legal("AVAILABLE", "SOLD")
  /\ Inventory!Legal("SOLD", "RETURNED") /\ Inventory!Legal("RETURNED", "AVAILABLE")
  /\ {"AVAILABLE", "RESERVED", "SOLD", "RETURNED"} \subseteq Inventory!Statuses
BY DEF Inventory!Legal, Inventory!LegalTransitions, Inventory!Statuses

(* What a step of the orders may do to a piece.                             *)
Taken(x) ==
  /\ piece[x].status = "AVAILABLE" /\ piece'[x].status = "RESERVED" /\ piece'[x].holder \in Orders

Given(x) ==
  \/ piece[x].status \in {"RESERVED", "RETURNED"} /\ piece'[x].status = "AVAILABLE"
  \/ piece[x].status \in {"RESERVED", "AVAILABLE"} /\ piece'[x].status = "SOLD"
  \/ piece[x].status = "SOLD" /\ piece'[x].status = "RETURNED"

LEMMA CustodyStep ==
  ASSUME OrdersOK, OrdersOK', \A x \in Pieces : piece'[x] = piece[x] \/ Taken(x) \/ Given(x)
  PROVE  Inventory!Next
<1>1. piece \in [Pieces -> PieceDocs] /\ piece' \in [Pieces -> PieceDocs]
  BY DEF OrdersOK, DataOK, DocsOK
<1>2. \A x \in Pieces : /\ Custody[x] = [status |-> piece[x].status, holder |-> piece[x].holder]
                        /\ Custody'[x] = [status |-> piece'[x].status, holder |-> piece'[x].holder]
  BY DEF Custody
<1>3. Custody' \in [Pieces -> [status : Inventory!Statuses \union {"ABSENT"}, holder : Orders \union {None}]]
  BY <1>1, Moving DEF Custody, PieceDocs
<1>4. ASSUME NEW x \in Pieces
      PROVE  \/ Custody'[x] = Custody[x]
             \/ Inventory!Held(Custody[x], Custody'[x])
             \/ Inventory!Moves(Custody[x], Custody'[x])
  <2>0. PICK old, new : /\ old = [status |-> piece[x].status, holder |-> piece[x].holder]
                        /\ new = [status |-> piece'[x].status, holder |-> piece'[x].holder]
    OBVIOUS
  <2>a. old = Custody[x] /\ new = Custody'[x]
    BY <1>2, <2>0
  <2>b. /\ old.status = piece[x].status /\ old.holder = piece[x].holder
        /\ new.status = piece'[x].status /\ new.holder = piece'[x].holder
    BY <2>0
  <2>1. CASE piece'[x] = piece[x]
    BY <1>2, <2>1
  <2>2. CASE Taken(x)
    <3>1. piece[x].holder = None
      BY <1>1, <2>2 DEF Taken, PieceDocs
    <3>2. /\ old.status = "AVAILABLE" /\ old.holder = None
          /\ new.status = "RESERVED" /\ new.holder \in Orders
      BY <2>b, <2>2, <3>1 DEF Taken
    <3>3. Inventory!Held(old, new)
      BY <3>2 DEF Inventory!Held
    <3> QED BY <2>a, <3>3
  <2>3. CASE Given(x)
    <3>1. piece'[x].holder = None
      BY <1>1, <2>3 DEF Given, PieceDocs
    <3>2. Inventory!Legal(piece[x].status, piece'[x].status) /\ piece[x].status \in Inventory!Statuses
      BY <2>3, Moving DEF Given
    <3>3. /\ old.status \in Inventory!Statuses /\ Inventory!Legal(old.status, new.status)
          /\ new.holder = None
      BY <2>b, <3>1, <3>2
    <3>4. Inventory!Moves(old, new)
      BY <3>3 DEF Inventory!Moves
    <3> QED BY <2>a, <3>4
  <2> QED BY <2>1, <2>2, <2>3
<1> QED BY <1>3, <1>4 DEF Inventory!Next

LEMMA PieceSteps ==
  ASSUME OrdersOK, Next
  PROVE  \A x \in Pieces : piece'[x] = piece[x] \/ Taken(x) \/ Given(x)
<1>1. piece \in [Pieces -> PieceDocs] /\ (\A w \in Workers : TaskOK(work[w]))
  BY DEF OrdersOK, DataOK, DocsOK, WorkOK
<1>2. CASE Requests
  BY <1>2 DEF Requests, Place, Initiate, Cancel, Expire, VerifyReturn, CancelPayment, Webhook
<1>3. ASSUME NEW w \in Workers, HandlerStep(w)
      PROVE  \A x \in Pieces : piece'[x] = piece[x] \/ Taken(x) \/ Given(x)
  <2>1. CASE HoldPieces(w)
    <3>1. work[w].ord \in Orders
      BY <1>1, <2>1 DEF HoldPieces, At, TaskOK
    <3> QED BY <1>1, <2>1, <3>1, ZenonT(40) DEF HoldPieces, OnShelf, Taken, PieceDocs
  <2>2. CASE CaptureCommit(w)
    BY <1>1, <2>2 DEF CaptureCommit, Sellable, Given, PieceDocs
  <2>3. CASE FreeHeld(w)
    BY <1>1, <2>3, ZenonT(40) DEF FreeHeld, Given, PieceDocs
  <2>4. CASE Unsell(w)
    BY <1>1, <2>4 DEF Unsell, Given, PieceDocs
  <2>5. CASE \/ PickPieces(w) \/ GiveUp(w) \/ FindOlder(w) \/ VoidMark(w) \/ VoidAsk(w) \/ VoidDone(w) \/ Reopen(w)
             \/ CountAttempts(w) \/ CreatePayment(w) \/ StartAtProvider(w) \/ BindReference(w)
    BY <2>5 DEF PickPieces, GiveUp, FindOlder, VoidMark, VoidAsk, VoidDone, Reopen, CountAttempts,
                CreatePayment, StartAtProvider, BindReference
  <2>6. CASE \/ Acknowledge(w) \/ CloseAsk(w) \/ Authorize(w) \/ FailMark(w) \/ FailLook(w) \/ FailMove(w)
             \/ CaptureRead(w) \/ CaptureDecide(w) \/ CaptureRefused(w) \/ CaptureLookAgain(w)
             \/ CaptureRecord(w) \/ CaptureCancel(w) \/ StillHeld(w)
    BY <2>6 DEF Acknowledge, CloseAsk, Authorize, FailMark, FailLook, FailMove, CaptureRead, CaptureDecide,
                CaptureRefused, CaptureLookAgain, CaptureRecord, CaptureCancel, StillHeld
  <2>7. CASE \/ RefundRead(w) \/ RefundReserve(w) \/ RefundAsk(w) \/ RefundBind(w) \/ SettleRefund(w)
             \/ SettleTotal(w) \/ AfterRefund(w) \/ OpenRead(w) \/ Loop(w) \/ Recheck(w) \/ CancelMove(w)
             \/ VoidRead(w) \/ CancelPaid(w)
    BY <2>7 DEF RefundRead, RefundReserve, RefundAsk, RefundBind, SettleRefund, SettleTotal, AfterRefund,
                OpenRead, Loop, Recheck, CancelMove, VoidRead, CancelPaid
  <2> QED BY <1>3, <2>1, <2>2, <2>3, <2>4, <2>5, <2>6, <2>7 DEF HandlerStep
<1>4. CASE Outside
  <2>1. CASE \E x \in Pieces : SweepPiece(x) \/ InspectReturned(x)
    BY <1>1, <2>1 DEF SweepPiece, InspectReturned, Given, PieceDocs
  <2>2. CASE UNCHANGED piece
    BY <2>2
  <2> QED BY <1>4, <2>1, <2>2 DEF Outside, HoldOver, Authorizes, Declines, Pays, RefundSettles
<1>5. ASSUME NEW w \in Workers, Crash(w) PROVE UNCHANGED piece
  BY <1>5 DEF Crash
<1> QED BY <1>2, <1>3, <1>4, <1>5 DEF Next

(* PiecesFollowCustody: whatever the orders do to a piece, the inventory's  *)
(* contract allows: it is held from the shelf, for one order, and the hold  *)
(* ends when the piece leaves RESERVED (order-inventory.ts).                *)
THEOREM OrdersFollowCustody == Spec => PiecesFollowCustody
<1>1. OrdersOK /\ OrdersOK' /\ [Next]_<<vars, scope>> => [Inventory!Next]_Custody
  <2> SUFFICES ASSUME OrdersOK, OrdersOK', [Next]_<<vars, scope>> PROVE [Inventory!Next]_Custody
    OBVIOUS
  <2>1. CASE Next
    BY <2>1, PieceSteps, CustodyStep
  <2>2. CASE UNCHANGED <<vars, scope>>
    BY <2>2 DEF vars, Custody
  <2> QED BY <2>1, <2>2
<1> QED BY <1>1, OrdersInvariant, PTL DEF Spec, PiecesFollowCustody

-----------------------------------------------------------------------------
(* What the provider sends back, when each of its answers arrives.          *)

RefundsOf(p)  == IF payment[p] = None THEN <<>> ELSE payment[p].refunds
CapturedOf(p) == IF payment[p] = None THEN 0 ELSE payment[p].captured

(* What the provider refunds is written down, and what is written down as   *)
(* failed has failed: only that makes its amount free for another refund.   *)
AnsweredOK(p) ==
  /\ CapturedOf(p) <= gateway[p].amount
  /\ Len(RefundsOf(p)) <= MaxRefunds
  /\ \A k \in 1..MaxRefunds : gateway[p].refunds[k] # "none" => k \in DOMAIN RefundsOf(p)
  /\ \A k \in DOMAIN RefundsOf(p) : RefundsOf(p)[k].status = "FAILED" => gateway[p].refunds[k] = "failed"

EventOK(e) == e[2] = "REFUND_FAILED" => e[3] \in 1..MaxRefunds /\ gateway[e[1]].refunds[e[3]] = "failed"

(* A refund is asked for once; who takes it for failed has heard it is.     *)
AskingOK(d) ==
  /\ d.pc = "refAsk" => d.k \in DOMAIN RefundsOf(d.pay) /\ gateway[d.pay].refunds[d.k] = "none"
  /\ d.pc = "settle" /\ d.seen = "FAILED" => d.k \in 1..MaxRefunds /\ gateway[d.pay].refunds[d.k] = "failed"

AskedOnce(v, w) == At(v, "refAsk") /\ At(w, "refAsk") => <<work[v].pay, work[v].k>> # <<work[w].pay, work[w].k>>

AnswersOK ==
  /\ \A p \in Payments : AnsweredOK(p)
  /\ \A e \in sent : EventOK(e)
  /\ \A w \in Workers : AskingOK(work[w])
  /\ \A v, w \in Workers : v # w => AskedOnce(v, w)

-----------------------------------------------------------------------------
(* What a step leaves of this.                                              *)

LEMMA RefundTypes ==
  ASSUME DataOK, NEW p \in Payments
  PROVE  /\ RefundsOf(p) \in Seq(Refunds) /\ CapturedOf(p) \in Nat
         /\ gateway[p] \in GatewayRecords /\ gateway[p].amount \in Nat
         /\ DOMAIN gateway[p].refunds = 1..MaxRefunds
BY DEF DataOK, DocsOK, RefundsOf, CapturedOf, PaymentDocs, GatewayRecords

AnswersKept ==
  \A p \in Payments :
    /\ DOMAIN RefundsOf(p) \subseteq DOMAIN RefundsOf(p)'
    /\ \A k \in 1..MaxRefunds : gateway[p].refunds[k] = "failed" => gateway'[p].refunds[k] = "failed"

LEMMA AskingStays ==
  ASSUME DataOK, AnswersOK, AnswersKept, NEW w \in Workers, TaskOK(work[w]), NEW d, d = work[w],
         d.pc = "refAsk" => gateway'[d.pay].refunds[d.k] = "none"
  PROVE  AskingOK(d)'
<1>1. AskingOK(d) /\ TaskOK(d)
  BY DEF AnswersOK
<1>2. d.pc \in {"refAsk", "settle"} => d.pay \in Payments
  BY <1>1 DEF TaskOK, OfPayment, Known
<1>3. d.pc = "refAsk" => d.k \in DOMAIN RefundsOf(d.pay)'
  BY <1>1, <1>2 DEF AskingOK, AnswersKept
<1>4. d.pc = "settle" /\ d.seen = "FAILED" => d.k \in 1..MaxRefunds /\ gateway'[d.pay].refunds[d.k] = "failed"
  BY <1>1, <1>2 DEF AskingOK, AnswersKept
<1> QED BY <1>3, <1>4 DEF AskingOK

LEMMA EventsStay ==
  ASSUME DataOK, AnswersOK, AnswersKept, \A e \in sent' : e \in sent \/ EventOK(e)'
  PROVE  \A e \in sent' : EventOK(e)'
<1> SUFFICES ASSUME NEW e \in sent PROVE EventOK(e)'
  OBVIOUS
<1>1. e[1] \in Payments /\ EventOK(e)
  BY DEF DataOK, DocsOK, Events, AnswersOK
<1> QED BY <1>1 DEF EventOK, AnswersKept

(* Most steps leave the refunds alone, and send no one to one.              *)
SameAnswers ==
  \A p \in Payments :
    /\ RefundsOf(p)' = RefundsOf(p)
    /\ gateway'[p].refunds = gateway[p].refunds
    /\ CapturedOf(p)' <= gateway'[p].amount

Calm == \A w \in Workers : work'[w] = work[w] \/ work'[w].pc \notin {"refReserve", "refAsk", "settle", "total"}

Mild == \A w \in Workers : work'[w] = work[w] \/ (work'[w].pc # "refAsk" /\ AskingOK(work[w])')

LEMMA CalmIsMild == Calm => Mild
BY DEF Calm, Mild, AskingOK

LEMMA QuietStep ==
  ASSUME OrdersOK, AnswersOK, SameAnswers, Calm \/ Mild, \A e \in sent' : e \in sent \/ e[2] # "REFUND_FAILED"
  PROVE  AnswersOK'
<1>1. \A p \in Payments : AnsweredOK(p)'
  BY DEF AnswersOK, AnsweredOK, SameAnswers
<1>2. AnswersKept
  BY DEF AnswersKept, SameAnswers
<1>3. DataOK /\ \A w \in Workers : TaskOK(work[w])
  BY DEF OrdersOK, WorkOK
<1>4. \A e \in sent' : EventOK(e)'
  <2>1. \A e \in sent' : e \in sent \/ EventOK(e)'
    BY DEF EventOK
  <2> QED BY <1>2, <1>3, <2>1, EventsStay
<1>5. \A w \in Workers : AskingOK(work[w])'
  <2> SUFFICES ASSUME NEW w \in Workers, work'[w] = work[w] PROVE AskingOK(work[w])'
    BY CalmIsMild DEF Mild
  <2>1. PICK d : d = work[w]
    OBVIOUS
  <2>2. AskingOK(d) /\ (d.pc = "refAsk" => d.pay \in Payments)
    BY <1>3, <2>1 DEF AnswersOK, TaskOK, OfPayment, Known
  <2>3. d.pc = "refAsk" => gateway'[d.pay].refunds[d.k] = "none"
    BY <2>2 DEF AskingOK, SameAnswers
  <2>4. AskingOK(d)'
    BY <1>2, <1>3, <2>1, <2>3, AskingStays
  <2> QED BY <2>1, <2>4 DEF AskingOK
<1>6. \A v, w \in Workers : v # w => AskedOnce(v, w)'
  BY CalmIsMild DEF Mild, AnswersOK, AskedOnce, At
<1> QED BY <1>1, <1>4, <1>5, <1>6 DEF AnswersOK

(* A step of one payment's refund number k.                                 *)
LEMMA RefundStep ==
  ASSUME OrdersOK, AnswersOK, NEW p \in Payments, NEW k, AnsweredOK(p)', AnswersKept,
         \A q \in Payments : q # p => payment'[q] = payment[q] /\ gateway'[q] = gateway[q],
         \A j \in 1..MaxRefunds : j # k => gateway'[p].refunds[j] = gateway[p].refunds[j],
         \A e \in sent' : e \in sent \/ EventOK(e)',
         \A w \in Workers : work'[w] = work[w] \/ AskingOK(work[w])',
         \A w \in Workers : At(w, "refAsk") /\ work[w].pay = p /\ work[w].k = k =>
            work'[w] # work[w] \/ gateway'[p].refunds[k] = "none",
         \A v, w \in Workers : v # w => AskedOnce(v, w)'
  PROVE  AnswersOK'
<1>1. DataOK /\ \A w \in Workers : TaskOK(work[w])
  BY DEF OrdersOK, WorkOK
<1>2. \A q \in Payments : AnsweredOK(q)'
  BY DEF AnswersOK, AnsweredOK, RefundsOf, CapturedOf
<1>3. \A e \in sent' : EventOK(e)'
  BY <1>1, EventsStay
<1>4. \A w \in Workers : AskingOK(work[w])'
  <2> SUFFICES ASSUME NEW w \in Workers, work'[w] = work[w] PROVE AskingOK(work[w])'
    OBVIOUS
  <2>1. PICK d : d = work[w]
    OBVIOUS
  <2>2. AskingOK(d) /\ (d.pc = "refAsk" => d.pay \in Payments)
    BY <1>1, <2>1 DEF AnswersOK, TaskOK, OfPayment, Known
  <2>3. d.pc = "refAsk" => d.k \in 1..MaxRefunds
    <3>1. d.pc = "refAsk" => Len(RefundsOf(d.pay)) <= MaxRefunds /\ RefundsOf(d.pay) \in Seq(Refunds) /\ MaxRefunds \in Nat
      BY <1>1, <2>2, RefundTypes, OrdersAssumption DEF AnswersOK, AnsweredOK
    <3> QED BY <2>2, <3>1 DEF AskingOK
  <2>4. d.pc = "refAsk" => gateway'[d.pay].refunds[d.k] = "none"
    BY <2>1, <2>2, <2>3 DEF AskingOK, At
  <2>5. AskingOK(d)'
    BY <1>1, <2>1, <2>4, AskingStays
  <2> QED BY <2>1, <2>5 DEF AskingOK
<1> QED BY <1>2, <1>3, <1>4 DEF AnswersOK

-----------------------------------------------------------------------------
(* Steps that only look, or write orders and pieces.                        *)

LEMMA OneMoves ==
  ASSUME NEW w, Turn(w), work'[w].pc \notin {"refReserve", "refAsk", "settle", "total"}
  PROVE  Calm
BY DEF Turn, Calm

LEMMA CalmEnds ==
  ASSUME OrdersOK, NEW w \in Workers, Stop(w) \/ Return(w) \/ Throw(w) \/ AfterRelease(w)
  PROVE  Calm
<1>1. Stop(w) \/ \E c \in {"ack", "loop", "refRead"} : Goto(w, c)
  BY DEF Return, Throw, AfterRelease
<1>2. CASE Stop(w)
  <2>1. Turn(w) /\ work'[w] = Idle
    BY <1>2 DEF OrdersOK, Stop, Turn
  <2> QED BY <2>1, OneMoves DEF Idle
<1>3. CASE \E c \in {"ack", "loop", "refRead"} : Goto(w, c)
  BY <1>3, Goes, OneMoves
<1> QED BY <1>1, <1>2, <1>3

LEMMA CalmGoes ==
  ASSUME OrdersOK, NEW w \in Workers, NEW c, c \notin {"refReserve", "refAsk", "settle", "total"},
         Goto(w, c) \/ (\E s : GotoWith(w, c, s))
  PROVE  Calm
<1>1. Turn(w) /\ work'[w].pc = c
  BY Goes, GoesWith
<1> QED BY <1>1, OneMoves

LEMMA DataUntouched ==
  ASSUME OrdersOK, AnswersOK, UNCHANGED <<payment, gateway>>, sent' = sent, Calm \/ Mild
  PROVE  AnswersOK'
<1>1. SameAnswers
  BY DEF AnswersOK, AnsweredOK, SameAnswers, RefundsOf, CapturedOf
<1> QED BY <1>1, QuietStep

LEMMA LookingIsCalm ==
  ASSUME OrdersOK, NEW w \in Workers, Look(w), ~RefundRead(w)
  PROVE  Calm
<1>1. DOMAIN work = Workers /\ DOMAIN work[w] = Fields
  BY DEF OrdersOK, WorkOK
<1>2. CASE PickPieces(w)
  <2>1. CASE Goto(w, "giveUp")
    BY <2>1, CalmGoes
  <2>2. CASE \E S : work' = [work EXCEPT ![w].pc = "hold", ![w].todo = S]
    BY <1>1, <2>2, OneMoves DEF Turn, Fields
  <2> QED BY <1>2, <2>1, <2>2 DEF PickPieces
<1>3. CASE FindOlder(w) \/ CountAttempts(w) \/ OpenRead(w) \/ VoidRead(w)
  <2>1. Turn(w) /\ work'[w].pc \in {"void", "create", "loop"}
    BY <1>1, <1>3 DEF FindOlder, CountAttempts, OpenRead, VoidRead, Turn, Fields
  <2> QED BY <2>1, OneMoves
<1>4. CASE VoidDone(w)
  BY <1>4, CalmGoes DEF VoidDone
<1>5. CASE Acknowledge(w) \/ FailLook(w) \/ CaptureLookAgain(w) \/ Recheck(w)
  BY <1>5, CalmGoes, CalmEnds DEF Acknowledge, FailLook, CaptureLookAgain, Recheck
<1>6. CASE CaptureRead(w) \/ CaptureDecide(w) \/ CaptureRefused(w)
  <2>1. Return(w) \/ Goto(w, "capTxn") \/ \E c \in {"capOrder", "capRecord", "capLook"} : \E s : GotoWith(w, c, s)
    BY <1>6 DEF CaptureRead, CaptureDecide, CaptureRefused
  <2> QED BY <2>1, CalmGoes, CalmEnds
<1>7. CASE StillHeld(w)
  <2>1. CASE AfterRelease(w)
    BY <2>1, CalmEnds
  <2>2. CASE \E n : work' = [work EXCEPT ![w].pc = "free", ![w].k = n]
    BY <1>1, <2>2, OneMoves DEF Turn, Fields
  <2> QED BY <1>7, <2>1, <2>2 DEF StillHeld
<1>8. CASE Loop(w)
  <2>1. CASE Goto(w, "recheck")
    BY <2>1, CalmGoes
  <2>2. CASE ~Goto(w, "recheck")
    <3>1. PICK p \in Payments, bound \in BOOLEAN :
            work' = [work EXCEPT ![w].todo = @ \ {<<p, bound>>}, ![w].pay = p, ![w].seen = "none",
                       ![w].pc = IF bound /\ gateway[p].state # "open" THEN ReportOf(gateway[p].state) ELSE "loop"]
      BY <1>8, <2>2 DEF Loop
    <3>2. Turn(w) /\ work'[w].pc \in {"loop", "capRead", "failMark", "authorize"}
      BY <1>1, <3>1 DEF Turn, Fields, ReportOf
    <3> QED BY <3>2, OneMoves
  <2> QED BY <2>1, <2>2
<1> QED BY <1>2, <1>3, <1>4, <1>5, <1>6, <1>7, <1>8 DEF Look

(* The handlers that write neither a payment nor the provider's records.    *)
Away(w) ==
  \/ Look(w) /\ ~RefundRead(w)
  \/ GiveUp(w) \/ Reopen(w) \/ FailMove(w) \/ CaptureCancel(w) \/ CancelMove(w) \/ AfterRefund(w)
  \/ CancelPaid(w) \/ HoldPieces(w) \/ FreeHeld(w) \/ Unsell(w)

LEMMA AwayIsCalm ==
  ASSUME OrdersOK, NEW w \in Workers, Away(w)
  PROVE  Calm /\ UNCHANGED <<payment, gateway, sent>>
<1>1. DOMAIN work = Workers /\ DOMAIN work[w] = Fields
  BY DEF OrdersOK, WorkOK
<1>2. UNCHANGED <<payment, gateway, sent>>
  BY DEF Away, Look, PickPieces, FindOlder, VoidDone, CountAttempts, Acknowledge, FailLook, CaptureRead, CaptureDecide,
         CaptureRefused, CaptureLookAgain, StillHeld, RefundRead, OpenRead, Loop, Recheck, VoidRead,
         GiveUp, Reopen, FailMove, CaptureCancel, CancelMove, AfterRefund, CancelPaid, HoldPieces, FreeHeld, Unsell
<1> SUFFICES Calm
  BY <1>2
<1>3. CASE Look(w) /\ ~RefundRead(w)
  BY <1>3, LookingIsCalm
<1>4. CASE GiveUp(w) \/ Reopen(w) \/ FailMove(w) \/ CaptureCancel(w) \/ CancelMove(w) \/ AfterRefund(w)
  BY <1>4, CalmGoes, CalmEnds DEF GiveUp, Reopen, FailMove, CaptureCancel, CancelMove, AfterRefund
<1>5. CASE CancelPaid(w)
  <2>1. CASE Stop(w)
    BY <2>1, CalmEnds
  <2>2. CASE work' = [work EXCEPT ![w].pc = "unsell", ![w].job = "refund"]
    BY <1>1, <2>2, OneMoves DEF Turn, Fields
  <2> QED BY <1>5, <2>1, <2>2 DEF CancelPaid
<1>6. CASE HoldPieces(w)
  <2>1. CASE Stop(w) \/ Goto(w, "giveUp")
    BY <2>1, CalmGoes, CalmEnds
  <2>2. CASE work' = [work EXCEPT ![w].pc = "pick", ![w].k = @ + 1, ![w].todo = {}]
    BY <1>1, <2>2, OneMoves DEF Turn, Fields
  <2> QED BY <1>6, <2>1, <2>2 DEF HoldPieces
<1>7. CASE FreeHeld(w)
  BY <1>7, CalmEnds DEF FreeHeld
<1>8. CASE Unsell(w)
  <2>1. Turn(w) /\ work'[w].pc = "refRead"
    BY <1>1, <1>8 DEF Unsell, Turn, Fields
  <2> QED BY <2>1, OneMoves
<1> QED BY <1>3, <1>4, <1>5, <1>6, <1>7, <1>8 DEF Away

Begun(w) ==
  \/ \E o \in Orders : Place(w, o) \/ Initiate(w, o) \/ Cancel(w, o) \/ Expire(w, o)
  \/ \E p \in Payments : VerifyReturn(w, p) \/ CancelPayment(w, p)

LEMMA BeginningIsCalm ==
  ASSUME OrdersOK, NEW w \in Workers, Begun(w)
  PROVE  Calm /\ UNCHANGED <<payment, gateway, sent>>
<1>1. DOMAIN work = Workers
  BY DEF OrdersOK
<1>2. UNCHANGED <<payment, gateway, sent>>
  BY DEF Begun, Place, Initiate, Cancel, Expire, VerifyReturn, CancelPayment
<1> SUFFICES Calm
  BY <1>2
<1>3. ASSUME NEW d, d.pc \notin {"refReserve", "refAsk", "settle", "total"}, work' = [work EXCEPT ![w] = d]
      PROVE  Calm
  <2>1. Turn(w) /\ work'[w] = d
    BY <1>1, <1>3 DEF Turn
  <2> QED BY <1>3, <2>1, OneMoves
<1>4. ASSUME NEW o \in Orders, Place(w, o) \/ Initiate(w, o) \/ Cancel(w, o) \/ Expire(w, o)
      PROVE  Calm
  <2>1. ASSUME NEW job, NEW task, Begin(w, job, task), DOMAIN task = Fields, task.pc \notin {"refReserve", "refAsk", "settle", "total"}
        PROVE  Calm
    <3>1. PICK d : d = [task EXCEPT !.job = job]
      OBVIOUS
    <3>2. d.pc = task.pc /\ work' = [work EXCEPT ![w] = d]
      BY <2>1, <3>1 DEF Begin, Fields
    <3> QED BY <1>3, <2>1, <3>2
  <2>2. CASE Place(w, o)
    <3>1. PICK task : task = [Idle EXCEPT !.pc = "pick", !.ord = o, !.k = 1]
      OBVIOUS
    <3>2. Begin(w, "place", task) /\ DOMAIN task = Fields /\ task.pc = "pick"
      BY <2>2, <3>1 DEF Place, Idle, Fields
    <3> QED BY <2>1, <3>2
  <2>3. CASE Initiate(w, o)
    <3>1. PICK task : task = [Idle EXCEPT !.pc = "older", !.ord = o, !.seen = Status(o)]
      OBVIOUS
    <3>2. Begin(w, "initiate", task) /\ DOMAIN task = Fields /\ task.pc = "older"
      BY <2>3, <3>1 DEF Initiate, Idle, Fields
    <3> QED BY <2>1, <3>2
  <2>4. CASE Cancel(w, o) \/ Expire(w, o)
    <3>1. PICK c \in {"openRead", "cancelPaid"}, job \in {"cancel", "expire"} :
            Begin(w, job, [Idle EXCEPT !.pc = c, !.ord = o])
      BY <2>4 DEF Cancel, Expire
    <3>2. PICK task : task = [Idle EXCEPT !.pc = c, !.ord = o]
      OBVIOUS
    <3>3. Begin(w, job, task) /\ DOMAIN task = Fields /\ task.pc = c
      BY <3>1, <3>2 DEF Idle, Fields
    <3> QED BY <2>1, <3>3
  <2> QED BY <1>4, <2>2, <2>3, <2>4
<1>5. ASSUME NEW p \in Payments, VerifyReturn(w, p) \/ CancelPayment(w, p)
      PROVE  Calm
  <2>1. PICK c \in {"capRead", "failMark", "authorize", "closeAsk"}, job \in {"return", "close"} :
          Begin(w, job, [Idle EXCEPT !.pc = c, !.ord = payment[p].ord, !.pay = p])
    BY <1>5 DEF VerifyReturn, CancelPayment, ReportOf
  <2>2. PICK d : d = [[Idle EXCEPT !.pc = c, !.ord = payment[p].ord, !.pay = p] EXCEPT !.job = job]
    OBVIOUS
  <2>3. d.pc = c /\ work' = [work EXCEPT ![w] = d]
    BY <2>1, <2>2 DEF Begin, Idle
  <2> QED BY <1>3, <2>3
<1> QED BY <1>4, <1>5 DEF Begun

(* An event sends its worker to a refund only with what the provider did.   *)
LEMMA HookBegins ==
  ASSUME OrdersOK, NEW w \in Workers, NEW e \in sent, Webhook(w, e)
  PROVE  /\ UNCHANGED <<payment, gateway, sent>> /\ Turn(w) /\ e[1] \in Payments /\ payment[e[1]] # None
         /\ work'[w].pc \in {"capRead", "failMark", "authorize", "settle"}
         /\ work'[w].pc = "settle" =>
              /\ e[2] \in {"REFUND_SUCCEEDED", "REFUND_FAILED"} /\ work'[w].pay = e[1] /\ work'[w].k = e[3]
              /\ work'[w].seen = IF e[2] = "REFUND_FAILED" THEN "FAILED" ELSE "SUCCEEDED"
<1>1. PICK p : p = e[1]
  OBVIOUS
<1>2. PICK c \in {"capRead", "failMark", "authorize", "settle"}, s \in {"SUCCEEDED", "FAILED"} :
        /\ Begin(w, "webhook", [Idle EXCEPT !.pc = c, !.ord = payment[p].ord, !.pay = p, !.todo = {e}, !.k = e[3], !.seen = s])
        /\ s = IF e[2] = "REFUND_FAILED" THEN "FAILED" ELSE "SUCCEEDED"
        /\ c = "settle" => e[2] \notin {"CAPTURED", "FAILED", "AUTHORIZED"}
  BY <1>1 DEF Webhook
<1>3. PICK d : d = [[Idle EXCEPT !.pc = c, !.ord = payment[p].ord, !.pay = p, !.todo = {e}, !.k = e[3], !.seen = s]
                      EXCEPT !.job = "webhook"]
  OBVIOUS
<1>4. d.pc = c /\ d.pay = p /\ d.k = e[3] /\ d.seen = s /\ work' = [work EXCEPT ![w] = d]
  BY <1>2, <1>3 DEF Begin, Idle
<1>5. Turn(w) /\ work'[w] = d
  BY <1>4 DEF OrdersOK, Turn
<1>6. e[2] \in {"AUTHORIZED", "CAPTURED", "FAILED", "REFUND_SUCCEEDED", "REFUND_FAILED"} /\ p \in Payments
  BY <1>1 DEF OrdersOK, DataOK, DocsOK, Events
<1>7. UNCHANGED <<payment, gateway, sent>> /\ payment[p] # None
  BY <1>1 DEF Webhook
<1> QED BY <1>1, <1>2, <1>4, <1>5, <1>6, <1>7

LEMMA HookIsMild ==
  ASSUME OrdersOK, AnswersOK, NEW w \in Workers, NEW e \in sent, Webhook(w, e)
  PROVE  Mild /\ UNCHANGED <<payment, gateway, sent>>
<1>1. UNCHANGED <<payment, gateway, sent>> /\ Turn(w) /\ work'[w].pc # "refAsk"
  BY HookBegins
<1>2. EventOK(e)
  BY DEF AnswersOK
<1>3. AskingOK(work[w])'
  BY <1>1, <1>2, HookBegins DEF AskingOK, EventOK
<1> QED BY <1>1, <1>3 DEF Mild, Turn

LEMMA ReadIsMild ==
  ASSUME OrdersOK, NEW w \in Workers, RefundRead(w)
  PROVE  (Calm \/ Mild) /\ UNCHANGED <<payment, gateway, sent>>
<1>1. DOMAIN work = Workers /\ DOMAIN work[w] = Fields
  BY DEF OrdersOK, WorkOK
<1>2. CASE Return(w)
  BY <1>2, CalmEnds DEF RefundRead
<1>3. CASE \E n : work' = [work EXCEPT ![w].pc = "refReserve", ![w].amount = n]
  <2>1. Turn(w) /\ work'[w].pc = "refReserve"
    BY <1>1, <1>3 DEF Turn, Fields
  <2>2. Mild
    BY <2>1 DEF Turn, Mild, AskingOK
  <2> QED BY <2>2 DEF RefundRead
<1> QED BY <1>2, <1>3 DEF RefundRead

-----------------------------------------------------------------------------
(* Steps that write a payment, but none of its refunds: the statuses and    *)
(* the captured amount they may leave in a document d of payment p.         *)

Rewrites(w, p, d) ==
  /\ d.refunds = payment[p].refunds
  /\ \/ d.captured = payment[p].captured /\ d.status = payment[p].status
     \/ d.captured = payment[p].captured /\ payment[p].status = "PENDING" /\ d.status = "AUTHORIZED"
     \/ d.captured = payment[p].captured /\ payment[p].status \in Open /\ d.status = "FAILED"
     \/ d.captured = gateway[p].amount /\ payment[p].status \in Capturable /\ d.status = "CAPTURED"
     \/ /\ d.captured = payment[p].captured /\ d.status = PaymentStatusFor(payment[p].captured, work[w].amount)
        /\ At(w, "total") /\ work[w].pay = p /\ d.refunded = work[w].amount

Writes(w, p) ==
  \/ payment'[p] = payment[p]
  \/ payment[p] = None /\ payment'[p].refunds = <<>> /\ payment'[p].captured = 0 /\ payment'[p].status = "PENDING"
  \/ payment[p] # None /\ payment'[p] # None /\ Rewrites(w, p, payment'[p])

Booked(w) ==
  VoidMark(w) \/ BindReference(w) \/ Authorize(w) \/ FailMark(w) \/ CaptureCommit(w) \/ CaptureRecord(w)
    \/ SettleTotal(w) \/ CreatePayment(w)

LEMMA OneRewritten ==
  ASSUME DataOK, NEW w, NEW p, Known(p), NEW d \in PaymentDocs, Rewrites(w, p, d), payment' = [payment EXCEPT ![p] = d]
  PROVE  \A q \in Payments : Writes(w, q)
<1>1. \A q \in Payments : payment'[q] = IF q = p THEN d ELSE payment[q]
  BY DEF DataOK, DocsOK
<1>2. d # None /\ p \in Payments /\ payment[p] # None /\ payment'[p] = d
  BY <1>1, NoneIsNoDocument DEF Known
<1>3. Writes(w, p)
  BY <1>2 DEF Writes
<1> QED BY <1>1, <1>3 DEF Writes

(* A status that moves forward, by a compare-and-set.                       *)
LEMMA StatusMoves ==
  ASSUME DataOK, NEW w, NEW p, Known(p), NEW s, payment' = [payment EXCEPT ![p].status = s],
         \/ s = payment[p].status
         \/ payment[p].status = "PENDING" /\ s = "AUTHORIZED"
         \/ payment[p].status \in Open /\ s = "FAILED"
  PROVE  \A q \in Payments : Writes(w, q)
<1>1. payment[p] \in PaymentDocs
  BY DEF Known, DataOK, DocsOK
<1>2. s \in PaymentStatuses
  BY <1>1 DEF PaymentDocs, PaymentStatuses
<1>3. PICK d : d = [payment[p] EXCEPT !.status = s]
  OBVIOUS
<1>4. d \in PaymentDocs /\ d.refunds = payment[p].refunds /\ d.captured = payment[p].captured /\ d.status = s
  BY <1>1, <1>2, <1>3 DEF PaymentDocs
<1>5. payment' = [payment EXCEPT ![p] = d]
  BY <1>3
<1>6. Rewrites(w, p, d)
  BY <1>4 DEF Rewrites
<1> QED BY <1>4, <1>5, <1>6, OneRewritten

LEMMA CaptureWrites ==
  ASSUME DataOK, NEW w, NEW p, Known(p), payment' = Captured(p)
  PROVE  \A q \in Payments : Writes(w, q)
<1>1. payment[p] \in PaymentDocs /\ gateway[p].amount \in Nat
  BY RefundTypes DEF Known, DataOK, DocsOK
<1>2. CASE payment[p].status \in Capturable
  <2>1. payment' = [payment EXCEPT ![p].status = "CAPTURED", ![p].captured = gateway[p].amount]
    BY <1>2 DEF Captured
  <2>2. PICK d : d = [payment[p] EXCEPT !.status = "CAPTURED", !.captured = gateway[p].amount]
    OBVIOUS
  <2>3. d \in PaymentDocs /\ d.refunds = payment[p].refunds /\ d.captured = gateway[p].amount /\ d.status = "CAPTURED"
    BY <1>1, <2>2 DEF PaymentDocs, PaymentStatuses
  <2>4. payment' = [payment EXCEPT ![p] = d]
    BY <2>1, <2>2
  <2>5. Rewrites(w, p, d)
    BY <1>2, <2>3 DEF Rewrites
  <2> QED BY <2>3, <2>4, <2>5, OneRewritten
<1>3. CASE payment[p].status \notin Capturable
  BY <1>3 DEF Captured, Writes
<1> QED BY <1>2, <1>3

LEMMA BookedWrites ==
  ASSUME OrdersOK, NEW w \in Workers, Booked(w)
  PROVE  Calm /\ gateway' = gateway /\ sent' = sent /\ \A q \in Payments : Writes(w, q)
<1>1. DataOK /\ DOMAIN work = Workers /\ DOMAIN work[w] = Fields /\ TaskOK(work[w])
  BY DEF OrdersOK, WorkOK
<1>2. gateway' = gateway /\ sent' = sent
  BY DEF Booked, VoidMark, BindReference, Authorize, FailMark, CaptureCommit, CaptureRecord, SettleTotal, CreatePayment
<1> SUFFICES Calm /\ \A q \in Payments : Writes(w, q)
  BY <1>2
<1>3. PICK p : p = work[w].pay
  OBVIOUS
<1>4. ASSUME At(w, "bind") \/ At(w, "authorize") \/ At(w, "failMark") \/ At(w, "capTxn") \/ At(w, "capRecord") \/ At(w, "total")
      PROVE  Known(p) /\ payment[p] \in PaymentDocs /\ payment \in [Payments -> PaymentDocs \union {None}]
  BY <1>1, <1>3, <1>4 DEF TaskOK, At, OfPayment, Known, DataOK, DocsOK
<1>5. CASE VoidMark(w)
  <2>1. PICK old \in work[w].todo :
          /\ payment' = [payment EXCEPT ![old[1]].status = IF @ \in Open THEN "FAILED" ELSE @]
          /\ work' = [work EXCEPT ![w].todo = @ \ {old}, ![w].pc = IF old[2] THEN "voidAsk" ELSE "void", ![w].pay = old[1]]
    BY <1>5 DEF VoidMark
  <2>2. PICK q : q = old[1]
    OBVIOUS
  <2>3. Known(q)
    BY <1>1, <1>5, <2>2 DEF VoidMark, At, TaskOK
  <2>4. PICK s : s = IF payment[q].status \in Open THEN "FAILED" ELSE payment[q].status
    OBVIOUS
  <2>5. payment' = [payment EXCEPT ![q].status = s]
    BY <1>1, <2>1, <2>2, <2>3, <2>4 DEF Known, DataOK, DocsOK
  <2>6. \A r \in Payments : Writes(w, r)
    BY <1>1, <2>3, <2>4, <2>5, StatusMoves
  <2>7. Turn(w) /\ work'[w].pc \in {"void", "voidAsk"}
    BY <1>1, <2>1 DEF Turn, Fields
  <2> QED BY <2>6, <2>7, OneMoves
<1>6. CASE BindReference(w)
  <2>1. Known(p) /\ payment[p] \in PaymentDocs
    BY <1>4, <1>6 DEF BindReference
  <2>2. PICK d : d = [payment[p] EXCEPT !.bound = TRUE]
    OBVIOUS
  <2>3. /\ d \in PaymentDocs /\ d.refunds = payment[p].refunds
        /\ d.captured = payment[p].captured /\ d.status = payment[p].status
    BY <2>1, <2>2 DEF PaymentDocs
  <2>4. payment' = [payment EXCEPT ![p] = d]
    BY <1>3, <1>6, <2>2 DEF BindReference
  <2>5. Rewrites(w, p, d)
    BY <2>3 DEF Rewrites
  <2>6. \A q \in Payments : Writes(w, q)
    BY <1>1, <2>1, <2>3, <2>4, <2>5, OneRewritten
  <2> QED BY <1>6, <2>6, CalmEnds DEF BindReference
<1>7. CASE Authorize(w)
  <2>1. Known(p) /\ payment[p] \in PaymentDocs
    BY <1>4, <1>7 DEF Authorize
  <2>2. PICK s : s = IF payment[p].status = "PENDING" THEN "AUTHORIZED" ELSE payment[p].status
    OBVIOUS
  <2>3. payment' = [payment EXCEPT ![p].status = s]
    BY <1>3, <1>4, <1>7, <2>1, <2>2 DEF Authorize, Known
  <2>4. \A q \in Payments : Writes(w, q)
    BY <1>1, <2>1, <2>2, <2>3, StatusMoves
  <2> QED BY <1>7, <2>4, CalmEnds DEF Authorize
<1>8. CASE FailMark(w)
  <2>1. Known(p)
    BY <1>4, <1>8 DEF FailMark
  <2>2. \A q \in Payments : Writes(w, q)
    <3>1. CASE payment[p].status \in Open /\ payment' = [payment EXCEPT ![p].status = "FAILED"]
      BY <1>1, <2>1, <3>1, StatusMoves
    <3>2. CASE payment' = payment
      BY <3>2 DEF Writes
    <3> QED BY <1>3, <1>8, <3>1, <3>2 DEF FailMark
  <2> QED BY <1>8, <2>2, CalmGoes, CalmEnds DEF FailMark
<1>9. CASE CaptureCommit(w)
  <2>1. \A q \in Payments : Writes(w, q)
    BY <1>1, <1>3, <1>4, <1>9, CaptureWrites DEF CaptureCommit
  <2> QED BY <1>9, <2>1, CalmEnds DEF CaptureCommit
<1>10. CASE CaptureRecord(w)
  <2>1. \A q \in Payments : Writes(w, q)
    BY <1>1, <1>3, <1>4, <1>10, CaptureWrites DEF CaptureRecord
  <2>2. PICK c \in {"capCancel", "refRead"} : Goto(w, c)
    BY <1>10 DEF CaptureRecord
  <2> QED BY <2>1, <2>2, CalmGoes
<1>11. CASE SettleTotal(w)
  <2>1. Known(p) /\ payment[p] \in PaymentDocs /\ work[w].amount \in Nat
    BY <1>1, <1>4, <1>11 DEF SettleTotal, TaskOK, At
  <2>2. PICK s : s = PaymentStatusFor(payment[p].captured, work[w].amount)
    OBVIOUS
  <2>3. s \in PaymentStatuses
    BY <2>2 DEF PaymentStatusFor, PaymentStatuses
  <2>4. PICK d : d = [payment[p] EXCEPT !.refunded = work[w].amount, !.status = s]
    OBVIOUS
  <2>5. /\ d \in PaymentDocs /\ d.refunds = payment[p].refunds /\ d.captured = payment[p].captured /\ d.status = s
        /\ d.refunded = work[w].amount
    BY <2>1, <2>3, <2>4 DEF PaymentDocs
  <2>6. payment' = [payment EXCEPT ![p] = d]
    BY <1>3, <1>11, <2>2, <2>4 DEF SettleTotal
  <2>7. Rewrites(w, p, d)
    BY <1>3, <1>11, <2>2, <2>5 DEF Rewrites, SettleTotal
  <2>8. \A q \in Payments : Writes(w, q)
    BY <1>1, <2>1, <2>5, <2>6, <2>7, OneRewritten
  <2> QED BY <1>11, <2>8, CalmGoes, CalmEnds DEF SettleTotal
<1>12. CASE CreatePayment(w)
  <2>1. CASE Stop(w) /\ UNCHANGED payment
    BY <2>1, CalmEnds DEF Writes
  <2>2. CASE ~(Stop(w) /\ UNCHANGED payment)
    <3>1. PICK q, d :
            /\ q \in Payments /\ payment[q] = None /\ d.refunds = <<>> /\ d.captured = 0 /\ d.status = "PENDING"
            /\ payment' = [payment EXCEPT ![q] = d]
            /\ work' = [work EXCEPT ![w].pc = "start", ![w].pay = q]
      BY <1>12, <2>2 DEF CreatePayment
    <3>2. \A r \in Payments : payment'[r] = IF r = q THEN d ELSE payment[r]
      BY <1>1, <3>1 DEF DataOK, DocsOK
    <3>3. \A r \in Payments : Writes(w, r)
      BY <3>1, <3>2 DEF Writes
    <3>4. Turn(w) /\ work'[w].pc = "start"
      BY <1>1, <3>1 DEF Turn, Fields
    <3> QED BY <3>3, <3>4, OneMoves
  <2> QED BY <2>1, <2>2
<1> QED BY <1>5, <1>6, <1>7, <1>8, <1>9, <1>10, <1>11, <1>12 DEF Booked

LEMMA BookedStep ==
  ASSUME OrdersOK, AnswersOK, NEW w \in Workers, Booked(w)
  PROVE  AnswersOK'
<1>1. Calm /\ gateway' = gateway /\ sent' = sent /\ \A q \in Payments : Writes(w, q)
  BY BookedWrites
<1>2. \A q \in Payments : RefundsOf(q)' = RefundsOf(q)
  BY <1>1 DEF RefundsOf, Writes, Rewrites
<1>3. \A q \in Payments : CapturedOf(q)' \in {CapturedOf(q), gateway[q].amount, 0}
  BY <1>1 DEF CapturedOf, Writes, Rewrites
<1>4. \A q \in Payments : CapturedOf(q) <= gateway[q].amount /\ gateway[q].amount \in Nat
  BY RefundTypes DEF OrdersOK, AnswersOK, AnsweredOK
<1>5. SameAnswers
  BY <1>1, <1>2, <1>3, <1>4 DEF SameAnswers
<1> QED BY <1>1, <1>5, QuietStep

-----------------------------------------------------------------------------
(* Steps that write the provider's records, but none of its refunds.        *)

LEMMA RecordUntouched ==
  ASSUME DataOK, AnswersOK, payment' = payment,
         NEW p \in Payments, NEW g, g.refunds = gateway[p].refunds,
         g.amount = gateway[p].amount \/ (gateway[p].amount = 0 /\ g.amount \in Nat),
         gateway' = [gateway EXCEPT ![p] = g]
  PROVE  SameAnswers
<1>1. \A q \in Payments : gateway'[q] = IF q = p THEN g ELSE gateway[q]
  BY DEF DataOK, DocsOK
<1>2. \A q \in Payments : RefundsOf(q)' = RefundsOf(q) /\ CapturedOf(q)' = CapturedOf(q)
  BY DEF RefundsOf, CapturedOf
<1>3. \A q \in Payments : CapturedOf(q) \in Nat /\ gateway[q].amount \in Nat /\ CapturedOf(q) <= gateway[q].amount
  BY RefundTypes DEF AnswersOK, AnsweredOK
<1>4. \A q \in Payments : CapturedOf(q) <= gateway'[q].amount
  BY <1>1, <1>3
<1> QED BY <1>1, <1>2, <1>4 DEF SameAnswers

LEMMA AskedWrites ==
  ASSUME OrdersOK, AnswersOK, NEW w \in Workers, VoidAsk(w) \/ CloseAsk(w) \/ StartAtProvider(w)
  PROVE  SameAnswers /\ Calm /\ payment' = payment /\ sent' = sent
<1>1. PICK p : p = work[w].pay
  OBVIOUS
<1>2. DataOK /\ TaskOK(work[w]) /\ payment' = payment /\ sent' = sent
  BY DEF OrdersOK, WorkOK, VoidAsk, CloseAsk, StartAtProvider
<1>3. p \in Payments
  BY <1>1, <1>2 DEF TaskOK, OfPayment, VoidAsk, CloseAsk, StartAtProvider, At, Known
<1>4. gateway' = gateway \/ \E s \in {"open", "failed"} : gateway' = [gateway EXCEPT ![p].state = s]
  BY <1>1 DEF VoidAsk, CloseAsk, StartAtProvider, Voided
<1>5. ASSUME gateway' = gateway
      PROVE  SameAnswers
  BY <1>2, <1>5 DEF AnswersOK, AnsweredOK, SameAnswers, RefundsOf, CapturedOf
<1>6. ASSUME \E s \in {"open", "failed"} : gateway' = [gateway EXCEPT ![p].state = s]
      PROVE  SameAnswers
  <2>1. PICK s \in {"open", "failed"} : gateway' = [gateway EXCEPT ![p].state = s]
    BY <1>6
  <2>2. PICK g : g = [gateway[p] EXCEPT !.state = s]
    OBVIOUS
  <2>3. gateway[p] \in GatewayRecords
    BY <1>2, <1>3 DEF DataOK, DocsOK
  <2>4. g.refunds = gateway[p].refunds /\ g.amount = gateway[p].amount
    BY <2>2, <2>3 DEF GatewayRecords
  <2>5. gateway' = [gateway EXCEPT ![p] = g]
    BY <2>1, <2>2
  <2> QED BY <1>2, <1>3, <2>4, <2>5, RecordUntouched
<1>7. SameAnswers
  BY <1>4, <1>5, <1>6
<1>8. Calm
  <2>1. PICK c \in {"void", "failMark", "bind"} : Goto(w, c)
    BY DEF VoidAsk, CloseAsk, StartAtProvider
  <2> QED BY <2>1, CalmGoes
<1> QED BY <1>2, <1>7, <1>8

LEMMA WorldWrites ==
  ASSUME OrdersOK, AnswersOK, UNCHANGED <<payment, work>>,
         \/ (\E o \in Orders : HoldOver(o)) \/ (\E x \in Pieces : SweepPiece(x) \/ InspectReturned(x))
         \/ (\E p \in Payments : Authorizes(p) \/ Declines(p))
         \/ (\E p \in Payments, amount \in Amounts : Pays(p, amount))
  PROVE  SameAnswers /\ Calm /\ \A e \in sent' : e \in sent \/ e[2] \notin {"REFUND_SUCCEEDED", "REFUND_FAILED"}
<1>1. DataOK /\ Calm /\ payment' = payment
  BY DEF OrdersOK, Calm
<1>2. CASE (\E o \in Orders : HoldOver(o)) \/ (\E x \in Pieces : SweepPiece(x) \/ InspectReturned(x))
  <2>1. gateway' = gateway /\ sent' = sent
    BY <1>2 DEF HoldOver, SweepPiece, InspectReturned
  <2>2. SameAnswers
    BY <1>1, <2>1 DEF AnswersOK, AnsweredOK, SameAnswers, RefundsOf, CapturedOf
  <2> QED BY <1>1, <2>1, <2>2
<1>3. CASE \E p \in Payments : Authorizes(p) \/ Declines(p)
  <2>1. PICK p \in Payments, s \in {"authorized", "failed"} : gateway' = [gateway EXCEPT ![p].state = s]
    BY <1>3 DEF Authorizes, Declines
  <2>2. \A e \in sent' : e \in sent \/ e[2] \notin {"REFUND_SUCCEEDED", "REFUND_FAILED"}
    BY <1>3 DEF Authorizes, Declines
  <2>3. PICK g : g = [gateway[p] EXCEPT !.state = s]
    OBVIOUS
  <2>4. gateway[p] \in GatewayRecords
    BY <1>1 DEF DataOK, DocsOK
  <2>5. g.refunds = gateway[p].refunds /\ g.amount = gateway[p].amount
    BY <2>3, <2>4 DEF GatewayRecords
  <2>6. gateway' = [gateway EXCEPT ![p] = g]
    BY <2>1, <2>3
  <2>7. SameAnswers
    BY <1>1, <2>5, <2>6, RecordUntouched
  <2> QED BY <1>1, <2>2, <2>7
<1>4. CASE \E p \in Payments, amount \in Amounts : Pays(p, amount)
  <2>1. PICK p \in Payments, amount \in Amounts : Pays(p, amount)
    BY <1>4
  <2>2. \A e \in sent' : e \in sent \/ e[2] \notin {"REFUND_SUCCEEDED", "REFUND_FAILED"}
    BY <2>1 DEF Pays
  <2>3. PICK g : g = [gateway[p] EXCEPT !.state = "captured", !.amount = amount]
    OBVIOUS
  <2>4. gateway[p] \in GatewayRecords /\ gateway[p].amount = 0 /\ amount \in Nat
    BY <1>1, <2>1, OrdersAssumption DEF DataOK, DocsOK, GatewayOK, Pays
  <2>5. g.refunds = gateway[p].refunds /\ g.amount = amount
    BY <2>3, <2>4 DEF GatewayRecords
  <2>6. gateway' = [gateway EXCEPT ![p] = g]
    BY <2>1, <2>3 DEF Pays
  <2>7. SameAnswers
    BY <1>1, <2>4, <2>5, <2>6, RecordUntouched
  <2> QED BY <1>1, <2>2, <2>7
<1> QED BY <1>2, <1>3, <1>4

-----------------------------------------------------------------------------
(* The steps of a refund.                                                   *)

(* A refund is written down before the provider is asked for it, and asked  *)
(* for by the worker that wrote it down.                                    *)
Reserved(w, p, k) ==
  /\ Turn(w) /\ work'[w].pc = "refAsk" /\ work'[w].pay = p /\ work'[w].k = k
  /\ k \in 1..MaxRefunds /\ k = Len(RefundsOf(p)) + 1
  /\ RefundsOf(p)' = Append(RefundsOf(p), [amount |-> work[w].amount, status |-> "PENDING", bound |-> FALSE])
  /\ CapturedOf(p)' = CapturedOf(p) /\ payment'[p] # None /\ payment'[p].status = payment[p].status
  /\ \A q \in Payments : q # p => payment'[q] = payment[q]
  /\ Committed(p) + work[w].amount <= payment[p].captured

LEMMA ReserveWrites ==
  ASSUME OrdersOK, NEW w \in Workers, RefundReserve(w)
  PROVE  /\ gateway' = gateway /\ sent' = sent /\ Known(work[w].pay) /\ work[w].amount \in Nat
         /\ (Calm /\ payment' = payment) \/ \E k : Reserved(w, work[w].pay, k)
<1>1. PICK p : p = work[w].pay
  OBVIOUS
<1>2. /\ DataOK /\ DOMAIN work = Workers /\ DOMAIN work[w] = Fields /\ TaskOK(work[w])
      /\ At(w, "refReserve") /\ gateway' = gateway /\ sent' = sent
  BY DEF OrdersOK, WorkOK, RefundReserve
<1>3. p \in Payments /\ payment[p] # None /\ payment[p] \in PaymentDocs /\ Known(p) /\ work[w].amount \in Nat
  BY <1>1, <1>2 DEF TaskOK, At, OfPayment, Known, DataOK, DocsOK
<1>4. CASE Return(w) /\ UNCHANGED payment
  BY <1>1, <1>2, <1>3, <1>4, CalmEnds
<1>5. CASE ~(Return(w) /\ UNCHANGED payment)
  <2>1. PICK r, k :
          /\ r = [amount |-> work[w].amount, status |-> "PENDING", bound |-> FALSE]
          /\ k = Len(payment[p].refunds) + 1 /\ Len(payment[p].refunds) < scope.refunds
          /\ payment' = [payment EXCEPT ![p].refunds = Append(@, r)]
          /\ work' = [work EXCEPT ![w].pc = "refAsk", ![w].k = k]
          /\ Committed(p) + work[w].amount <= payment[p].captured
    BY <1>1, <1>5 DEF RefundReserve
  <2>2. PICK old, new : old = payment[p].refunds /\ new = Append(old, r)
    OBVIOUS
  <2>3. old \in Seq(Refunds) /\ r \in Refunds
    BY <1>3, <2>1, <2>2 DEF PaymentDocs, Refunds
  <2>4. new \in Seq(Refunds)
    BY <2>2, <2>3
  <2>5. scope.refunds <= MaxRefunds /\ MaxRefunds \in Nat /\ scope.refunds \in Nat
    <3>1. scope \in Scopes
      BY <1>2 DEF DataOK, DocsOK
    <3> QED BY <3>1, OrdersAssumption
  <2>6. k \in 1..MaxRefunds /\ k = Len(old) + 1
    <3>1. Len(old) \in Nat
      BY <2>3
    <3> QED BY <2>1, <2>2, <2>5, <3>1
  <2>7. PICK d : d = [payment[p] EXCEPT !.refunds = new]
    OBVIOUS
  <2>8. payment' = [payment EXCEPT ![p] = d]
    BY <2>1, <2>2, <2>7
  <2>9. payment'[p] = d /\ \A q \in Payments : q # p => payment'[q] = payment[q]
    BY <1>2, <1>3, <2>8 DEF DataOK, DocsOK
  <2>10. d \in PaymentDocs /\ d.refunds = new /\ d.captured = payment[p].captured /\ d.status = payment[p].status
    BY <1>3, <2>4, <2>7 DEF PaymentDocs
  <2>11. d # None
    BY <2>10, NoneIsNoDocument
  <2>12. RefundsOf(p) = old /\ RefundsOf(p)' = new /\ CapturedOf(p)' = CapturedOf(p)
    BY <1>3, <2>2, <2>9, <2>10, <2>11 DEF RefundsOf, CapturedOf
  <2>13. Turn(w) /\ work'[w].pc = "refAsk" /\ work'[w].pay = p /\ work'[w].k = k
    BY <1>1, <1>2, <2>1 DEF Turn, Fields
  <2>14. Reserved(w, p, k)
    BY <2>1, <2>2, <2>6, <2>9, <2>10, <2>11, <2>12, <2>13 DEF Reserved
  <2> QED BY <1>1, <1>2, <1>3, <2>14
<1> QED BY <1>4, <1>5

LEMMA ReserveAnswered ==
  ASSUME OrdersOK, AnswersOK, NEW w \in Workers, RefundReserve(w)
  PROVE  AnswersOK'
<1>1. PICK p : p = work[w].pay
  OBVIOUS
<1>2. DataOK /\ gateway' = gateway /\ sent' = sent /\ Known(p) /\ p \in Payments /\ work[w].amount \in Nat
  BY <1>1, ReserveWrites DEF OrdersOK, Known
<1>3. CASE Calm /\ payment' = payment
  BY <1>2, <1>3, DataUntouched
<1>4. CASE \E k : Reserved(w, p, k)
  <2>1. PICK k : Reserved(w, p, k)
    BY <1>4
  <2>2. PICK old, new, r :
          /\ r = [amount |-> work[w].amount, status |-> "PENDING", bound |-> FALSE]
          /\ old = RefundsOf(p) /\ new = Append(old, r)
    OBVIOUS
  <2>3. old \in Seq(Refunds) /\ r.status = "PENDING" /\ MaxRefunds \in Nat
    BY <1>2, <2>2, RefundTypes, OrdersAssumption
  <2>4. k \in 1..MaxRefunds /\ k = Len(old) + 1 /\ RefundsOf(p)' = new
    BY <2>1, <2>2 DEF Reserved
  <2>5. /\ Len(new) = k /\ new[k] = r /\ DOMAIN new = DOMAIN old \union {k} /\ k \notin DOMAIN old
        /\ \A j \in DOMAIN old : new[j] = old[j]
    BY <2>2, <2>3, <2>4
  <2>6. AnsweredOK(p) /\ gateway[p].refunds[k] = "none"
    BY <1>2, <2>2, <2>4, <2>5 DEF AnswersOK, AnsweredOK
  <2>7. AnsweredOK(p)'
    <3>1. CapturedOf(p)' <= gateway'[p].amount /\ Len(RefundsOf(p)') <= MaxRefunds
      BY <1>2, <2>1, <2>3, <2>4, <2>5, <2>6 DEF AnsweredOK, Reserved
    <3>2. \A j \in 1..MaxRefunds : gateway'[p].refunds[j] # "none" => j \in DOMAIN RefundsOf(p)'
      BY <1>2, <2>2, <2>4, <2>5, <2>6 DEF AnsweredOK
    <3>3. \A j \in DOMAIN RefundsOf(p)' : RefundsOf(p)'[j].status = "FAILED" => gateway'[p].refunds[j] = "failed"
      BY <1>2, <2>2, <2>3, <2>4, <2>5, <2>6 DEF AnsweredOK
    <3> QED BY <3>1, <3>2, <3>3 DEF AnsweredOK
  <2>8. \A q \in Payments : DOMAIN RefundsOf(q) \subseteq DOMAIN RefundsOf(q)'
    <3>1. \A q \in Payments : q # p => RefundsOf(q)' = RefundsOf(q)
      BY <2>1 DEF RefundsOf, Reserved
    <3> QED BY <2>2, <2>4, <2>5, <3>1
  <2>9. AnswersKept
    BY <1>2, <2>8 DEF AnswersKept
  <2>10. Turn(w) /\ work'[w].pc = "refAsk" /\ work'[w].pay = p /\ work'[w].k = k
    BY <2>1 DEF Reserved
  <2>11. AskingOK(work[w])'
    BY <1>2, <2>4, <2>5, <2>6, <2>10 DEF AskingOK
  <2>12. \A v \in Workers : At(v, "refAsk") /\ work[v].pay = p => work[v].k # k
    BY <2>2, <2>5 DEF AnswersOK, AskingOK, At
  <2>13. \A u, v \in Workers : u # v => AskedOnce(u, v)'
    BY <2>10, <2>12 DEF Turn, AnswersOK, AskedOnce, At
  <2>14. \A q \in Payments : q # p => payment'[q] = payment[q]
    BY <2>1 DEF Reserved
  <2> QED BY <1>2, <2>6, <2>7, <2>9, <2>10, <2>11, <2>13, <2>14, RefundStep DEF Turn
<1> QED BY <1>1, <1>3, <1>4, ReserveWrites

LEMMA SameLength ==
  ASSUME NEW s \in Seq(Refunds), NEW t \in Seq(Refunds), DOMAIN s = DOMAIN t
  PROVE  Len(s) = Len(t)
<1>1. 1..Len(s) = 1..Len(t) /\ Len(s) \in Nat /\ Len(t) \in Nat
  BY LenProperties
<1> QED BY <1>1, UpTo

(* What a write does to refund k of payment p.                              *)
MayBecome(p, k, r) ==
  k \in DOMAIN payment[p].refunds =>
    /\ r \in Refunds /\ r.amount = payment[p].refunds[k].amount
    /\ r.status \in {"PENDING", "SUCCEEDED"} => payment[p].refunds[k].status \in {"PENDING", "SUCCEEDED"}

OneRefundWrites(p, k, r) ==
  payment' = [payment EXCEPT ![p].refunds = [payment[p].refunds EXCEPT ![k] = r]]

OnlyRefundBecomes(p, k, r) ==
  /\ CapturedOf(p)' = CapturedOf(p) /\ DOMAIN RefundsOf(p)' = DOMAIN RefundsOf(p)
  /\ Len(RefundsOf(p)') = Len(RefundsOf(p)) /\ RefundsOf(p)' \in Seq(Refunds)
  /\ \A j \in DOMAIN RefundsOf(p) : RefundsOf(p)'[j] = IF j = k THEN r ELSE RefundsOf(p)[j]
  /\ payment'[p] # None /\ payment'[p].status = payment[p].status
  /\ \A q \in Payments : q # p => payment'[q] = payment[q]

LEMMA OneRefundWritten ==
  ASSUME DataOK, NEW p, Known(p), NEW k, NEW r, MayBecome(p, k, r), OneRefundWrites(p, k, r)
  PROVE  OnlyRefundBecomes(p, k, r)
<1>1. payment[p] \in PaymentDocs /\ p \in Payments /\ payment[p] # None
  BY DEF Known, DataOK, DocsOK
<1>2. PICK old \in Seq(Refunds) : old = payment[p].refunds
  BY <1>1 DEF PaymentDocs
<1>3. PICK new : new = [old EXCEPT ![k] = r]
  OBVIOUS
<1>4. DOMAIN new = DOMAIN old /\ \A j \in DOMAIN old : new[j] = IF j = k THEN r ELSE old[j]
  BY <1>3
<1>5. new \in Seq(Refunds)
  BY <1>2, <1>3, RefundReplaced DEF MayBecome
<1>6. Len(new) = Len(old)
  BY <1>2, <1>4, <1>5, SameLength
<1>7. PICK d : d = [payment[p] EXCEPT !.refunds = new]
  OBVIOUS
<1>8. payment' = [payment EXCEPT ![p] = d]
  BY <1>2, <1>3, <1>7 DEF OneRefundWrites
<1>9. payment'[p] = d /\ \A q \in Payments : q # p => payment'[q] = payment[q]
  BY <1>1, <1>8 DEF DataOK, DocsOK
<1>10. d \in PaymentDocs /\ d.refunds = new /\ d.captured = payment[p].captured /\ d.status = payment[p].status
  BY <1>1, <1>5, <1>7 DEF PaymentDocs
<1>11. RefundsOf(p) = old /\ RefundsOf(p)' = new /\ CapturedOf(p)' = CapturedOf(p)
  BY <1>1, <1>2, <1>9, <1>10, NoneIsNoDocument DEF RefundsOf, CapturedOf
<1> QED BY <1>4, <1>5, <1>6, <1>9, <1>10, <1>11, NoneIsNoDocument DEF OnlyRefundBecomes

(* Only a worker that was told of a failure writes one.                     *)
Binds(p, k, r) == Calm /\ (k \in DOMAIN payment[p].refunds => r.status = payment[p].refunds[k].status)

Settles(w, p, k, r) ==
  /\ payment[p].refunds[k].status = "PENDING" /\ work[w].seen \in {"SUCCEEDED", "FAILED"}
  /\ k \in DOMAIN payment[p].refunds => r.status = work[w].seen
  /\ At(w, "settle") /\ Turn(w) /\ work'[w].pc = "total" /\ work'[w].pay = p
  /\ work'[w].amount = RefundedIn([payment[p].refunds EXCEPT ![k] = r], {"SUCCEEDED"})

Outcome(w, p, k, r) ==
  MayBecome(p, k, r) /\ OneRefundWrites(p, k, r) /\ (Binds(p, k, r) \/ Settles(w, p, k, r))

LEMMA OutcomeWrites ==
  ASSUME OrdersOK, NEW w \in Workers, RefundBind(w) \/ SettleRefund(w)
  PROVE  /\ gateway' = gateway /\ sent' = sent /\ Known(work[w].pay)
         /\ (Calm /\ payment' = payment) \/ \E r : Outcome(w, work[w].pay, work[w].k, r)
<1>1. PICK p, k : p = work[w].pay /\ k = work[w].k
  OBVIOUS
<1>2. /\ DataOK /\ DOMAIN work = Workers /\ DOMAIN work[w] = Fields /\ TaskOK(work[w])
      /\ At(w, "refBind") \/ At(w, "settle")
      /\ gateway' = gateway /\ sent' = sent
  BY DEF OrdersOK, WorkOK, RefundBind, SettleRefund
<1>3. Known(p) /\ payment[p] \in PaymentDocs
  BY <1>1, <1>2 DEF TaskOK, At, OfPayment, Known, DataOK, DocsOK
<1>4. k \in DOMAIN payment[p].refunds => payment[p].refunds[k] \in Refunds
  BY <1>3 DEF PaymentDocs
<1>5. CASE RefundBind(w)
  <2>1. PICK r : r = [payment[p].refunds[k] EXCEPT !.bound = TRUE]
    OBVIOUS
  <2>2. k \in DOMAIN payment[p].refunds =>
          r \in Refunds /\ r.amount = payment[p].refunds[k].amount /\ r.status = payment[p].refunds[k].status
    BY <1>4, <2>1 DEF Refunds
  <2>3. payment' = [payment EXCEPT ![p].refunds = [payment[p].refunds EXCEPT ![k] = r]]
    BY <1>1, <1>5, <2>1 DEF RefundBind
  <2>4. Binds(p, k, r)
    BY <1>5, <2>2, CalmEnds DEF RefundBind, Binds
  <2>5. Outcome(w, p, k, r)
    BY <2>2, <2>3, <2>4 DEF MayBecome, OneRefundWrites, Outcome
  <2> QED BY <1>1, <1>2, <1>3, <2>5
<1>6. CASE SettleRefund(w) /\ UNCHANGED payment /\ (Return(w) \/ Stop(w))
  BY <1>1, <1>2, <1>3, <1>6, CalmEnds
<1>7. CASE SettleRefund(w) /\ ~(UNCHANGED payment /\ (Return(w) \/ Stop(w)))
  <2>1. PICK s, b : s = work[w].seen /\ b = (payment[p].refunds[k].bound \/ s = "SUCCEEDED")
    OBVIOUS
  <2>2. PICK r : r = [payment[p].refunds[k] EXCEPT !.status = s, !.bound = b]
    OBVIOUS
  <2>3. /\ payment[p].refunds[k].status = "PENDING"
        /\ payment' = [payment EXCEPT ![p].refunds = [payment[p].refunds EXCEPT ![k] = r]]
        /\ work' = [work EXCEPT ![w].pc = "total",
                      ![w].amount = RefundedIn([payment[p].refunds EXCEPT ![k] = r], {"SUCCEEDED"})]
    <3> DEFINE after == [payment[p].refunds EXCEPT ![k].status = s, ![k].bound = @ \/ s = "SUCCEEDED"]
    <3>1. /\ payment[p].refunds[k].status = "PENDING"
          /\ payment' = [payment EXCEPT ![p].refunds = after]
          /\ work' = [work EXCEPT ![w].pc = "total", ![w].amount = RefundedIn(after, {"SUCCEEDED"})]
      BY <1>1, <1>7, <2>1 DEF SettleRefund
    <3>2. after = [payment[p].refunds EXCEPT ![k] = r]
      BY <2>1, <2>2
    <3> HIDE DEF after
    <3> QED BY <3>1, <3>2
  <2>4. At(w, "settle") /\ s \in {"SUCCEEDED", "FAILED"}
    BY <1>2, <1>7, <2>1 DEF SettleRefund, At, TaskOK
  <2>5. k \in DOMAIN payment[p].refunds => r \in Refunds /\ r.amount = payment[p].refunds[k].amount /\ r.status = s
    BY <1>4, <2>1, <2>2, <2>4 DEF Refunds
  <2>6. PICK n : n = RefundedIn([payment[p].refunds EXCEPT ![k] = r], {"SUCCEEDED"})
    OBVIOUS
  <2>7. Turn(w) /\ work'[w].pc = "total" /\ work'[w].pay = p /\ work'[w].amount = n
    BY <1>1, <1>2, <2>3, <2>6 DEF Turn, Fields
  <2>8. MayBecome(p, k, r) /\ OneRefundWrites(p, k, r)
    BY <2>3, <2>5 DEF MayBecome, OneRefundWrites
  <2>9. Settles(w, p, k, r)
    BY <2>1, <2>3, <2>4, <2>5, <2>6, <2>7 DEF Settles
  <2> QED BY <1>1, <1>2, <1>3, <2>8, <2>9 DEF Outcome
<1> QED BY <1>5, <1>6, <1>7

LEMMA OutcomeAnswered ==
  ASSUME OrdersOK, AnswersOK, NEW w \in Workers, RefundBind(w) \/ SettleRefund(w)
  PROVE  AnswersOK'
<1>1. PICK p, k : p = work[w].pay /\ k = work[w].k
  OBVIOUS
<1>2. /\ DataOK /\ AskingOK(work[w]) /\ gateway' = gateway /\ sent' = sent /\ Known(p)
      /\ p \in Payments /\ AnsweredOK(p) /\ payment[p] # None
  BY <1>1, OutcomeWrites DEF OrdersOK, AnswersOK, Known
<1>3. CASE Calm /\ payment' = payment
  BY <1>2, <1>3, DataUntouched
<1>4. ASSUME NEW r, Outcome(w, p, k, r)
      PROVE  AnswersOK'
  <2>1. /\ CapturedOf(p)' = CapturedOf(p) /\ DOMAIN RefundsOf(p)' = DOMAIN RefundsOf(p)
        /\ Len(RefundsOf(p)') = Len(RefundsOf(p))
        /\ \A j \in DOMAIN RefundsOf(p) : RefundsOf(p)'[j] = IF j = k THEN r ELSE RefundsOf(p)[j]
        /\ \A q \in Payments : q # p => payment'[q] = payment[q]
    BY <1>2, <1>4, OneRefundWritten DEF OnlyRefundBecomes, Outcome
  <2>2. RefundsOf(p) = payment[p].refunds
    BY <1>2 DEF RefundsOf
  <2>3. k \in DOMAIN payment[p].refunds /\ r.status = "FAILED" =>
          payment[p].refunds[k].status = "FAILED" \/ gateway[p].refunds[k] = "failed"
    BY <1>1, <1>2, <1>4 DEF Outcome, Binds, Settles, AskingOK, At
  <2>4. AnsweredOK(p)'
    <3>1. \A j \in DOMAIN RefundsOf(p) : RefundsOf(p)'[j].status = "FAILED" => gateway[p].refunds[j] = "failed"
      BY <1>2, <2>1, <2>2, <2>3 DEF AnsweredOK
    <3> QED BY <1>2, <2>1, <3>1 DEF AnsweredOK
  <2>5. AnswersKept
    BY <1>2, <2>1 DEF AnswersKept, RefundsOf
  <2>6. Mild
    BY <1>4, CalmIsMild DEF Outcome, Binds, Settles, Turn, Mild, AskingOK
  <2>7. \A u, v \in Workers : u # v => AskedOnce(u, v)'
    BY <2>6 DEF Mild, AnswersOK, AskedOnce, At
  <2>8. \A v \in Workers : At(v, "refAsk") /\ work[v].pay = p => gateway'[p].refunds[work[v].k] = "none"
    BY <1>2 DEF AnswersOK, AskingOK, At
  <2> QED BY <1>2, <2>1, <2>4, <2>5, <2>6, <2>7, <2>8, RefundStep DEF Mild
<1> QED BY <1>1, <1>3, <1>4, OutcomeWrites

-----------------------------------------------------------------------------
(* What the provider does about refund k of payment p: a.                   *)
OnlyAnswerBecomes(p, k, a) ==
  /\ gateway'[p].amount = gateway[p].amount /\ gateway'[p].refunds[k] = a
  /\ \A j \in 1..MaxRefunds : j # k => gateway'[p].refunds[j] = gateway[p].refunds[j]
  /\ \A q \in Payments : q # p => gateway'[q] = gateway[q]

LEMMA OneAnswerWritten ==
  ASSUME DataOK, NEW p \in Payments, NEW k \in 1..MaxRefunds, NEW a, gateway' = [gateway EXCEPT ![p].refunds[k] = a]
  PROVE  OnlyAnswerBecomes(p, k, a)
<1>1. gateway[p] \in GatewayRecords
  BY DEF DataOK, DocsOK
<1>2. PICK g : g = [gateway[p] EXCEPT !.refunds[k] = a]
  OBVIOUS
<1>3. /\ g.amount = gateway[p].amount /\ g.refunds[k] = a
      /\ \A j \in 1..MaxRefunds : j # k => g.refunds[j] = gateway[p].refunds[j]
  BY <1>1, <1>2 DEF GatewayRecords
<1>4. gateway' = [gateway EXCEPT ![p] = g]
  BY <1>2
<1>5. gateway'[p] = g /\ \A q \in Payments : q # p => gateway'[q] = gateway[q]
  BY <1>4 DEF DataOK, DocsOK
<1> QED BY <1>3, <1>5 DEF OnlyAnswerBecomes

LEMMA NumbersInRange ==
  ASSUME DataOK, NEW p \in Payments, AnsweredOK(p)
  PROVE  DOMAIN RefundsOf(p) \subseteq 1..MaxRefunds
<1>1. RefundsOf(p) \in Seq(Refunds) /\ MaxRefunds \in Nat
  BY RefundTypes, OrdersAssumption
<1> QED BY <1>1 DEF AnsweredOK

(* A provider that answers is asked once, and its answer is what it does.   *)
Answered(w, p, k, a) ==
  /\ OnlyAnswerBecomes(p, k, a) /\ Turn(w) /\ work'[w].pay = p /\ work'[w].k = k
  /\ \/ a = "pending" /\ work'[w].pc = "refBind"
     \/ a = "done" /\ work'[w].pc = "settle" /\ work'[w].seen = "SUCCEEDED"
     \/ a = "failed" /\ work'[w].pc = "settle" /\ work'[w].seen = "FAILED"

LEMMA AskWrites ==
  ASSUME OrdersOK, AnswersOK, NEW w \in Workers, RefundAsk(w), "LOST" \notin scope.answers
  PROVE  /\ payment' = payment /\ sent' = sent /\ At(w, "refAsk") /\ work[w].pay \in Payments
         /\ work[w].k \in DOMAIN RefundsOf(work[w].pay)
         /\ \E a : Answered(w, work[w].pay, work[w].k, a) /\ (a = "failed" => "FAILED" \in scope.answers)
<1>1. PICK p, k : p = work[w].pay /\ k = work[w].k
  OBVIOUS
<1>2. /\ DataOK /\ TaskOK(work[w]) /\ AskingOK(work[w]) /\ At(w, "refAsk") /\ payment' = payment /\ sent' = sent
  BY DEF OrdersOK, WorkOK, AnswersOK, RefundAsk
<1>3. p \in Payments /\ AnsweredOK(p)
  BY <1>1, <1>2 DEF TaskOK, At, OfPayment, Known, AnswersOK
<1>4. k \in DOMAIN RefundsOf(p) /\ k \in 1..MaxRefunds
  BY <1>1, <1>2, <1>3, NumbersInRange DEF AskingOK, At
<1>5. PICK answer \in scope.answers :
        /\ gateway' = [gateway EXCEPT ![p].refunds[k] =
             CASE answer \in {"SUCCEEDED", "LOST"} -> "done" [] answer = "PENDING" -> "pending" [] OTHER -> "failed"]
        /\ CASE answer = "PENDING" -> Goto(w, "refBind")
             [] answer = "SUCCEEDED" -> GotoWith(w, "settle", "SUCCEEDED")
             [] OTHER -> GotoWith(w, "settle", "FAILED")
  BY <1>1 DEF RefundAsk
<1>6. answer \in {"SUCCEEDED", "PENDING", "FAILED"}
  <2>1. scope \in Scopes
    BY <1>2 DEF DataOK, DocsOK
  <2> QED BY <1>5, <2>1, OrdersAssumption
<1>7. CASE answer = "PENDING"
  <2>1. gateway' = [gateway EXCEPT ![p].refunds[k] = "pending"] /\ Goto(w, "refBind")
    BY <1>5, <1>7
  <2>2. OnlyAnswerBecomes(p, k, "pending")
    BY <1>2, <1>3, <1>4, <2>1, OneAnswerWritten
  <2>3. Turn(w) /\ work'[w].pc = "refBind" /\ work'[w].pay = p /\ work'[w].k = k
    BY <1>1, <2>1, Goes DEF Fields
  <2>4. Answered(w, p, k, "pending")
    BY <2>2, <2>3 DEF Answered
  <2> QED BY <1>1, <1>2, <1>3, <1>4, <2>4
<1>8. CASE answer \in {"SUCCEEDED", "FAILED"}
  <2>1. PICK a : a = IF answer = "SUCCEEDED" THEN "done" ELSE "failed"
    OBVIOUS
  <2>2. gateway' = [gateway EXCEPT ![p].refunds[k] = a] /\ GotoWith(w, "settle", answer)
    BY <1>5, <1>8, <2>1
  <2>3. OnlyAnswerBecomes(p, k, a)
    BY <1>2, <1>3, <1>4, <2>2, OneAnswerWritten
  <2>4. Turn(w) /\ work'[w].pc = "settle" /\ work'[w].seen = answer /\ work'[w].pay = p /\ work'[w].k = k
    BY <1>1, <2>2, GoesWith DEF Fields
  <2>5. Answered(w, p, k, a) /\ (a = "failed" => answer = "FAILED")
    BY <1>8, <2>1, <2>3, <2>4 DEF Answered
  <2> QED BY <1>1, <1>2, <1>3, <1>4, <2>5
<1> QED BY <1>6, <1>7, <1>8

LEMMA AskAnswered ==
  ASSUME OrdersOK, AnswersOK, NEW w \in Workers, RefundAsk(w), "LOST" \notin scope.answers
  PROVE  AnswersOK'
<1>1. PICK p, k : p = work[w].pay /\ k = work[w].k
  OBVIOUS
<1>2. /\ DataOK /\ At(w, "refAsk") /\ payment' = payment /\ sent' = sent
      /\ p \in Payments /\ AnsweredOK(p) /\ k \in DOMAIN RefundsOf(p) /\ gateway[p].refunds[k] = "none"
  BY <1>1, AskWrites DEF OrdersOK, AnswersOK, AskingOK, At
<1>3. PICK a : Answered(w, p, k, a)
  BY <1>1, AskWrites
<1>4. OnlyAnswerBecomes(p, k, a) /\ Turn(w) /\ work'[w].pc # "refAsk" /\ k \in 1..MaxRefunds
  BY <1>2, <1>3, NumbersInRange DEF Answered
<1>5. \A q \in Payments : RefundsOf(q)' = RefundsOf(q) /\ CapturedOf(q)' = CapturedOf(q)
  BY <1>2 DEF RefundsOf, CapturedOf
<1>6. AnsweredOK(p)'
  <2>1. RefundsOf(p)[k].status # "FAILED" /\ DOMAIN RefundsOf(p) \subseteq 1..MaxRefunds
    BY <1>2, NumbersInRange DEF AnsweredOK
  <2> QED BY <1>2, <1>4, <1>5, <2>1 DEF AnsweredOK, OnlyAnswerBecomes
<1>7. AnswersKept
  BY <1>2, <1>4, <1>5 DEF AnswersKept, OnlyAnswerBecomes
<1>8. AskingOK(work[w])'
  BY <1>3, <1>4 DEF AskingOK, Answered, OnlyAnswerBecomes
<1>9. \A v \in Workers : v # w /\ At(v, "refAsk") => <<work[v].pay, work[v].k>> # <<p, k>>
  BY <1>1, <1>2 DEF AnswersOK, AskedOnce
<1>10. work'[w] # work[w]
  BY <1>2, <1>4 DEF At
<1>11. \A u, v \in Workers : u # v => AskedOnce(u, v)'
  BY <1>4 DEF Turn, AnswersOK, AskedOnce, At
<1>12. \A q \in Payments : q # p => payment'[q] = payment[q] /\ gateway'[q] = gateway[q]
  BY <1>2, <1>4 DEF OnlyAnswerBecomes
<1>13. \A j \in 1..MaxRefunds : j # k => gateway'[p].refunds[j] = gateway[p].refunds[j]
  BY <1>4 DEF OnlyAnswerBecomes
<1> QED BY <1>2, <1>4, <1>6, <1>7, <1>8, <1>9, <1>10, <1>11, <1>12, <1>13, RefundStep DEF Turn

(* What it said it would do later, it does or tells.                        *)
LEMMA LaterWrites ==
  ASSUME OrdersOK, NEW p \in Payments, NEW k \in 1..MaxRefunds, NEW ok \in BOOLEAN, RefundSettles(p, k, ok)
  PROVE  /\ UNCHANGED <<payment, work>> /\ gateway[p].refunds[k] = "pending"
         /\ OnlyAnswerBecomes(p, k, IF ok THEN "done" ELSE "failed")
         /\ sent' = sent \union {<<p, IF ok THEN "REFUND_SUCCEEDED" ELSE "REFUND_FAILED", k>>}
<1>1. DataOK
  BY DEF OrdersOK
<1> QED BY <1>1, OneAnswerWritten DEF RefundSettles

LEMMA LaterAnswered ==
  ASSUME OrdersOK, AnswersOK, NEW p \in Payments, NEW k \in 1..MaxRefunds, NEW ok \in BOOLEAN, RefundSettles(p, k, ok)
  PROVE  AnswersOK'
<1>1. PICK a : a = IF ok THEN "done" ELSE "failed"
  OBVIOUS
<1>2. /\ DataOK /\ AnsweredOK(p) /\ UNCHANGED <<payment, work>> /\ gateway[p].refunds[k] = "pending"
      /\ OnlyAnswerBecomes(p, k, a)
      /\ sent' = sent \union {<<p, IF ok THEN "REFUND_SUCCEEDED" ELSE "REFUND_FAILED", k>>}
  BY <1>1, LaterWrites DEF OrdersOK, AnswersOK
<1>3. \A q \in Payments : RefundsOf(q)' = RefundsOf(q) /\ CapturedOf(q)' = CapturedOf(q)
  BY <1>2 DEF RefundsOf, CapturedOf
<1>4. AnsweredOK(p)'
  <2>1. DOMAIN RefundsOf(p) \subseteq 1..MaxRefunds
    BY <1>2, NumbersInRange
  <2> QED BY <1>2, <1>3, <2>1 DEF AnsweredOK, OnlyAnswerBecomes
<1>5. AnswersKept
  BY <1>2, <1>3 DEF AnswersKept, OnlyAnswerBecomes
<1>6. \A e \in sent' : e \in sent \/ EventOK(e)'
  <2>1. a = "failed" \/ ok
    BY <1>1
  <2> QED BY <1>1, <1>2, <2>1 DEF EventOK, OnlyAnswerBecomes
<1>7. \A w \in Workers : ~(At(w, "refAsk") /\ work[w].pay = p /\ work[w].k = k)
  BY <1>2 DEF AnswersOK, AskingOK, At
<1>8. \A v, w \in Workers : v # w => AskedOnce(v, w)'
  BY <1>2 DEF AnswersOK, AskedOnce, At
<1>9. \A q \in Payments : q # p => payment'[q] = payment[q] /\ gateway'[q] = gateway[q]
  BY <1>2 DEF OnlyAnswerBecomes
<1>10. \A j \in 1..MaxRefunds : j # k => gateway'[p].refunds[j] = gateway[p].refunds[j]
  BY <1>2 DEF OnlyAnswerBecomes
<1> QED BY <1>2, <1>4, <1>5, <1>6, <1>7, <1>8, <1>9, <1>10, RefundStep

-----------------------------------------------------------------------------

LEMMA AnswersStart == Init => AnswersOK
<1> SUFFICES ASSUME Init PROVE AnswersOK
  OBVIOUS
<1>1. \A p \in Payments : RefundsOf(p) = <<>> /\ CapturedOf(p) = 0 /\ gateway[p].amount = 0
      /\ \A k \in 1..MaxRefunds : gateway[p].refunds[k] = "none"
  BY DEF Init, RefundsOf, CapturedOf
<1>2. \A p \in Payments : AnsweredOK(p)
  BY <1>1, OrdersAssumption DEF AnsweredOK
<1>3. \A w \in Workers : work[w].pc = "idle"
  BY DEF Init, Idle
<1> QED BY <1>2, <1>3 DEF Init, AnswersOK, AskingOK, AskedOnce, At

LEMMA AnswersSteps ==
  ASSUME OrdersOK, AnswersOK, [Next]_<<vars, scope>>, "LOST" \notin scope.answers
  PROVE  AnswersOK'
<1>1. CASE UNCHANGED <<vars, scope>>
  BY <1>1, DataUntouched DEF vars, Calm
<1>2. CASE Requests
  <2>1. PICK w \in Workers : Begun(w) \/ \E e \in sent : Webhook(w, e)
    BY <1>2 DEF Requests, Begun
  <2> QED BY <2>1, BeginningIsCalm, HookIsMild, DataUntouched
<1>3. ASSUME NEW w \in Workers, HandlerStep(w)
      PROVE  AnswersOK'
  <2>1. \/ Away(w) \/ RefundRead(w) \/ Booked(w)
        \/ VoidAsk(w) \/ CloseAsk(w) \/ StartAtProvider(w)
        \/ RefundReserve(w) \/ RefundAsk(w) \/ RefundBind(w) \/ SettleRefund(w)
    BY <1>3 DEF HandlerStep, Away, Look, Booked
  <2>2. CASE Away(w) \/ RefundRead(w)
    BY <2>2, AwayIsCalm, ReadIsMild, DataUntouched
  <2>3. CASE Booked(w)
    BY <2>3, BookedStep
  <2>4. CASE VoidAsk(w) \/ CloseAsk(w) \/ StartAtProvider(w)
    BY <2>4, AskedWrites, QuietStep
  <2>5. CASE RefundReserve(w)
    BY <2>5, ReserveAnswered
  <2>6. CASE RefundAsk(w)
    BY <2>6, AskAnswered
  <2>7. CASE RefundBind(w) \/ SettleRefund(w)
    BY <2>7, OutcomeAnswered
  <2> QED BY <2>1, <2>2, <2>3, <2>4, <2>5, <2>6, <2>7
<1>4. CASE Outside
  <2>1. CASE \E p \in Payments, k \in 1..MaxRefunds : RefundSettles(p, k, TRUE) \/ RefundSettles(p, k, FALSE)
    BY <2>1, LaterAnswered
  <2>2. CASE ~\E p \in Payments, k \in 1..MaxRefunds : RefundSettles(p, k, TRUE) \/ RefundSettles(p, k, FALSE)
    <3>1. \/ (\E o \in Orders : HoldOver(o)) \/ (\E x \in Pieces : SweepPiece(x) \/ InspectReturned(x))
          \/ (\E p \in Payments : Authorizes(p) \/ Declines(p))
          \/ (\E p \in Payments, amount \in Amounts : Pays(p, amount))
      BY <1>4, <2>2 DEF Outside
    <3>2. UNCHANGED <<payment, work>>
      BY <3>1 DEF HoldOver, SweepPiece, InspectReturned, Authorizes, Declines, Pays
    <3>3. SameAnswers /\ Calm /\ \A e \in sent' : e \in sent \/ e[2] # "REFUND_FAILED"
      BY <3>1, <3>2, WorldWrites
    <3> QED BY <3>3, QuietStep
  <2> QED BY <2>1, <2>2
<1>5. ASSUME NEW w \in Workers, Crash(w)
      PROVE  AnswersOK'
  BY <1>5, CalmEnds, DataUntouched DEF Crash
<1> QED BY <1>1, <1>2, <1>3, <1>4, <1>5 DEF Next

(* ProviderRefundsWithinCapture: a provider whose answers all arrive never  *)
(* sends back more than it captured, however its answers, its events and    *)
(* the handlers race, and wherever they die (payment.service.ts:68).        *)
THEOREM ProviderWithinCapture == Spec => []("LOST" \notin scope.answers => ProviderRefundsWithinCapture)
<1> DEFINE Arrive == "LOST" \notin scope.answers
           Inv == Arrive => AnswersOK
<1>1. Init => Inv
  BY AnswersStart
<1>2. OrdersOK /\ Inv /\ [Next]_<<vars, scope>> => Inv'
  <2>1. [Next]_<<vars, scope>> => scope' = scope
    BY DEF Next
  <2> QED BY <2>1, AnswersSteps
<1>3. OrdersOK /\ Inv => (Arrive => ProviderRefundsWithinCapture)
  <2> SUFFICES ASSUME OrdersOK, AnswersOK, NEW p \in Payments, payment[p] # None
               PROVE  Returned(p) <= gateway[p].amount
    BY DEF ProviderRefundsWithinCapture
  <2>1. PICK refunds \in Seq(Refunds) : refunds = payment[p].refunds /\ refunds = RefundsOf(p)
    BY RefundTypes DEF OrdersOK, RefundsOf
  <2>2. PICK S : S = {k \in 1..MaxRefunds : gateway[p].refunds[k] \in {"pending", "done"}}
    OBVIOUS
  <2>3. PICK T : T = Among(refunds, {"PENDING", "SUCCEEDED"})
    OBVIOUS
  <2>4. T \subseteq DOMAIN refunds
    BY <2>3 DEF Among
  <2>5. S \subseteq T
    <3> SUFFICES ASSUME NEW k \in S PROVE k \in T
      OBVIOUS
    <3>1. k \in DOMAIN refunds /\ refunds[k].status # "FAILED"
      BY <2>1, <2>2 DEF AnswersOK, AnsweredOK
    <3>2. refunds[k] \in Refunds
      BY <3>1
    <3> QED BY <2>3, <3>1, <3>2 DEF Among, Refunds
  <2>6. Sum(refunds, S) <= Sum(refunds, T)
    BY <2>4, <2>5, SumGrows
  <2>7. Sum(refunds, T) <= payment[p].captured
    BY <2>1, <2>3 DEF OrdersOK, DataOK, PaymentOK, MoneyOK, RefundedIn
  <2>8. payment[p].captured <= gateway[p].amount /\ payment[p].captured \in Nat /\ gateway[p].amount \in Nat
    BY RefundTypes DEF OrdersOK, AnswersOK, AnsweredOK, CapturedOf
  <2>9. Sum(refunds, S) \in Nat /\ Sum(refunds, T) \in Nat
    BY <2>4, <2>5, UnitsAreFinite
  <2> QED BY <2>1, <2>2, <2>6, <2>7, <2>8, <2>9 DEF Returned
<1> HIDE DEF Inv, Arrive
<1>4. Spec => [](Arrive => ProviderRefundsWithinCapture)
  BY <1>1, <1>2, <1>3, OrdersInvariant, PTL DEF Spec
<1> QED BY <1>4 DEF Arrive

-----------------------------------------------------------------------------
(* A payment's status never runs ahead of what its refunds have returned,   *)
(* and no settlement carries a total greater than that.                     *)

Succeeded(p) == RefundedIn(RefundsOf(p), {"SUCCEEDED"})

NotAhead(p) ==
  payment[p] # None /\ payment[p].status \notin Capturable =>
    Rank(payment[p].status) <= Rank(PaymentStatusFor(CapturedOf(p), Succeeded(p)))

CarriesNoMore(d) == d.pc = "total" => d.pay \in Payments /\ d.amount \in Nat /\ d.amount <= Succeeded(d.pay)

TotalsOK == (\A p \in Payments : NotAhead(p)) /\ \A w \in Workers : CarriesNoMore(work[w])

BackByStaleTotal ==
  \A p \in Payments :
    payment[p] # None /\ Rank(payment'[p].status) < Rank(payment[p].status) =>
      \E w \in Workers : StaleTotal(w, p) /\ payment'[p].refunded = work[w].amount

LEMMA RankIsNat == \A s : Rank(s) \in Nat /\ ~(Rank(s) < Rank(s))
BY DEF Rank

(* More returned is a later status.                                         *)
LEMMA MoreIsLater ==
  ASSUME NEW c \in Nat, NEW a \in Nat, NEW b \in Nat, a <= b
  PROVE  /\ Rank(PaymentStatusFor(c, a)) <= Rank(PaymentStatusFor(c, b))
         /\ Rank(PaymentStatusFor(c, a)) >= 4
BY DEF Rank, PaymentStatusFor

(* Refunds are added and settled, never taken back.                         *)
LEMMA SucceededGrows ==
  ASSUME NEW rs \in Seq(Refunds), NEW ts \in Seq(Refunds), DOMAIN rs \subseteq DOMAIN ts,
         \A k \in DOMAIN rs : ts[k].amount = rs[k].amount /\ (rs[k].status = "SUCCEEDED" => ts[k].status = "SUCCEEDED")
  PROVE  /\ RefundedIn(rs, {"SUCCEEDED"}) <= RefundedIn(ts, {"SUCCEEDED"})
         /\ RefundedIn(rs, {"SUCCEEDED"}) \in Nat /\ RefundedIn(ts, {"SUCCEEDED"}) \in Nat
<1>1. PICK S, T : S = Among(rs, {"SUCCEEDED"}) /\ T = Among(ts, {"SUCCEEDED"})
  OBVIOUS
<1>2. S \subseteq DOMAIN rs /\ T \subseteq DOMAIN ts /\ S \subseteq T /\ \A k \in S : rs[k].amount = ts[k].amount
  BY <1>1 DEF Among
<1>3. Sum(rs, S) <= Sum(ts, T)
  BY <1>2, SumGrows
<1> QED BY <1>1, <1>3, RefundedIsNat DEF RefundedIn

LEMMA SucceededIsNat == ASSUME DataOK, NEW p \in Payments PROVE Succeeded(p) \in Nat /\ CapturedOf(p) \in Nat
BY RefundTypes, RefundedIsNat DEF Succeeded

LEMMA TotalsFrame ==
  ASSUME OrdersOK, TotalsOK, \A p \in Payments : NotAhead(p)',
         \A p \in Payments : Succeeded(p)' \in Nat /\ Succeeded(p) <= Succeeded(p)',
         \A w \in Workers : work'[w] = work[w] \/ work'[w].pc # "total" \/ CarriesNoMore(work[w])'
  PROVE  TotalsOK'
<1>1. \A p \in Payments : Succeeded(p) \in Nat
  BY SucceededIsNat DEF OrdersOK
<1>2. ASSUME NEW w \in Workers, work'[w] = work[w]
      PROVE  CarriesNoMore(work[w])'
  <2>1. PICK d : d = work[w]
    OBVIOUS
  <2>2. d.pc = "total" => d.pay \in Payments /\ d.amount \in Nat /\ d.amount <= Succeeded(d.pay)
    BY <2>1 DEF TotalsOK, CarriesNoMore
  <2>3. d.pc = "total" => d.amount <= Succeeded(d.pay)'
    BY <1>1, <2>2
  <2> QED BY <1>2, <2>1, <2>2, <2>3 DEF CarriesNoMore
<1> QED BY <1>2 DEF TotalsOK, CarriesNoMore

(* Steps that leave the payments alone.                                     *)
LEMMA TotalsUntouched ==
  ASSUME OrdersOK, TotalsOK, payment' = payment, \A w \in Workers : work'[w] = work[w] \/ work'[w].pc # "total"
  PROVE  TotalsOK' /\ BackByStaleTotal
<1>1. \A p \in Payments : RefundsOf(p)' = RefundsOf(p) /\ CapturedOf(p)' = CapturedOf(p)
  BY DEF RefundsOf, CapturedOf
<1>2. \A p \in Payments : Succeeded(p)' = Succeeded(p) /\ Succeeded(p) \in Nat
  BY <1>1, SucceededIsNat DEF OrdersOK, Succeeded
<1>3. \A p \in Payments : NotAhead(p)'
  BY <1>1, <1>2 DEF TotalsOK, NotAhead
<1>4. TotalsOK'
  BY <1>2, <1>3, TotalsFrame
<1> QED BY <1>4, RankIsNat DEF BackByStaleTotal

LEMMA CalmTotals == ASSUME Calm PROVE \A w \in Workers : work'[w] = work[w] \/ work'[w].pc # "total"
BY DEF Calm

LEMMA TotalsLook ==
  ASSUME OrdersOK, TotalsOK, payment' = payment, Calm
  PROVE  TotalsOK' /\ BackByStaleTotal
BY CalmTotals, TotalsUntouched

-----------------------------------------------------------------------------
(* Steps that write payments.                                               *)

(* A status is written by a report, which finds the payment not captured    *)
(* yet, or with a total a settlement carries.                               *)
LEMMA OneIsNotAhead ==
  ASSUME OrdersOK, NEW w \in Workers, CarriesNoMore(work[w]), NEW p \in Payments, NotAhead(p), Writes(w, p),
         CapturedOf(p)' \in Nat
  PROVE  /\ Succeeded(p)' = Succeeded(p) /\ NotAhead(p)'
         /\ payment[p] # None /\ Rank(payment'[p].status) < Rank(payment[p].status) =>
              StaleTotal(w, p) /\ payment'[p].refunded = work[w].amount
<1>1. RefundsOf(p) \in Seq(Refunds) /\ CapturedOf(p) \in Nat /\ Succeeded(p) \in Nat
  BY RefundTypes, SucceededIsNat DEF OrdersOK
<1>2. CASE payment'[p] = payment[p]
  <2>1. RefundsOf(p)' = RefundsOf(p) /\ CapturedOf(p)' = CapturedOf(p)
    BY <1>2 DEF RefundsOf, CapturedOf
  <2>2. Succeeded(p)' = Succeeded(p)
    BY <2>1 DEF Succeeded
  <2> QED BY <1>2, <2>1, <2>2, RankIsNat DEF NotAhead
<1>3. CASE payment[p] = None /\ payment'[p].refunds = <<>> /\ payment'[p].captured = 0 /\ payment'[p].status = "PENDING"
  <2>1. RefundsOf(p)' = <<>> /\ RefundsOf(p) = <<>>
    BY <1>3 DEF RefundsOf
  <2>2. Succeeded(p)' = Succeeded(p)
    BY <2>1 DEF Succeeded
  <2> QED BY <1>3, <2>2 DEF NotAhead, Capturable
<1>4. CASE payment[p] # None /\ payment'[p] # None /\ Rewrites(w, p, payment'[p])
  <2>1. /\ RefundsOf(p)' = RefundsOf(p)
        /\ CapturedOf(p) = payment[p].captured /\ CapturedOf(p)' = payment'[p].captured
    BY <1>4 DEF RefundsOf, CapturedOf, Rewrites
  <2>2. Succeeded(p)' = Succeeded(p)
    BY <2>1 DEF Succeeded
  <2>3. CASE payment'[p].captured = payment[p].captured /\ payment'[p].status = payment[p].status
    BY <1>4, <2>1, <2>2, <2>3, RankIsNat DEF NotAhead
  <2>4. CASE /\ payment[p].status \in Capturable
             /\ \/ payment[p].status = "PENDING" /\ payment'[p].status = "AUTHORIZED"
                \/ payment[p].status \in Open /\ payment'[p].status = "FAILED"
                \/ payment'[p].status = "CAPTURED"
    <3>1. ~(Rank(payment'[p].status) < Rank(payment[p].status))
      BY <2>4 DEF Rank, Capturable, Open
    <3>2. payment'[p].status \notin Capturable => Rank(payment'[p].status) = 4
      BY <2>4 DEF Rank, Capturable
    <3>3. Rank(PaymentStatusFor(CapturedOf(p)', Succeeded(p))) >= 4
      BY <1>1, MoreIsLater
    <3>4. payment'[p].status \notin Capturable => Rank(payment'[p].status) <= Rank(PaymentStatusFor(CapturedOf(p)', Succeeded(p)))
      BY <3>2, <3>3, RankIsNat
    <3> QED BY <2>2, <3>1, <3>4 DEF NotAhead
  <2>5. CASE /\ payment'[p].captured = payment[p].captured
             /\ payment'[p].status = PaymentStatusFor(payment[p].captured, work[w].amount)
             /\ At(w, "total") /\ work[w].pay = p /\ payment'[p].refunded = work[w].amount
    <3>1. PICK a : a = work[w].amount
      OBVIOUS
    <3>2. a \in Nat /\ a <= Succeeded(p)
      BY <2>5, <3>1 DEF CarriesNoMore, At
    <3>3. PICK r \in Nat, t \in Nat, f \in Nat :
            /\ r = Rank(PaymentStatusFor(CapturedOf(p), a)) /\ t = Rank(PaymentStatusFor(CapturedOf(p), Succeeded(p)))
            /\ f = Rank(payment[p].status)
      BY RankIsNat
    <3>4. r <= t /\ r >= 4
      BY <1>1, <3>2, <3>3, MoreIsLater
    <3>5. Rank(payment'[p].status) = r
      BY <2>1, <2>5, <3>1, <3>3
    <3>6. NotAhead(p)'
      BY <2>1, <2>2, <2>5, <3>3, <3>4, <3>5 DEF NotAhead
    <3>7. ASSUME r < f
          PROVE  a < Succeeded(p)
      <4>1. payment[p].status \notin Capturable
        BY <3>3, <3>4, <3>7 DEF Rank, Capturable
      <4>2. f <= t
        BY <1>4, <3>3, <4>1 DEF NotAhead
      <4>3. a # Succeeded(p)
        BY <3>3, <3>7, <4>2
      <4> QED BY <1>1, <3>2, <4>3
    <3>8. r < f => StaleTotal(w, p)
      <4>1. Succeeded(p) = RefundedIn(payment[p].refunds, {"SUCCEEDED"})
        BY <1>4 DEF Succeeded, RefundsOf
      <4> QED BY <2>5, <3>1, <3>7, <4>1 DEF StaleTotal
    <3> QED BY <2>2, <2>5, <3>3, <3>5, <3>6, <3>8
  <2> QED BY <1>4, <2>3, <2>4, <2>5 DEF Rewrites, Open, Capturable
<1> QED BY <1>2, <1>3, <1>4 DEF Writes

LEMMA BookedTotals ==
  ASSUME OrdersOK, TotalsOK, NEW w \in Workers, Booked(w), \A q \in Payments : CapturedOf(q)' \in Nat
  PROVE  TotalsOK' /\ BackByStaleTotal
<1>1. Calm /\ \A q \in Payments : Writes(w, q)
  BY BookedWrites
<1>2. CarriesNoMore(work[w]) /\ \A q \in Payments : NotAhead(q)
  BY DEF TotalsOK
<1>3. \A q \in Payments :
        /\ Succeeded(q)' = Succeeded(q) /\ NotAhead(q)'
        /\ payment[q] # None /\ Rank(payment'[q].status) < Rank(payment[q].status) =>
             StaleTotal(w, q) /\ payment'[q].refunded = work[w].amount
  BY <1>1, <1>2, OneIsNotAhead
<1>4. \A q \in Payments : Succeeded(q) \in Nat
  BY SucceededIsNat DEF OrdersOK
<1>5. TotalsOK'
  BY <1>1, <1>3, <1>4, CalmTotals, TotalsFrame
<1> QED BY <1>3, <1>5 DEF BackByStaleTotal

(* Where only the refunds of p are written, and none that succeeded.        *)
LEMMA RefundsWritten ==
  ASSUME OrdersOK, TotalsOK, NEW p \in Payments, payment[p] # None, payment'[p].status = payment[p].status,
         CapturedOf(p)' = CapturedOf(p), RefundsOf(p)' \in Seq(Refunds), DOMAIN RefundsOf(p) \subseteq DOMAIN RefundsOf(p)',
         \A k \in DOMAIN RefundsOf(p) :
           /\ RefundsOf(p)'[k].amount = RefundsOf(p)[k].amount
           /\ RefundsOf(p)[k].status = "SUCCEEDED" => RefundsOf(p)'[k].status = "SUCCEEDED",
         \A q \in Payments : q # p => payment'[q] = payment[q],
         \A w \in Workers : work'[w] = work[w] \/ work'[w].pc # "total" \/ CarriesNoMore(work[w])'
  PROVE  TotalsOK' /\ BackByStaleTotal
<1>1. RefundsOf(p) \in Seq(Refunds) /\ CapturedOf(p) \in Nat
  BY RefundTypes DEF OrdersOK
<1>2. Succeeded(p) <= Succeeded(p)' /\ Succeeded(p) \in Nat /\ Succeeded(p)' \in Nat
  BY <1>1, SucceededGrows DEF Succeeded
<1>3. \A q \in Payments : q # p => RefundsOf(q)' = RefundsOf(q) /\ CapturedOf(q)' = CapturedOf(q)
  BY DEF RefundsOf, CapturedOf
<1>4. \A q \in Payments : q # p => Succeeded(q)' = Succeeded(q) /\ Succeeded(q) \in Nat
  BY <1>3, SucceededIsNat DEF OrdersOK, Succeeded
<1>5. NotAhead(p)'
  <2>1. PICK r \in Nat, t \in Nat, u \in Nat :
          /\ r = Rank(payment[p].status) /\ t = Rank(PaymentStatusFor(CapturedOf(p), Succeeded(p)))
          /\ u = Rank(PaymentStatusFor(CapturedOf(p), Succeeded(p)'))
    BY RankIsNat
  <2>2. t <= u
    BY <1>1, <1>2, <2>1, MoreIsLater
  <2>3. payment[p].status \notin Capturable => r <= t
    BY <2>1 DEF TotalsOK, NotAhead
  <2> QED BY <2>1, <2>2, <2>3 DEF NotAhead
<1>6. \A q \in Payments : NotAhead(q)'
  BY <1>3, <1>4, <1>5 DEF TotalsOK, NotAhead
<1>7. TotalsOK'
  BY <1>2, <1>4, <1>6, TotalsFrame
<1>8. \A q \in Payments : payment'[q].status = payment[q].status
  OBVIOUS
<1> QED BY <1>7, <1>8, RankIsNat DEF BackByStaleTotal

LEMMA ReserveTotals ==
  ASSUME OrdersOK, TotalsOK, NEW w \in Workers, RefundReserve(w)
  PROVE  TotalsOK' /\ BackByStaleTotal
<1>1. PICK p, amount : p = work[w].pay /\ amount = work[w].amount
  OBVIOUS
<1>2. p \in Payments /\ payment[p] # None /\ amount \in Nat /\ RefundsOf(p) \in Seq(Refunds)
  BY <1>1, ReserveWrites, RefundTypes DEF OrdersOK, Known
<1>3. CASE Calm /\ payment' = payment
  BY <1>3, TotalsLook
<1>4. CASE \E k : Reserved(w, p, k)
  <2>1. PICK k : Reserved(w, p, k)
    BY <1>4
  <2>2. PICK r \in Refunds : r = [amount |-> amount, status |-> "PENDING", bound |-> FALSE]
    BY <1>2 DEF Refunds
  <2>3. RefundsOf(p)' = Append(RefundsOf(p), r)
    BY <1>1, <2>1, <2>2 DEF Reserved
  <2>4. /\ RefundsOf(p)' \in Seq(Refunds) /\ DOMAIN RefundsOf(p) \subseteq DOMAIN RefundsOf(p)'
        /\ \A j \in DOMAIN RefundsOf(p) : RefundsOf(p)'[j] = RefundsOf(p)[j]
    BY <1>2, <2>2, <2>3
  <2>5. \A v \in Workers : work'[v] = work[v] \/ work'[v].pc # "total"
    BY <2>1 DEF Reserved, Turn
  <2> QED BY <1>2, <2>1, <2>4, <2>5, RefundsWritten DEF Reserved
<1> QED BY <1>1, <1>3, <1>4, ReserveWrites

(* The total a settlement carries is that of the refunds as it leaves them. *)
LEMMA OutcomeTotals ==
  ASSUME OrdersOK, TotalsOK, NEW w \in Workers, RefundBind(w) \/ SettleRefund(w)
  PROVE  TotalsOK' /\ BackByStaleTotal
<1>1. PICK p, k : p = work[w].pay /\ k = work[w].k
  OBVIOUS
<1>2. DataOK /\ Known(p) /\ p \in Payments /\ payment[p] # None
  BY <1>1, OutcomeWrites DEF OrdersOK, Known
<1>3. CASE Calm /\ payment' = payment
  BY <1>3, TotalsLook
<1>4. ASSUME NEW r, Outcome(w, p, k, r)
      PROVE  TotalsOK' /\ BackByStaleTotal
  <2>1. PICK old \in Seq(Refunds) : old = payment[p].refunds /\ old = RefundsOf(p)
    BY <1>2, RefundTypes DEF RefundsOf
  <2>2. OnlyRefundBecomes(p, k, r)
    BY <1>2, <1>4, OneRefundWritten DEF Outcome
  <2>3. k \in DOMAIN old =>
          /\ r.amount = old[k].amount
          /\ old[k].status = "SUCCEEDED" => r.status = "SUCCEEDED"
    BY <1>4, <2>1 DEF Outcome, MayBecome, Binds, Settles
  <2>4. \A j \in DOMAIN old :
          /\ RefundsOf(p)'[j].amount = old[j].amount
          /\ old[j].status = "SUCCEEDED" => RefundsOf(p)'[j].status = "SUCCEEDED"
    BY <2>1, <2>2, <2>3 DEF OnlyRefundBecomes
  <2>5. \A v \in Workers : work'[v] = work[v] \/ work'[v].pc # "total" \/ CarriesNoMore(work[v])'
    <3>1. CASE Binds(p, k, r)
      BY <3>1, CalmTotals DEF Binds
    <3>2. CASE Settles(w, p, k, r)
      <4>1. PICK new : new = [old EXCEPT ![k] = r]
        OBVIOUS
      <4>2. payment'[p] # None /\ payment'[p].refunds = new
        BY <1>2, <1>4, <2>1, <2>2, <4>1 DEF Outcome, OneRefundWrites, OnlyRefundBecomes, Known, DataOK, DocsOK, PaymentDocs
      <4>3. RefundsOf(p)' = new
        BY <4>2 DEF RefundsOf
      <4>4. Turn(w) /\ work'[w].pc = "total" /\ work'[w].pay = p /\ work'[w].amount = RefundedIn(new, {"SUCCEEDED"})
        BY <2>1, <3>2, <4>1 DEF Settles
      <4>5. Succeeded(p)' = RefundedIn(new, {"SUCCEEDED"}) /\ RefundedIn(new, {"SUCCEEDED"}) \in Nat
        BY <2>2, <4>3, RefundedIsNat DEF Succeeded, OnlyRefundBecomes
      <4>6. CarriesNoMore(work[w])'
        BY <1>2, <4>4, <4>5 DEF CarriesNoMore
      <4> QED BY <4>4, <4>6 DEF Turn
    <3> QED BY <1>4, <3>1, <3>2 DEF Outcome
  <2> QED BY <1>2, <2>1, <2>2, <2>4, <2>5, RefundsWritten DEF OnlyRefundBecomes
<1> QED BY <1>1, <1>3, <1>4, OutcomeWrites

-----------------------------------------------------------------------------

LEMMA TotalsStart == Init => TotalsOK
BY DEF Init, Idle, TotalsOK, NotAhead, CarriesNoMore

LEMMA TotalsSteps ==
  ASSUME OrdersOK, OrdersOK', TotalsOK, [Next]_<<vars, scope>>
  PROVE  TotalsOK' /\ BackByStaleTotal
<1>1. CASE UNCHANGED <<vars, scope>>
  BY <1>1, TotalsLook DEF vars, Calm
<1>2. CASE Requests
  <2>1. PICK w \in Workers : Begun(w) \/ \E e \in sent : Webhook(w, e)
    BY <1>2 DEF Requests, Begun
  <2>2. CASE Begun(w)
    BY <2>2, BeginningIsCalm, TotalsLook
  <2>3. CASE \E e \in sent : Webhook(w, e)
    <3>1. payment' = payment /\ Turn(w) /\ work'[w].pc # "total"
      BY <2>3, HookBegins
    <3> QED BY <3>1, TotalsUntouched DEF Turn
  <2> QED BY <2>1, <2>2, <2>3
<1>3. ASSUME NEW w \in Workers, HandlerStep(w)
      PROVE  TotalsOK' /\ BackByStaleTotal
  <2>0. DOMAIN work = Workers /\ DOMAIN work[w] = Fields
    BY DEF OrdersOK, WorkOK
  <2>1. \/ Away(w) \/ RefundRead(w) \/ Booked(w)
        \/ VoidAsk(w) \/ CloseAsk(w) \/ StartAtProvider(w)
        \/ RefundReserve(w) \/ RefundAsk(w) \/ RefundBind(w) \/ SettleRefund(w)
    BY <1>3 DEF HandlerStep, Away, Look, Booked
  <2>2. CASE Away(w)
    BY <2>2, AwayIsCalm, TotalsLook
  <2>3. CASE Booked(w)
    <3>1. \A q \in Payments : CapturedOf(q)' \in Nat
      BY DEF OrdersOK, DataOK, DocsOK, CapturedOf, PaymentDocs
    <3> QED BY <2>3, <3>1, BookedTotals
  <2>4. CASE VoidAsk(w) \/ CloseAsk(w) \/ StartAtProvider(w)
    <3>1. payment' = payment /\ \E c \in {"void", "failMark", "bind"} : Goto(w, c)
      BY <2>4 DEF VoidAsk, CloseAsk, StartAtProvider
    <3>2. Calm
      BY <2>0, <3>1, CalmGoes
    <3> QED BY <3>1, <3>2, TotalsLook
  <2>5. CASE RefundRead(w)
    <3>1. payment' = payment
      BY <2>5 DEF RefundRead
    <3>2. CASE Return(w)
      BY <3>1, <3>2, CalmEnds, TotalsLook
    <3>3. CASE \E left : work' = [work EXCEPT ![w].pc = "refReserve", ![w].amount = left]
      <4>1. \A v \in Workers : work'[v] = work[v] \/ work'[v].pc # "total"
        BY <2>0, <3>3 DEF Fields
      <4> QED BY <3>1, <4>1, TotalsUntouched
    <3> QED BY <2>5, <3>2, <3>3 DEF RefundRead
  <2>6. CASE RefundAsk(w)
    <3>1. payment' = payment
      BY <2>6 DEF RefundAsk
    <3>2. Goto(w, "refBind") \/ GotoWith(w, "settle", "SUCCEEDED") \/ GotoWith(w, "settle", "FAILED")
      BY <2>6 DEF RefundAsk
    <3>3. \A v \in Workers : work'[v] = work[v] \/ work'[v].pc # "total"
      BY <2>0, <3>2 DEF Goto, GotoWith, Fields
    <3> QED BY <3>1, <3>3, TotalsUntouched
  <2>7. CASE RefundReserve(w) \/ RefundBind(w) \/ SettleRefund(w)
    BY <2>7, ReserveTotals, OutcomeTotals
  <2> QED BY <2>1, <2>2, <2>3, <2>4, <2>5, <2>6, <2>7
<1>4. CASE Outside
  <2>1. UNCHANGED <<payment, work>>
    BY <1>4 DEF Outside, HoldOver, SweepPiece, InspectReturned, Authorizes, Declines, Pays, RefundSettles
  <2> QED BY <2>1, TotalsUntouched
<1>5. ASSUME NEW w \in Workers, Crash(w)
      PROVE  TotalsOK' /\ BackByStaleTotal
  BY <1>5, CalmEnds, TotalsLook DEF Crash
<1> QED BY <1>1, <1>2, <1>3, <1>4, <1>5 DEF Next

(* BackOnlyByStaleTotal: whatever reports and refunds are settled at once,  *)
(* and whether refunds succeed, fail or lose their answers, a payment goes  *)
(* back only when a settlement writes a total that was overtaken since it   *)
(* was read (business-rules 11.5, payment.service.ts:62).                   *)
THEOREM OnlyStaleTotalsGoBack == Spec => BackOnlyByStaleTotal
<1>1. OrdersOK /\ OrdersOK' /\ TotalsOK /\ [Next]_<<vars, scope>> => TotalsOK' /\ BackByStaleTotal
  BY TotalsSteps
<1>2. BackByStaleTotal => [BackByStaleTotal]_vars
  OBVIOUS
<1>3. Spec => [][BackByStaleTotal]_vars
  BY TotalsStart, <1>1, <1>2, OrdersInvariant, PTL DEF Spec
<1> QED BY <1>3 DEF BackOnlyByStaleTotal, BackByStaleTotal
=============================================================================
