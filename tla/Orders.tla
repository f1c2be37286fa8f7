------------------------------- MODULE Orders -------------------------------
(***************************************************************************)
(* The online order: checkout, payment, refund, cancellation and expiry    *)
(* (apps/api/src/modules/orders).  A handler is an asynchronous function   *)
(* that awaits the database or the payment provider many times; here a     *)
(* worker runs one handler and its pc says which await comes next, so one  *)
(* action is one database operation, one MongoDB transaction or one call   *)
(* to the provider, and any other worker may run between two of them.      *)
(*                                                                         *)
(* Pieces are the abstract pieces of PieceCustody: a hold is an exclusive  *)
(* claim of one order, and only its holder sells it or gives it back.      *)
(***************************************************************************)
EXTENDS Integers, Sequences, FiniteSets, FiniteSetsExt

CONSTANTS
  Orders, Pieces, Payments, Workers,
  None,
  Need,            \* pieces an order asks for
  Total,           \* what an order costs
  Amounts,         \* what the provider may report as captured
  MaxPicks,        \* MAX_PICK_ATTEMPTS
  MaxRefunds,      \* bound: refunds per payment
  Scopes,          \* bounds a behaviour keeps to: how many orders, payments and refunds of
                   \* one payment there are, which handlers run, what the provider reports
                   \* by itself and what it may answer to a refund
  MaxCrashes       \* bound: handlers that die half-way

ASSUME OrdersAssumption ==
  /\ None \notin Orders \union Payments /\ IsFiniteSet(Payments)
  /\ Need \in Nat \ {0} /\ Total \in Nat \ {0} /\ Amounts \subseteq Nat \ {0}
  /\ MaxPicks \in Nat \ {0} /\ MaxRefunds \in Nat /\ MaxCrashes \in Nat
  /\ \A s \in Scopes :
       /\ s.refunds \in 0..MaxRefunds
       /\ s.reports \subseteq {"AUTHORIZED", "CAPTURED", "FAILED"}
       /\ s.answers \subseteq {"SUCCEEDED", "PENDING", "FAILED", "LOST"}

VARIABLES
  order,       \* Order documents: status, allocated pieces, the payment that paid it
  payment,     \* Payment documents
  piece,       \* the pieces' inventory records: status, holder, and the order of the last SALE
  gateway,     \* what the provider itself believes about each payment and refund
  sent,        \* events the provider has emitted; it delivers them late, repeatedly, in any order
  processed,   \* PaymentEvent records with processedAt
  expired,     \* orders whose holdExpiresAt has passed
  work,        \* what each worker is doing
  crashes,
  scope        \* which of Scopes this behaviour keeps to; it never changes

vars == <<order, payment, piece, gateway, sent, processed, expired, work, crashes>>

Payable == {"PENDING_PAYMENT", "PAYMENT_FAILED"}          \* UNPAID in order.service
Open    == {"PENDING", "AUTHORIZED"}
Capturable == {"PENDING", "AUTHORIZED", "FAILED"}

OrderStatuses == {"DRAFT", "PENDING_PAYMENT", "PAYMENT_FAILED", "CONFIRMED", "CANCELLED", "REFUNDED"}
PaymentStatuses == {"PENDING", "AUTHORIZED", "CAPTURED", "FAILED", "PARTIALLY_REFUNDED", "REFUNDED"}

OrderDocs == [status : OrderStatuses, alloc : SUBSET Pieces, paidBy : Payments \union {None}]

Refunds == [amount : Nat, status : {"PENDING", "SUCCEEDED", "FAILED"}, bound : BOOLEAN]

PaymentDocs ==
  [ord : Orders, status : PaymentStatuses, bound : BOOLEAN, attempt : Nat,
   captured : Nat, refunded : Nat, refunds : Seq(Refunds)]

GatewayRecords ==
  [state : {"none", "open", "authorized", "captured", "failed"}, amount : Nat,
   refunds : [1..MaxRefunds -> {"none", "pending", "done", "failed"}]]

Events == Payments \X {"AUTHORIZED", "CAPTURED", "FAILED", "REFUND_SUCCEEDED", "REFUND_FAILED"} \X (0..MaxRefunds)

(* None is no document. *)
ASSUME OrderDocumentsAssumption == None \notin OrderDocs \union PaymentDocs

TypeOK ==
  /\ order \in [Orders -> OrderDocs \union {None}]
  /\ payment \in [Payments -> PaymentDocs \union {None}]
  /\ piece \in [Pieces -> [status : {"AVAILABLE", "RESERVED", "SOLD", "RETURNED"},
                           holder : Orders \union {None}, buyer : Orders \union {None}]]
  /\ gateway \in [Payments -> GatewayRecords]
  /\ sent \subseteq Events /\ processed \subseteq sent
  /\ expired \subseteq Orders
  /\ DOMAIN work = Workers
  /\ crashes \in 0..MaxCrashes

Idle == [pc |-> "idle", job |-> None, ord |-> None, pay |-> None, todo |-> {}, seen |-> "none", k |-> 0, amount |-> 0]

Init ==
  /\ order = [o \in Orders |-> None]
  /\ payment = [p \in Payments |-> None]
  /\ piece = [x \in Pieces |-> [status |-> "AVAILABLE", holder |-> None, buyer |-> None]]
  /\ gateway = [p \in Payments |-> [state |-> "none", amount |-> 0, refunds |-> [k \in 1..MaxRefunds |-> "none"]]]
  /\ sent = {} /\ processed = {} /\ expired = {}
  /\ work = [w \in Workers |-> Idle]
  /\ crashes = 0
  /\ scope \in Scopes

-----------------------------------------------------------------------------
(* Workers *)

At(w, pc) == work[w].pc = pc

Begin(w, job, task) ==
  /\ job \in scope.jobs /\ At(w, "idle")
  /\ work' = [work EXCEPT ![w] = [task EXCEPT !.job = job]]

Goto(w, pc) == work' = [work EXCEPT ![w].pc = pc]

GotoWith(w, pc, seen) == work' = [work EXCEPT ![w].pc = pc, ![w].seen = seen]

Stop(w) == work' = [work EXCEPT ![w] = Idle]

(* Where apply() returns to: the webhook acknowledges its event, the       *)
(* reconciliation before a cancel goes on to the next open payment, and    *)
(* everybody else is done.  Reconciliation also swallows an exception;     *)
(* elsewhere an exception ends the handler.                                *)
InLoop(w) == work[w].job \in {"cancel", "expire"}

Return(w) == CASE work[w].job = "webhook" -> Goto(w, "ack")
               [] InLoop(w) -> Goto(w, "loop")
               [] OTHER -> Stop(w)

Throw(w) == IF InLoop(w) THEN Goto(w, "loop") ELSE Stop(w)

Status(o) == order[o].status

Attempts(o) == {p \in Payments : payment[p] # None /\ payment[p].ord = o}

OpenAttempts(o) == {p \in Attempts(o) : payment[p].status \in Open}

(* A find() of the open payments: each with the provider reference it had then. *)
OpenList(o) == {<<p, payment[p].bound>> : p \in OpenAttempts(o)}

-----------------------------------------------------------------------------
(* Checkout: place *)

(* The draft and its snapshots; the unique idempotencyKey makes it once.   *)
Place(w, o) ==
  /\ order[o] = None /\ Cardinality({q \in Orders : order[q] # None}) < scope.orders
  /\ Begin(w, "place", [Idle EXCEPT !.pc = "pick", !.ord = o, !.k = 1])
  /\ order' = [order EXCEPT ![o] = [status |-> "DRAFT", alloc |-> {}, paidBy |-> None]]
  /\ UNCHANGED <<payment, piece, gateway, sent, processed, expired, crashes>>

OnShelf == {x \in Pieces : piece[x].status = "AVAILABLE" /\ piece[x].holder = None}

(* pickPieces reads outside the transaction that will hold them. *)
PickPieces(w) ==
  /\ At(w, "pick")
  /\ \/ \E S \in kSubset(Need, OnShelf) :
          work' = [work EXCEPT ![w].pc = "hold", ![w].todo = S]
     \/ Cardinality(OnShelf) < Need /\ Goto(w, "giveUp")
  /\ UNCHANGED <<order, payment, piece, gateway, sent, processed, expired, crashes>>

HoldUnchecked(w) ==      \* mutant: the hold does not look at the pieces again
  LET o == work[w].ord  S == work[w].todo IN
  /\ At(w, "hold")
  /\ piece' = [x \in Pieces |-> IF x \in S THEN [piece[x] EXCEPT !.status = "RESERVED", !.holder = o] ELSE piece[x]]
  /\ order' = IF Status(o) = "DRAFT"
              THEN [order EXCEPT ![o].status = "PENDING_PAYMENT", ![o].alloc = S] ELSE order
  /\ Stop(w)
  /\ UNCHANGED <<payment, gateway, sent, processed, expired, crashes>>

(* One transaction: hold every piece, and make the order payable if it is  *)
(* still a draft.  moveOrder answers null for one that is not, and the     *)
(* hold commits all the same.                                              *)
HoldPieces(w) ==
  LET o == work[w].ord  S == work[w].todo IN
  /\ At(w, "hold")
  /\ IF S \subseteq OnShelf
     THEN /\ piece' = [x \in Pieces |-> IF x \in S THEN [piece[x] EXCEPT !.status = "RESERVED", !.holder = o] ELSE piece[x]]
          /\ order' = IF Status(o) = "DRAFT"
                      THEN [order EXCEPT ![o].status = "PENDING_PAYMENT", ![o].alloc = S] ELSE order
          /\ Stop(w)
     ELSE /\ IF work[w].k < MaxPicks
             THEN work' = [work EXCEPT ![w].pc = "pick", ![w].k = @ + 1, ![w].todo = {}]
             ELSE Goto(w, "giveUp")
          /\ UNCHANGED <<piece, order>>
  /\ UNCHANGED <<payment, gateway, sent, processed, expired, crashes>>

GiveUp(w) ==
  LET o == work[w].ord IN
  /\ At(w, "giveUp")
  /\ order' = IF Status(o) = "DRAFT" THEN [order EXCEPT ![o].status = "CANCELLED"] ELSE order
  /\ Stop(w)
  /\ UNCHANGED <<payment, piece, gateway, sent, processed, expired, crashes>>

-----------------------------------------------------------------------------
(* Payment: initiate *)

Initiate(w, o) ==
  /\ order[o] # None /\ Status(o) \in Payable
  /\ o \notin expired                                        \* else HoldExpiredError
  /\ Begin(w, "initiate", [Idle EXCEPT !.pc = "older", !.ord = o, !.seen = Status(o)])
  /\ UNCHANGED <<order, payment, piece, gateway, sent, processed, expired, crashes>>

FindOlder(w) ==
  /\ At(w, "older")
  /\ work' = [work EXCEPT ![w].pc = "void", ![w].todo = OpenList(work[w].ord)]
  /\ UNCHANGED <<order, payment, piece, gateway, sent, processed, expired, crashes>>

(* The loop that writes off open attempts, in initiate and in               *)
(* voidOpenPayments: mark it failed if it still is open, ...               *)
VoidMark(w) ==
  /\ At(w, "void") /\ work[w].todo # {}
  /\ \E old \in work[w].todo :
       /\ payment' = [payment EXCEPT ![old[1]].status = IF @ \in Open THEN "FAILED" ELSE @]
       /\ work' = [work EXCEPT ![w].todo = @ \ {old},
                               ![w].pc = IF old[2] THEN "voidAsk" ELSE "void", ![w].pay = old[1]]
  /\ UNCHANGED <<order, piece, gateway, sent, processed, expired, crashes>>

Voided(p) ==
  IF gateway[p].state \in {"open", "authorized"} THEN [gateway EXCEPT ![p].state = "failed"] ELSE gateway

(* ... and ask the provider to void it, whose failure is swallowed.        *)
VoidAsk(w) ==
  /\ At(w, "voidAsk")
  /\ gateway' \in {gateway, Voided(work[w].pay)}
  /\ Goto(w, "void")
  /\ UNCHANGED <<order, payment, piece, sent, processed, expired, crashes>>

VoidDone(w) ==
  /\ At(w, "void") /\ work[w].todo = {}
  /\ Goto(w, IF work[w].job = "initiate" THEN "reopen" ELSE "held")
  /\ UNCHANGED <<order, payment, piece, gateway, sent, processed, expired, crashes>>

Reopen(w) ==
  LET o == work[w].ord IN
  /\ At(w, "reopen")
  /\ order' = IF work[w].seen = "PAYMENT_FAILED" /\ Status(o) = "PAYMENT_FAILED"
              THEN [order EXCEPT ![o].status = "PENDING_PAYMENT"] ELSE order
  /\ Goto(w, "count")
  /\ UNCHANGED <<payment, piece, gateway, sent, processed, expired, crashes>>

CountAttempts(w) ==
  /\ At(w, "count")
  /\ work' = [work EXCEPT ![w].pc = "create", ![w].k = Cardinality(Attempts(work[w].ord)) + 1]
  /\ UNCHANGED <<order, payment, piece, gateway, sent, processed, expired, crashes>>

(* The unique (orderId, attempt) refuses the second of two that counted    *)
(* alike.  Payments is the bound on attempts.                              *)
MorePayments == Cardinality({p \in Payments : payment[p] # None}) < scope.payments

CreatePayment(w) ==
  LET o == work[w].ord IN
  /\ At(w, "create")
  /\ \/ \E p \in Payments :
          /\ payment[p] = None /\ MorePayments
          /\ \A q \in Attempts(o) : payment[q].attempt # work[w].k
          /\ payment' = [payment EXCEPT ![p] =
               [ord |-> o, status |-> "PENDING", bound |-> FALSE, attempt |-> work[w].k,
                captured |-> 0, refunded |-> 0, refunds |-> <<>>]]
          /\ work' = [work EXCEPT ![w].pc = "start", ![w].pay = p]
     \/ /\ \/ ~MorePayments
           \/ \E q \in Attempts(o) : payment[q].attempt = work[w].k
        /\ Stop(w) /\ UNCHANGED payment
  /\ UNCHANGED <<order, piece, gateway, sent, processed, expired, crashes>>

StartAtProvider(w) ==
  /\ At(w, "start")
  /\ \/ /\ gateway' = [gateway EXCEPT ![work[w].pay].state = "open"]
        /\ Goto(w, "bind")
     \/ Goto(w, "failMark") /\ UNCHANGED gateway
  /\ UNCHANGED <<order, payment, piece, sent, processed, expired, crashes>>

BindReference(w) ==
  /\ At(w, "bind")
  /\ payment' = [payment EXCEPT ![work[w].pay].bound = TRUE]
  /\ Stop(w)
  /\ UNCHANGED <<order, piece, gateway, sent, processed, expired, crashes>>

-----------------------------------------------------------------------------
(* Payment: what the provider reports *)

(* apply(): an authorisation is a compare-and-set, a failure and a capture  *)
(* go their own ways.                                                      *)
ReportOf(state) ==
  CASE state = "captured" -> "capRead" [] state = "failed" -> "failMark" [] OTHER -> "authorize"

(* A webhook for a payment whose reference we do not know yet is answered   *)
(* non-2xx and comes again; so is one that failed half-way.                *)
Webhook(w, e) ==
  LET p == e[1] IN
  /\ e \in sent \ processed
  /\ payment[p] # None /\ payment[p].bound
  /\ Begin(w, "webhook",
       [Idle EXCEPT !.pc = CASE e[2] = "CAPTURED" -> "capRead" [] e[2] = "FAILED" -> "failMark"
                             [] e[2] = "AUTHORIZED" -> "authorize" [] OTHER -> "settle",
                    !.ord = payment[p].ord, !.pay = p, !.todo = {e}, !.k = e[3],
                    !.seen = IF e[2] = "REFUND_FAILED" THEN "FAILED" ELSE "SUCCEEDED"])
  /\ UNCHANGED <<order, payment, piece, gateway, sent, processed, expired, crashes>>

Acknowledge(w) ==
  /\ At(w, "ack")
  /\ processed' = processed \union work[w].todo
  /\ Stop(w)
  /\ UNCHANGED <<order, payment, piece, gateway, sent, expired, crashes>>

(* verifyReturn: the customer is back, and the provider is asked. *)
VerifyReturn(w, p) ==
  /\ payment[p] # None /\ payment[p].bound /\ gateway[p].state # "open"
  /\ Begin(w, "return", [Idle EXCEPT !.pc = ReportOf(gateway[p].state), !.ord = payment[p].ord, !.pay = p])
  /\ UNCHANGED <<order, payment, piece, gateway, sent, processed, expired, crashes>>

(* cancelPayment: the customer closed the payment page. *)
CancelPayment(w, p) ==
  /\ payment[p] # None
  /\ Begin(w, "close", [Idle EXCEPT !.pc = CASE ~payment[p].bound -> "failMark"
                                             [] payment[p].bound /\ gateway[p].state = "captured" -> "capRead"
                                             [] OTHER -> "closeAsk",
                                    !.ord = payment[p].ord, !.pay = p])
  /\ UNCHANGED <<order, payment, piece, gateway, sent, processed, expired, crashes>>

CloseAsk(w) ==
  /\ At(w, "closeAsk")
  /\ gateway' \in {gateway, Voided(work[w].pay)}
  /\ Goto(w, "failMark")
  /\ UNCHANGED <<order, payment, piece, sent, processed, expired, crashes>>

AuthorizeAnyway(w) ==      \* mutant: no compare-and-set
  /\ At(w, "authorize")
  /\ payment' = [payment EXCEPT ![work[w].pay].status = "AUTHORIZED"]
  /\ Return(w)
  /\ UNCHANGED <<order, piece, gateway, sent, processed, expired, crashes>>

Authorize(w) ==
  LET p == work[w].pay IN
  /\ At(w, "authorize")
  /\ payment' = [payment EXCEPT ![p].status = IF @ = "PENDING" THEN "AUTHORIZED" ELSE @]
  /\ Return(w)
  /\ UNCHANGED <<order, piece, gateway, sent, processed, expired, crashes>>

(* markFailed, in three database operations. *)
FailMark(w) ==
  LET p == work[w].pay IN
  /\ At(w, "failMark")
  /\ IF payment[p].status \in Open
     THEN payment' = [payment EXCEPT ![p].status = "FAILED"] /\ Goto(w, "failLook")
     ELSE Return(w) /\ UNCHANGED payment
  /\ UNCHANGED <<order, piece, gateway, sent, processed, expired, crashes>>

FailLook(w) ==
  /\ At(w, "failLook")
  /\ IF OpenAttempts(payment[work[w].pay].ord) = {} THEN Goto(w, "failMove") ELSE Return(w)
  /\ UNCHANGED <<order, payment, piece, gateway, sent, processed, expired, crashes>>

FailMove(w) ==
  LET o == payment[work[w].pay].ord IN
  /\ At(w, "failMove")
  /\ order' = IF Status(o) = "PENDING_PAYMENT" THEN [order EXCEPT ![o].status = "PAYMENT_FAILED"] ELSE order
  /\ Return(w)
  /\ UNCHANGED <<payment, piece, gateway, sent, processed, expired, crashes>>

-----------------------------------------------------------------------------
(* Payment: settleCapture *)

CaptureRead(w) ==
  /\ At(w, "capRead")
  /\ GotoWith(w, "capOrder", IF payment[work[w].pay].refunds = <<>> THEN "clean" ELSE "refunding")
  /\ UNCHANGED <<order, payment, piece, gateway, sent, processed, expired, crashes>>

DecideAnyAmount(w) ==      \* mutant: short or over-paid is good enough
  LET p == work[w].pay  o == work[w].ord IN
  /\ At(w, "capOrder")
  /\ IF order[o].paidBy = p \/ work[w].seen = "refunding" THEN Return(w)
     ELSE IF order[o].paidBy = None /\ Status(o) \in Payable
          THEN Goto(w, "capTxn") ELSE GotoWith(w, "capRecord", "NOT_PAYABLE")
  /\ UNCHANGED <<order, payment, piece, gateway, sent, processed, expired, crashes>>

DecideOrDrop(w) ==         \* mutant: money an order cannot take is left alone
  LET p == work[w].pay  o == work[w].ord IN
  /\ At(w, "capOrder")
  /\ IF order[o].paidBy = None /\ gateway[p].amount = Total /\ Status(o) \in Payable
     THEN Goto(w, "capTxn") ELSE Return(w)
  /\ UNCHANGED <<order, payment, piece, gateway, sent, processed, expired, crashes>>

CaptureDecide(w) ==
  LET p == work[w].pay  o == work[w].ord IN
  /\ At(w, "capOrder")
  /\ IF order[o].paidBy = p \/ work[w].seen = "refunding" THEN Return(w)
     ELSE IF order[o].paidBy = None /\ gateway[p].amount = Total /\ Status(o) \in Payable
          THEN Goto(w, "capTxn") ELSE GotoWith(w, "capRecord", "NOT_PAYABLE")
  /\ UNCHANGED <<order, payment, piece, gateway, sent, processed, expired, crashes>>

Captured(p) ==
  IF payment[p].status \in Capturable
  THEN [payment EXCEPT ![p].status = "CAPTURED", ![p].captured = gateway[p].amount] ELSE payment

Sellable(o) ==
  \A x \in order[o].alloc : piece[x].status = "AVAILABLE" \/ (piece[x].status = "RESERVED" /\ piece[x].holder = o)

(* One transaction: the money is recorded, the order is paid and confirmed, *)
(* the pieces are sold; or none of it is.                                  *)
CaptureCommit(w) ==
  LET p == work[w].pay  o == work[w].ord IN
  /\ At(w, "capTxn")
  /\ Status(o) \in Payable /\ Sellable(o)
  /\ payment' = Captured(p)
  /\ order' = [order EXCEPT ![o].status = "CONFIRMED", ![o].paidBy = p]
  /\ piece' = [x \in Pieces |-> IF x \in order[o].alloc
                                THEN [status |-> "SOLD", holder |-> None, buyer |-> o] ELSE piece[x]]
  /\ Return(w)
  /\ UNCHANGED <<gateway, sent, processed, expired, crashes>>

CaptureRefused(w) ==
  LET o == work[w].ord IN
  /\ At(w, "capTxn")
  /\ ~(Status(o) \in Payable /\ Sellable(o))
  /\ GotoWith(w, "capLook", IF Status(o) \in Payable THEN "STOCK_UNAVAILABLE" ELSE "NOT_PAYABLE")
  /\ UNCHANGED <<order, payment, piece, gateway, sent, processed, expired, crashes>>

(* A copy of the same report may have won a moment ago. *)
CaptureLookAgain(w) ==
  /\ At(w, "capLook")
  /\ IF order[work[w].ord].paidBy = work[w].pay THEN Return(w) ELSE Goto(w, "capRecord")
  /\ UNCHANGED <<order, payment, piece, gateway, sent, processed, expired, crashes>>

CaptureRecord(w) ==
  /\ At(w, "capRecord")
  /\ payment' = Captured(work[w].pay)
  /\ Goto(w, IF work[w].seen = "STOCK_UNAVAILABLE" THEN "capCancel" ELSE "refRead")
  /\ UNCHANGED <<order, piece, gateway, sent, processed, expired, crashes>>

CaptureCancel(w) ==
  LET o == work[w].ord IN
  /\ At(w, "capCancel")
  /\ IF Status(o) \in Payable
     THEN order' = [order EXCEPT ![o].status = "CANCELLED"] /\ Goto(w, "held")
     ELSE Goto(w, "refRead") /\ UNCHANGED order
  /\ UNCHANGED <<payment, piece, gateway, sent, processed, expired, crashes>>

-----------------------------------------------------------------------------
(* Giving held pieces back: releaseHeldPieces *)

(* A capture that found no stock goes on to its refund; a cancellation ends. *)
AfterRelease(w) ==
  IF work[w].seen = "STOCK_UNAVAILABLE" THEN Goto(w, "refRead") ELSE Stop(w)

StillHeld(w) ==
  LET held == {x \in order[work[w].ord].alloc : piece[x].status = "RESERVED" /\ piece[x].holder = work[w].ord} IN
  /\ At(w, "held")
  /\ IF held = {} THEN AfterRelease(w)
     ELSE work' = [work EXCEPT ![w].pc = "free", ![w].k = Cardinality(held)]
  /\ UNCHANGED <<order, payment, piece, gateway, sent, processed, expired, crashes>>

(* One transaction over all that were held.  If a sweep freed one in        *)
(* between it throws: out of settleCapture before the refund, or out of     *)
(* the cancellation.                                                       *)
FreeHeld(w) ==
  LET o == work[w].ord
      held == {x \in order[o].alloc : piece[x].status = "RESERVED" /\ piece[x].holder = o} IN
  /\ At(w, "free")
  /\ IF Cardinality(held) = work[w].k
     THEN /\ piece' = [x \in Pieces |-> IF x \in held THEN [piece[x] EXCEPT !.status = "AVAILABLE", !.holder = None] ELSE piece[x]]
          /\ AfterRelease(w)
     ELSE /\ IF work[w].seen = "STOCK_UNAVAILABLE" THEN Throw(w) ELSE Stop(w)
          /\ UNCHANGED piece
  /\ UNCHANGED <<order, payment, gateway, sent, processed, expired, crashes>>

-----------------------------------------------------------------------------
(* Payment: refund and settleRefund *)

(* What some of a payment's refunds come to, counted unit by unit. *)
Units(refunds, S) == UNION {{k} \X (1..refunds[k].amount) : k \in S}

Sum(refunds, S) == Cardinality(Units(refunds, S))

Among(refunds, statuses) == {k \in DOMAIN refunds : refunds[k].status \in statuses}

RefundedIn(refunds, statuses) == Sum(refunds, Among(refunds, statuses))

Committed(p) == RefundedIn(payment[p].refunds, {"PENDING", "SUCCEEDED"})

RefundRead(w) ==
  LET p == work[w].pay
      left == payment[p].captured - Committed(p) IN
  /\ At(w, "refRead")
  /\ IF left > 0 THEN work' = [work EXCEPT ![w].pc = "refReserve", ![w].amount = left] ELSE Return(w)
  /\ UNCHANGED <<order, payment, piece, gateway, sent, processed, expired, crashes>>

ReserveUnguarded(w) ==      \* mutant: trusts the total read before
  LET p == work[w].pay IN
  /\ At(w, "refReserve")
  /\ IF Len(payment[p].refunds) < scope.refunds
     THEN /\ payment' = [payment EXCEPT ![p].refunds = Append(@, [amount |-> work[w].amount, status |-> "PENDING", bound |-> FALSE])]
          /\ work' = [work EXCEPT ![w].pc = "refAsk", ![w].k = Len(payment[p].refunds) + 1]
     ELSE Return(w) /\ UNCHANGED payment
  /\ UNCHANGED <<order, piece, gateway, sent, processed, expired, crashes>>

(* The guarded push that reserves the amount before the provider is asked. *)
RefundReserve(w) ==
  LET p == work[w].pay  amount == work[w].amount IN
  /\ At(w, "refReserve")
  /\ IF /\ payment[p].status \in {"CAPTURED", "PARTIALLY_REFUNDED"}
        /\ Committed(p) + amount <= payment[p].captured
        /\ Len(payment[p].refunds) < scope.refunds
     THEN /\ payment' = [payment EXCEPT ![p].refunds = Append(@, [amount |-> amount, status |-> "PENDING", bound |-> FALSE])]
          /\ work' = [work EXCEPT ![w].pc = "refAsk", ![w].k = Len(payment[p].refunds) + 1]
     ELSE Return(w) /\ UNCHANGED payment
  /\ UNCHANGED <<order, piece, gateway, sent, processed, expired, crashes>>

(* The provider refunds at once, later, or not; or it does and the answer   *)
(* is lost, which the code can only take for a failure.                    *)
RefundAsk(w) ==
  LET p == work[w].pay  k == work[w].k IN
  /\ At(w, "refAsk")
  /\ \E answer \in scope.answers :
       /\ gateway' = [gateway EXCEPT ![p].refunds[k] =
            CASE answer \in {"SUCCEEDED", "LOST"} -> "done" [] answer = "PENDING" -> "pending" [] OTHER -> "failed"]
       /\ CASE answer = "PENDING" -> Goto(w, "refBind")
            [] answer = "SUCCEEDED" -> GotoWith(w, "settle", "SUCCEEDED")
            [] OTHER -> GotoWith(w, "settle", "FAILED")
  /\ UNCHANGED <<order, payment, piece, sent, processed, expired, crashes>>

RefundBind(w) ==
  /\ At(w, "refBind")
  /\ payment' = [payment EXCEPT ![work[w].pay].refunds[work[w].k].bound = TRUE]
  /\ Return(w)
  /\ UNCHANGED <<order, piece, gateway, sent, processed, expired, crashes>>

(* settleRefund, first write: the refund's own status, once.  The sum of    *)
(* the succeeded refunds in the document this write returns is carried to   *)
(* the second write.  A webhook finds the refund by the provider's          *)
(* reference, and is resent if that is not recorded yet.                   *)
SettleRefund(w) ==
  LET p == work[w].pay  k == work[w].k  r == payment[p].refunds[k]
      hook == work[w].job = "webhook" /\ work[w].todo = {<<p, "REFUND_" \o work[w].seen, k>>} IN
  /\ At(w, "settle")
  /\ IF r.status = "PENDING" /\ (hook => r.bound)
     THEN LET after == [payment[p].refunds EXCEPT ![k].status = work[w].seen, ![k].bound = @ \/ work[w].seen = "SUCCEEDED"] IN
          /\ payment' = [payment EXCEPT ![p].refunds = after]
          /\ work' = [work EXCEPT ![w].pc = "total", ![w].amount = RefundedIn(after, {"SUCCEEDED"})]
     ELSE /\ \/ ~(hook /\ ~r.bound) /\ Return(w)
             \/ hook /\ Stop(w)              \* the payment it read at first may not have shown the outcome
          /\ UNCHANGED payment
  /\ UNCHANGED <<order, piece, gateway, sent, processed, expired, crashes>>

PaymentStatusFor(captured, refunded) ==
  CASE refunded = 0 -> "CAPTURED"
    [] refunded > 0 /\ refunded < captured -> "PARTIALLY_REFUNDED"
    [] OTHER -> "REFUNDED"

(* Second write: the total and the status it implies, unconditionally. *)
SettleTotal(w) ==
  LET p == work[w].pay  status == PaymentStatusFor(payment[p].captured, work[w].amount) IN
  /\ At(w, "total")
  /\ payment' = [payment EXCEPT ![p].refunded = work[w].amount, ![p].status = status]
  /\ IF work[w].seen = "SUCCEEDED" /\ status = "REFUNDED" THEN Goto(w, "after") ELSE Return(w)
  /\ UNCHANGED <<order, piece, gateway, sent, processed, expired, crashes>>

AfterRefund(w) ==
  LET o == work[w].ord IN
  /\ At(w, "after")
  /\ order' = IF Status(o) = "CANCELLED" THEN [order EXCEPT ![o].status = "REFUNDED"] ELSE order
  /\ Return(w)
  /\ UNCHANGED <<payment, piece, gateway, sent, processed, expired, crashes>>

-----------------------------------------------------------------------------
(* Cancelling and expiring *)

(* cancel: the customer gives up an order that is unpaid (ask the provider  *)
(* first: someone may be paying this very second) or already confirmed.    *)
Cancel(w, o) ==
  /\ order[o] # None /\ Status(o) \in Payable \union {"CONFIRMED"}
  /\ Begin(w, "cancel", [Idle EXCEPT !.pc = IF Status(o) \in Payable THEN "openRead" ELSE "cancelPaid", !.ord = o])
  /\ UNCHANGED <<order, payment, piece, gateway, sent, processed, expired, crashes>>

(* One order of expireStale's list. *)
Expire(w, o) ==
  /\ o \in expired /\ order[o] # None /\ Status(o) \in Payable \union {"DRAFT"}
  /\ Begin(w, "expire", [Idle EXCEPT !.pc = "openRead", !.ord = o])
  /\ UNCHANGED <<order, payment, piece, gateway, sent, processed, expired, crashes>>

(* reconcileOpenPayments: every open payment the provider knows is folded  *)
(* in with what it reports now, one after the other.                       *)
OpenRead(w) ==
  /\ At(w, "openRead")
  /\ work' = [work EXCEPT ![w].pc = "loop", ![w].todo = OpenList(work[w].ord)]
  /\ UNCHANGED <<order, payment, piece, gateway, sent, processed, expired, crashes>>

Loop(w) ==
  /\ At(w, "loop")
  /\ \/ \E p \in Payments, bound \in BOOLEAN :
          /\ <<p, bound>> \in work[w].todo
          /\ work' = [work EXCEPT ![w].todo = @ \ {<<p, bound>>}, ![w].pay = p, ![w].seen = "none",
                        ![w].pc = IF bound /\ gateway[p].state # "open" THEN ReportOf(gateway[p].state) ELSE "loop"]
     \/ work[w].todo = {} /\ Goto(w, "recheck")
  /\ UNCHANGED <<order, payment, piece, gateway, sent, processed, expired, crashes>>

RecheckUnpaid(w) ==      \* mutant: forgets that a draft may have expired
  LET status == Status(work[w].ord) IN
  /\ At(w, "recheck")
  /\ CASE status \in Payable -> Goto(w, "cancelMove")
       [] status = "CONFIRMED" /\ work[w].job = "cancel" -> Goto(w, "cancelPaid")
       [] OTHER -> Stop(w)
  /\ UNCHANGED <<order, payment, piece, gateway, sent, processed, expired, crashes>>

(* The order is read again: it may have been paid while we asked. *)
Recheck(w) ==
  LET status == Status(work[w].ord) IN
  /\ At(w, "recheck")
  /\ CASE status \in Payable \/ (status = "DRAFT" /\ work[w].job = "expire") -> Goto(w, "cancelMove")
       [] status = "CONFIRMED" /\ work[w].job = "cancel" -> Goto(w, "cancelPaid")
       [] OTHER -> Stop(w)
  /\ UNCHANGED <<order, payment, piece, gateway, sent, processed, expired, crashes>>

(* cancelUnpaid: the status first; then the open payments are voided and    *)
(* the pieces released (VoidRead, VoidMark, VoidAsk, StillHeld, FreeHeld). *)
CancelMove(w) ==
  LET o == work[w].ord IN
  /\ At(w, "cancelMove")
  /\ IF Status(o) \in Payable \union {"DRAFT"}
     THEN order' = [order EXCEPT ![o].status = "CANCELLED"] /\ Goto(w, "voidRead")
     ELSE Stop(w) /\ UNCHANGED order
  /\ UNCHANGED <<payment, piece, gateway, sent, processed, expired, crashes>>

VoidRead(w) ==
  /\ At(w, "voidRead")
  /\ work' = [work EXCEPT ![w].pc = "void", ![w].todo = OpenList(work[w].ord), ![w].seen = "none"]
  /\ UNCHANGED <<order, payment, piece, gateway, sent, processed, expired, crashes>>

CancelPaid(w) ==
  LET o == work[w].ord IN
  /\ At(w, "cancelPaid")
  /\ IF Status(o) = "CONFIRMED"
     THEN /\ order' = [order EXCEPT ![o].status = "CANCELLED"]
          /\ work' = [work EXCEPT ![w].pc = "unsell", ![w].job = "refund"]
     ELSE Stop(w) /\ UNCHANGED order
  /\ UNCHANGED <<payment, piece, gateway, sent, processed, expired, crashes>>

UnsellOnly(w) ==      \* mutant: the pieces come back, the money does not
  LET o == work[w].ord IN
  /\ At(w, "unsell")
  /\ piece' = [x \in Pieces |-> IF x \in order[o].alloc /\ piece[x].status = "SOLD"
                                THEN [piece[x] EXCEPT !.status = "RETURNED"] ELSE piece[x]]
  /\ Stop(w)
  /\ UNCHANGED <<order, payment, gateway, sent, processed, expired, crashes>>

(* returnSoldPieces: one transaction over the pieces that are still SOLD;   *)
(* then the payment that paid the order is refunded.                       *)
Unsell(w) ==
  LET o == work[w].ord IN
  /\ At(w, "unsell")
  /\ piece' = [x \in Pieces |-> IF x \in order[o].alloc /\ piece[x].status = "SOLD"
                                THEN [piece[x] EXCEPT !.status = "RETURNED"] ELSE piece[x]]
  /\ work' = [work EXCEPT ![w].pc = "refRead", ![w].pay = order[o].paidBy]
  /\ UNCHANGED <<order, payment, gateway, sent, processed, expired, crashes>>

-----------------------------------------------------------------------------
(* The rest of the world: the clock, the stock sweep, the shop's staff, the *)
(* customer at the provider's page, the provider, and crashes.             *)

HoldOver(o) ==
  /\ order[o] # None /\ o \notin expired
  /\ expired' = expired \union {o}
  /\ UNCHANGED <<order, payment, piece, gateway, sent, processed, work, crashes>>

(* releaseExpiredReservations, for one piece. *)
SweepPiece(x) ==
  /\ piece[x].status = "RESERVED" /\ piece[x].holder \in expired
  /\ piece' = [piece EXCEPT ![x].status = "AVAILABLE", ![x].holder = None]
  /\ UNCHANGED <<order, payment, gateway, sent, processed, expired, work, crashes>>

(* A returned piece passes inspection and goes back on the shelf. *)
InspectReturned(x) ==
  /\ piece[x].status = "RETURNED"
  /\ piece' = [piece EXCEPT ![x].status = "AVAILABLE", ![x].buyer = None]
  /\ UNCHANGED <<order, payment, gateway, sent, processed, expired, work, crashes>>

Authorizes(p) ==
  /\ "AUTHORIZED" \in scope.reports /\ gateway[p].state = "open"
  /\ gateway' = [gateway EXCEPT ![p].state = "authorized"]
  /\ sent' = sent \union {<<p, "AUTHORIZED", 0>>}
  /\ UNCHANGED <<order, payment, piece, processed, expired, work, crashes>>

Pays(p, amount) ==
  /\ "CAPTURED" \in scope.reports /\ gateway[p].state \in {"open", "authorized"}
  /\ gateway' = [gateway EXCEPT ![p].state = "captured", ![p].amount = amount]
  /\ sent' = sent \union {<<p, "CAPTURED", 0>>}
  /\ UNCHANGED <<order, payment, piece, processed, expired, work, crashes>>

Declines(p) ==
  /\ "FAILED" \in scope.reports /\ gateway[p].state \in {"open", "authorized"}
  /\ gateway' = [gateway EXCEPT ![p].state = "failed"]
  /\ sent' = sent \union {<<p, "FAILED", 0>>}
  /\ UNCHANGED <<order, payment, piece, processed, expired, work, crashes>>

RefundSettles(p, k, ok) ==
  /\ gateway[p].refunds[k] = "pending"
  /\ gateway' = [gateway EXCEPT ![p].refunds[k] = IF ok THEN "done" ELSE "failed"]
  /\ sent' = sent \union {<<p, IF ok THEN "REFUND_SUCCEEDED" ELSE "REFUND_FAILED", k>>}
  /\ UNCHANGED <<order, payment, piece, processed, expired, work, crashes>>

(* The process dies between two awaits; nothing of the handler is resumed. *)
Crash(w) ==
  /\ ~At(w, "idle") /\ crashes < MaxCrashes
  /\ crashes' = crashes + 1
  /\ Stop(w)
  /\ UNCHANGED <<order, payment, piece, gateway, sent, processed, expired>>

-----------------------------------------------------------------------------
(* The system *)

(* What a handler does once it has begun. *)
HandlerStep(w) ==
  \/ PickPieces(w) \/ HoldPieces(w) \/ GiveUp(w)
  \/ FindOlder(w) \/ VoidMark(w) \/ VoidAsk(w) \/ VoidDone(w) \/ Reopen(w)
  \/ CountAttempts(w) \/ CreatePayment(w) \/ StartAtProvider(w) \/ BindReference(w)
  \/ Acknowledge(w) \/ CloseAsk(w) \/ Authorize(w) \/ FailMark(w) \/ FailLook(w) \/ FailMove(w)
  \/ CaptureRead(w) \/ CaptureDecide(w) \/ CaptureCommit(w) \/ CaptureRefused(w)
  \/ CaptureLookAgain(w) \/ CaptureRecord(w) \/ CaptureCancel(w) \/ StillHeld(w) \/ FreeHeld(w)
  \/ RefundRead(w) \/ RefundReserve(w) \/ RefundAsk(w) \/ RefundBind(w)
  \/ SettleRefund(w) \/ SettleTotal(w) \/ AfterRefund(w)
  \/ OpenRead(w) \/ Loop(w) \/ Recheck(w) \/ CancelMove(w) \/ VoidRead(w)
  \/ CancelPaid(w) \/ Unsell(w)

Requests ==
  \E w \in Workers :
    \/ \E o \in Orders : Place(w, o) \/ Initiate(w, o) \/ Cancel(w, o) \/ Expire(w, o)
    \/ \E p \in Payments : VerifyReturn(w, p) \/ CancelPayment(w, p)
    \/ \E e \in sent : Webhook(w, e)

Outside ==
  \/ \E o \in Orders : HoldOver(o)
  \/ \E x \in Pieces : SweepPiece(x) \/ InspectReturned(x)
  \/ \E p \in Payments : Authorizes(p) \/ Declines(p)
  \/ \E p \in Payments, amount \in Amounts : amount \in scope.amounts /\ Pays(p, amount)
  \/ \E p \in Payments, k \in 1..MaxRefunds : RefundSettles(p, k, TRUE)
  \/ \E p \in Payments, k \in 1..MaxRefunds : "FAILED" \in scope.answers /\ RefundSettles(p, k, FALSE)

Next ==
  /\ \/ Requests
     \/ \E w \in Workers : HandlerStep(w)
     \/ Outside
     \/ \E w \in Workers : Crash(w)
  /\ UNCHANGED scope

Spec == Init /\ [][Next]_<<vars, scope>>

(* A handler that has begun is run to its end by Node. *)
HandlersRun == \A w \in Workers : WF_vars(HandlerStep(w))

(* The provider resends an event until it is acknowledged.                 *)
EventsAreResent == SF_vars(\E w \in Workers, e \in sent : Webhook(w, e))

(* The clock runs, and the two jobs server.ts schedules come round again    *)
(* and again.                                                              *)
SweepsRun ==
  /\ \A o \in Orders : WF_vars(HoldOver(o)) /\ SF_vars(\E w \in Workers : Expire(w, o))
  /\ \A x \in Pieces : WF_vars(SweepPiece(x))

(* What moves money needs only the first two, what frees stock the first    *)
(* and the last.  A customer owes us nothing, nor the provider a refund.    *)
MoneySpec == Spec /\ HandlersRun /\ EventsAreResent

StockSpec == Spec /\ HandlersRun /\ SweepsRun

-----------------------------------------------------------------------------
(* Properties *)

(* A confirmed order owns what it sold: all its pieces are SOLD, to it, and *)
(* the payment that paid it really captured the order's total.  Two orders  *)
(* never share a piece.  (sellPieces and moveOrder in one transaction.)     *)
ConfirmedOwnsPieces ==
  \A o \in Orders : order[o] # None /\ Status(o) = "CONFIRMED" =>
    /\ Cardinality(order[o].alloc) = Need
    /\ \A x \in order[o].alloc : piece[x].status = "SOLD" /\ piece[x].buyer = o
    /\ order[o].paidBy # None
    /\ gateway[order[o].paidBy].state = "captured" /\ gateway[order[o].paidBy].amount = Total

(* business-rules 11.6: however reports, refunds and their answers race,    *)
(* what is refunded or being refunded never exceeds what was captured.      *)
RefundWithinCapture == \A p \in Payments : payment[p] # None => Committed(p) <= payment[p].captured

Returned(p) ==
  Sum(payment[p].refunds, {k \in 1..MaxRefunds : gateway[p].refunds[k] \in {"pending", "done"}})

(* payment.service.ts:68: the same at the provider, where the money moves,  *)
(* whatever order its answers come in, as long as every answer arrives (a   *)
(* "LOST" one is taken for a failure, and the amount may then go out again). *)
ProviderRefundsWithinCapture == \A p \in Payments : payment[p] # None => Returned(p) <= gateway[p].amount

Rank(status) ==
  CASE status = "PENDING" -> 1 [] status = "AUTHORIZED" -> 2 [] status = "FAILED" -> 3
    [] status = "CAPTURED" -> 4 [] status = "PARTIALLY_REFUNDED" -> 5 [] OTHER -> 6

(* business-rules 11.5 says that reports never move a payment backwards.    *)
(* With refunds that can fail there is one way back, and no other: whatever *)
(* order reports arrive in, however many of them and of refunds are settled *)
(* at once, a payment goes back only when a settlement writes a total that  *)
(* another has made too small since it was read (payment.service.ts:60-62). *)
StaleTotal(w, p) ==
  At(w, "total") /\ work[w].pay = p /\ work[w].amount < RefundedIn(payment[p].refunds, {"SUCCEEDED"})

BackOnlyByStaleTotal ==
  [][ \A p \in Payments :
        payment[p] # None /\ Rank(payment'[p].status) < Rank(payment[p].status) =>
          \E w \in Workers : StaleTotal(w, p) /\ payment'[p].refunded = work[w].amount ]_vars

(* Every piece moves only as the inventory allows: held from the shelf,     *)
(* sold by its holder or from the shelf, never out of someone else's hold.  *)
Custody == [x \in Pieces |-> [status |-> piece[x].status, holder |-> piece[x].holder]]

Inventory == INSTANCE PieceCustody WITH Holders <- Orders, Nobody <- None, custody <- Custody

PiecesFollowCustody == [][Inventory!Next]_Custody

(* Money the provider took ends up paying its order or on its way back.     *)
(* (A payment whose order is later cancelled is CancelledMoneyReturns.)     *)
NoMoneyIsLost ==
  \A p \in Payments :
    gateway[p].state = "captured" ~>
      (payment[p] # None /\ (order[payment[p].ord].paidBy = p \/ Returned(p) = gateway[p].amount))

(* business-rules 11.7: a paid order that is cancelled is refunded in full  *)
(* and its pieces come back.                                                *)
CancelledMoneyReturns ==
  \A o \in Orders :
    (order[o] # None /\ Status(o) = "CANCELLED" /\ order[o].paidBy # None) ~>
      (/\ order[o] # None /\ order[o].paidBy # None
       /\ Returned(order[o].paidBy) = Total
       /\ \A x \in order[o].alloc : ~(piece[x].status = "SOLD" /\ piece[x].buyer = o))

(* An order nobody pays for does not hold its pieces for ever, even when    *)
(* handlers die half-way: it is confirmed or cancelled, and no piece stays  *)
(* RESERVED for it.                                                         *)
UnpaidOrderEnds ==
  \A o \in Orders :
    /\ (order[o] # None) ~> (order[o] # None /\ Status(o) \in {"CONFIRMED", "CANCELLED", "REFUNDED"})
    /\ \A x \in Pieces : (piece[x].holder = o) ~> (piece[x].holder # o)

(* Said of the code, and not kept by it (see the README):                  *)
(* payment.service.ts:150: money that paid a confirmed order is not sent    *)
(* back while the order stands.                                             *)
ConfirmedKeepsItsMoney ==
  \A o \in Orders : order[o] # None /\ Status(o) = "CONFIRMED" => payment[order[o].paidBy].refunds = <<>>

(* business-rules 11.5: reports never move a payment backwards.             *)
PaymentNeverGoesBack ==
  [][ \A p \in Payments : payment[p] # None => Rank(payment'[p].status) >= Rank(payment[p].status) ]_vars

=============================================================================
