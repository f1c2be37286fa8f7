------------------------------ MODULE Workshop ------------------------------
(***************************************************************************)
(* Pieces away at work: production orders, job work orders and hallmarking *)
(* batches (modules/manufacturing/ and modules/hallmarking/).              *)
(*                                                                         *)
(* The three kinds of document send whole pieces out of stock and bring    *)
(* them, or pieces made of them, back.  Each send and each return is one   *)
(* transaction that moves the pieces (the movement rules of StockRules)    *)
(* and the document (a compare-and-set on its status), so it is one        *)
(* action.  Three handlers use a copy read before their write and run in a *)
(* worker: the cancel of a production order, the return of job work, and   *)
(* the verdict on a hallmarked piece.  The inventory screen can post the   *)
(* same movements by hand, and correct a piece's status, without any       *)
(* document (stock-operations.ts).                                         *)
(*                                                                         *)
(* Every piece weighs one unit, and STORE stands for any stock location.   *)
(***************************************************************************)
EXTENDS StockRules, Integers, FiniteSetsExt

CONSTANTS
  Pieces, Productions, JobOrders, Batches,
  Workers,
  MaxWaste,      \* bound: wastage declared on one return of job work
  Starts,        \* the initial stock and documents TLC explores
  None

VARIABLES
  item,          \* the pieces that exist: status and location type
  production, jobwork, batch,
  desk,          \* what each worker is doing, and what it has read
  lost,          \* history: pieces inserted by an attempt of a transaction that was rolled back
  blind,         \* history: production orders cancelled on a copy that did not list their material
  overlapped,    \* history: job work orders with a return computed on a stale copy
  byHand,        \* history: pieces staff moved or corrected themselves
  free           \* bound: what staff may move or correct to which status, set by the start

docs == <<production, jobwork, batch>>
history == <<lost, blind, overlapped, byHand, free>>
vars == <<item, docs, desk, history>>

Step(from, to) == [from |-> from, to |-> to]

ProductionRules ==
  [ issueMaterial      |-> Step({"DRAFT"}, "MATERIAL_ISSUED"),
    startManufacturing |-> Step({"MATERIAL_ISSUED"}, "IN_PROGRESS"),
    submitForQc        |-> Step({"IN_PROGRESS"}, "QC_PENDING"),
    passQc             |-> Step({"QC_PENDING"}, "QC_PASSED"),
    failQc             |-> Step({"QC_PENDING"}, "QC_FAILED"),
    rework             |-> Step({"QC_FAILED"}, "IN_PROGRESS"),
    complete           |-> Step({"QC_PASSED"}, "COMPLETED"),
    cancel             |-> Step({"DRAFT", "MATERIAL_ISSUED", "IN_PROGRESS", "QC_FAILED"}, "CANCELLED") ]

JobWorkRules ==
  [ issue       |-> Step({"DRAFT"}, "ISSUED"),
    returnGoods |-> Step({"ISSUED", "PARTIALLY_RETURNED"}, "PARTIALLY_RETURNED"),
    cancel      |-> Step({"DRAFT"}, "CANCELLED") ]

HallmarkingRules ==
  [ dispatch |-> Step({"PENDING"}, "IN_TRANSIT"),
    arrive   |-> Step({"IN_TRANSIT"}, "AT_CENTRE"),
    receive  |-> Step({"IN_TRANSIT", "AT_CENTRE"}, "RECEIVED"),
    cancel   |-> Step({"PENDING"}, "CANCELLED") ]

Stages(rules) == UNION {rules[a].from \union {rules[a].to} : a \in DOMAIN rules}

Places == {"STORE", "MANUFACTURING_UNIT", "JOB_WORKER", "HALLMARKING_CENTER"}
Items == [status : Statuses, at : Places]
Origins == UNION {[S -> Places] : S \in SUBSET Pieces}   \* pieces, each with the location it came from
Verdicts == {"VERIFIED", "FAILED"}

ProductionDocs ==
  [status : Stages(ProductionRules), issued : Origins, returned : SUBSET Pieces, finished : SUBSET Pieces]

JobWorkDocs ==
  [status : Stages(JobWorkRules) \union {"RETURNED"}, issued : Origins,
   returned : SUBSET Pieces, finished : SUBSET Pieces, settled : Nat]

BatchDocs ==
  [status : Stages(HallmarkingRules), lines : Origins, outcome : UNION {[S -> Verdicts] : S \in SUBSET Pieces}]

Off == [task |-> "none"]

Tasks ==
  {Off}
  \union [task : {"cancel"}, doc : Productions, issued : Origins]
  \union [task : {"return"}, doc : JobOrders, back : SUBSET Pieces, made : Nat, settled : Nat, before : Nat, final : BOOLEAN]
  \union [task : {"verdict"}, doc : Batches, piece : Pieces]

TypeOK ==
  /\ item \in [Pieces -> Items \union {None}]
  /\ production \in [Productions -> ProductionDocs \union {None}]
  /\ jobwork \in [JobOrders -> JobWorkDocs \union {None}]
  /\ batch \in [Batches -> BatchDocs \union {None}]
  /\ desk \in [Workers -> Tasks]
  /\ lost \subseteq Pieces /\ blind \subseteq Productions /\ overlapped \subseteq JobOrders
  /\ byHand \subseteq Pieces /\ free \subseteq Pieces \X Statuses

Empty == [x \in {} |-> "STORE"]

(* A start has no piece with a job worker or at a centre, and material on  *)
(* the floor only for the one production order that has it out.            *)
StartOK(s) ==
  /\ s.item \in [Pieces -> Items \union {None}]
  /\ s.production \in [Productions -> ProductionDocs \union {None}]
  /\ s.jobwork \in [JobOrders -> JobWorkDocs \union {None}]
  /\ s.batch \in [Batches -> BatchDocs \union {None}]
  /\ s.free \subseteq Pieces \X Statuses
  /\ \A o \in Productions : s.production[o] # None =>
       /\ s.production[o].status = "DRAFT" => s.production[o].issued = Empty
       /\ s.production[o].status # "COMPLETED" => s.production[o].returned = {} /\ s.production[o].finished = {}
       /\ \A x \in s.production[o].finished : s.item[x] # None
  /\ \A j \in JobOrders : s.jobwork[j] # None =>
       s.jobwork[j].issued = Empty /\ s.jobwork[j].returned = {} /\ s.jobwork[j].finished = {} /\ s.jobwork[j].settled = 0
  /\ \A b \in Batches : s.batch[b] # None => s.batch[b].status \notin {"IN_TRANSIT", "AT_CENTRE"}
  /\ \A x \in Pieces :
       LET out == {o \in Productions : s.production[o] # None /\ s.production[o].status # "CANCELLED"
                                        /\ x \in DOMAIN s.production[o].issued \ s.production[o].returned} IN
         /\ \A o, p \in out : o = p
         /\ out = {} => s.item[x] = None \/ s.item[x].status # "IN_MANUFACTURING"
         /\ out # {} => s.item[x] # None /\ s.item[x].status = "IN_MANUFACTURING"
         /\ s.item[x] # None => s.item[x].status \notin {"WITH_JOB_WORKER", "HALLMARKING"}

ASSUME StartsAssumption == \A s \in Starts : StartOK(s)

ASSUME WorkshopAssumption ==
  /\ IsFiniteSet(Pieces) /\ MaxWaste \in Nat
  /\ None \notin Items \union ProductionDocs \union JobWorkDocs \union BatchDocs

Over(a, b) == [x \in (DOMAIN a) \union (DOMAIN b) |-> IF x \in DOMAIN a THEN a[x] ELSE b[x]]
Origin(S) == [x \in S |-> item[x].at]

(* The part of postInSession these documents use.                          *)
MayMove(m, x, to, place) ==
  /\ item[x] # None
  /\ <<item[x].status, to>> \in MovementRules[m].moves
  /\ place \in MovementRules[m].destination

SentOut(S, status, place) == [x \in S |-> [status |-> status, at |-> place]]
BroughtBack(S, origin) == [x \in S |-> [status |-> "AVAILABLE", at |-> origin[x]]]

Fresh == {x \in Pieces \ lost : item[x] = None}

(* Refs collects the pieces a return lists as made: those its transaction  *)
(* inserted, and those of an attempt that was rolled back, because the     *)
(* list is declared outside the function that is retried.                  *)
Refs(made, rolledBack) == made \union rolledBack

(* A return adds to what the order lists; a variant that overwrites it.    *)
Replaced(list, refs) == refs
Pushed(list, refs) == list \union refs

Attempts(n) ==
  UNION {{F} \X ({{}} \union kSubset(n, Fresh \ F)) : F \in kSubset(n, Fresh)}

Idle(w) == desk[w] = Off
Take(w, t) == Idle(w) /\ desk' = [desk EXCEPT ![w] = t] /\ UNCHANGED <<item, docs, history>>
Leave(w) == desk' = [desk EXCEPT ![w] = Off]

-----------------------------------------------------------------------------
(* Production orders                                                       *)

CreateProduction(o) ==
  /\ production[o] = None
  /\ production' = [production EXCEPT ![o] =
       [status |-> "DRAFT", issued |-> Empty, returned |-> {}, finished |-> {}]]
  /\ UNCHANGED <<item, jobwork, batch, desk, history>>

ProductionMay(o, a) == production[o] # None /\ production[o].status \in ProductionRules[a].from

MoveProduction(o, a) ==
  /\ ProductionMay(o, a)
  /\ production' = [production EXCEPT ![o].status = ProductionRules[a].to]
  /\ UNCHANGED <<item, jobwork, batch, desk, history>>

IssueMaterial(o, S) ==
  /\ ProductionMay(o, "issueMaterial")
  /\ \A x \in S : MayMove("MANUFACTURING_ISSUE", x, "IN_MANUFACTURING", "MANUFACTURING_UNIT")
  /\ production' = [production EXCEPT ![o].status = "MATERIAL_ISSUED", ![o].issued = Origin(S)]
  /\ item' = Over(SentOut(S, "IN_MANUFACTURING", "MANUFACTURING_UNIT"), item)
  /\ UNCHANGED <<jobwork, batch, desk, history>>

(* The finished pieces are inserted where the order was worked; the rest   *)
(* of the material goes back to where it came from.                        *)
CompleteProduction(o, S, n) ==
  /\ ProductionMay(o, "complete")
  /\ S \subseteq DOMAIN production[o].issued
  /\ \A x \in S : MayMove("MANUFACTURING_RECEIPT", x, "AVAILABLE", production[o].issued[x])
  /\ \E a \in Attempts(n) :
       LET F == a[1]  G == a[2] IN
         /\ production' = [production EXCEPT ![o] =
              [production[o] EXCEPT !.status = "COMPLETED", !.returned = S, !.finished = Refs(F, G)]]
         /\ item' = Over(SentOut(F, "AVAILABLE", "MANUFACTURING_UNIT"),
                         Over(BroughtBack(S, production[o].issued), item))
         /\ lost' = lost \union G
  /\ UNCHANGED <<jobwork, batch, desk, blind, overlapped, byHand, free>>

ReadForCancel(w, o) ==
  /\ production[o] # None
  /\ Take(w, [task |-> "cancel", doc |-> o, issued |-> production[o].issued])

(* What the copy lists and is still on the floor goes back. *)
CancelProduction(w) ==
  /\ desk[w].task = "cancel"
  /\ LET o == desk[w].doc
         held == {x \in DOMAIN desk[w].issued : item[x].status = "IN_MANUFACTURING"} IN
       /\ ProductionMay(o, "cancel")
       /\ \A x \in held : MayMove("MANUFACTURING_RECEIPT", x, "AVAILABLE", desk[w].issued[x])
       /\ production' = [production EXCEPT ![o].status = "CANCELLED"]
       /\ item' = Over(BroughtBack(held, desk[w].issued), item)
       /\ blind' = IF desk[w].issued = production[o].issued THEN blind ELSE blind \union {o}
  /\ Leave(w)
  /\ UNCHANGED <<jobwork, batch, lost, overlapped, byHand, free>>

-----------------------------------------------------------------------------
(* Job work orders                                                         *)

CreateJobWork(j) ==
  /\ jobwork[j] = None
  /\ jobwork' = [jobwork EXCEPT ![j] =
       [status |-> "DRAFT", issued |-> Empty, returned |-> {}, finished |-> {}, settled |-> 0]]
  /\ UNCHANGED <<item, production, batch, desk, history>>

JobWorkMay(j, a) == jobwork[j] # None /\ jobwork[j].status \in JobWorkRules[a].from

CancelJobWork(j) ==
  /\ JobWorkMay(j, "cancel")
  /\ jobwork' = [jobwork EXCEPT ![j].status = "CANCELLED"]
  /\ UNCHANGED <<item, production, batch, desk, history>>

IssueJobWork(j, S) ==
  /\ JobWorkMay(j, "issue")
  /\ \A x \in S : MayMove("JOBWORK_ISSUE", x, "WITH_JOB_WORKER", "JOB_WORKER")
  /\ jobwork' = [jobwork EXCEPT ![j].status = "ISSUED", ![j].issued = Origin(S)]
  /\ item' = Over(SentOut(S, "WITH_JOB_WORKER", "JOB_WORKER"), item)
  /\ UNCHANGED <<production, batch, desk, history>>

(* More cannot come back than was issued, counting what this copy has      *)
(* seen come back before.                                                  *)
Accounted(j, S, n, waste) == jobwork[j].settled + Cardinality(S) + n + waste
AcceptableAlone(j, S, n, waste) == Cardinality(S) + n + waste <= Cardinality(DOMAIN jobwork[j].issued)
Acceptable(j, S, n, waste) == Accounted(j, S, n, waste) <= Cardinality(DOMAIN jobwork[j].issued)

ReadForReturn(w, j, S, n, waste, final) ==
  /\ jobwork[j] # None
  /\ S \subseteq DOMAIN jobwork[j].issued \ jobwork[j].returned
  /\ final \/ S # {} \/ n + waste > 0
  /\ Acceptable(j, S, n, waste)
  /\ Take(w, [task |-> "return", doc |-> j, back |-> S, made |-> n, before |-> jobwork[j].settled,
              settled |-> Accounted(j, S, n, waste), final |-> final])

AfterReturn(doc, t, refs) ==
  [doc EXCEPT !.status = IF t.final THEN "RETURNED" ELSE "PARTIALLY_RETURNED",
              !.returned = Pushed(doc.returned, t.back),
              !.finished = Pushed(doc.finished, refs),
              !.settled = t.settled]

ReturnJobWork(w) ==
  /\ desk[w].task = "return"
  /\ LET t == desk[w]  j == t.doc  origin == jobwork[j].issued IN
       /\ JobWorkMay(j, "returnGoods")
       /\ \A x \in t.back : MayMove("JOBWORK_RECEIPT", x, "AVAILABLE", origin[x])
       /\ \E a \in Attempts(t.made) :
            LET F == a[1]  G == a[2] IN
              /\ jobwork' = [jobwork EXCEPT ![j] = AfterReturn(jobwork[j], t, Refs(F, G))]
              /\ item' = Over(SentOut(F, "AVAILABLE", "JOB_WORKER"), Over(BroughtBack(t.back, origin), item))
              /\ lost' = lost \union G
       /\ overlapped' = IF t.before = jobwork[j].settled THEN overlapped ELSE overlapped \union {j}
  /\ Leave(w)
  /\ UNCHANGED <<production, batch, blind, byHand, free>>

-----------------------------------------------------------------------------
(* Hallmarking batches                                                     *)

(* The pieces are only named: until the batch leaves they stay on the      *)
(* shelf, and another batch may name them too.                             *)
CreateBatch(b, S) ==
  /\ batch[b] = None
  /\ \A x \in S : item[x] # None /\ item[x].status = "AVAILABLE"
  /\ batch' = [batch EXCEPT ![b] = [status |-> "PENDING", lines |-> Origin(S), outcome |-> <<>>]]
  /\ UNCHANGED <<item, production, jobwork, desk, history>>

BatchMay(b, a) == batch[b] # None /\ batch[b].status \in HallmarkingRules[a].from

MoveBatch(b, a) ==
  /\ BatchMay(b, a)
  /\ batch' = [batch EXCEPT ![b].status = HallmarkingRules[a].to]
  /\ UNCHANGED <<item, production, jobwork, desk, history>>

(* A variant that trusts what the batch was created from. *)
DispatchNamed(b) ==
  /\ BatchMay(b, "dispatch")
  /\ item' = Over(SentOut(DOMAIN batch[b].lines, "HALLMARKING", "HALLMARKING_CENTER"), item)
  /\ batch' = [batch EXCEPT ![b].status = "IN_TRANSIT"]
  /\ UNCHANGED <<production, jobwork, desk, history>>

Dispatch(b) ==
  /\ BatchMay(b, "dispatch")
  /\ LET S == DOMAIN batch[b].lines IN
       /\ \A x \in S : MayMove("HALLMARKING_OUT", x, "HALLMARKING", "HALLMARKING_CENTER")
       /\ item' = Over(SentOut(S, "HALLMARKING", "HALLMARKING_CENTER"), item)
  /\ batch' = [batch EXCEPT ![b].status = "IN_TRANSIT"]
  /\ UNCHANGED <<production, jobwork, desk, history>>

(* The whole batch comes back at once, each piece to where it came from. *)
Receive(b) ==
  /\ BatchMay(b, "receive")
  /\ LET S == DOMAIN batch[b].lines IN
       /\ \A x \in S : MayMove("HALLMARKING_IN", x, "AVAILABLE", batch[b].lines[x])
       /\ item' = Over(BroughtBack(S, batch[b].lines), item)
  /\ batch' = [batch EXCEPT ![b].status = "RECEIVED"]
  /\ UNCHANGED <<production, jobwork, desk, history>>

ReadForVerdict(w, b, x) ==
  /\ batch[b] # None /\ batch[b].status = "RECEIVED"
  /\ x \in DOMAIN batch[b].lines \ DOMAIN batch[b].outcome
  /\ Take(w, [task |-> "verdict", doc |-> b, piece |-> x])

(* The write asks for nothing but that the batch still has the line. *)
Judge(w, verdict) ==
  /\ desk[w].task = "verdict"
  /\ batch' = [batch EXCEPT ![desk[w].doc].outcome = Over([x \in {desk[w].piece} |-> verdict], @)]
  /\ Leave(w)
  /\ UNCHANGED <<item, production, jobwork, history>>

-----------------------------------------------------------------------------
(* A worker whose request is refused, or dies, before it writes. *)
GiveUp(w) == ~Idle(w) /\ Leave(w) /\ UNCHANGED <<item, docs, history>>

(* A piece on a shelf may be sold in the meantime. *)
Sell(x) ==
  /\ MayMove("SALE", x, "SOLD", "STORE")
  /\ item' = [item EXCEPT ![x].status = "SOLD"]
  /\ UNCHANGED <<docs, desk, history>>

(* movePartner: staff post the movement themselves, and no document is     *)
(* asked.  A piece may go to the partner and come back to any location.    *)
PartnerMovements ==
  {"MANUFACTURING_ISSUE", "MANUFACTURING_RECEIPT", "JOBWORK_ISSUE", "JOBWORK_RECEIPT", "HALLMARKING_OUT", "HALLMARKING_IN"}

MovePartner(x, m, to, place) ==
  /\ <<x, to>> \in free
  /\ MayMove(m, x, to, place)
  /\ item' = [item EXCEPT ![x] = [status |-> to, at |-> place]]
  /\ byHand' = byHand \union {x}
  /\ UNCHANGED <<docs, desk, lost, blind, overlapped, free>>

(* An approved adjustment: any legal change of status, where the piece is.  *)
Correct(x, to) ==
  /\ <<x, to>> \in free
  /\ item[x] # None /\ Legal(item[x].status, to)
  /\ item' = [item EXCEPT ![x].status = to]
  /\ byHand' = byHand \union {x}
  /\ UNCHANGED <<docs, desk, lost, blind, overlapped, free>>

Init ==
  /\ \E s \in Starts : item = s.item /\ production = s.production /\ jobwork = s.jobwork /\ batch = s.batch
                       /\ free = s.free
  /\ desk = [w \in Workers |-> Off]
  /\ lost = {} /\ blind = {} /\ overlapped = {} /\ byHand = {}

Producing ==
  \E o \in Productions :
    \/ CreateProduction(o)
    \/ \E a \in {"startManufacturing", "submitForQc", "passQc", "failQc", "rework"} : MoveProduction(o, a)
    \/ \E S \in (SUBSET Pieces) \ {{}} : IssueMaterial(o, S)
    \/ \E S \in SUBSET Pieces, n \in 1..Cardinality(Pieces) : CompleteProduction(o, S, n)
    \/ \E w \in Workers : ReadForCancel(w, o)

JobWorking ==
  \E j \in JobOrders :
    \/ CreateJobWork(j)
    \/ CancelJobWork(j)
    \/ \E S \in (SUBSET Pieces) \ {{}} : IssueJobWork(j, S)
    \/ \E w \in Workers, S \in SUBSET Pieces, n \in 0..Cardinality(Pieces), waste \in 0..MaxWaste, final \in BOOLEAN :
         ReadForReturn(w, j, S, n, waste, final)

Hallmarking ==
  \E b \in Batches :
    \/ \E S \in (SUBSET Pieces) \ {{}} : CreateBatch(b, S)
    \/ \E a \in {"arrive", "cancel"} : MoveBatch(b, a)
    \/ Dispatch(b)
    \/ Receive(b)
    \/ \E w \in Workers, x \in Pieces : ReadForVerdict(w, b, x)

Writing == \E w \in Workers : CancelProduction(w) \/ ReturnJobWork(w) \/ (\E v \in Verdicts : Judge(w, v)) \/ GiveUp(w)

Shelf ==
  \E x \in Pieces :
    \/ Sell(x)
    \/ \E to \in Statuses : Correct(x, to)
    \/ \E m \in PartnerMovements, to \in Statuses, place \in Places : MovePartner(x, m, to, place)

Next == Producing \/ JobWorking \/ Hallmarking \/ Writing \/ Shelf

Spec == Init /\ [][Next]_vars

-----------------------------------------------------------------------------
(* Properties                                                              *)

Out(doc) == DOMAIN doc.issued \ doc.returned
IsIn(x, status) == item[x] # None /\ item[x].status = status

OnFloorFor(x) ==
  {o \in Productions : production[o] # None /\ x \in Out(production[o])
                       /\ (production[o].status = "CANCELLED" => o \in blind)}
AtWorkerFor(x) == {j \in JobOrders : jobwork[j] # None /\ x \in Out(jobwork[j])}
AtCentreFor(x) == {b \in Batches : batch[b] # None /\ batch[b].status \in {"IN_TRANSIT", "AT_CENTRE"}
                                   /\ x \in DOMAIN batch[b].lines}

(* Two returns on one copy both bring the material back, the second one    *)
(* even from another order it was issued to in between: nothing asks which *)
(* order a piece with a job worker is out for.                             *)
Astray == {x \in Pieces : \E j \in overlapped : x \in DOMAIN jobwork[j].issued}

(* A piece the stock shows as away is away for exactly one document, and   *)
(* every piece a document has out is shown so.  Material used up in a      *)
(* finished piece stays away.  A production order cancelled on a copy read *)
(* before its material was issued leaves that material on the floor.  Only *)
(* of a piece that staff moved by hand do the documents know nothing.      *)
AwayForOneDocument ==
  \A x \in Pieces \ byHand :
    /\ Cardinality(OnFloorFor(x)) = IF IsIn(x, "IN_MANUFACTURING") THEN 1 ELSE 0
    /\ x \notin Astray => Cardinality(AtWorkerFor(x)) = IF IsIn(x, "WITH_JOB_WORKER") THEN 1 ELSE 0
    /\ Cardinality(AtCentreFor(x)) = IF IsIn(x, "HALLMARKING") THEN 1 ELSE 0

Made == {x \in Pieces : item[x] # None} \ UNION {{x \in Pieces : s.item[x] # None} : s \in Starts}
ListedBy(x) == {o \in Productions : production[o] # None /\ x \in production[o].finished}
               \union {j \in JobOrders : jobwork[j] # None /\ x \in jobwork[j].finished}

(* Every piece that was made is listed by the one order that made it, and  *)
(* a list names a piece that does not exist only when the transaction that *)
(* wrote it had to be run again.                                           *)
MadePiecesAreListed ==
  /\ \A x \in Made : Cardinality(ListedBy(x)) = 1
  /\ \A x \in Pieces : item[x] = None /\ ListedBy(x) # {} => x \in lost

(* No more comes back from a job worker than was sent, and the totals on   *)
(* the order cover it, unless two returns were computed on one copy.       *)
JobWorkWithinIssued ==
  \A j \in JobOrders \ overlapped :
    jobwork[j] # None =>
      /\ Cardinality(jobwork[j].returned) + Cardinality(jobwork[j].finished \ lost) <= jobwork[j].settled
      /\ jobwork[j].settled <= Cardinality(DOMAIN jobwork[j].issued)

(* Said of the code, and not kept by it (see the README):                  *)
(* Whatever is out with a document that may still bring it back came from  *)
(* a location it may be brought back to.                                   *)
PathBackToStock ==
  /\ \A o \in Productions : production[o] # None =>
       \A x \in DOMAIN production[o].issued : production[o].issued[x] \in Stock
  /\ \A j \in JobOrders : jobwork[j] # None => \A x \in DOMAIN jobwork[j].issued : jobwork[j].issued[x] \in Stock
  /\ \A b \in Batches : batch[b] # None /\ batch[b].status \in {"IN_TRANSIT", "AT_CENTRE"} =>
       \A x \in DOMAIN batch[b].lines : batch[b].lines[x] \in Stock

(* business-rules.md 16.3: a batch is received whole, "since nothing else  *)
(* would move the omitted pieces out of HALLMARKING".  A movement posted   *)
(* by hand does, and then the batch can never be received.                 *)
OnlyReceiptEndsHallmarking ==
  \A b \in Batches : batch[b] # None /\ batch[b].status \in {"IN_TRANSIT", "AT_CENTRE"} =>
    \A x \in DOMAIN batch[b].lines : IsIn(x, "HALLMARKING")
=============================================================================
