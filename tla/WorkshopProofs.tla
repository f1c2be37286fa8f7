--------------------------- MODULE WorkshopProofs ---------------------------
(* Proofs about Workshop: for any number of pieces, documents and workers,  *)
(* a piece the documents move is away for one of them, a piece made is      *)
(* listed by the order that made it, and a job worker accounts for no more  *)
(* than was issued.                                                         *)
EXTENDS Workshop, TLAPS, FiniteSetTheorems

-----------------------------------------------------------------------------
(* The tables.                                                              *)

LEMMA Moves ==
  ASSUME NEW x, NEW place
  PROVE  /\ MayMove("MANUFACTURING_ISSUE", x, "IN_MANUFACTURING", place) => item[x] # None /\ item[x].status = "AVAILABLE"
         /\ MayMove("MANUFACTURING_RECEIPT", x, "AVAILABLE", place) => item[x] # None /\ item[x].status = "IN_MANUFACTURING"
         /\ MayMove("JOBWORK_ISSUE", x, "WITH_JOB_WORKER", place) => item[x] # None /\ item[x].status = "AVAILABLE"
         /\ MayMove("JOBWORK_RECEIPT", x, "AVAILABLE", place) => item[x] # None /\ item[x].status = "WITH_JOB_WORKER"
         /\ MayMove("HALLMARKING_OUT", x, "HALLMARKING", place) => item[x] # None /\ item[x].status = "AVAILABLE"
         /\ MayMove("HALLMARKING_IN", x, "AVAILABLE", place) => item[x] # None /\ item[x].status = "HALLMARKING"
         /\ MayMove("SALE", x, "SOLD", place) => item[x] # None /\ item[x].status \in {"AVAILABLE", "RESERVED"}
BY DEF MayMove, MovementRules, Rule

LEMMA StatusesAre ==
  Statuses = {"AVAILABLE", "RESERVED", "SOLD", "RETURNED", "DAMAGED", "UNDER_REPAIR", "IN_MANUFACTURING",
              "WITH_JOB_WORKER", "IN_TRANSIT", "HALLMARKING", "SCRAP", "MELTING", "RETURNED_TO_CUSTOMER"}
BY DEF Statuses, LegalTransitions

LEMMA ProductionStagesAre ==
  Stages(ProductionRules) = {"DRAFT", "MATERIAL_ISSUED", "IN_PROGRESS", "QC_PENDING", "QC_PASSED", "QC_FAILED",
                             "COMPLETED", "CANCELLED"}
BY DEF Stages, ProductionRules, Step

LEMMA ProductionFrom ==
  ASSUME NEW o
  PROVE  /\ ProductionMay(o, "issueMaterial") => production[o] # None /\ production[o].status = "DRAFT"
         /\ ProductionMay(o, "complete") => production[o] # None /\ production[o].status = "QC_PASSED"
         /\ ProductionMay(o, "cancel") => /\ production[o] # None
                                          /\ production[o].status \in {"DRAFT", "MATERIAL_ISSUED", "IN_PROGRESS", "QC_FAILED"}
         /\ \A a \in {"startManufacturing", "submitForQc", "passQc", "failQc", "rework"} :
              ProductionMay(o, a) => /\ production[o] # None
                                     /\ production[o].status \notin {"DRAFT", "COMPLETED", "CANCELLED"}
                                     /\ ProductionRules[a].to \in {"IN_PROGRESS", "QC_PENDING", "QC_PASSED", "QC_FAILED"}
BY DEF ProductionMay, ProductionRules, Step

LEMMA JobWorkStagesAre ==
  Stages(JobWorkRules) = {"DRAFT", "ISSUED", "PARTIALLY_RETURNED", "CANCELLED"}
BY DEF Stages, JobWorkRules, Step

LEMMA JobWorkFrom ==
  ASSUME NEW j
  PROVE  /\ JobWorkMay(j, "issue") => jobwork[j] # None /\ jobwork[j].status = "DRAFT"
         /\ JobWorkMay(j, "cancel") => jobwork[j] # None /\ jobwork[j].status = "DRAFT"
         /\ JobWorkMay(j, "returnGoods") => jobwork[j] # None /\ jobwork[j].status \in {"ISSUED", "PARTIALLY_RETURNED"}
BY DEF JobWorkMay, JobWorkRules, Step

LEMMA BatchStagesAre ==
  Stages(HallmarkingRules) = {"PENDING", "IN_TRANSIT", "AT_CENTRE", "RECEIVED", "CANCELLED"}
BY DEF Stages, HallmarkingRules, Step

LEMMA BatchFrom ==
  ASSUME NEW b
  PROVE  /\ BatchMay(b, "dispatch") => batch[b] # None /\ batch[b].status = "PENDING"
         /\ BatchMay(b, "receive") => batch[b] # None /\ batch[b].status \in {"IN_TRANSIT", "AT_CENTRE"}
         /\ BatchMay(b, "arrive") => /\ batch[b] # None /\ batch[b].status = "IN_TRANSIT"
                                     /\ HallmarkingRules["arrive"].to = "AT_CENTRE"
         /\ BatchMay(b, "cancel") => /\ batch[b] # None /\ batch[b].status = "PENDING"
                                     /\ HallmarkingRules["cancel"].to = "CANCELLED"
BY DEF BatchMay, HallmarkingRules, Step

-----------------------------------------------------------------------------
(* What a write to the stock does to one piece.                             *)

LEMMA OriginType ==
  ASSUME item \in [Pieces -> Items \union {None}], NEW S \in SUBSET Pieces, \A x \in S : item[x] # None
  PROVE  Origin(S) \in Origins /\ DOMAIN Origin(S) = S
<1>1. \A x \in S : item[x].at \in Places
  BY DEF Items
<1>2. Origin(S) \in [S -> Places]
  BY <1>1 DEF Origin
<1> QED BY <1>2 DEF Origins

LEMMA OriginDomain ==
  ASSUME NEW f \in Origins
  PROVE  /\ DOMAIN f \in SUBSET Pieces
         /\ \A x \in DOMAIN f : f[x] \in Places
BY DEF Origins

LEMMA EmptyType == Empty \in Origins /\ DOMAIN Empty = {}
<1>1. Empty \in [{} -> Places]
  BY DEF Empty
<1> QED BY <1>1 DEF Origins, Empty

LEMMA SentOutItems ==
  ASSUME NEW old \in [Pieces -> Items \union {None}], NEW S \in SUBSET Pieces, NEW s \in Statuses, NEW p \in Places
  PROVE  /\ Over(SentOut(S, s, p), old) \in [Pieces -> Items \union {None}]
         /\ \A x \in S : Over(SentOut(S, s, p), old)[x] = [status |-> s, at |-> p]
         /\ \A x \in Pieces \ S : Over(SentOut(S, s, p), old)[x] = old[x]
<1>1. [status |-> s, at |-> p] \in Items
  BY DEF Items
<1>2. DOMAIN SentOut(S, s, p) = S /\ DOMAIN old = Pieces /\ \A x \in S : SentOut(S, s, p)[x] = [status |-> s, at |-> p]
  BY DEF SentOut
<1>3. Over(SentOut(S, s, p), old) = [x \in Pieces |-> IF x \in S THEN [status |-> s, at |-> p] ELSE old[x]]
  BY <1>2 DEF Over
<1> QED BY <1>1, <1>3

LEMMA MadeAndReturned ==
  ASSUME NEW old \in [Pieces -> Items \union {None}], NEW F \in SUBSET Pieces, NEW S \in SUBSET Pieces,
         NEW f, \A x \in S : f[x] \in Places, NEW p \in Places, NEW new,
         new = Over(SentOut(F, "AVAILABLE", p), Over(BroughtBack(S, f), old))
  PROVE  /\ new \in [Pieces -> Items \union {None}]
         /\ \A x \in F \union S : new[x] # None /\ new[x].status = "AVAILABLE"
         /\ \A x \in Pieces \ (F \union S) : new[x] = old[x]
<1> DEFINE made == [status |-> "AVAILABLE", at |-> p]
           back(x) == [status |-> "AVAILABLE", at |-> f[x]]
           mid == [x \in Pieces |-> IF x \in S THEN back(x) ELSE old[x]]
<1>1. Over(BroughtBack(S, f), old) = mid
  <2>1. DOMAIN BroughtBack(S, f) = S /\ DOMAIN old = Pieces /\ \A x \in S : BroughtBack(S, f)[x] = back(x)
    BY DEF BroughtBack
  <2> QED BY <2>1 DEF Over
<1>2. new = [x \in Pieces |-> IF x \in F THEN made ELSE mid[x]]
  <2>1. DOMAIN SentOut(F, "AVAILABLE", p) = F /\ DOMAIN mid = Pieces /\ \A x \in F : SentOut(F, "AVAILABLE", p)[x] = made
    BY DEF SentOut
  <2>2. new = Over(SentOut(F, "AVAILABLE", p), mid)
    BY <1>1
  <2> HIDE DEF mid, made
  <2> QED BY <2>1, <2>2 DEF Over
<1>3. made \in Items /\ made.status = "AVAILABLE"
  BY StatusesAre DEF Items
<1>4. \A x \in S : back(x) \in Items /\ back(x).status = "AVAILABLE"
  BY StatusesAre DEF Items
<1>5. None \notin Items
  BY WorkshopAssumption
<1> HIDE DEF made, back
<1> QED BY <1>2, <1>3, <1>4, <1>5

LEMMA BackHome ==
  ASSUME NEW old \in [Pieces -> Items \union {None}], NEW S \in SUBSET Pieces, NEW f, \A x \in S : f[x] \in Places,
         NEW new, new = Over(BroughtBack(S, f), old)
  PROVE  /\ new \in [Pieces -> Items \union {None}]
         /\ \A x \in S : new[x] # None /\ new[x].status = "AVAILABLE"
         /\ \A x \in Pieces \ S : new[x] = old[x]
<1> DEFINE back(x) == [status |-> "AVAILABLE", at |-> f[x]]
<1>1. new = [x \in Pieces |-> IF x \in S THEN back(x) ELSE old[x]]
  <2>1. DOMAIN BroughtBack(S, f) = S /\ DOMAIN old = Pieces /\ \A x \in S : BroughtBack(S, f)[x] = back(x)
    BY DEF BroughtBack
  <2> QED BY <2>1 DEF Over
<1>2. \A x \in S : back(x) \in Items /\ back(x).status = "AVAILABLE"
  BY StatusesAre DEF Items
<1>3. None \notin Items
  BY WorkshopAssumption
<1> HIDE DEF back
<1> QED BY <1>1, <1>2, <1>3

LEMMA AttemptsAre ==
  ASSUME NEW n, NEW a \in Attempts(n)
  PROVE  /\ a[1] \subseteq Fresh /\ a[2] \subseteq Fresh \ a[1]
         /\ a[1] \in kSubset(n, Fresh)
<1>1. PICK F \in kSubset(n, Fresh) : a \in {F} \X ({{}} \union kSubset(n, Fresh \ F))
  BY DEF Attempts
<1> QED BY <1>1 DEF kSubset

(* Staff aside, the pieces whose stock status is s are the same after the   *)
(* step.                                                                    *)
Same(s) == \A x \in Pieces : x \notin byHand' => IsIn(x, s)' = IsIn(x, s)

LEMMA Exists ==
  ASSUME item \in [Pieces -> Items \union {None}], NEW x \in Pieces
  PROVE  item[x] # None <=> item[x] \in Items
BY WorkshopAssumption

-----------------------------------------------------------------------------
(* Types                                                                    *)

LEMMA TaskTypes ==
  ASSUME TypeOK, NEW w \in Workers
  PROVE  /\ desk[w].task = "cancel" => desk[w].doc \in Productions /\ desk[w].issued \in Origins
         /\ desk[w].task = "return" => /\ desk[w].doc \in JobOrders /\ desk[w].back \subseteq Pieces
                                       /\ desk[w].made \in Nat /\ desk[w].settled \in Nat /\ desk[w].before \in Nat
                                       /\ desk[w].final \in BOOLEAN
         /\ desk[w].task = "verdict" => desk[w].doc \in Batches /\ desk[w].piece \in Pieces
<1>1. desk[w] \in Tasks
  BY DEF TypeOK
<1>2. CASE desk[w] = Off
  BY <1>2 DEF Off
<1>3. CASE desk[w] \in [task : {"cancel"}, doc : Productions, issued : Origins]
  BY <1>3
<1>4. CASE desk[w] \in [task : {"return"}, doc : JobOrders, back : SUBSET Pieces, made : Nat, settled : Nat,
                        before : Nat, final : BOOLEAN]
  BY <1>4
<1>5. CASE desk[w] \in [task : {"verdict"}, doc : Batches, piece : Pieces]
  BY <1>5
<1> QED BY <1>1, <1>2, <1>3, <1>4, <1>5 DEF Tasks

LEMMA OffTask == Off \in Tasks
BY DEF Tasks

LEMMA ProductionTypes ==
  ASSUME TypeOK, NEW o \in Productions, production[o] # None
  PROVE  /\ production[o] \in ProductionDocs
         /\ \A s \in Stages(ProductionRules) : [production[o] EXCEPT !.status = s] \in ProductionDocs
         /\ \A f \in Origins : [production[o] EXCEPT !.issued = f] \in ProductionDocs
         /\ \A S \in SUBSET Pieces : [production[o] EXCEPT !.returned = S] \in ProductionDocs
         /\ \A S \in SUBSET Pieces : [production[o] EXCEPT !.finished = S] \in ProductionDocs
BY DEF TypeOK, ProductionDocs

(* A production order exists once made, and what a step writes to it.       *)
LEMMA ProductionMoved ==
  ASSUME TypeOK, NEW o \in Productions, production[o] # None, NEW s \in Stages(ProductionRules),
         production' = [production EXCEPT ![o].status = s]
  PROVE  /\ production' \in [Productions -> ProductionDocs \union {None}]
         /\ production'[o] # None /\ production'[o].status = s
         /\ production'[o].issued = production[o].issued /\ production'[o].returned = production[o].returned
         /\ production'[o].finished = production[o].finished
         /\ \A p \in Productions \ {o} : production'[p] = production[p]
<1>1. production'[o] = [production[o] EXCEPT !.status = s] /\ production'[o] \in ProductionDocs
  BY ProductionTypes DEF TypeOK
<1>2. production[o] \in ProductionDocs
  BY ProductionTypes
<1>3. /\ production'[o].status = s /\ production'[o].issued = production[o].issued
      /\ production'[o].returned = production[o].returned /\ production'[o].finished = production[o].finished
  BY <1>1, <1>2 DEF ProductionDocs
<1>4. /\ production' \in [Productions -> ProductionDocs \union {None}]
      /\ \A p \in Productions \ {o} : production'[p] = production[p]
  BY <1>1 DEF TypeOK
<1> QED BY <1>1, <1>3, <1>4, WorkshopAssumption

LEMMA MaterialIssued ==
  ASSUME TypeOK, NEW o \in Productions, NEW S \in SUBSET Pieces, IssueMaterial(o, S)
  PROVE  /\ production' \in [Productions -> ProductionDocs \union {None}]
         /\ production'[o] # None /\ production'[o].status = "MATERIAL_ISSUED"
         /\ production'[o].issued = Origin(S) /\ DOMAIN Origin(S) = S
         /\ production'[o].returned = production[o].returned /\ production'[o].finished = production[o].finished
         /\ \A p \in Productions \ {o} : production'[p] = production[p]
<1>1. production[o] # None /\ \A x \in S : item[x] # None
  BY ProductionFrom, Moves DEF IssueMaterial
<1>2. Origin(S) \in Origins /\ DOMAIN Origin(S) = S
  BY <1>1, OriginType DEF TypeOK
<1>3. production[o] \in ProductionDocs /\ [production[o] EXCEPT !.status = "MATERIAL_ISSUED"] \in ProductionDocs
  BY <1>1, ProductionTypes, ProductionStagesAre
<1> DEFINE d == [[production[o] EXCEPT !.status = "MATERIAL_ISSUED"] EXCEPT !.issued = Origin(S)]
<1>4. d \in ProductionDocs
  BY <1>2, <1>3 DEF ProductionDocs
<1>5. d.status = "MATERIAL_ISSUED" /\ d.issued = Origin(S) /\ d.returned = production[o].returned
      /\ d.finished = production[o].finished
  BY <1>3 DEF ProductionDocs
<1>6. production' = [production EXCEPT ![o] = d]
  BY DEF IssueMaterial
<1> HIDE DEF d
<1> QED BY <1>2, <1>4, <1>5, <1>6, WorkshopAssumption DEF TypeOK

LEMMA ProductionFinished ==
  ASSUME TypeOK, NEW o \in Productions, production[o] # None, NEW S \in SUBSET Pieces, NEW T \in SUBSET Pieces,
         NEW d, d = [production[o] EXCEPT !.status = "COMPLETED", !.returned = S, !.finished = T],
         production' = [production EXCEPT ![o] = d]
  PROVE  /\ production' \in [Productions -> ProductionDocs \union {None}]
         /\ production'[o] # None /\ production'[o].status = "COMPLETED" /\ production'[o].issued = production[o].issued
         /\ production'[o].returned = S /\ production'[o].finished = T
         /\ \A p \in Productions \ {o} : production'[p] = production[p]
<1>1. production[o] \in ProductionDocs
  BY ProductionTypes
<1>2. d = [status |-> "COMPLETED", issued |-> production[o].issued, returned |-> S, finished |-> T]
  BY <1>1 DEF ProductionDocs
<1>3. production[o].issued \in Origins
  BY <1>1 DEF ProductionDocs
<1>4. d \in ProductionDocs /\ d.status = "COMPLETED" /\ d.issued = production[o].issued /\ d.returned = S /\ d.finished = T
  BY <1>2, <1>3, ProductionStagesAre DEF ProductionDocs
<1>5. production'[o] = d /\ \A p \in Productions \ {o} : production'[p] = production[p]
  BY DEF TypeOK
<1>6. production' \in [Productions -> ProductionDocs \union {None}]
  BY <1>4 DEF TypeOK
<1> QED BY <1>4, <1>5, <1>6, WorkshopAssumption

LEMMA JobWorkTypes ==
  ASSUME TypeOK, NEW j \in JobOrders, jobwork[j] # None
  PROVE  jobwork[j] \in JobWorkDocs /\ [jobwork[j] EXCEPT !.status = "CANCELLED"] \in JobWorkDocs
BY JobWorkStagesAre DEF TypeOK, JobWorkDocs

LEMMA JobWorkCancelled ==
  ASSUME TypeOK, NEW j \in JobOrders, CancelJobWork(j)
  PROVE  /\ jobwork[j] # None /\ jobwork' \in [JobOrders -> JobWorkDocs \union {None}]
         /\ jobwork'[j] # None /\ jobwork'[j].status = "CANCELLED" /\ jobwork'[j].issued = jobwork[j].issued
         /\ jobwork'[j].returned = jobwork[j].returned /\ jobwork'[j].finished = jobwork[j].finished
         /\ jobwork'[j].settled = jobwork[j].settled
         /\ \A k \in JobOrders \ {j} : jobwork'[k] = jobwork[k]
<1>1. jobwork[j] # None /\ jobwork'[j] = [jobwork[j] EXCEPT !.status = "CANCELLED"]
  BY JobWorkFrom DEF CancelJobWork, TypeOK
<1> QED BY <1>1, JobWorkTypes, WorkshopAssumption DEF CancelJobWork, TypeOK, JobWorkDocs

LEMMA JobWorkIssued ==
  ASSUME TypeOK, NEW j \in JobOrders, NEW S \in SUBSET Pieces, IssueJobWork(j, S)
  PROVE  /\ jobwork[j] # None /\ jobwork' \in [JobOrders -> JobWorkDocs \union {None}]
         /\ jobwork'[j] # None /\ jobwork'[j].status = "ISSUED" /\ jobwork'[j].issued = Origin(S) /\ DOMAIN Origin(S) = S
         /\ jobwork'[j].returned = jobwork[j].returned /\ jobwork'[j].finished = jobwork[j].finished
         /\ jobwork'[j].settled = jobwork[j].settled
         /\ \A k \in JobOrders \ {j} : jobwork'[k] = jobwork[k]
<1>1. jobwork[j] # None /\ \A x \in S : item[x] # None
  BY JobWorkFrom, Moves DEF IssueJobWork
<1>2. Origin(S) \in Origins /\ DOMAIN Origin(S) = S
  BY <1>1, OriginType DEF TypeOK
<1>3. jobwork[j] \in JobWorkDocs /\ [jobwork[j] EXCEPT !.status = "ISSUED"] \in JobWorkDocs
  BY <1>1, JobWorkStagesAre DEF TypeOK, JobWorkDocs
<1> DEFINE d == [[jobwork[j] EXCEPT !.status = "ISSUED"] EXCEPT !.issued = Origin(S)]
<1>4. d \in JobWorkDocs
  BY <1>2, <1>3 DEF JobWorkDocs
<1>5. d.status = "ISSUED" /\ d.issued = Origin(S) /\ d.returned = jobwork[j].returned
      /\ d.finished = jobwork[j].finished /\ d.settled = jobwork[j].settled
  BY <1>3 DEF JobWorkDocs
<1>6. jobwork' = [jobwork EXCEPT ![j] = d]
  BY DEF IssueJobWork
<1> HIDE DEF d
<1> QED BY <1>1, <1>2, <1>4, <1>5, <1>6, WorkshopAssumption DEF TypeOK

LEMMA ReturnWritten ==
  ASSUME NEW doc \in JobWorkDocs, NEW t, t.back \in SUBSET Pieces, t.settled \in Nat, NEW refs \in SUBSET Pieces
  PROVE  /\ AfterReturn(doc, t, refs) \in JobWorkDocs
         /\ AfterReturn(doc, t, refs).status = IF t.final THEN "RETURNED" ELSE "PARTIALLY_RETURNED"
         /\ AfterReturn(doc, t, refs).issued = doc.issued
         /\ AfterReturn(doc, t, refs).returned = doc.returned \union t.back
         /\ AfterReturn(doc, t, refs).finished = doc.finished \union refs
         /\ AfterReturn(doc, t, refs).settled = t.settled
<1> DEFINE s == IF t.final THEN "RETURNED" ELSE "PARTIALLY_RETURNED"
           S == Pushed(doc.returned, t.back)
           T == Pushed(doc.finished, refs)
           a == [doc EXCEPT !.status = s]
           b == [a EXCEPT !.returned = S]
           c == [b EXCEPT !.finished = T]
           d == [c EXCEPT !.settled = t.settled]
<1>1. AfterReturn(doc, t, refs) = d
  BY Zenon DEF AfterReturn
<1>2. s \in Stages(JobWorkRules) \union {"RETURNED"}
  BY JobWorkStagesAre
<1>3. S = doc.returned \union t.back /\ T = doc.finished \union refs
      /\ S \in SUBSET Pieces /\ T \in SUBSET Pieces
  BY DEF Pushed, JobWorkDocs
<1> HIDE DEF s, S, T
<1>4. a \in JobWorkDocs /\ a.status = s /\ a.issued = doc.issued
  BY <1>2 DEF JobWorkDocs
<1> HIDE DEF a
<1>5. b \in JobWorkDocs /\ b.status = s /\ b.issued = doc.issued /\ b.returned = S
  BY <1>3, <1>4 DEF JobWorkDocs
<1> HIDE DEF b
<1>6. c \in JobWorkDocs /\ c.status = s /\ c.issued = doc.issued /\ c.returned = S /\ c.finished = T
  BY <1>3, <1>5 DEF JobWorkDocs
<1> HIDE DEF c
<1>7. d \in JobWorkDocs /\ d.status = s /\ d.issued = doc.issued /\ d.returned = S /\ d.finished = T /\ d.settled = t.settled
  BY <1>6 DEF JobWorkDocs
<1> HIDE DEF d
<1> QED BY <1>1, <1>3, <1>7 DEF s

LEMMA BatchMoved ==
  ASSUME TypeOK, NEW b \in Batches, batch[b] # None, NEW s \in Stages(HallmarkingRules),
         batch' = [batch EXCEPT ![b].status = s]
  PROVE  /\ batch' \in [Batches -> BatchDocs \union {None}]
         /\ batch'[b] # None /\ batch'[b].status = s /\ batch'[b].lines = batch[b].lines
         /\ \A c \in Batches \ {b} : batch'[c] = batch[c]
<1>1. batch[b] \in BatchDocs /\ batch'[b] = [batch[b] EXCEPT !.status = s]
  BY DEF TypeOK
<1>2. batch'[b] \in BatchDocs
  BY <1>1 DEF BatchDocs
<1> QED BY <1>1, <1>2, WorkshopAssumption DEF TypeOK, BatchDocs

LEMMA BatchCreated ==
  ASSUME TypeOK, NEW b \in Batches, NEW S \in SUBSET Pieces, CreateBatch(b, S)
  PROVE  /\ batch' \in [Batches -> BatchDocs \union {None}]
         /\ batch[b] = None /\ batch'[b] # None /\ batch'[b].status = "PENDING"
         /\ \A c \in Batches \ {b} : batch'[c] = batch[c]
<1>1. Origin(S) \in Origins
  BY OriginType DEF CreateBatch, TypeOK
<1>2. <<>> \in [{} -> Verdicts]
  OBVIOUS
<1>3. [status |-> "PENDING", lines |-> Origin(S), outcome |-> <<>>] \in BatchDocs
  BY <1>1, <1>2, BatchStagesAre DEF BatchDocs
<1> QED BY <1>3, WorkshopAssumption DEF CreateBatch, TypeOK

LEMMA BatchJudged ==
  ASSUME TypeOK, NEW w \in Workers, NEW v \in Verdicts, Judge(w, v), batch[desk[w].doc] # None
  PROVE  /\ desk[w].doc \in Batches /\ batch' \in [Batches -> BatchDocs \union {None}]
         /\ batch'[desk[w].doc] # None /\ batch'[desk[w].doc].status = batch[desk[w].doc].status
         /\ batch'[desk[w].doc].lines = batch[desk[w].doc].lines
         /\ \A c \in Batches \ {desk[w].doc} : batch'[c] = batch[c]
<1> DEFINE b == desk[w].doc
           x == desk[w].piece
           mark == Over([y \in {x} |-> v], batch[b].outcome)
<1>1. b \in Batches /\ x \in Pieces
  BY TaskTypes DEF Judge
<1>2. batch[b] \in BatchDocs
  BY <1>1 DEF TypeOK
<1>3. PICK S \in SUBSET Pieces : batch[b].outcome \in [S -> Verdicts]
  BY <1>2 DEF BatchDocs
<1>4. mark \in [S \union {x} -> Verdicts]
  BY <1>3 DEF Over
<1>5. S \union {x} \in SUBSET Pieces
  BY <1>1
<1>6. mark \in UNION {[T -> Verdicts] : T \in SUBSET Pieces}
  BY <1>4, <1>5
<1>7. batch'[b] = [batch[b] EXCEPT !.outcome = mark] /\ \A c \in Batches \ {b} : batch'[c] = batch[c]
  BY <1>1 DEF Judge, TypeOK
<1> HIDE DEF mark
<1>8. batch'[b] \in BatchDocs /\ batch'[b].status = batch[b].status /\ batch'[b].lines = batch[b].lines
  BY <1>2, <1>6, <1>7 DEF BatchDocs
<1>9. batch' = [batch EXCEPT ![b] = batch'[b]]
  BY <1>1, <1>7 DEF Judge, TypeOK
<1> HIDE DEF b
<1> QED BY <1>1, <1>7, <1>8, <1>9, WorkshopAssumption DEF TypeOK, b

-----------------------------------------------------------------------------
(* The inductive invariant.                                                 *)

(* Before their step the documents list nothing, and the marks are on       *)
(* documents that took theirs.                                              *)
DocsOK ==
  /\ \A o \in Productions : production[o] # None =>
       /\ production[o].status = "DRAFT" => production[o].issued = Empty
       /\ production[o].status # "COMPLETED" => production[o].returned = {} /\ production[o].finished = {}
  /\ \A o \in blind : production[o] # None /\ production[o].status = "CANCELLED"
  /\ \A j \in JobOrders : jobwork[j] # None /\ jobwork[j].status = "DRAFT" =>
       jobwork[j].issued = Empty /\ jobwork[j].returned = {}
  /\ \A j \in overlapped : jobwork[j] # None /\ jobwork[j].status # "DRAFT"

(* Away for one: what the stock shows is what exactly one document has out. *)
OneHolds(x, status, holders) ==
  /\ IsIn(x, status) <=> holders # {}
  /\ \A p, q \in holders : p = q

FloorOK == \A x \in Pieces \ byHand : OneHolds(x, "IN_MANUFACTURING", OnFloorFor(x))
WorkerOK == \A x \in Pieces \ (Astray \union byHand) : OneHolds(x, "WITH_JOB_WORKER", AtWorkerFor(x))
CentreOK == \A x \in Pieces \ byHand : OneHolds(x, "HALLMARKING", AtCentreFor(x))

(* What a worker has read is of a document that exists.  The copy of a      *)
(* production order lists its material or none; a return was within what    *)
(* was issued, and names nothing that came back unless another return has   *)
(* moved the totals since.                                                  *)
CancelOK(w) ==
  LET t == desk[w] IN
    production[t.doc] # None /\ (t.issued = Empty \/ t.issued = production[t.doc].issued)

ReturnOK(w) ==
  LET t == desk[w] IN
    /\ jobwork[t.doc] # None
    /\ t.back \subseteq DOMAIN jobwork[t.doc].issued
    /\ t.settled <= Cardinality(DOMAIN jobwork[t.doc].issued)
    /\ t.before + Cardinality(t.back) + t.made <= t.settled
    /\ t.final \/ t.before < t.settled
    /\ t.doc \notin overlapped /\ jobwork[t.doc].status # "RETURNED" =>
         /\ t.before <= jobwork[t.doc].settled
         /\ t.before = jobwork[t.doc].settled => t.back \intersect jobwork[t.doc].returned = {}

DesksOK ==
  \A w \in Workers :
    /\ desk[w].task = "cancel" => CancelOK(w)
    /\ desk[w].task = "return" => ReturnOK(w)
    /\ desk[w].task = "verdict" => batch[desk[w].doc] # None

MadeOK ==
  \A x \in Pieces :
    /\ x \in Made => ListedBy(x) # {} /\ \A c, d \in ListedBy(x) : c = d
    /\ item[x] = None /\ ListedBy(x) # {} => x \in lost

WithinOK ==
  \A j \in JobOrders : jobwork[j] # None =>
    /\ jobwork[j].settled <= Cardinality(DOMAIN jobwork[j].issued)
    /\ j \notin overlapped =>
         Cardinality(jobwork[j].returned) + Cardinality(jobwork[j].finished \ lost) <= jobwork[j].settled

IInv == TypeOK /\ DocsOK /\ FloorOK /\ WorkerOK /\ CentreOK /\ DesksOK /\ MadeOK /\ WithinOK

-----------------------------------------------------------------------------
(* What the larger steps do, piece by piece.                                *)

LEMMA AttemptSize ==
  ASSUME NEW n, NEW a \in Attempts(n)
  PROVE  a[1] \subseteq Pieces /\ a[2] \subseteq Pieces /\ Cardinality(a[1]) = n
         /\ a[1] \intersect a[2] = {}
         /\ \A x \in a[1] \union a[2] : item[x] = None /\ x \notin lost
BY AttemptsAre DEF kSubset, Fresh

(* F is made, in the attempt that commits, after one that had inserted G.   *)
CompletesWith(o, S, F, G) ==
  /\ F \intersect G = {} /\ \A x \in F \union G : item[x] = None /\ x \notin lost
  /\ production[o] # None /\ production[o].status = "QC_PASSED" /\ S \subseteq DOMAIN production[o].issued
  /\ production' \in [Productions -> ProductionDocs \union {None}]
  /\ production'[o] # None /\ production'[o].status = "COMPLETED" /\ production'[o].issued = production[o].issued
  /\ production'[o].returned = S /\ production'[o].finished = F \union G
  /\ \A p \in Productions \ {o} : production'[p] = production[p]
  /\ item' \in [Pieces -> Items \union {None}]
  /\ \A x \in F : item'[x] # None /\ item'[x].status = "AVAILABLE"
  /\ \A x \in S : /\ item[x] # None /\ item[x].status = "IN_MANUFACTURING"
                  /\ item'[x] # None /\ item'[x].status = "AVAILABLE"
  /\ \A x \in Pieces \ (F \union S) : item'[x] = item[x]
  /\ lost' = lost \union G

ReturnsWith(j, t, F, G) ==
  /\ F \intersect G = {} /\ Cardinality(F) = t.made /\ \A x \in F \union G : item[x] = None /\ x \notin lost
  /\ j \in JobOrders /\ jobwork[j] # None /\ jobwork[j].status \in {"ISSUED", "PARTIALLY_RETURNED"}
  /\ jobwork' \in [JobOrders -> JobWorkDocs \union {None}]
  /\ jobwork'[j] # None /\ jobwork'[j].status = (IF t.final THEN "RETURNED" ELSE "PARTIALLY_RETURNED")
  /\ jobwork'[j].issued = jobwork[j].issued /\ jobwork'[j].settled = t.settled
  /\ jobwork'[j].returned = jobwork[j].returned \union t.back
  /\ jobwork'[j].finished = jobwork[j].finished \union (F \union G)
  /\ \A k \in JobOrders \ {j} : jobwork'[k] = jobwork[k]
  /\ item' \in [Pieces -> Items \union {None}]
  /\ \A x \in F : item'[x] # None /\ item'[x].status = "AVAILABLE"
  /\ \A x \in t.back : /\ item[x] # None /\ item[x].status = "WITH_JOB_WORKER"
                       /\ item'[x] # None /\ item'[x].status = "AVAILABLE"
  /\ \A x \in Pieces \ (F \union t.back) : item'[x] = item[x]
  /\ lost' = lost \union G

LEMMA Completed ==
  ASSUME TypeOK, NEW o \in Productions, NEW S \in SUBSET Pieces, NEW n, CompleteProduction(o, S, n)
  PROVE  \E F, G \in SUBSET Pieces : CompletesWith(o, S, F, G)
<1>1. PICK a \in Attempts(n) :
        /\ production' = [production EXCEPT ![o] =
             [production[o] EXCEPT !.status = "COMPLETED", !.returned = S, !.finished = Refs(a[1], a[2])]]
        /\ item' = Over(SentOut(a[1], "AVAILABLE", "MANUFACTURING_UNIT"), Over(BroughtBack(S, production[o].issued), item))
        /\ lost' = lost \union a[2]
  BY DEF CompleteProduction
<1> DEFINE F == a[1]
           G == a[2]
           d == [production[o] EXCEPT !.status = "COMPLETED", !.returned = S, !.finished = F \union G]
<1>2. F \in SUBSET Pieces /\ G \in SUBSET Pieces /\ F \intersect G = {} /\ \A x \in F \union G : item[x] = None /\ x \notin lost
  BY AttemptSize
<1>3. production[o] # None /\ production[o].status = "QC_PASSED" /\ S \subseteq DOMAIN production[o].issued
      /\ \A x \in S : item[x] # None /\ item[x].status = "IN_MANUFACTURING"
  BY ProductionFrom, Moves DEF CompleteProduction
<1>4. production[o].issued \in Origins
  BY <1>3, ProductionTypes DEF ProductionDocs
<1>5. production' = [production EXCEPT ![o] = d]
  BY <1>1 DEF Refs
<1>6. /\ production' \in [Productions -> ProductionDocs \union {None}]
      /\ production'[o] # None /\ production'[o].status = "COMPLETED" /\ production'[o].issued = production[o].issued
      /\ production'[o].returned = S /\ production'[o].finished = F \union G
      /\ \A p \in Productions \ {o} : production'[p] = production[p]
  <2>1. F \union G \in SUBSET Pieces
    BY <1>2
  <2>2. d = [production[o] EXCEPT !.status = "COMPLETED", !.returned = S, !.finished = F \union G]
    OBVIOUS
  <2> HIDE DEF F, G, d
  <2> QED BY <1>3, <1>5, <2>1, <2>2, ProductionFinished, Zenon
<1>7. \A x \in S : production[o].issued[x] \in Places
  BY <1>3, <1>4, OriginDomain
<1>8. /\ item' \in [Pieces -> Items \union {None}]
      /\ \A x \in F \union S : item'[x] # None /\ item'[x].status = "AVAILABLE"
      /\ \A x \in Pieces \ (F \union S) : item'[x] = item[x]
  <2>1. item \in [Pieces -> Items \union {None}] /\ "MANUFACTURING_UNIT" \in Places
    BY DEF TypeOK, Places
  <2>2. item' = Over(SentOut(F, "AVAILABLE", "MANUFACTURING_UNIT"), Over(BroughtBack(S, production[o].issued), item))
    BY <1>1
  <2>3. S \in SUBSET Pieces
    OBVIOUS
  <2> DEFINE f == production[o].issued
             p == "MANUFACTURING_UNIT"
             new == item'
  <2>4. /\ F \in SUBSET Pieces /\ p \in Places /\ \A x \in S : f[x] \in Places
        /\ new = Over(SentOut(F, "AVAILABLE", p), Over(BroughtBack(S, f), item))
        /\ item \in [Pieces -> Items \union {None}]
    BY <1>2, <1>7, <2>1, <2>2
  <2> HIDE DEF F, G, f, p, new, d
  <2>5. /\ new \in [Pieces -> Items \union {None}]
        /\ \A x \in F \union S : new[x] # None /\ new[x].status = "AVAILABLE"
        /\ \A x \in Pieces \ (F \union S) : new[x] = item[x]
    BY <2>3, <2>4, MadeAndReturned
  <2> QED BY <2>5 DEF new
<1>9. lost' = lost \union G
  BY <1>1
<1> HIDE DEF F, G
<1>10. CompletesWith(o, S, F, G)
  BY <1>2, <1>3, <1>6, <1>8, <1>9 DEF CompletesWith
<1> QED BY <1>2, <1>10

LEMMA Returned ==
  ASSUME TypeOK, DesksOK, NEW w \in Workers, ReturnJobWork(w), NEW t, t = desk[w], NEW j, j = t.doc
  PROVE  \E F, G \in SUBSET Pieces : ReturnsWith(j, t, F, G)
<1> DEFINE origin == jobwork[j].issued
<1>1. PICK a \in Attempts(t.made) :
        /\ jobwork' = [jobwork EXCEPT ![j] = AfterReturn(jobwork[j], t, Refs(a[1], a[2]))]
        /\ item' = Over(SentOut(a[1], "AVAILABLE", "JOB_WORKER"), Over(BroughtBack(t.back, origin), item))
        /\ lost' = lost \union a[2]
  BY DEF ReturnJobWork
<1> DEFINE F == a[1]
           G == a[2]
<1>2. F \in SUBSET Pieces /\ G \in SUBSET Pieces /\ F \intersect G = {} /\ Cardinality(F) = t.made
      /\ \A x \in F \union G : item[x] = None /\ x \notin lost
  BY AttemptSize
<1>3. jobwork[j] # None /\ jobwork[j].status \in {"ISSUED", "PARTIALLY_RETURNED"} /\ t.task = "return"
      /\ \A x \in t.back : item[x] # None /\ item[x].status = "WITH_JOB_WORKER"
  BY JobWorkFrom, Moves DEF ReturnJobWork
<1>4. j \in JobOrders /\ t.back \in SUBSET Pieces /\ t.settled \in Nat /\ t.back \subseteq DOMAIN origin
  BY <1>3, TaskTypes DEF DesksOK, ReturnOK
<1>5. jobwork[j] \in JobWorkDocs /\ origin \in Origins
  BY <1>3, <1>4, JobWorkTypes DEF JobWorkDocs
<1>6. Refs(F, G) = F \union G /\ F \union G \in SUBSET Pieces
  BY <1>2 DEF Refs
<1>7. jobwork' = [jobwork EXCEPT ![j] = AfterReturn(jobwork[j], t, F \union G)]
  BY <1>1, <1>6
<1>8. /\ jobwork' \in [JobOrders -> JobWorkDocs \union {None}]
      /\ jobwork'[j] # None /\ jobwork'[j].status = IF t.final THEN "RETURNED" ELSE "PARTIALLY_RETURNED"
      /\ jobwork'[j].issued = jobwork[j].issued /\ jobwork'[j].settled = t.settled
      /\ jobwork'[j].returned = jobwork[j].returned \union t.back
      /\ jobwork'[j].finished = jobwork[j].finished \union (F \union G)
      /\ \A k \in JobOrders \ {j} : jobwork'[k] = jobwork[k]
  <2> DEFINE d == AfterReturn(jobwork[j], t, F \union G)
  <2>1. d \in JobWorkDocs
    BY <1>4, <1>5, <1>6, ReturnWritten
  <2>2. /\ d.status = IF t.final THEN "RETURNED" ELSE "PARTIALLY_RETURNED"
        /\ d.issued = jobwork[j].issued /\ d.settled = t.settled /\ d.returned = jobwork[j].returned \union t.back
        /\ d.finished = jobwork[j].finished \union (F \union G)
    BY <1>4, <1>5, <1>6, ReturnWritten
  <2>3. jobwork' = [jobwork EXCEPT ![j] = d]
    BY <1>7
  <2> HIDE DEF F, G, d
  <2>4. jobwork' \in [JobOrders -> JobWorkDocs \union {None}] /\ jobwork'[j] = d
        /\ \A k \in JobOrders \ {j} : jobwork'[k] = jobwork[k]
    BY <1>4, <2>1, <2>3 DEF TypeOK
  <2>5. d # None
    BY <2>1, WorkshopAssumption
  <2> QED BY <2>2, <2>4, <2>5
<1>9. \A x \in t.back : origin[x] \in Places
  BY <1>4, <1>5, OriginDomain
<1>10. /\ item' \in [Pieces -> Items \union {None}]
       /\ \A x \in F \union t.back : item'[x] # None /\ item'[x].status = "AVAILABLE"
       /\ \A x \in Pieces \ (F \union t.back) : item'[x] = item[x]
  <2>1. item \in [Pieces -> Items \union {None}] /\ "JOB_WORKER" \in Places
    BY DEF TypeOK, Places
  <2>2. item' = Over(SentOut(F, "AVAILABLE", "JOB_WORKER"), Over(BroughtBack(t.back, origin), item))
    BY <1>1
  <2> DEFINE S == t.back
             f == jobwork[j].issued
             p == "JOB_WORKER"
             new == item'
  <2>3. /\ F \in SUBSET Pieces /\ S \in SUBSET Pieces /\ p \in Places /\ \A x \in S : f[x] \in Places
        /\ new = Over(SentOut(F, "AVAILABLE", p), Over(BroughtBack(S, f), item))
    BY <1>2, <1>4, <1>9, <2>1, <2>2
  <2> HIDE DEF F, G, S, f, p, new
  <2>4. /\ new \in [Pieces -> Items \union {None}]
        /\ \A x \in F \union S : new[x] # None /\ new[x].status = "AVAILABLE"
        /\ \A x \in Pieces \ (F \union S) : new[x] = item[x]
    BY <2>1, <2>3, MadeAndReturned
  <2> QED BY <2>4 DEF new, S
<1>11. lost' = lost \union G
  BY <1>1
<1> HIDE DEF F, G
<1>12. ReturnsWith(j, t, F, G)
  BY <1>2, <1>3, <1>4, <1>8, <1>10, <1>11 DEF ReturnsWith
<1> QED BY <1>2, <1>12

Held(w) == {x \in DOMAIN desk[w].issued : item[x].status = "IN_MANUFACTURING"}

LEMMA Cancelled ==
  ASSUME TypeOK, NEW w \in Workers, CancelProduction(w), NEW o, o = desk[w].doc, NEW held, held = Held(w)
  PROVE  /\ o \in Productions /\ held \in SUBSET Pieces
         /\ production[o] # None /\ production[o].status \in {"DRAFT", "MATERIAL_ISSUED", "IN_PROGRESS", "QC_FAILED"}
         /\ production' \in [Productions -> ProductionDocs \union {None}]
         /\ production'[o] # None /\ production'[o].status = "CANCELLED" /\ production'[o].issued = production[o].issued
         /\ production'[o].returned = production[o].returned /\ production'[o].finished = production[o].finished
         /\ \A p \in Productions \ {o} : production'[p] = production[p]
         /\ item' \in [Pieces -> Items \union {None}]
         /\ \A x \in held : item[x] # None /\ item'[x] # None /\ item'[x].status = "AVAILABLE"
         /\ \A x \in Pieces \ held : item'[x] = item[x]
<1> DEFINE f == desk[w].issued
<1>1. o \in Productions /\ f \in Origins /\ desk[w].task = "cancel"
  BY TaskTypes DEF CancelProduction
<1>2. held \in SUBSET Pieces /\ \A x \in held : f[x] \in Places
  BY <1>1, OriginDomain DEF Held
<1>3. production[o] # None /\ production[o].status \in {"DRAFT", "MATERIAL_ISSUED", "IN_PROGRESS", "QC_FAILED"}
  BY ProductionFrom DEF CancelProduction
<1>4. \A x \in held : item[x] # None
  BY Moves DEF CancelProduction, Held
<1>5. "CANCELLED" \in Stages(ProductionRules) /\ production' = [production EXCEPT ![o].status = "CANCELLED"]
  BY ProductionStagesAre DEF CancelProduction
<1>6. item' = Over(BroughtBack(held, f), item) /\ item \in [Pieces -> Items \union {None}]
  BY DEF CancelProduction, TypeOK, Held
<1>7. /\ item' \in [Pieces -> Items \union {None}]
      /\ \A x \in held : item'[x] # None /\ item'[x].status = "AVAILABLE"
      /\ \A x \in Pieces \ held : item'[x] = item[x]
  <2> DEFINE S == held
             new == item'
  <2>1. /\ item \in [Pieces -> Items \union {None}]
        /\ S \in SUBSET Pieces
        /\ \A x \in S : f[x] \in Places
        /\ new = Over(BroughtBack(S, f), item)
    BY <1>2, <1>6
  <2> HIDE DEF f, S, new
  <2>2. /\ new \in [Pieces -> Items \union {None}]
        /\ \A x \in S : new[x] # None /\ new[x].status = "AVAILABLE"
        /\ \A x \in Pieces \ S : new[x] = item[x]
    BY <2>1, BackHome
  <2> QED BY <2>2 DEF S, new
<1>9. /\ production' \in [Productions -> ProductionDocs \union {None}]
      /\ production'[o] # None /\ production'[o].status = "CANCELLED" /\ production'[o].issued = production[o].issued
      /\ production'[o].returned = production[o].returned /\ production'[o].finished = production[o].finished
      /\ \A p \in Productions \ {o} : production'[p] = production[p]
  BY <1>1, <1>3, <1>5, ProductionMoved
<1> QED BY <1>1, <1>2, <1>3, <1>4, <1>7, <1>9

(* Pieces sent away from the shelf.                                         *)
LEMMA Sent ==
  ASSUME TypeOK, NEW S \in SUBSET Pieces, NEW s \in Statuses, NEW p \in Places, item' = Over(SentOut(S, s, p), item)
  PROVE  /\ item' \in [Pieces -> Items \union {None}]
         /\ \A x \in S : item'[x] # None /\ item'[x].status = s
         /\ \A x \in Pieces \ S : item'[x] = item[x]
<1>1. item \in [Pieces -> Items \union {None}]
  BY DEF TypeOK
<1>2. /\ item' \in [Pieces -> Items \union {None}]
      /\ \A x \in S : item'[x] = [status |-> s, at |-> p]
      /\ \A x \in Pieces \ S : item'[x] = item[x]
  BY <1>1, SentOutItems
<1>3. [status |-> s, at |-> p] # None
  BY WorkshopAssumption DEF Items
<1> QED BY <1>2, <1>3

LEMMA CameHome ==
  ASSUME TypeOK, NEW b \in Batches, Receive(b)
  PROVE  /\ batch[b] # None /\ batch[b].status \in {"IN_TRANSIT", "AT_CENTRE"}
         /\ batch' \in [Batches -> BatchDocs \union {None}]
         /\ batch'[b] # None /\ batch'[b].status = "RECEIVED"
         /\ \A c \in Batches \ {b} : batch'[c] = batch[c]
         /\ item' \in [Pieces -> Items \union {None}]
         /\ \A x \in DOMAIN batch[b].lines : /\ item[x] # None /\ item[x].status = "HALLMARKING"
                                             /\ item'[x] # None /\ item'[x].status = "AVAILABLE"
         /\ \A x \in Pieces \ DOMAIN batch[b].lines : item'[x] = item[x]
<1> DEFINE f == batch[b].lines
           S == DOMAIN f
<1>1. batch[b] # None /\ batch[b].status \in {"IN_TRANSIT", "AT_CENTRE"}
      /\ \A x \in S : item[x] # None /\ item[x].status = "HALLMARKING"
  BY BatchFrom, Moves DEF Receive
<1>2. f \in Origins
  BY <1>1 DEF TypeOK, BatchDocs
<1>3. S \in SUBSET Pieces /\ \A x \in S : f[x] \in Places
  BY <1>2, OriginDomain
<1>4. "RECEIVED" \in Stages(HallmarkingRules) /\ batch' = [batch EXCEPT ![b].status = "RECEIVED"]
  BY BatchStagesAre DEF Receive
<1>5. item' = Over(BroughtBack(S, f), item) /\ item \in [Pieces -> Items \union {None}]
  BY DEF Receive, TypeOK
<1>6. /\ item' \in [Pieces -> Items \union {None}]
      /\ \A x \in S : item'[x] # None /\ item'[x].status = "AVAILABLE"
      /\ \A x \in Pieces \ S : item'[x] = item[x]
  <2>1. ASSUME NEW T \in SUBSET Pieces, NEW g, \A x \in T : g[x] \in Places, item' = Over(BroughtBack(T, g), item)
        PROVE  /\ item' \in [Pieces -> Items \union {None}]
               /\ \A x \in T : item'[x] # None /\ item'[x].status = "AVAILABLE"
               /\ \A x \in Pieces \ T : item'[x] = item[x]
    BY <1>5, <2>1, BackHome
  <2> HIDE DEF f, S
  <2> QED BY <1>3, <1>5, <2>1
<1> QED BY <1>1, <1>4, <1>6, BatchMoved

-----------------------------------------------------------------------------
(* What is not touched stays as it is.                                      *)

LEMMA FloorKept ==
  ASSUME byHand \subseteq byHand', FloorOK, Same("IN_MANUFACTURING"), UNCHANGED <<production, blind>>
  PROVE  FloorOK'
BY DEF FloorOK, OneHolds, OnFloorFor, Out, Same

LEMMA WorkerKept ==
  ASSUME byHand \subseteq byHand', WorkerOK, Same("WITH_JOB_WORKER"), UNCHANGED <<jobwork, overlapped>>
  PROVE  WorkerOK'
BY DEF WorkerOK, OneHolds, AtWorkerFor, Out, Same, Astray

LEMMA CentreKept ==
  ASSUME byHand \subseteq byHand', CentreOK, Same("HALLMARKING"), UNCHANGED batch
  PROVE  CentreOK'
BY DEF CentreOK, OneHolds, AtCentreFor, Same

LEMMA MadeKept ==
  ASSUME MadeOK, \A x \in Pieces : item'[x] = None <=> item[x] = None, \A x \in Pieces : ListedBy(x)' = ListedBy(x),
         UNCHANGED lost
  PROVE  MadeOK'
<1>1. Made' = Made
  BY DEF Made
<1> QED BY <1>1 DEF MadeOK

(* The documents only grow, as far as a copy in hand can tell.              *)
Grown ==
  /\ \A w \in Workers : desk'[w] = desk[w] \/ desk'[w] = Off
  /\ \A o \in Productions : production[o] # None =>
       production'[o] # None /\ (production'[o].issued = production[o].issued \/ production[o].issued = Empty)
  /\ \A j \in JobOrders : jobwork[j] # None =>
       /\ jobwork'[j] # None /\ jobwork'[j].settled = jobwork[j].settled /\ jobwork'[j].returned = jobwork[j].returned
       /\ jobwork'[j].issued = jobwork[j].issued \/ jobwork[j].issued = Empty
       /\ jobwork[j].status = "RETURNED" => jobwork'[j].status = "RETURNED"
  /\ \A b \in Batches : batch[b] # None => batch'[b] # None
  /\ overlapped' = overlapped

LEMMA IssuedGrows ==
  ASSUME TypeOK, NEW j \in JobOrders, jobwork[j] # None, jobwork'[j].issued \in Origins,
         jobwork'[j].issued = jobwork[j].issued \/ jobwork[j].issued = Empty
  PROVE  /\ DOMAIN jobwork[j].issued \subseteq DOMAIN jobwork'[j].issued
         /\ Cardinality(DOMAIN jobwork[j].issued) <= Cardinality(DOMAIN jobwork'[j].issued)
         /\ Cardinality(DOMAIN jobwork[j].issued) \in Nat /\ Cardinality(DOMAIN jobwork'[j].issued) \in Nat
<1>1. jobwork[j].issued \in Origins
  BY JobWorkTypes DEF JobWorkDocs
<1>2. DOMAIN jobwork[j].issued \in SUBSET Pieces /\ DOMAIN jobwork'[j].issued \in SUBSET Pieces
  BY <1>1, OriginDomain
<1>3. DOMAIN jobwork[j].issued \subseteq DOMAIN jobwork'[j].issued
  BY EmptyType
<1>4. IsFiniteSet(DOMAIN jobwork'[j].issued)
  BY <1>2, FS_Subset, WorkshopAssumption
<1> QED BY <1>3, <1>4, FS_Subset, FS_CardinalityType

LEMMA DesksKept ==
  ASSUME TypeOK, TypeOK', DesksOK, Grown
  PROVE  DesksOK'
<1> SUFFICES ASSUME NEW w \in Workers
             PROVE  /\ desk'[w].task = "cancel" => CancelOK(w)'
                    /\ desk'[w].task = "return" => ReturnOK(w)'
                    /\ desk'[w].task = "verdict" => batch'[desk'[w].doc] # None
  BY DEF DesksOK
<1>1. CASE desk'[w] = Off
  BY <1>1 DEF Off
<1>2. CASE desk'[w] = desk[w]
  <2>1. ASSUME desk[w].task = "cancel" PROVE CancelOK(w)'
    <3>1. CancelOK(w) /\ desk[w].doc \in Productions
      BY <2>1, TaskTypes DEF DesksOK
    <3> QED BY <1>2, <3>1 DEF CancelOK, Grown
  <2>2. ASSUME desk[w].task = "verdict" PROVE batch'[desk[w].doc] # None
    BY <2>2, TaskTypes DEF DesksOK, Grown
  <2>3. ASSUME desk[w].task = "return" PROVE ReturnOK(w)'
    <3> DEFINE t == desk[w]
               j == t.doc
    <3>1. ReturnOK(w) /\ j \in JobOrders /\ t.settled \in Nat
      BY <2>3, TaskTypes DEF DesksOK
    <3>2. jobwork[j] # None /\ jobwork'[j] # None
      BY <3>1 DEF ReturnOK, Grown
    <3>3. jobwork'[j].issued \in Origins
      BY <3>1, <3>2 DEF TypeOK, JobWorkDocs
    <3>4. /\ DOMAIN jobwork[j].issued \subseteq DOMAIN jobwork'[j].issued
          /\ Cardinality(DOMAIN jobwork[j].issued) <= Cardinality(DOMAIN jobwork'[j].issued)
          /\ Cardinality(DOMAIN jobwork[j].issued) \in Nat /\ Cardinality(DOMAIN jobwork'[j].issued) \in Nat
      BY <3>1, <3>2, <3>3, IssuedGrows DEF Grown
    <3>5. t.settled <= Cardinality(DOMAIN jobwork'[j].issued)
      BY <3>1, <3>4 DEF ReturnOK
    <3>6. t.back \subseteq DOMAIN jobwork'[j].issued
      BY <3>1, <3>4 DEF ReturnOK
    <3>7. jobwork'[j].settled = jobwork[j].settled /\ jobwork'[j].returned = jobwork[j].returned /\ overlapped' = overlapped
          /\ (jobwork[j].status = "RETURNED" => jobwork'[j].status = "RETURNED")
      BY <3>1, <3>2 DEF Grown
    <3> QED BY <1>2, <3>1, <3>2, <3>5, <3>6, <3>7 DEF ReturnOK
  <2> QED BY <1>2, <2>1, <2>2, <2>3
<1> QED BY <1>1, <1>2 DEF Grown

-----------------------------------------------------------------------------
(* Types                                                                    *)

LEMMA InitTypeOK == Init => TypeOK
<1> SUFFICES ASSUME Init PROVE TypeOK
  OBVIOUS
<1>1. /\ item \in [Pieces -> Items \union {None}] /\ production \in [Productions -> ProductionDocs \union {None}]
      /\ jobwork \in [JobOrders -> JobWorkDocs \union {None}] /\ batch \in [Batches -> BatchDocs \union {None}]
  BY StartsAssumption DEF Init, StartOK
<1>2. desk \in [Workers -> Tasks] /\ lost \subseteq Pieces /\ blind \subseteq Productions /\ overlapped \subseteq JobOrders
      /\ byHand \subseteq Pieces /\ free \subseteq Pieces \X Statuses
  BY OffTask, StartsAssumption DEF Init, StartOK
<1> QED BY <1>1, <1>2 DEF TypeOK

LEMMA NewProduction ==
  ASSUME TypeOK, NEW o \in Productions, CreateProduction(o)
  PROVE  /\ production[o] = None /\ production' \in [Productions -> ProductionDocs \union {None}]
         /\ production'[o] # None /\ production'[o].status = "DRAFT" /\ production'[o].issued = Empty
         /\ production'[o].returned = {} /\ production'[o].finished = {}
         /\ \A p \in Productions \ {o} : production'[p] = production[p]
<1>1. [status |-> "DRAFT", issued |-> Empty, returned |-> {}, finished |-> {}] \in ProductionDocs
  BY EmptyType, ProductionStagesAre DEF ProductionDocs
<1> QED BY <1>1, WorkshopAssumption DEF CreateProduction, TypeOK

LEMMA NewJobWork ==
  ASSUME TypeOK, NEW j \in JobOrders, CreateJobWork(j)
  PROVE  /\ jobwork[j] = None /\ jobwork' \in [JobOrders -> JobWorkDocs \union {None}]
         /\ jobwork'[j] # None /\ jobwork'[j].status = "DRAFT" /\ jobwork'[j].issued = Empty
         /\ jobwork'[j].returned = {} /\ jobwork'[j].finished = {} /\ jobwork'[j].settled = 0
         /\ \A k \in JobOrders \ {j} : jobwork'[k] = jobwork[k]
<1>1. [status |-> "DRAFT", issued |-> Empty, returned |-> {}, finished |-> {}, settled |-> 0] \in JobWorkDocs
  BY EmptyType, JobWorkStagesAre DEF JobWorkDocs
<1> QED BY <1>1, WorkshopAssumption DEF CreateJobWork, TypeOK

LEMMA Sold ==
  ASSUME TypeOK, NEW x \in Pieces, Sell(x)
  PROVE  /\ item[x] # None /\ item[x].status \in {"AVAILABLE", "RESERVED"}
         /\ item' \in [Pieces -> Items \union {None}] /\ item'[x] # None /\ item'[x].status = "SOLD"
         /\ \A y \in Pieces \ {x} : item'[y] = item[y]
<1>1. item[x] # None /\ item[x].status \in {"AVAILABLE", "RESERVED"} /\ item[x] \in Items
  BY Moves DEF Sell, TypeOK
<1>2. item'[x] = [item[x] EXCEPT !.status = "SOLD"]
  BY DEF Sell, TypeOK
<1>3. item'[x] \in Items /\ item'[x].status = "SOLD"
  BY <1>1, <1>2, StatusesAre DEF Items
<1> QED BY <1>1, <1>3, WorkshopAssumption DEF Sell, TypeOK

LEMMA MovedByHand ==
  ASSUME TypeOK, NEW x \in Pieces, NEW m, NEW to \in Statuses, NEW place \in Places, MovePartner(x, m, to, place)
  PROVE  /\ item[x] # None /\ item' \in [Pieces -> Items \union {None}] /\ item'[x] # None
         /\ \A y \in Pieces \ {x} : item'[y] = item[y]
         /\ byHand' = byHand \union {x}
<1>1. [status |-> to, at |-> place] \in Items
  BY DEF Items
<1> QED BY <1>1, WorkshopAssumption DEF MovePartner, MayMove, TypeOK

LEMMA Corrected ==
  ASSUME TypeOK, NEW x \in Pieces, NEW to \in Statuses, Correct(x, to)
  PROVE  /\ item[x] # None /\ item' \in [Pieces -> Items \union {None}] /\ item'[x] # None
         /\ \A y \in Pieces \ {x} : item'[y] = item[y]
         /\ byHand' = byHand \union {x}
<1>1. item[x] \in Items
  BY DEF Correct, TypeOK
<1>2. [item[x] EXCEPT !.status = to] \in Items
  BY <1>1 DEF Items
<1> QED BY <1>2, WorkshopAssumption DEF Correct, TypeOK

LEMMA ProducingTypes == TypeOK /\ Producing => TypeOK'
<1> SUFFICES ASSUME TypeOK, NEW o \in Productions,
                    \/ CreateProduction(o)
                    \/ \E a \in {"startManufacturing", "submitForQc", "passQc", "failQc", "rework"} : MoveProduction(o, a)
                    \/ \E S \in (SUBSET Pieces) \ {{}} : IssueMaterial(o, S)
                    \/ \E S \in SUBSET Pieces, n \in 1..Cardinality(Pieces) : CompleteProduction(o, S, n)
                    \/ \E w \in Workers : ReadForCancel(w, o)
             PROVE  TypeOK'
  BY DEF Producing
<1> USE DEF docs, history
<1>1. CASE CreateProduction(o)
  BY <1>1, NewProduction DEF CreateProduction, TypeOK
<1>2. ASSUME NEW a \in {"startManufacturing", "submitForQc", "passQc", "failQc", "rework"}, MoveProduction(o, a)
      PROVE  TypeOK'
  <2>1. production[o] # None /\ ProductionRules[a].to \in Stages(ProductionRules)
    BY <1>2, ProductionFrom, ProductionStagesAre DEF MoveProduction
  <2> QED BY <1>2, <2>1, ProductionMoved DEF MoveProduction, TypeOK
<1>3. ASSUME NEW S \in SUBSET Pieces, IssueMaterial(o, S)
      PROVE  TypeOK'
  <2>1. production' \in [Productions -> ProductionDocs \union {None}]
    BY <1>3, MaterialIssued
  <2>2. item' \in [Pieces -> Items \union {None}]
    BY <1>3, StatusesAre, Sent DEF IssueMaterial, Places
  <2> QED BY <1>3, <2>1, <2>2 DEF IssueMaterial, TypeOK
<1>4. ASSUME NEW S \in SUBSET Pieces, NEW n, CompleteProduction(o, S, n)
      PROVE  TypeOK'
  <2>1. /\ production' \in [Productions -> ProductionDocs \union {None}] /\ item' \in [Pieces -> Items \union {None}]
        /\ \E G \in SUBSET Pieces : lost' = lost \union G
    BY <1>4, Completed DEF CompletesWith
  <2> QED BY <1>4, <2>1 DEF CompleteProduction, TypeOK
<1>5. ASSUME NEW w \in Workers, ReadForCancel(w, o)
      PROVE  TypeOK'
  <2>1. [task |-> "cancel", doc |-> o, issued |-> production[o].issued] \in Tasks
    BY <1>5, ProductionTypes DEF ReadForCancel, ProductionDocs, Tasks
  <2> QED BY <1>5, <2>1 DEF ReadForCancel, Take, TypeOK
<1> QED BY <1>1, <1>2, <1>3, <1>4, <1>5

LEMMA JobWorkingTypes == TypeOK /\ JobWorking => TypeOK'
<1> SUFFICES ASSUME TypeOK, JobWorking PROVE TypeOK'
  OBVIOUS
<1> USE DEF docs, history
<1>1. ASSUME NEW j \in JobOrders, CreateJobWork(j)
      PROVE  TypeOK'
  BY <1>1, NewJobWork DEF CreateJobWork, TypeOK
<1>2. ASSUME NEW j \in JobOrders, CancelJobWork(j)
      PROVE  TypeOK'
  BY <1>2, JobWorkCancelled DEF CancelJobWork, TypeOK
<1>3. ASSUME NEW j \in JobOrders, NEW S \in SUBSET Pieces, IssueJobWork(j, S)
      PROVE  TypeOK'
  <2>1. jobwork' \in [JobOrders -> JobWorkDocs \union {None}]
    BY <1>3, JobWorkIssued
  <2>2. item' \in [Pieces -> Items \union {None}]
    BY <1>3, StatusesAre, Sent DEF IssueJobWork, Places
  <2> QED BY <1>3, <2>1, <2>2 DEF IssueJobWork, TypeOK
<1>4. ASSUME NEW j \in JobOrders, NEW w \in Workers, NEW S \in SUBSET Pieces, NEW n \in 0..Cardinality(Pieces),
             NEW waste \in 0..MaxWaste, NEW final \in BOOLEAN, ReadForReturn(w, j, S, n, waste, final)
      PROVE  TypeOK'
  <2>1. jobwork[j] \in JobWorkDocs
    BY <1>4, JobWorkTypes DEF ReadForReturn
  <2>2. jobwork[j].settled \in Nat /\ Cardinality(S) \in Nat /\ n \in Nat /\ waste \in Nat
    BY <2>1, FS_CardinalityType, FS_Subset, WorkshopAssumption DEF JobWorkDocs
  <2>3. Accounted(j, S, n, waste) \in Nat
    BY <2>2 DEF Accounted
  <2>4. [task |-> "return", doc |-> j, back |-> S, made |-> n, before |-> jobwork[j].settled,
         settled |-> Accounted(j, S, n, waste), final |-> final] \in Tasks
    BY <2>2, <2>3 DEF Tasks
  <2> QED BY <1>4, <2>4 DEF ReadForReturn, Take, TypeOK
<1> QED BY <1>1, <1>2, <1>3, <1>4 DEF JobWorking

LEMMA HallmarkingTypes == TypeOK /\ Hallmarking => TypeOK'
<1> SUFFICES ASSUME TypeOK, Hallmarking PROVE TypeOK'
  OBVIOUS
<1> USE DEF docs, history
<1>1. ASSUME NEW b \in Batches, NEW S \in SUBSET Pieces, CreateBatch(b, S)
      PROVE  TypeOK'
  BY <1>1, BatchCreated DEF CreateBatch, TypeOK
<1>2. ASSUME NEW b \in Batches, NEW a \in {"arrive", "cancel"}, MoveBatch(b, a)
      PROVE  TypeOK'
  <2>1. batch[b] # None /\ HallmarkingRules[a].to \in Stages(HallmarkingRules)
    BY <1>2, BatchFrom, BatchStagesAre DEF MoveBatch
  <2> QED BY <1>2, <2>1, BatchMoved DEF MoveBatch, TypeOK
<1>3. ASSUME NEW b \in Batches, Dispatch(b)
      PROVE  TypeOK'
  <2>1. batch[b] # None /\ "IN_TRANSIT" \in Stages(HallmarkingRules)
    BY <1>3, BatchFrom, BatchStagesAre DEF Dispatch
  <2>2. DOMAIN batch[b].lines \in SUBSET Pieces
    BY <2>1, OriginDomain DEF TypeOK, BatchDocs
  <2>3. item' \in [Pieces -> Items \union {None}]
    BY <1>3, <2>2, StatusesAre, Sent DEF Dispatch, Places
  <2> QED BY <1>3, <2>1, <2>3, BatchMoved DEF Dispatch, TypeOK
<1>4. ASSUME NEW b \in Batches, Receive(b)
      PROVE  TypeOK'
  BY <1>4, CameHome DEF Receive, TypeOK
<1>5. ASSUME NEW b \in Batches, NEW w \in Workers, NEW x \in Pieces, ReadForVerdict(w, b, x)
      PROVE  TypeOK'
  <2>1. [task |-> "verdict", doc |-> b, piece |-> x] \in Tasks
    BY DEF Tasks
  <2> QED BY <1>5, <2>1 DEF ReadForVerdict, Take, TypeOK
<1> QED BY <1>1, <1>2, <1>3, <1>4, <1>5 DEF Hallmarking

LEMMA WritingTypes == TypeOK /\ DesksOK /\ Writing => TypeOK'
<1> SUFFICES ASSUME TypeOK, DesksOK, NEW w \in Workers,
                    CancelProduction(w) \/ ReturnJobWork(w) \/ (\E v \in Verdicts : Judge(w, v)) \/ GiveUp(w)
             PROVE  TypeOK'
  BY DEF Writing
<1> USE DEF docs, history
<1>0. ASSUME Leave(w) PROVE desk' \in [Workers -> Tasks]
  BY <1>0, OffTask DEF Leave, TypeOK
<1>1. CASE CancelProduction(w)
  <2> DEFINE o == desk[w].doc
             held == Held(w)
  <2>0. o = desk[w].doc /\ held = Held(w)
    OBVIOUS
  <2> HIDE DEF o, held
  <2>1. /\ desk[w].doc \in Productions
        /\ production' \in [Productions -> ProductionDocs \union {None}] /\ item' \in [Pieces -> Items \union {None}]
    BY <1>1, <2>0, Cancelled
  <2> QED BY <1>0, <1>1, <2>1 DEF CancelProduction, TypeOK
<1>2. CASE ReturnJobWork(w)
  <2> DEFINE t == desk[w]
             j == t.doc
  <2>0. t = desk[w] /\ j = t.doc
    OBVIOUS
  <2> HIDE DEF t, j
  <2>1. /\ desk[w].doc \in JobOrders
        /\ jobwork' \in [JobOrders -> JobWorkDocs \union {None}] /\ item' \in [Pieces -> Items \union {None}]
        /\ \E G \in SUBSET Pieces : lost' = lost \union G
    BY <1>2, <2>0, Returned DEF ReturnsWith
  <2> QED BY <1>0, <1>2, <2>1 DEF ReturnJobWork, TypeOK
<1>3. ASSUME NEW v \in Verdicts, Judge(w, v) PROVE TypeOK'
  <2>1. batch[desk[w].doc] # None
    BY <1>3 DEF Judge, DesksOK
  <2> QED BY <1>0, <1>3, <2>1, BatchJudged DEF Judge, TypeOK
<1>4. CASE GiveUp(w)
  BY <1>0, <1>4 DEF GiveUp, TypeOK
<1> QED BY <1>1, <1>2, <1>3, <1>4

LEMMA ShelfTypes == TypeOK /\ Shelf => TypeOK'
<1> SUFFICES ASSUME TypeOK, NEW x \in Pieces,
                    \/ Sell(x) \/ \E to \in Statuses : Correct(x, to)
                    \/ \E m \in PartnerMovements, to \in Statuses, place \in Places : MovePartner(x, m, to, place)
             PROVE  TypeOK'
  BY DEF Shelf
<1>1. CASE Sell(x)
  BY <1>1, Sold DEF Sell, TypeOK, docs, history
<1>2. ASSUME NEW m, NEW to \in Statuses, NEW place \in Places, MovePartner(x, m, to, place) PROVE TypeOK'
  BY <1>2, MovedByHand DEF MovePartner, TypeOK, docs
<1>3. ASSUME NEW to \in Statuses, Correct(x, to) PROVE TypeOK'
  BY <1>3, Corrected DEF Correct, TypeOK, docs
<1> QED BY <1>1, <1>2, <1>3

LEMMA NextTypeOK == TypeOK /\ DesksOK /\ [Next]_vars => TypeOK'
<1>1. TypeOK /\ UNCHANGED vars => TypeOK'
  BY DEF TypeOK, vars, docs, history
<1> QED BY <1>1, ShelfTypes, ProducingTypes, JobWorkingTypes, HallmarkingTypes, WritingTypes DEF Next

-----------------------------------------------------------------------------
(* Which kinds of absence a step can touch.                                 *)

LEMMA Untouched == ASSUME UNCHANGED item, NEW s PROVE Same(s)
BY DEF Same, IsIn

LEMMA IssueSame ==
  ASSUME TypeOK, NEW o \in Productions, NEW S \in SUBSET Pieces, IssueMaterial(o, S)
  PROVE  /\ Same("WITH_JOB_WORKER") /\ Same("HALLMARKING")
         /\ \A x \in S : IsIn(x, "AVAILABLE") /\ IsIn(x, "IN_MANUFACTURING")'
         /\ \A x \in Pieces \ S : IsIn(x, "IN_MANUFACTURING")' = IsIn(x, "IN_MANUFACTURING")
         /\ \A x \in Pieces : item'[x] = None <=> item[x] = None
<1>1. \A x \in S : item[x] # None /\ item[x].status = "AVAILABLE"
  BY Moves DEF IssueMaterial
<1>2. item' = Over(SentOut(S, "IN_MANUFACTURING", "MANUFACTURING_UNIT"), item)
      /\ "IN_MANUFACTURING" \in Statuses /\ "MANUFACTURING_UNIT" \in Places
  BY StatusesAre DEF IssueMaterial, Places
<1>3. /\ \A x \in S : item'[x] # None /\ item'[x].status = "IN_MANUFACTURING"
      /\ \A x \in Pieces \ S : item'[x] = item[x]
  BY <1>2, Sent
<1> QED BY <1>1, <1>3 DEF Same, IsIn

LEMMA IssueJobSame ==
  ASSUME TypeOK, NEW j \in JobOrders, NEW S \in SUBSET Pieces, IssueJobWork(j, S)
  PROVE  /\ Same("IN_MANUFACTURING") /\ Same("HALLMARKING")
         /\ \A x \in S : IsIn(x, "AVAILABLE") /\ IsIn(x, "WITH_JOB_WORKER")'
         /\ \A x \in Pieces \ S : IsIn(x, "WITH_JOB_WORKER")' = IsIn(x, "WITH_JOB_WORKER")
         /\ \A x \in Pieces : item'[x] = None <=> item[x] = None
<1>1. \A x \in S : item[x] # None /\ item[x].status = "AVAILABLE"
  BY Moves DEF IssueJobWork
<1>2. item' = Over(SentOut(S, "WITH_JOB_WORKER", "JOB_WORKER"), item)
      /\ "WITH_JOB_WORKER" \in Statuses /\ "JOB_WORKER" \in Places
  BY StatusesAre DEF IssueJobWork, Places
<1>3. /\ \A x \in S : item'[x] # None /\ item'[x].status = "WITH_JOB_WORKER"
      /\ \A x \in Pieces \ S : item'[x] = item[x]
  BY <1>2, Sent
<1> QED BY <1>1, <1>3 DEF Same, IsIn

LEMMA DispatchSame ==
  ASSUME TypeOK, NEW b \in Batches, Dispatch(b)
  PROVE  /\ DOMAIN batch[b].lines \in SUBSET Pieces
         /\ Same("IN_MANUFACTURING") /\ Same("WITH_JOB_WORKER")
         /\ \A x \in DOMAIN batch[b].lines : IsIn(x, "AVAILABLE") /\ IsIn(x, "HALLMARKING")'
         /\ \A x \in Pieces \ DOMAIN batch[b].lines : IsIn(x, "HALLMARKING")' = IsIn(x, "HALLMARKING")
         /\ \A x \in Pieces : item'[x] = None <=> item[x] = None
<1> DEFINE S == DOMAIN batch[b].lines
<1>1. \A x \in S : item[x] # None /\ item[x].status = "AVAILABLE"
  BY Moves DEF Dispatch
<1>2. S \in SUBSET Pieces
  BY BatchFrom, OriginDomain DEF Dispatch, TypeOK, BatchDocs
<1>3. item' = Over(SentOut(S, "HALLMARKING", "HALLMARKING_CENTER"), item)
      /\ "HALLMARKING" \in Statuses /\ "HALLMARKING_CENTER" \in Places
  BY StatusesAre DEF Dispatch, Places
<1> HIDE DEF S
<1>4. /\ \A x \in S : item'[x] # None /\ item'[x].status = "HALLMARKING"
      /\ \A x \in Pieces \ S : item'[x] = item[x]
  BY <1>2, <1>3, Sent
<1>5. /\ Same("IN_MANUFACTURING") /\ Same("WITH_JOB_WORKER")
      /\ \A x \in S : IsIn(x, "AVAILABLE") /\ IsIn(x, "HALLMARKING")'
      /\ \A x \in Pieces \ S : IsIn(x, "HALLMARKING")' = IsIn(x, "HALLMARKING")
      /\ \A x \in Pieces : item'[x] = None <=> item[x] = None
  BY <1>1, <1>4 DEF Same, IsIn
<1> QED BY <1>2, <1>5 DEF S

LEMMA ReceiveSame ==
  ASSUME TypeOK, NEW b \in Batches, Receive(b)
  PROVE  /\ Same("IN_MANUFACTURING") /\ Same("WITH_JOB_WORKER")
         /\ \A x \in DOMAIN batch[b].lines : IsIn(x, "HALLMARKING") /\ ~IsIn(x, "HALLMARKING")'
         /\ \A x \in Pieces \ DOMAIN batch[b].lines : IsIn(x, "HALLMARKING")' = IsIn(x, "HALLMARKING")
         /\ \A x \in Pieces : item'[x] = None <=> item[x] = None
BY CameHome DEF Same, IsIn

LEMMA CompleteSame ==
  ASSUME TypeOK, NEW o \in Productions, NEW S \in SUBSET Pieces, NEW n, CompleteProduction(o, S, n)
  PROVE  /\ Same("WITH_JOB_WORKER") /\ Same("HALLMARKING")
         /\ \A x \in S : IsIn(x, "IN_MANUFACTURING") /\ ~IsIn(x, "IN_MANUFACTURING")'
         /\ \A x \in Pieces \ S : IsIn(x, "IN_MANUFACTURING")' = IsIn(x, "IN_MANUFACTURING")
<1>1. PICK F, G \in SUBSET Pieces : CompletesWith(o, S, F, G)
  BY Completed
<1> QED BY <1>1 DEF CompletesWith, Same, IsIn

LEMMA CancelSame ==
  ASSUME TypeOK, NEW w \in Workers, CancelProduction(w)
  PROVE  /\ Same("WITH_JOB_WORKER") /\ Same("HALLMARKING")
         /\ \A x \in DOMAIN desk[w].issued : ~IsIn(x, "IN_MANUFACTURING")'
         /\ \A x \in Pieces \ DOMAIN desk[w].issued : IsIn(x, "IN_MANUFACTURING")' = IsIn(x, "IN_MANUFACTURING")
         /\ \A x \in Pieces : item'[x] = None <=> item[x] = None
<1> DEFINE o == desk[w].doc
           held == Held(w)
<1>1. o = desk[w].doc /\ held = Held(w)
  OBVIOUS
<1>2. desk[w].issued \in Origins
  BY TaskTypes DEF CancelProduction
<1>3. DOMAIN desk[w].issued \in SUBSET Pieces
  BY <1>2, OriginDomain
<1> HIDE DEF o, held
<1>4. /\ held \in SUBSET Pieces
      /\ \A x \in held : item[x] # None /\ item'[x] # None /\ item'[x].status = "AVAILABLE"
      /\ \A x \in Pieces \ held : item'[x] = item[x]
  BY <1>1, Cancelled
<1>5. \A x \in held : item[x].status = "IN_MANUFACTURING" /\ x \in DOMAIN desk[w].issued
  BY <1>1 DEF Held
<1>6. \A x \in DOMAIN desk[w].issued \ held : item[x].status # "IN_MANUFACTURING"
  BY <1>1 DEF Held
<1> QED BY <1>3, <1>4, <1>5, <1>6 DEF Same, IsIn

LEMMA ReturnSame ==
  ASSUME TypeOK, DesksOK, NEW w \in Workers, ReturnJobWork(w)
  PROVE  /\ Same("IN_MANUFACTURING") /\ Same("HALLMARKING")
         /\ \A x \in desk[w].back : IsIn(x, "WITH_JOB_WORKER") /\ ~IsIn(x, "WITH_JOB_WORKER")'
         /\ \A x \in Pieces \ desk[w].back : IsIn(x, "WITH_JOB_WORKER")' = IsIn(x, "WITH_JOB_WORKER")
<1> DEFINE t == desk[w]
           j == t.doc
<1>1. t = desk[w] /\ j = t.doc
  OBVIOUS
<1> HIDE DEF t, j
<1>2. PICK F, G \in SUBSET Pieces : ReturnsWith(j, t, F, G)
  BY <1>1, Returned
<1> QED BY <1>1, <1>2 DEF ReturnsWith, Same, IsIn

LEMMA ShelfSame ==
  ASSUME TypeOK, Shelf
  PROVE  /\ Same("IN_MANUFACTURING") /\ Same("WITH_JOB_WORKER") /\ Same("HALLMARKING")
         /\ \A y \in Pieces : item'[y] = None <=> item[y] = None
         /\ UNCHANGED <<production, jobwork, batch, desk, lost, blind, overlapped>>
<1> SUFFICES ASSUME NEW x \in Pieces,
                    \/ Sell(x) \/ \E to \in Statuses : Correct(x, to)
                    \/ \E m \in PartnerMovements, to \in Statuses, place \in Places : MovePartner(x, m, to, place)
             PROVE  /\ Same("IN_MANUFACTURING") /\ Same("WITH_JOB_WORKER") /\ Same("HALLMARKING")
                    /\ \A y \in Pieces : item'[y] = None <=> item[y] = None
                    /\ UNCHANGED <<production, jobwork, batch, desk, lost, blind, overlapped>>
  BY DEF Shelf
<1>1. CASE Sell(x)
  <2>1. UNCHANGED <<production, jobwork, batch, desk, lost, blind, overlapped>>
    BY <1>1 DEF Sell, docs, history
  <2> QED BY <1>1, <2>1, Sold DEF Same, IsIn
<1>2. CASE \E m \in PartnerMovements, to \in Statuses, place \in Places : MovePartner(x, m, to, place)
  <2>1. UNCHANGED <<production, jobwork, batch, desk, lost, blind, overlapped>>
    BY <1>2 DEF MovePartner, docs
  <2>2. /\ item[x] # None /\ item'[x] # None /\ byHand' = byHand \union {x}
        /\ \A y \in Pieces \ {x} : item'[y] = item[y]
    BY <1>2, MovedByHand
  <2> QED BY <2>1, <2>2 DEF Same, IsIn
<1>3. CASE \E to \in Statuses : Correct(x, to)
  <2>1. UNCHANGED <<production, jobwork, batch, desk, lost, blind, overlapped>>
    BY <1>3 DEF Correct, docs
  <2>2. /\ item[x] # None /\ item'[x] # None /\ byHand' = byHand \union {x}
        /\ \A y \in Pieces \ {x} : item'[y] = item[y]
    BY <1>3, Corrected
  <2> QED BY <2>1, <2>2 DEF Same, IsIn
<1> QED BY <1>1, <1>2, <1>3

(* A piece that was moved by hand is not forgotten.                         *)
LEMMA HandGrows == [Next]_vars => byHand \subseteq byHand'
<1> USE DEF docs, history
<1>1. Producing => byHand' = byHand
  BY DEF Producing, CreateProduction, MoveProduction, IssueMaterial, CompleteProduction, ReadForCancel, Take
<1>2. JobWorking => byHand' = byHand
  BY DEF JobWorking, CreateJobWork, CancelJobWork, IssueJobWork, ReadForReturn, Take
<1>3. Hallmarking => byHand' = byHand
  BY DEF Hallmarking, CreateBatch, MoveBatch, Dispatch, Receive, ReadForVerdict, Take
<1>4. Writing => byHand' = byHand
  BY DEF Writing, CancelProduction, ReturnJobWork, Judge, GiveUp
<1>5. Shelf => byHand \subseteq byHand'
  BY DEF Shelf, Sell, MovePartner, Correct
<1> QED BY <1>1, <1>2, <1>3, <1>4, <1>5 DEF Next, vars

-----------------------------------------------------------------------------
(* The floor.                                                               *)

OutAt(o, x) ==
  /\ production[o] # None /\ x \in DOMAIN production[o].issued /\ x \notin production[o].returned
  /\ production[o].status = "CANCELLED" => o \in blind

LEMMA FloorIs ==
  FloorOK <=> \A x \in Pieces \ byHand : /\ IsIn(x, "IN_MANUFACTURING") <=> \E o \in Productions : OutAt(o, x)
                                         /\ \A o, p \in Productions : OutAt(o, x) /\ OutAt(p, x) => o = p
<1>1. \A x, o : o \in OnFloorFor(x) <=> o \in Productions /\ OutAt(o, x)
  BY DEF OnFloorFor, OutAt, Out
<1>2. \A x : OnFloorFor(x) # {} <=> \E o \in Productions : OutAt(o, x)
  BY <1>1
<1> QED BY <1>1, <1>2 DEF FloorOK, OneHolds

LEMMA FloorIsNext ==
  (\A x \in Pieces : x \notin byHand' => /\ IsIn(x, "IN_MANUFACTURING")' <=> \E o \in Productions : OutAt(o, x)'
                                         /\ \A o, p \in Productions : OutAt(o, x)' /\ OutAt(p, x)' => o = p)
  => FloorOK'
<1>1. \A x, o : (o \in OnFloorFor(x))' <=> o \in Productions /\ OutAt(o, x)'
  BY DEF OnFloorFor, OutAt, Out
<1>2. \A x : (OnFloorFor(x) # {})' <=> \E o \in Productions : OutAt(o, x)'
  BY <1>1
<1> QED BY <1>1, <1>2 DEF FloorOK, OneHolds

LEMMA FloorSteady ==
  ASSUME byHand \subseteq byHand', FloorOK, Same("IN_MANUFACTURING"), \A o \in Productions, x \in Pieces : OutAt(o, x)' <=> OutAt(o, x)
  PROVE  FloorOK'
BY FloorIs, FloorIsNext DEF Same

LEMMA ProducingFloor ==
  ASSUME TypeOK, DocsOK, FloorOK, Producing
  PROVE  FloorOK'
<1>h. byHand \subseteq byHand'
  BY HandGrows DEF Next
<1> SUFFICES ASSUME NEW o \in Productions,
                    \/ CreateProduction(o)
                    \/ \E a \in {"startManufacturing", "submitForQc", "passQc", "failQc", "rework"} : MoveProduction(o, a)
                    \/ \E S \in (SUBSET Pieces) \ {{}} : IssueMaterial(o, S)
                    \/ \E S \in SUBSET Pieces, n \in 1..Cardinality(Pieces) : CompleteProduction(o, S, n)
                    \/ \E w \in Workers : ReadForCancel(w, o)
             PROVE  FloorOK'
  BY DEF Producing
<1> USE DEF docs, history
<1>1. CASE CreateProduction(o)
  <2>1. UNCHANGED <<item, blind>> /\ production[o] = None /\ DOMAIN production'[o].issued = {}
        /\ \A p \in Productions \ {o} : production'[p] = production[p]
    BY <1>1, NewProduction, EmptyType DEF CreateProduction
  <2>2. \A p \in Productions, x \in Pieces : OutAt(p, x)' <=> OutAt(p, x)
    BY <2>1 DEF OutAt
  <2> QED BY <1>h, <2>1, <2>2, Untouched, FloorSteady
<1>2. ASSUME NEW a \in {"startManufacturing", "submitForQc", "passQc", "failQc", "rework"}, MoveProduction(o, a)
      PROVE  FloorOK'
  <2>1. production[o] # None /\ production[o].status # "CANCELLED" /\ ProductionRules[a].to \in Stages(ProductionRules)
        /\ ProductionRules[a].to # "CANCELLED" /\ production' = [production EXCEPT ![o].status = ProductionRules[a].to]
        /\ UNCHANGED <<item, blind>>
    BY <1>2, ProductionFrom, ProductionStagesAre DEF MoveProduction
  <2>2. /\ production'[o] # None /\ production'[o].status # "CANCELLED" /\ production'[o].issued = production[o].issued
        /\ production'[o].returned = production[o].returned
        /\ \A p \in Productions \ {o} : production'[p] = production[p]
    BY <2>1, ProductionMoved
  <2>3. \A p \in Productions, x \in Pieces : OutAt(p, x)' <=> OutAt(p, x)
    BY <2>1, <2>2 DEF OutAt
  <2> QED BY <1>h, <2>1, <2>3, Untouched, FloorSteady
<1>3. ASSUME NEW S \in SUBSET Pieces, IssueMaterial(o, S)
      PROVE  FloorOK'
  <2>1. production[o] # None /\ production[o].status = "DRAFT" /\ production[o].returned = {}
        /\ DOMAIN production[o].issued = {} /\ UNCHANGED blind
    BY <1>3, ProductionFrom, EmptyType DEF DocsOK, IssueMaterial
  <2>2. /\ production'[o] # None /\ production'[o].status = "MATERIAL_ISSUED" /\ DOMAIN production'[o].issued = S
        /\ production'[o].returned = {} /\ \A p \in Productions \ {o} : production'[p] = production[p]
    BY <1>3, <2>1, MaterialIssued
  <2>3. \A p \in Productions, x \in Pieces : OutAt(p, x)' <=> OutAt(p, x) \/ (p = o /\ x \in S)
    BY <2>1, <2>2 DEF OutAt
  <2>4. \A x \in S : ~IsIn(x, "IN_MANUFACTURING")
    BY <1>3, IssueSame DEF IsIn
  <2>5. \A x \in S \ byHand, p \in Productions : ~OutAt(p, x)
    BY <2>4, FloorIs
  <2>6. \A x \in Pieces \ byHand : /\ IsIn(x, "IN_MANUFACTURING") <=> \E p \in Productions : OutAt(p, x)
                                   /\ \A p, q \in Productions : OutAt(p, x) /\ OutAt(q, x) => p = q
    BY FloorIs
  <2>7. ASSUME NEW x \in Pieces, x \notin byHand'
        PROVE  /\ IsIn(x, "IN_MANUFACTURING")' <=> \E p \in Productions : OutAt(p, x)'
               /\ \A p, q \in Productions : OutAt(p, x)' /\ OutAt(q, x)' => p = q
    <3>1. CASE x \in S
      BY <1>h, <2>7, <1>3, <2>3, <2>5, <3>1, IssueSame
    <3>2. CASE x \notin S
      BY <1>h, <2>7, <1>3, <2>3, <2>6, <3>2, IssueSame
    <3> QED BY <3>1, <3>2
  <2> QED BY <2>7, FloorIsNext
<1>4. ASSUME NEW S \in SUBSET Pieces, NEW n, CompleteProduction(o, S, n)
      PROVE  FloorOK'
  <2>1. /\ production[o] # None /\ production[o].status = "QC_PASSED" /\ S \subseteq DOMAIN production[o].issued
        /\ production'[o] # None /\ production'[o].status = "COMPLETED" /\ production'[o].issued = production[o].issued
        /\ production'[o].returned = S /\ \A p \in Productions \ {o} : production'[p] = production[p]
    BY <1>4, Completed DEF CompletesWith
  <2>2. production[o].returned = {} /\ UNCHANGED blind
    BY <1>4, <2>1 DEF DocsOK, CompleteProduction
  <2>3. \A p \in Productions, x \in Pieces : OutAt(p, x)' <=> OutAt(p, x) /\ ~(p = o /\ x \in S)
    BY <2>1, <2>2 DEF OutAt
  <2>4. \A x \in S : OutAt(o, x)
    BY <2>1, <2>2 DEF OutAt
  <2>6. \A x \in Pieces \ byHand : /\ IsIn(x, "IN_MANUFACTURING") <=> \E p \in Productions : OutAt(p, x)
                                   /\ \A p, q \in Productions : OutAt(p, x) /\ OutAt(q, x) => p = q
    BY FloorIs
  <2>7. ASSUME NEW x \in Pieces, x \notin byHand'
        PROVE  /\ IsIn(x, "IN_MANUFACTURING")' <=> \E p \in Productions : OutAt(p, x)'
               /\ \A p, q \in Productions : OutAt(p, x)' /\ OutAt(q, x)' => p = q
    <3>1. CASE x \in S
      BY <1>h, <2>7, <1>4, <2>3, <2>4, <2>6, <3>1, CompleteSame
    <3>2. CASE x \notin S
      BY <1>h, <2>7, <1>4, <2>3, <2>6, <3>2, CompleteSame
    <3> QED BY <3>1, <3>2
  <2> QED BY <2>7, FloorIsNext
<1>5. ASSUME NEW w \in Workers, ReadForCancel(w, o)
      PROVE  FloorOK'
  BY <1>h, <1>5, Untouched, FloorKept DEF ReadForCancel, Take
<1> QED BY <1>1, <1>2, <1>3, <1>4, <1>5

LEMMA CancelFloor ==
  ASSUME TypeOK, DocsOK, FloorOK, DesksOK, NEW w \in Workers, CancelProduction(w)
  PROVE  FloorOK'
<1>h. byHand \subseteq byHand'
  BY HandGrows DEF Next, Writing
<1> DEFINE o == desk[w].doc
           held == Held(w)
           f == desk[w].issued
<1>1. o = desk[w].doc /\ held = Held(w)
  OBVIOUS
<1>2. f = Empty \/ f = production[o].issued
  BY DEF DesksOK, CancelOK, CancelProduction
<1>3. blind' = IF f = production[o].issued THEN blind ELSE blind \union {o}
  BY DEF CancelProduction
<1>4. DOMAIN f \in SUBSET Pieces
  BY TaskTypes, OriginDomain DEF CancelProduction
<1> HIDE DEF o, held, f
<1>5. /\ o \in Productions /\ production[o] # None
      /\ production[o].status \in {"DRAFT", "MATERIAL_ISSUED", "IN_PROGRESS", "QC_FAILED"}
      /\ production'[o] # None /\ production'[o].status = "CANCELLED" /\ production'[o].issued = production[o].issued
      /\ production'[o].returned = production[o].returned
      /\ \A p \in Productions \ {o} : production'[p] = production[p]
  BY <1>1, Cancelled
<1>6. production[o].returned = {} /\ o \notin blind
  BY <1>5 DEF DocsOK
<1>7. \A x \in DOMAIN f : ~IsIn(x, "IN_MANUFACTURING")'
  BY CancelSame DEF f
<1>8. \A x \in Pieces \ DOMAIN f : IsIn(x, "IN_MANUFACTURING")' = IsIn(x, "IN_MANUFACTURING")
  BY CancelSame DEF f
<1>9. \A x \in Pieces \ byHand : /\ IsIn(x, "IN_MANUFACTURING") <=> \E p \in Productions : OutAt(p, x)
                                 /\ \A p, q \in Productions : OutAt(p, x) /\ OutAt(q, x) => p = q
  BY FloorIs
<1>10. CASE f = production[o].issued
  <2>1. \A p \in Productions, x \in Pieces : OutAt(p, x)' <=> OutAt(p, x) /\ p # o
    BY <1>3, <1>5, <1>6, <1>10 DEF OutAt
  <2>2. \A x \in Pieces : OutAt(o, x) <=> x \in DOMAIN f
    BY <1>5, <1>6, <1>10 DEF OutAt
  <2>3. ASSUME NEW x \in Pieces, x \notin byHand'
        PROVE  /\ IsIn(x, "IN_MANUFACTURING")' <=> \E p \in Productions : OutAt(p, x)'
               /\ \A p, q \in Productions : OutAt(p, x)' /\ OutAt(q, x)' => p = q
    <3>1. CASE x \in DOMAIN f
      BY <1>h, <2>3, <1>5, <1>7, <1>9, <2>1, <2>2, <3>1
    <3>2. CASE x \notin DOMAIN f
      BY <1>h, <2>3, <1>5, <1>8, <1>9, <2>1, <2>2, <3>2
    <3> QED BY <3>1, <3>2
  <2> QED BY <2>3, FloorIsNext
<1>11. CASE f = Empty /\ f # production[o].issued
  <2>1. DOMAIN f = {} /\ blind' = blind \union {o}
    BY <1>3, <1>11, EmptyType
  <2>2. \A p \in Productions, x \in Pieces : OutAt(p, x)' <=> OutAt(p, x)
    BY <1>5, <1>6, <2>1 DEF OutAt
  <2>3. Same("IN_MANUFACTURING")
    BY <1>8, <2>1 DEF Same
  <2> QED BY <1>h, <2>2, <2>3, FloorSteady
<1> QED BY <1>2, <1>10, <1>11

LEMMA NextFloor == TypeOK /\ DocsOK /\ FloorOK /\ DesksOK /\ [Next]_vars => FloorOK'
<1> SUFFICES ASSUME TypeOK, DocsOK, FloorOK, DesksOK, [Next]_vars PROVE FloorOK'
  OBVIOUS
<1>h. byHand \subseteq byHand'
  BY HandGrows
<1> USE DEF docs, history
<1>1. CASE UNCHANGED vars
  BY <1>h, <1>1, Untouched, FloorKept DEF vars
<1>2. CASE JobWorking
  <2>1. UNCHANGED <<production, blind>>
    BY <1>2 DEF JobWorking, CreateJobWork, CancelJobWork, IssueJobWork, ReadForReturn, Take
  <2>2. Same("IN_MANUFACTURING")
    BY <1>2, Untouched, IssueJobSame DEF JobWorking, CreateJobWork, CancelJobWork, ReadForReturn, Take
  <2> QED BY <1>h, <2>1, <2>2, FloorKept
<1>3. CASE Hallmarking
  <2>1. UNCHANGED <<production, blind>>
    BY <1>3 DEF Hallmarking, CreateBatch, MoveBatch, Dispatch, Receive, ReadForVerdict, Take
  <2>2. Same("IN_MANUFACTURING")
    BY <1>3, Untouched, DispatchSame, ReceiveSame DEF Hallmarking, CreateBatch, MoveBatch, ReadForVerdict, Take
  <2> QED BY <1>h, <2>1, <2>2, FloorKept
<1>4. ASSUME NEW w \in Workers, ReturnJobWork(w) \/ (\E v \in Verdicts : Judge(w, v)) \/ GiveUp(w)
      PROVE  FloorOK'
  <2>1. UNCHANGED <<production, blind>>
    BY <1>4 DEF ReturnJobWork, Judge, GiveUp
  <2>2. Same("IN_MANUFACTURING")
    BY <1>4, Untouched, ReturnSame DEF Judge, GiveUp
  <2> QED BY <1>h, <2>1, <2>2, FloorKept
<1>5. CASE Shelf
  BY <1>h, <1>5, ShelfSame, FloorKept
<1> QED BY <1>1, <1>2, <1>3, <1>4, <1>5, ProducingFloor, CancelFloor DEF Next, Writing

-----------------------------------------------------------------------------
(* The job workers.                                                         *)

OutOn(j, x) == jobwork[j] # None /\ x \in DOMAIN jobwork[j].issued /\ x \notin jobwork[j].returned

LEMMA WorkerIs ==
  WorkerOK <=> \A x \in Pieces \ (Astray \union byHand) : /\ IsIn(x, "WITH_JOB_WORKER") <=> \E j \in JobOrders : OutOn(j, x)
                                                          /\ \A j, k \in JobOrders : OutOn(j, x) /\ OutOn(k, x) => j = k
<1>1. \A x, j : j \in AtWorkerFor(x) <=> j \in JobOrders /\ OutOn(j, x)
  BY DEF AtWorkerFor, OutOn, Out
<1>2. \A x : AtWorkerFor(x) # {} <=> \E j \in JobOrders : OutOn(j, x)
  BY <1>1
<1> QED BY <1>1, <1>2 DEF WorkerOK, OneHolds

LEMMA WorkerIsNext ==
  (\A x \in Pieces : x \notin Astray' /\ x \notin byHand' => /\ IsIn(x, "WITH_JOB_WORKER")' <=> \E j \in JobOrders : OutOn(j, x)'
                                                             /\ \A j, k \in JobOrders : OutOn(j, x)' /\ OutOn(k, x)' => j = k)
  => WorkerOK'
<1>1. \A x, j : (j \in AtWorkerFor(x))' <=> j \in JobOrders /\ OutOn(j, x)'
  BY DEF AtWorkerFor, OutOn, Out
<1>2. \A x : (AtWorkerFor(x) # {})' <=> \E j \in JobOrders : OutOn(j, x)'
  BY <1>1
<1> QED BY <1>1, <1>2 DEF WorkerOK, OneHolds

LEMMA WorkerSteady ==
  ASSUME byHand \subseteq byHand', WorkerOK, Same("WITH_JOB_WORKER"), Astray \subseteq Astray',
         \A j \in JobOrders, x \in Pieces : OutOn(j, x)' <=> OutOn(j, x)
  PROVE  WorkerOK'
BY WorkerIs, WorkerIsNext DEF Same

LEMMA JobWorkingWorker ==
  ASSUME TypeOK, DocsOK, WorkerOK, JobWorking
  PROVE  WorkerOK'
<1>h. byHand \subseteq byHand'
  BY HandGrows DEF Next
<1> USE DEF docs, history
<1>0. \A j \in overlapped : j \in JobOrders /\ jobwork[j] # None /\ jobwork[j].status # "DRAFT"
  BY DEF TypeOK, DocsOK
<1>1. ASSUME NEW j \in JobOrders, CreateJobWork(j)
      PROVE  WorkerOK'
  <2>1. UNCHANGED <<item, overlapped>> /\ jobwork[j] = None /\ DOMAIN jobwork'[j].issued = {}
        /\ \A k \in JobOrders \ {j} : jobwork'[k] = jobwork[k]
    BY <1>1, NewJobWork, EmptyType DEF CreateJobWork
  <2>2. \A k \in JobOrders, x \in Pieces : OutOn(k, x)' <=> OutOn(k, x)
    BY <2>1 DEF OutOn
  <2>3. Astray \subseteq Astray'
    BY <1>0, <2>1 DEF Astray
  <2> QED BY <1>h, <2>1, <2>2, <2>3, Untouched, WorkerSteady
<1>2. ASSUME NEW j \in JobOrders, CancelJobWork(j)
      PROVE  WorkerOK'
  <2>1. UNCHANGED <<item, overlapped>> /\ jobwork[j] # None /\ jobwork'[j] # None
        /\ jobwork'[j].issued = jobwork[j].issued /\ jobwork'[j].returned = jobwork[j].returned
        /\ \A k \in JobOrders \ {j} : jobwork'[k] = jobwork[k]
    BY <1>2, JobWorkCancelled DEF CancelJobWork
  <2>2. \A k \in JobOrders, x \in Pieces : OutOn(k, x)' <=> OutOn(k, x)
    BY <2>1 DEF OutOn
  <2>3. Astray \subseteq Astray'
    BY <1>0, <2>1 DEF Astray
  <2> QED BY <1>h, <2>1, <2>2, <2>3, Untouched, WorkerSteady
<1>3. ASSUME NEW j \in JobOrders, NEW S \in SUBSET Pieces, IssueJobWork(j, S)
      PROVE  WorkerOK'
  <2>1. jobwork[j] # None /\ jobwork[j].status = "DRAFT" /\ jobwork[j].returned = {}
        /\ DOMAIN jobwork[j].issued = {} /\ UNCHANGED overlapped
    BY <1>3, JobWorkFrom, EmptyType DEF DocsOK, IssueJobWork
  <2>2. /\ jobwork'[j] # None /\ DOMAIN jobwork'[j].issued = S
        /\ jobwork'[j].returned = {} /\ \A k \in JobOrders \ {j} : jobwork'[k] = jobwork[k]
    BY <1>3, <2>1, JobWorkIssued
  <2>3. \A k \in JobOrders, x \in Pieces : OutOn(k, x)' <=> OutOn(k, x) \/ (k = j /\ x \in S)
    BY <2>1, <2>2 DEF OutOn
  <2>4. j \notin overlapped /\ Astray' = Astray
    BY <1>0, <2>1, <2>2 DEF Astray
  <2>5. \A x \in S : ~IsIn(x, "WITH_JOB_WORKER")
    BY <1>3, IssueJobSame DEF IsIn
  <2>6. \A x \in Pieces \ (Astray \union byHand) : /\ IsIn(x, "WITH_JOB_WORKER") <=> \E k \in JobOrders : OutOn(k, x)
                                                   /\ \A k, l \in JobOrders : OutOn(k, x) /\ OutOn(l, x) => k = l
    BY WorkerIs
  <2>7. ASSUME NEW x \in Pieces, x \notin Astray', x \notin byHand'
        PROVE  /\ IsIn(x, "WITH_JOB_WORKER")' <=> \E k \in JobOrders : OutOn(k, x)'
               /\ \A k, l \in JobOrders : OutOn(k, x)' /\ OutOn(l, x)' => k = l
    <3>1. CASE x \in S
      BY <1>h, <1>3, <2>3, <2>4, <2>5, <2>6, <2>7, <3>1, IssueJobSame
    <3>2. CASE x \notin S
      BY <1>h, <1>3, <2>3, <2>4, <2>6, <2>7, <3>2, IssueJobSame
    <3> QED BY <3>1, <3>2
  <2> QED BY <2>7, WorkerIsNext
<1>4. ASSUME NEW j \in JobOrders, NEW w \in Workers, NEW S \in SUBSET Pieces, NEW n \in 0..Cardinality(Pieces),
             NEW waste \in 0..MaxWaste, NEW final \in BOOLEAN, ReadForReturn(w, j, S, n, waste, final)
      PROVE  WorkerOK'
  BY <1>h, <1>4, Untouched, WorkerKept DEF ReadForReturn, Take
<1> QED BY <1>1, <1>2, <1>3, <1>4 DEF JobWorking

LEMMA ReturnWorker ==
  ASSUME TypeOK, DocsOK, WorkerOK, DesksOK, NEW w \in Workers, ReturnJobWork(w)
  PROVE  WorkerOK'
<1>h. byHand \subseteq byHand'
  BY HandGrows DEF Next, Writing
<1> DEFINE t == desk[w]
           j == t.doc
<1>0. t = desk[w] /\ j = t.doc
  OBVIOUS
<1>1. ReturnOK(w) /\ t.back \subseteq Pieces
  BY TaskTypes DEF DesksOK, ReturnJobWork
<1>2. overlapped' = IF t.before = jobwork[j].settled THEN overlapped ELSE overlapped \union {j}
  BY DEF ReturnJobWork
<1>3. t.back \subseteq DOMAIN jobwork[j].issued
  BY <1>1 DEF ReturnOK
<1>4. j \notin overlapped /\ jobwork[j].status # "RETURNED" /\ t.before = jobwork[j].settled =>
        t.back \intersect jobwork[j].returned = {}
  BY <1>1 DEF ReturnOK
<1>5. \A x \in t.back : IsIn(x, "WITH_JOB_WORKER") /\ ~IsIn(x, "WITH_JOB_WORKER")'
  BY ReturnSame
<1>6. \A x \in Pieces \ t.back : IsIn(x, "WITH_JOB_WORKER")' = IsIn(x, "WITH_JOB_WORKER")
  BY ReturnSame
<1> HIDE DEF t, j
<1>7. /\ j \in JobOrders /\ jobwork[j] # None /\ jobwork[j].status \in {"ISSUED", "PARTIALLY_RETURNED"}
      /\ jobwork'[j] # None /\ jobwork'[j].issued = jobwork[j].issued
      /\ jobwork'[j].returned = jobwork[j].returned \union t.back
      /\ \A k \in JobOrders \ {j} : jobwork'[k] = jobwork[k]
  <2>1. PICK F, G \in SUBSET Pieces : ReturnsWith(j, t, F, G)
    BY <1>0, Returned
  <2> QED BY <2>1 DEF ReturnsWith
<1>8. \A k \in JobOrders, x \in Pieces : OutOn(k, x)' <=> OutOn(k, x) /\ ~(k = j /\ x \in t.back)
  BY <1>7 DEF OutOn
<1>9. \A k \in JobOrders : jobwork'[k].issued = jobwork[k].issued
  BY <1>7
<1>10. overlapped \subseteq JobOrders
  BY DEF TypeOK
<1>11. Astray \subseteq Astray'
  BY <1>2, <1>9, <1>10 DEF Astray
<1>12. \A x \in Pieces \ (Astray \union byHand) : /\ IsIn(x, "WITH_JOB_WORKER") <=> \E k \in JobOrders : OutOn(k, x)
                                                  /\ \A k, l \in JobOrders : OutOn(k, x) /\ OutOn(l, x) => k = l
  BY WorkerIs
<1>13. ASSUME NEW x \in Pieces, x \notin Astray', x \notin byHand'
       PROVE  /\ IsIn(x, "WITH_JOB_WORKER")' <=> \E k \in JobOrders : OutOn(k, x)'
              /\ \A k, l \in JobOrders : OutOn(k, x)' /\ OutOn(l, x)' => k = l
  <2>1. CASE x \notin t.back
    BY <1>h, <1>6, <1>8, <1>11, <1>12, <1>13, <2>1
  <2>2. CASE x \in t.back /\ j \in overlapped'
    <3>1. x \in DOMAIN jobwork'[j].issued
      BY <1>3, <1>7, <2>2
    <3>2. x \in Astray'
      BY <2>2, <3>1 DEF Astray
    <3> QED BY <1>13, <3>2
  <2>3. CASE x \in t.back /\ j \notin overlapped'
    <3>1. j \notin overlapped /\ t.before = jobwork[j].settled
      BY <1>2, <2>3
    <3>2. x \notin jobwork[j].returned /\ x \in DOMAIN jobwork[j].issued
      BY <1>3, <1>4, <1>7, <2>3, <3>1
    <3>3. OutOn(j, x)
      BY <1>7, <3>2 DEF OutOn
    <3> QED BY <1>h, <1>5, <1>7, <1>8, <1>11, <1>12, <1>13, <2>3, <3>3
  <2> QED BY <2>1, <2>2, <2>3
<1> QED BY <1>13, WorkerIsNext

LEMMA NextWorker == TypeOK /\ DocsOK /\ WorkerOK /\ DesksOK /\ [Next]_vars => WorkerOK'
<1> SUFFICES ASSUME TypeOK, DocsOK, WorkerOK, DesksOK, [Next]_vars PROVE WorkerOK'
  OBVIOUS
<1>h. byHand \subseteq byHand'
  BY HandGrows
<1> USE DEF docs, history
<1>1. CASE UNCHANGED vars
  BY <1>h, <1>1, Untouched, WorkerKept DEF vars
<1>2. CASE Producing
  <2>1. UNCHANGED <<jobwork, overlapped>>
    BY <1>2 DEF Producing, CreateProduction, MoveProduction, IssueMaterial, CompleteProduction, ReadForCancel, Take
  <2>2. Same("WITH_JOB_WORKER")
    BY <1>2, Untouched, IssueSame, CompleteSame DEF Producing, CreateProduction, MoveProduction, ReadForCancel, Take
  <2> QED BY <1>h, <2>1, <2>2, WorkerKept
<1>3. CASE Hallmarking
  <2>1. UNCHANGED <<jobwork, overlapped>>
    BY <1>3 DEF Hallmarking, CreateBatch, MoveBatch, Dispatch, Receive, ReadForVerdict, Take
  <2>2. Same("WITH_JOB_WORKER")
    BY <1>3, Untouched, DispatchSame, ReceiveSame DEF Hallmarking, CreateBatch, MoveBatch, ReadForVerdict, Take
  <2> QED BY <1>h, <2>1, <2>2, WorkerKept
<1>4. ASSUME NEW w \in Workers, CancelProduction(w) \/ (\E v \in Verdicts : Judge(w, v)) \/ GiveUp(w)
      PROVE  WorkerOK'
  <2>1. UNCHANGED <<jobwork, overlapped>>
    BY <1>4 DEF CancelProduction, Judge, GiveUp
  <2>2. Same("WITH_JOB_WORKER")
    BY <1>4, Untouched, CancelSame DEF Judge, GiveUp
  <2> QED BY <1>h, <2>1, <2>2, WorkerKept
<1>5. CASE Shelf
  BY <1>h, <1>5, ShelfSame, WorkerKept
<1> QED BY <1>1, <1>2, <1>3, <1>4, <1>5, JobWorkingWorker, ReturnWorker DEF Next, Writing

-----------------------------------------------------------------------------
(* The hallmarking centre.                                                  *)

OutIn(b, x) == batch[b] # None /\ batch[b].status \in {"IN_TRANSIT", "AT_CENTRE"} /\ x \in DOMAIN batch[b].lines

LEMMA CentreIs ==
  CentreOK <=> \A x \in Pieces \ byHand : /\ IsIn(x, "HALLMARKING") <=> \E b \in Batches : OutIn(b, x)
                                          /\ \A b, c \in Batches : OutIn(b, x) /\ OutIn(c, x) => b = c
<1>1. \A x, b : b \in AtCentreFor(x) <=> b \in Batches /\ OutIn(b, x)
  BY DEF AtCentreFor, OutIn
<1>2. \A x : AtCentreFor(x) # {} <=> \E b \in Batches : OutIn(b, x)
  BY <1>1
<1> QED BY <1>1, <1>2 DEF CentreOK, OneHolds

LEMMA CentreIsNext ==
  (\A x \in Pieces : x \notin byHand' => /\ IsIn(x, "HALLMARKING")' <=> \E b \in Batches : OutIn(b, x)'
                                         /\ \A b, c \in Batches : OutIn(b, x)' /\ OutIn(c, x)' => b = c)
  => CentreOK'
<1>1. \A x, b : (b \in AtCentreFor(x))' <=> b \in Batches /\ OutIn(b, x)'
  BY DEF AtCentreFor, OutIn
<1>2. \A x : (AtCentreFor(x) # {})' <=> \E b \in Batches : OutIn(b, x)'
  BY <1>1
<1> QED BY <1>1, <1>2 DEF CentreOK, OneHolds

LEMMA CentreSteady ==
  ASSUME byHand \subseteq byHand', CentreOK, Same("HALLMARKING"), \A b \in Batches, x \in Pieces : OutIn(b, x)' <=> OutIn(b, x)
  PROVE  CentreOK'
BY CentreIs, CentreIsNext DEF Same

LEMMA HallmarkingCentre ==
  ASSUME TypeOK, CentreOK, Hallmarking
  PROVE  CentreOK'
<1>h. byHand \subseteq byHand'
  BY HandGrows DEF Next
<1> USE DEF docs, history
<1>0. \A x \in Pieces \ byHand : /\ IsIn(x, "HALLMARKING") <=> \E b \in Batches : OutIn(b, x)
                                 /\ \A b, c \in Batches : OutIn(b, x) /\ OutIn(c, x) => b = c
  BY CentreIs
<1>1. ASSUME NEW b \in Batches, NEW S \in SUBSET Pieces, CreateBatch(b, S)
      PROVE  CentreOK'
  <2>1. \A c \in Batches, x \in Pieces : OutIn(c, x)' <=> OutIn(c, x)
    BY <1>1, BatchCreated DEF OutIn
  <2> QED BY <1>h, <1>1, <2>1, Untouched, CentreSteady DEF CreateBatch
<1>2. ASSUME NEW b \in Batches, NEW a \in {"arrive", "cancel"}, MoveBatch(b, a)
      PROVE  CentreOK'
  <2>1. /\ batch[b] # None /\ HallmarkingRules[a].to \in Stages(HallmarkingRules)
        /\ \/ batch[b].status = "IN_TRANSIT" /\ HallmarkingRules[a].to = "AT_CENTRE"
           \/ batch[b].status = "PENDING" /\ HallmarkingRules[a].to = "CANCELLED"
    BY <1>2, BatchFrom, BatchStagesAre DEF MoveBatch
  <2>2. /\ batch'[b] # None /\ batch'[b].status = HallmarkingRules[a].to /\ batch'[b].lines = batch[b].lines
        /\ \A c \in Batches \ {b} : batch'[c] = batch[c]
    BY <1>2, <2>1, BatchMoved DEF MoveBatch
  <2>3. \A c \in Batches, x \in Pieces : OutIn(c, x)' <=> OutIn(c, x)
    BY <2>1, <2>2 DEF OutIn
  <2> QED BY <1>h, <1>2, <2>3, Untouched, CentreSteady DEF MoveBatch
<1>3. ASSUME NEW b \in Batches, Dispatch(b)
      PROVE  CentreOK'
  <2> DEFINE S == DOMAIN batch[b].lines
  <2>1. batch[b] # None /\ batch[b].status = "PENDING" /\ "IN_TRANSIT" \in Stages(HallmarkingRules)
    BY <1>3, BatchFrom, BatchStagesAre DEF Dispatch
  <2>2. /\ batch'[b] # None /\ batch'[b].status = "IN_TRANSIT" /\ batch'[b].lines = batch[b].lines
        /\ \A c \in Batches \ {b} : batch'[c] = batch[c]
    BY <1>3, <2>1, BatchMoved DEF Dispatch
  <2>3. \A c \in Batches, x \in Pieces : OutIn(c, x)' <=> OutIn(c, x) \/ (c = b /\ x \in S)
    BY <2>1, <2>2 DEF OutIn
  <2>4. /\ \A x \in S : ~IsIn(x, "HALLMARKING") /\ IsIn(x, "HALLMARKING")'
        /\ \A x \in Pieces \ S : IsIn(x, "HALLMARKING")' = IsIn(x, "HALLMARKING")
    BY <1>3, DispatchSame DEF IsIn
  <2> HIDE DEF S
  <2>5. ASSUME NEW x \in Pieces, x \notin byHand'
        PROVE  /\ IsIn(x, "HALLMARKING")' <=> \E c \in Batches : OutIn(c, x)'
               /\ \A c, d \in Batches : OutIn(c, x)' /\ OutIn(d, x)' => c = d
    <3>1. CASE x \in S
      BY <1>h, <2>5, <1>0, <2>3, <2>4, <3>1
    <3>2. CASE x \notin S
      BY <1>h, <2>5, <1>0, <2>3, <2>4, <3>2
    <3> QED BY <3>1, <3>2
  <2> QED BY <2>5, CentreIsNext
<1>4. ASSUME NEW b \in Batches, Receive(b)
      PROVE  CentreOK'
  <2> DEFINE S == DOMAIN batch[b].lines
  <2>1. batch[b] # None /\ batch[b].status \in {"IN_TRANSIT", "AT_CENTRE"}
        /\ batch'[b].status = "RECEIVED" /\ \A c \in Batches \ {b} : batch'[c] = batch[c]
    BY <1>4, CameHome
  <2>2. \A c \in Batches, x \in Pieces : OutIn(c, x)' <=> OutIn(c, x) /\ c # b
    BY <2>1 DEF OutIn
  <2>3. \A x \in Pieces : OutIn(b, x) <=> x \in S
    BY <2>1 DEF OutIn
  <2>4. /\ \A x \in S : ~IsIn(x, "HALLMARKING")'
        /\ \A x \in Pieces \ S : IsIn(x, "HALLMARKING")' = IsIn(x, "HALLMARKING")
    BY <1>4, ReceiveSame
  <2> HIDE DEF S
  <2>5. ASSUME NEW x \in Pieces, x \notin byHand'
        PROVE  /\ IsIn(x, "HALLMARKING")' <=> \E c \in Batches : OutIn(c, x)'
               /\ \A c, d \in Batches : OutIn(c, x)' /\ OutIn(d, x)' => c = d
    <3>1. CASE x \in S
      BY <1>h, <2>5, <1>0, <2>2, <2>3, <2>4, <3>1
    <3>2. CASE x \notin S
      BY <1>h, <2>5, <1>0, <2>2, <2>3, <2>4, <3>2
    <3> QED BY <3>1, <3>2
  <2> QED BY <2>5, CentreIsNext
<1>5. ASSUME NEW b \in Batches, NEW w \in Workers, NEW x \in Pieces, ReadForVerdict(w, b, x)
      PROVE  CentreOK'
  BY <1>h, <1>5, Untouched, CentreKept DEF ReadForVerdict, Take
<1> QED BY <1>1, <1>2, <1>3, <1>4, <1>5 DEF Hallmarking

LEMMA NextCentre == TypeOK /\ CentreOK /\ DesksOK /\ [Next]_vars => CentreOK'
<1> SUFFICES ASSUME TypeOK, CentreOK, DesksOK, [Next]_vars PROVE CentreOK'
  OBVIOUS
<1>h. byHand \subseteq byHand'
  BY HandGrows
<1> USE DEF docs, history
<1>1. CASE UNCHANGED vars
  BY <1>h, <1>1, Untouched, CentreKept DEF vars
<1>2. CASE Producing
  <2>1. UNCHANGED batch
    BY <1>2 DEF Producing, CreateProduction, MoveProduction, IssueMaterial, CompleteProduction, ReadForCancel, Take
  <2>2. Same("HALLMARKING")
    BY <1>2, Untouched, IssueSame, CompleteSame DEF Producing, CreateProduction, MoveProduction, ReadForCancel, Take
  <2> QED BY <1>h, <2>1, <2>2, CentreKept
<1>3. CASE JobWorking
  <2>1. UNCHANGED batch
    BY <1>3 DEF JobWorking, CreateJobWork, CancelJobWork, IssueJobWork, ReadForReturn, Take
  <2>2. Same("HALLMARKING")
    BY <1>3, Untouched, IssueJobSame DEF JobWorking, CreateJobWork, CancelJobWork, ReadForReturn, Take
  <2> QED BY <1>h, <2>1, <2>2, CentreKept
<1>4. ASSUME NEW w \in Workers, CancelProduction(w) \/ ReturnJobWork(w) \/ GiveUp(w)
      PROVE  CentreOK'
  <2>1. UNCHANGED batch
    BY <1>4 DEF CancelProduction, ReturnJobWork, GiveUp
  <2>2. Same("HALLMARKING")
    BY <1>4, Untouched, CancelSame, ReturnSame DEF GiveUp
  <2> QED BY <1>h, <2>1, <2>2, CentreKept
<1>5. ASSUME NEW w \in Workers, NEW v \in Verdicts, Judge(w, v)
      PROVE  CentreOK'
  <2>1. batch[desk[w].doc] # None
    BY <1>5 DEF DesksOK, Judge
  <2>2. \A c \in Batches, x \in Pieces : OutIn(c, x)' <=> OutIn(c, x)
    BY <1>5, <2>1, BatchJudged DEF OutIn
  <2> QED BY <1>h, <1>5, <2>2, Untouched, CentreSteady DEF Judge
<1>6. CASE Shelf
  BY <1>h, <1>6, ShelfSame, CentreKept
<1> QED BY <1>1, <1>2, <1>3, <1>4, <1>5, <1>6, HallmarkingCentre DEF Next, Writing

-----------------------------------------------------------------------------
(* The documents.                                                           *)

ProductionClean(o) ==
  production[o] # None =>
    /\ production[o].status = "DRAFT" => production[o].issued = Empty
    /\ production[o].status # "COMPLETED" => production[o].returned = {} /\ production[o].finished = {}
    /\ o \in blind => production[o].status = "CANCELLED"

JobWorkClean(j) ==
  jobwork[j] # None =>
    /\ jobwork[j].status = "DRAFT" => jobwork[j].issued = Empty /\ jobwork[j].returned = {}
    /\ j \in overlapped => jobwork[j].status # "DRAFT"

LEMMA DocsAre ==
  TypeOK => (DocsOK <=> /\ \A o \in Productions : ProductionClean(o) /\ (o \in blind => production[o] # None)
                        /\ \A j \in JobOrders : JobWorkClean(j) /\ (j \in overlapped => jobwork[j] # None))
BY DEF TypeOK, DocsOK, ProductionClean, JobWorkClean

LEMMA DocsAreNext ==
  TypeOK' => (DocsOK' <=> /\ \A o \in Productions : ProductionClean(o)' /\ (o \in blind' => production'[o] # None)
                          /\ \A j \in JobOrders : JobWorkClean(j)' /\ (j \in overlapped' => jobwork'[j] # None))
BY DEF TypeOK, DocsOK, ProductionClean, JobWorkClean

LEMMA ProductionsKept ==
  ASSUME TypeOK, DocsOK, UNCHANGED <<production, blind>>
  PROVE  \A o \in Productions : ProductionClean(o)' /\ (o \in blind' => production'[o] # None)
BY DocsAre DEF ProductionClean

LEMMA JobWorksKept ==
  ASSUME TypeOK, DocsOK, UNCHANGED <<jobwork, overlapped>>
  PROVE  \A j \in JobOrders : JobWorkClean(j)' /\ (j \in overlapped' => jobwork'[j] # None)
BY DocsAre DEF JobWorkClean

(* One production order is written, the marks are left alone.               *)
LEMMA OneProduction ==
  ASSUME TypeOK, DocsOK, NEW o \in Productions, UNCHANGED blind, production'[o] # None, ProductionClean(o)',
         \A p \in Productions \ {o} : production'[p] = production[p]
  PROVE  \A p \in Productions : ProductionClean(p)' /\ (p \in blind' => production'[p] # None)
BY DocsAre DEF ProductionClean

LEMMA OneJobWork ==
  ASSUME TypeOK, DocsOK, NEW j \in JobOrders, overlapped' \subseteq overlapped \union {j}, jobwork'[j] # None,
         JobWorkClean(j)', \A k \in JobOrders \ {j} : jobwork'[k] = jobwork[k]
  PROVE  \A k \in JobOrders : JobWorkClean(k)' /\ (k \in overlapped' => jobwork'[k] # None)
BY DocsAre DEF JobWorkClean

LEMMA NextDocs ==
  ASSUME TypeOK, TypeOK', DocsOK, DesksOK, [Next]_vars
  PROVE  DocsOK'
<1> USE DEF docs, history
<1>1. \A o \in Productions : ProductionClean(o)' /\ (o \in blind' => production'[o] # None)
  <2>1. CASE UNCHANGED <<production, blind>>
    BY <2>1, ProductionsKept
  <2>2. ASSUME NEW o \in Productions, CreateProduction(o)
        PROVE  \A p \in Productions : ProductionClean(p)' /\ (p \in blind' => production'[p] # None)
    <3>1. o \notin blind
      BY <2>2, NewProduction DEF DocsOK
    <3>2. ProductionClean(o)' /\ UNCHANGED blind
      BY <2>2, <3>1, NewProduction DEF ProductionClean, CreateProduction
    <3> QED BY <2>2, <3>2, NewProduction, OneProduction
  <2>3. ASSUME NEW o \in Productions, NEW a \in {"startManufacturing", "submitForQc", "passQc", "failQc", "rework"},
               MoveProduction(o, a)
        PROVE  \A p \in Productions : ProductionClean(p)' /\ (p \in blind' => production'[p] # None)
    <3>1. /\ production[o] # None /\ production[o].status \notin {"DRAFT", "COMPLETED", "CANCELLED"}
          /\ ProductionRules[a].to \in Stages(ProductionRules) \ {"DRAFT", "COMPLETED"}
          /\ production' = [production EXCEPT ![o].status = ProductionRules[a].to] /\ UNCHANGED blind
      BY <2>3, ProductionFrom, ProductionStagesAre DEF MoveProduction
    <3>2. /\ production'[o] # None /\ production'[o].status = ProductionRules[a].to
          /\ production'[o].returned = production[o].returned /\ production'[o].finished = production[o].finished
          /\ \A p \in Productions \ {o} : production'[p] = production[p]
      BY <3>1, ProductionMoved
    <3>3. o \notin blind /\ production[o].returned = {} /\ production[o].finished = {}
      BY <3>1 DEF DocsOK
    <3>4. ProductionClean(o)'
      BY <3>1, <3>2, <3>3 DEF ProductionClean
    <3> QED BY <3>1, <3>2, <3>4, OneProduction
  <2>4. ASSUME NEW o \in Productions, NEW S \in SUBSET Pieces, IssueMaterial(o, S)
        PROVE  \A p \in Productions : ProductionClean(p)' /\ (p \in blind' => production'[p] # None)
    <3>1. production[o] # None /\ production[o].status = "DRAFT" /\ UNCHANGED blind
      BY <2>4, ProductionFrom DEF IssueMaterial
    <3>2. o \notin blind /\ production[o].returned = {} /\ production[o].finished = {}
      BY <3>1 DEF DocsOK
    <3>3. ProductionClean(o)'
      BY <2>4, <3>1, <3>2, MaterialIssued DEF ProductionClean
    <3> QED BY <2>4, <3>1, <3>3, MaterialIssued, OneProduction
  <2>5. ASSUME NEW o \in Productions, NEW S \in SUBSET Pieces, NEW n, CompleteProduction(o, S, n)
        PROVE  \A p \in Productions : ProductionClean(p)' /\ (p \in blind' => production'[p] # None)
    <3>1. /\ production[o] # None /\ production[o].status = "QC_PASSED"
          /\ production'[o] # None /\ production'[o].status = "COMPLETED"
          /\ \A p \in Productions \ {o} : production'[p] = production[p]
      BY <2>5, Completed DEF CompletesWith
    <3>2. o \notin blind /\ UNCHANGED blind
      BY <2>5, <3>1 DEF DocsOK, CompleteProduction
    <3>3. ProductionClean(o)'
      BY <3>1, <3>2 DEF ProductionClean
    <3> QED BY <3>1, <3>2, <3>3, OneProduction
  <2>6. ASSUME NEW w \in Workers, CancelProduction(w)
        PROVE  \A p \in Productions : ProductionClean(p)' /\ (p \in blind' => production'[p] # None)
    <3> DEFINE held == Held(w)
    <3>1. PICK o : o = desk[w].doc
      OBVIOUS
    <3>2. blind' \subseteq blind \union {o} /\ held = Held(w)
      BY <2>6, <3>1 DEF CancelProduction
    <3> HIDE DEF held
    <3>3. /\ o \in Productions /\ production[o] # None /\ production[o].status # "COMPLETED"
          /\ production'[o] # None /\ production'[o].status = "CANCELLED"
          /\ production'[o].returned = production[o].returned /\ production'[o].finished = production[o].finished
          /\ \A p \in Productions \ {o} : production'[p] = production[p]
      BY <2>6, <3>1, <3>2, Cancelled
    <3>4. production[o].returned = {} /\ production[o].finished = {}
      BY <3>3 DEF DocsOK
    <3>5. ProductionClean(o)'
      BY <3>3, <3>4 DEF ProductionClean
    <3>6. ASSUME NEW p \in Productions \ {o}
          PROVE  ProductionClean(p)' /\ (p \in blind' => production'[p] # None)
      BY <3>2, <3>3, <3>6, DocsAre DEF ProductionClean
    <3> QED BY <3>3, <3>5, <3>6
  <2>7. CASE Producing
    <3>1. ASSUME NEW w \in Workers, NEW o \in Productions, ReadForCancel(w, o)
          PROVE  UNCHANGED <<production, blind>>
      BY <3>1 DEF ReadForCancel, Take
    <3> QED BY <2>1, <2>2, <2>3, <2>4, <2>5, <2>7, <3>1 DEF Producing
  <2>8. CASE JobWorking
    BY <2>1, <2>8 DEF JobWorking, CreateJobWork, CancelJobWork, IssueJobWork, ReadForReturn, Take
  <2>9. CASE Hallmarking
    BY <2>1, <2>9 DEF Hallmarking, CreateBatch, MoveBatch, Dispatch, Receive, ReadForVerdict, Take
  <2>10. ASSUME NEW w \in Workers, ReturnJobWork(w) \/ (\E v \in Verdicts : Judge(w, v)) \/ GiveUp(w)
         PROVE  UNCHANGED <<production, blind>>
    BY <2>10 DEF ReturnJobWork, Judge, GiveUp
  <2>11. Shelf => UNCHANGED <<production, blind>>
    BY ShelfSame
  <2> QED BY <2>1, <2>6, <2>7, <2>8, <2>9, <2>10, <2>11 DEF Next, Writing, vars
<1>2. \A j \in JobOrders : JobWorkClean(j)' /\ (j \in overlapped' => jobwork'[j] # None)
  <2>1. CASE UNCHANGED <<jobwork, overlapped>>
    BY <2>1, JobWorksKept
  <2>2. ASSUME NEW j \in JobOrders, CreateJobWork(j)
        PROVE  \A k \in JobOrders : JobWorkClean(k)' /\ (k \in overlapped' => jobwork'[k] # None)
    <3>1. j \notin overlapped
      BY <2>2, NewJobWork DEF DocsOK
    <3>2. JobWorkClean(j)' /\ UNCHANGED overlapped
      BY <2>2, <3>1, NewJobWork DEF JobWorkClean, CreateJobWork
    <3> QED BY <2>2, <3>2, NewJobWork, OneJobWork
  <2>3. ASSUME NEW j \in JobOrders, CancelJobWork(j)
        PROVE  \A k \in JobOrders : JobWorkClean(k)' /\ (k \in overlapped' => jobwork'[k] # None)
    <3>1. JobWorkClean(j)' /\ UNCHANGED overlapped
      BY <2>3, JobWorkCancelled DEF JobWorkClean, CancelJobWork
    <3> QED BY <2>3, <3>1, JobWorkCancelled, OneJobWork
  <2>4. ASSUME NEW j \in JobOrders, NEW S \in SUBSET Pieces, IssueJobWork(j, S)
        PROVE  \A k \in JobOrders : JobWorkClean(k)' /\ (k \in overlapped' => jobwork'[k] # None)
    <3>1. JobWorkClean(j)' /\ UNCHANGED overlapped
      BY <2>4, JobWorkIssued DEF JobWorkClean, IssueJobWork
    <3> QED BY <2>4, <3>1, JobWorkIssued, OneJobWork
  <2>5. ASSUME NEW w \in Workers, ReturnJobWork(w)
        PROVE  \A k \in JobOrders : JobWorkClean(k)' /\ (k \in overlapped' => jobwork'[k] # None)
    <3>1. PICK t, j : t = desk[w] /\ j = t.doc
      OBVIOUS
    <3>2. overlapped' \subseteq overlapped \union {j}
      BY <2>5, <3>1 DEF ReturnJobWork
    <3>3. /\ j \in JobOrders /\ jobwork'[j] # None
          /\ jobwork'[j].status = IF t.final THEN "RETURNED" ELSE "PARTIALLY_RETURNED"
          /\ \A k \in JobOrders \ {j} : jobwork'[k] = jobwork[k]
      BY <2>5, <3>1, Returned DEF ReturnsWith
    <3>4. JobWorkClean(j)'
      BY <3>3 DEF JobWorkClean
    <3> QED BY <3>2, <3>3, <3>4, OneJobWork
  <2>6. CASE Producing
    BY <2>1, <2>6 DEF Producing, CreateProduction, MoveProduction, IssueMaterial, CompleteProduction, ReadForCancel, Take
  <2>7. CASE JobWorking
    <3>1. ASSUME NEW j \in JobOrders, NEW w \in Workers, NEW S \in SUBSET Pieces, NEW n \in 0..Cardinality(Pieces),
                 NEW waste \in 0..MaxWaste, NEW final \in BOOLEAN, ReadForReturn(w, j, S, n, waste, final)
          PROVE  UNCHANGED <<jobwork, overlapped>>
      BY <3>1 DEF ReadForReturn, Take
    <3> QED BY <2>1, <2>2, <2>3, <2>4, <2>7, <3>1 DEF JobWorking
  <2>8. CASE Hallmarking
    BY <2>1, <2>8 DEF Hallmarking, CreateBatch, MoveBatch, Dispatch, Receive, ReadForVerdict, Take
  <2>9. ASSUME NEW w \in Workers, CancelProduction(w) \/ (\E v \in Verdicts : Judge(w, v)) \/ GiveUp(w)
        PROVE  UNCHANGED <<jobwork, overlapped>>
    BY <2>9 DEF CancelProduction, Judge, GiveUp
  <2>10. Shelf => UNCHANGED <<jobwork, overlapped>>
    BY ShelfSame
  <2> QED BY <2>1, <2>5, <2>6, <2>7, <2>8, <2>9, <2>10 DEF Next, Writing, vars
<1> QED BY <1>1, <1>2, DocsAreNext

-----------------------------------------------------------------------------
(* What the workers have read.                                              *)

DeskOK(w) ==
  /\ desk[w].task = "cancel" => CancelOK(w)
  /\ desk[w].task = "return" => ReturnOK(w)
  /\ desk[w].task = "verdict" => batch[desk[w].doc] # None

LEMMA DesksAre == DesksOK <=> \A w \in Workers : DeskOK(w)
BY DEF DesksOK, DeskOK

LEMMA DesksAreNext == DesksOK' <=> \A w \in Workers : DeskOK(w)'
BY DEF DesksOK, DeskOK

(* A worker that reads: the others are as they were.                        *)
LEMMA DeskTaken ==
  ASSUME TypeOK, DesksOK, NEW w \in Workers, NEW t, Take(w, t), DeskOK(w)'
  PROVE  DesksOK'
<1>1. ASSUME NEW v \in Workers \ {w} PROVE DeskOK(v)'
  <2>1. desk'[v] = desk[v] /\ UNCHANGED <<item, docs, history>>
    BY DEF Take, TypeOK
  <2> QED BY <2>1, DesksAre DEF DeskOK, CancelOK, ReturnOK, docs, history
<1> QED BY <1>1, DesksAreNext

LEMMA DeskTakes ==
  ASSUME TypeOK, NEW w \in Workers, NEW t, Take(w, t)
  PROVE  desk'[w] = t /\ UNCHANGED <<item, production, jobwork, batch, lost, blind, overlapped>>
BY DEF Take, TypeOK, docs, history

LEMMA ReadForCancelDesk ==
  ASSUME TypeOK, DesksOK, NEW w \in Workers, NEW o \in Productions, ReadForCancel(w, o)
  PROVE  DesksOK'
<1> DEFINE t == [task |-> "cancel", doc |-> o, issued |-> production[o].issued]
<1>1. production[o] # None /\ Take(w, t)
  BY DEF ReadForCancel
<1>2. t.task = "cancel" /\ t.doc = o /\ t.issued = production[o].issued
  OBVIOUS
<1> HIDE DEF t
<1>3. desk'[w] = t /\ UNCHANGED production
  BY <1>1, DeskTakes
<1>4. DeskOK(w)'
  BY <1>1, <1>2, <1>3 DEF DeskOK, CancelOK
<1> QED BY <1>1, <1>4, DeskTaken

LEMMA ReadForVerdictDesk ==
  ASSUME TypeOK, DesksOK, NEW w \in Workers, NEW b \in Batches, NEW x \in Pieces, ReadForVerdict(w, b, x)
  PROVE  DesksOK'
<1> DEFINE t == [task |-> "verdict", doc |-> b, piece |-> x]
<1>1. batch[b] # None /\ Take(w, t)
  BY DEF ReadForVerdict
<1>2. t.task = "verdict" /\ t.doc = b
  OBVIOUS
<1> HIDE DEF t
<1>3. desk'[w] = t /\ UNCHANGED batch
  BY <1>1, DeskTakes
<1>4. DeskOK(w)'
  BY <1>1, <1>2, <1>3 DEF DeskOK
<1> QED BY <1>1, <1>4, DeskTaken

LEMMA ReadForReturnDesk ==
  ASSUME TypeOK, DesksOK, NEW w \in Workers, NEW j \in JobOrders, NEW S \in SUBSET Pieces, NEW n \in Nat,
         NEW waste \in Nat, NEW final \in BOOLEAN, ReadForReturn(w, j, S, n, waste, final)
  PROVE  DesksOK'
<1> DEFINE all == jobwork[j].settled + Cardinality(S) + n + waste
           t == [task |-> "return", doc |-> j, back |-> S, made |-> n, before |-> jobwork[j].settled,
                 settled |-> all, final |-> final]
<1>1. /\ jobwork[j] # None /\ Take(w, t) /\ S \subseteq DOMAIN jobwork[j].issued \ jobwork[j].returned
      /\ final \/ S # {} \/ n + waste > 0
      /\ all <= Cardinality(DOMAIN jobwork[j].issued)
  BY DEF ReadForReturn, Acceptable, Accounted
<1>2. /\ t.task = "return" /\ t.doc = j /\ t.back = S /\ t.made = n /\ t.before = jobwork[j].settled
      /\ t.settled = all /\ t.final = final
  OBVIOUS
<1>3. jobwork[j].settled \in Nat /\ IsFiniteSet(S) /\ Cardinality(S) \in Nat /\ (S # {} => Cardinality(S) > 0)
  <2>1. IsFiniteSet(S) /\ Cardinality(S) \in Nat
    BY FS_Subset, FS_CardinalityType, WorkshopAssumption
  <2>2. S # {} => Cardinality(S) > 0
    BY <2>1, FS_EmptySet
  <2>3. jobwork[j].settled \in Nat
    BY <1>1, JobWorkTypes DEF JobWorkDocs
  <2> QED BY <2>1, <2>2, <2>3
<1> HIDE DEF t
<1>4. desk'[w] = t /\ UNCHANGED <<jobwork, overlapped>>
  BY <1>1, DeskTakes
<1>5. t.before + Cardinality(t.back) + t.made <= t.settled /\ (t.final \/ t.before < t.settled)
  BY <1>1, <1>2, <1>3
<1>6. t.back \subseteq DOMAIN jobwork[j].issued /\ t.settled <= Cardinality(DOMAIN jobwork[j].issued)
      /\ t.back \intersect jobwork[j].returned = {} /\ t.before <= jobwork[j].settled
  BY <1>1, <1>2, <1>3
<1>7. ReturnOK(w)'
  BY <1>1, <1>2, <1>4, <1>5, <1>6 DEF ReturnOK
<1>8. DeskOK(w)'
  BY <1>2, <1>4, <1>7 DEF DeskOK
<1> QED BY <1>1, <1>8, DeskTaken

(* A return moves the totals on, past every copy read before it.            *)
LEMMA ReturnDesk ==
  ASSUME TypeOK, TypeOK', DesksOK, NEW w \in Workers, ReturnJobWork(w)
  PROVE  DesksOK'
<1>1. PICK t, j : t = desk[w] /\ j = t.doc
  OBVIOUS
<1>2. /\ j \in JobOrders /\ jobwork[j] # None /\ jobwork[j].status \in {"ISSUED", "PARTIALLY_RETURNED"}
      /\ jobwork'[j] # None /\ jobwork'[j].status = (IF t.final THEN "RETURNED" ELSE "PARTIALLY_RETURNED")
      /\ jobwork'[j].issued = jobwork[j].issued /\ jobwork'[j].settled = t.settled
      /\ \A k \in JobOrders \ {j} : jobwork'[k] = jobwork[k]
  BY <1>1, Returned DEF ReturnsWith
<1>3. /\ t.settled \in Nat /\ t.before \in Nat /\ t.final \in BOOLEAN /\ (t.final \/ t.before < t.settled)
  BY <1>1, TaskTypes DEF ReturnJobWork, DesksOK, ReturnOK
<1>4. /\ desk'[w] = Off /\ \A v \in Workers \ {w} : desk'[v] = desk[v]
      /\ UNCHANGED <<production, batch>>
      /\ overlapped' = (IF t.before = jobwork[j].settled THEN overlapped ELSE overlapped \union {j})
  BY <1>1 DEF ReturnJobWork, Leave, TypeOK
<1>5. DeskOK(w)'
  BY <1>4 DEF DeskOK, Off
<1>6. ASSUME NEW v \in Workers \ {w}, desk[v].task = "return" PROVE ReturnOK(v)'
  <2>1. PICK u : u = desk[v] /\ u.doc \in JobOrders
    BY <1>6, TaskTypes
  <2>2. ReturnOK(v) /\ u.before \in Nat
    BY <1>6, <2>1, TaskTypes DEF DesksOK
  <2>3. CASE u.doc # j
    <3>1. jobwork'[u.doc] = jobwork[u.doc] /\ (u.doc \in overlapped' <=> u.doc \in overlapped) /\ desk'[v] = u
      BY <1>2, <1>4, <2>1, <2>3
    <3> QED BY <2>1, <2>2, <3>1 DEF ReturnOK
  <2>4. CASE u.doc = j
    <3>1. j \notin overlapped' /\ jobwork'[j].status # "RETURNED" => u.before < jobwork'[j].settled
      <4>1. SUFFICES ASSUME j \notin overlapped', jobwork'[j].status # "RETURNED"
                     PROVE  u.before < jobwork'[j].settled
        BY <4>1
      <4>2. t.before = jobwork[j].settled /\ j \notin overlapped /\ ~t.final
        BY <1>2, <1>4, <4>1
      <4>3. u.before <= jobwork[j].settled
        BY <1>2, <2>1, <2>2, <2>4, <4>2 DEF ReturnOK
      <4> QED BY <1>2, <1>3, <2>2, <4>2, <4>3
    <3>2. jobwork'[j].settled \in Nat /\ desk'[v] = u
      BY <1>2, <1>3, <1>4, <2>1
    <3> QED BY <1>2, <2>1, <2>2, <2>4, <3>1, <3>2 DEF ReturnOK
  <2> QED BY <2>3, <2>4
<1>7. ASSUME NEW v \in Workers \ {w} PROVE DeskOK(v)'
  BY <1>4, <1>6, DesksAre DEF DeskOK, CancelOK
<1> QED BY <1>5, <1>7, DesksAreNext

(* The steps that take no copy and return no job work.                      *)
ProductionsGrow ==
  \A o \in Productions : production[o] # None =>
    production'[o] # None /\ (production'[o].issued = production[o].issued \/ production[o].issued = Empty)

JobWorksGrow ==
  \A j \in JobOrders : jobwork[j] # None =>
    /\ jobwork'[j] # None /\ jobwork'[j].settled = jobwork[j].settled /\ jobwork'[j].returned = jobwork[j].returned
    /\ jobwork'[j].issued = jobwork[j].issued \/ jobwork[j].issued = Empty
    /\ jobwork[j].status = "RETURNED" => jobwork'[j].status = "RETURNED"

BatchesGrow == \A b \in Batches : batch[b] # None => batch'[b] # None

LEMMA ProducingGrow ==
  ASSUME TypeOK, DocsOK, NEW o \in Productions,
         \/ CreateProduction(o)
         \/ \E a \in {"startManufacturing", "submitForQc", "passQc", "failQc", "rework"} : MoveProduction(o, a)
         \/ \E S \in SUBSET Pieces : IssueMaterial(o, S)
         \/ \E S \in SUBSET Pieces, n \in Nat : CompleteProduction(o, S, n)
  PROVE  ProductionsGrow
<1>1. CASE CreateProduction(o)
  BY <1>1, NewProduction DEF ProductionsGrow
<1>2. ASSUME NEW a \in {"startManufacturing", "submitForQc", "passQc", "failQc", "rework"}, MoveProduction(o, a)
      PROVE  ProductionsGrow
  <2>1. production[o] # None /\ ProductionRules[a].to \in Stages(ProductionRules)
        /\ production' = [production EXCEPT ![o].status = ProductionRules[a].to]
    BY <1>2, ProductionFrom, ProductionStagesAre DEF MoveProduction
  <2>2. /\ production'[o] # None /\ production'[o].issued = production[o].issued
        /\ \A p \in Productions \ {o} : production'[p] = production[p]
    BY <2>1, ProductionMoved
  <2> QED BY <2>2 DEF ProductionsGrow
<1>3. ASSUME NEW S \in SUBSET Pieces, IssueMaterial(o, S) PROVE ProductionsGrow
  <2>1. production[o].issued = Empty
    BY <1>3, ProductionFrom DEF IssueMaterial, DocsOK
  <2> QED BY <1>3, <2>1, MaterialIssued DEF ProductionsGrow
<1>4. ASSUME NEW S \in SUBSET Pieces, NEW n \in Nat, CompleteProduction(o, S, n) PROVE ProductionsGrow
  <2>1. /\ production'[o] # None /\ production'[o].issued = production[o].issued
        /\ \A p \in Productions \ {o} : production'[p] = production[p]
    BY <1>4, Completed DEF CompletesWith
  <2> QED BY <2>1 DEF ProductionsGrow
<1> QED BY <1>1, <1>2, <1>3, <1>4

LEMMA CancelGrow ==
  ASSUME TypeOK, NEW w \in Workers, CancelProduction(w)
  PROVE  ProductionsGrow
<1>1. PICK o, held : o = desk[w].doc /\ held = Held(w)
  OBVIOUS
<1>2. /\ production'[o] # None /\ production'[o].issued = production[o].issued
      /\ \A p \in Productions \ {o} : production'[p] = production[p]
  BY <1>1, Cancelled
<1> QED BY <1>2 DEF ProductionsGrow

LEMMA JobWorkingGrow ==
  ASSUME TypeOK, DocsOK, NEW j \in JobOrders,
         CreateJobWork(j) \/ CancelJobWork(j) \/ \E S \in SUBSET Pieces : IssueJobWork(j, S)
  PROVE  JobWorksGrow
<1>1. CASE CreateJobWork(j)
  BY <1>1, NewJobWork DEF JobWorksGrow
<1>2. CASE CancelJobWork(j)
  <2>1. jobwork[j].status = "DRAFT"
    BY <1>2, JobWorkFrom DEF CancelJobWork
  <2> QED BY <1>2, <2>1, JobWorkCancelled DEF JobWorksGrow
<1>3. ASSUME NEW S \in SUBSET Pieces, IssueJobWork(j, S) PROVE JobWorksGrow
  <2>1. jobwork[j].status = "DRAFT" /\ jobwork[j].issued = Empty
    BY <1>3, JobWorkFrom DEF IssueJobWork, DocsOK
  <2> QED BY <1>3, <2>1, JobWorkIssued DEF JobWorksGrow
<1> QED BY <1>1, <1>2, <1>3

LEMMA HallmarkingGrow ==
  ASSUME TypeOK, NEW b \in Batches,
         \/ \E S \in SUBSET Pieces : CreateBatch(b, S)
         \/ \E a \in {"arrive", "cancel"} : MoveBatch(b, a)
         \/ Dispatch(b)
         \/ Receive(b)
  PROVE  BatchesGrow
<1>1. ASSUME NEW S \in SUBSET Pieces, CreateBatch(b, S) PROVE BatchesGrow
  BY <1>1, BatchCreated DEF BatchesGrow
<1>2. ASSUME NEW s \in Stages(HallmarkingRules), batch[b] # None, batch' = [batch EXCEPT ![b].status = s]
      PROVE  BatchesGrow
  BY <1>2, BatchMoved DEF BatchesGrow
<1>3. ASSUME NEW a \in {"arrive", "cancel"}, MoveBatch(b, a) PROVE BatchesGrow
  <2>1. batch[b] # None /\ HallmarkingRules[a].to \in Stages(HallmarkingRules)
    BY <1>3, BatchFrom, BatchStagesAre DEF MoveBatch
  <2> QED BY <1>2, <1>3, <2>1 DEF MoveBatch
<1>4. CASE Dispatch(b)
  BY <1>2, <1>4, BatchFrom, BatchStagesAre DEF Dispatch
<1>5. CASE Receive(b)
  BY <1>2, <1>5, BatchFrom, BatchStagesAre DEF Receive
<1> QED BY <1>1, <1>3, <1>4, <1>5

LEMMA Steady ==
  /\ UNCHANGED production => ProductionsGrow
  /\ UNCHANGED jobwork => JobWorksGrow
  /\ UNCHANGED batch => BatchesGrow
BY DEF ProductionsGrow, JobWorksGrow, BatchesGrow

LEMMA DesksGrow ==
  ASSUME TypeOK, TypeOK', DesksOK, \A w \in Workers : desk'[w] = desk[w] \/ desk'[w] = Off,
         ProductionsGrow, JobWorksGrow, BatchesGrow, overlapped' = overlapped
  PROVE  DesksOK'
<1>1. Grown
  BY DEF Grown, ProductionsGrow, JobWorksGrow, BatchesGrow
<1> QED BY <1>1, DesksKept

LEMMA NextDesks ==
  ASSUME TypeOK, TypeOK', DocsOK, DesksOK, [Next]_vars
  PROVE  DesksOK'
<1> USE DEF docs, history
<1>1. CASE UNCHANGED vars
  BY <1>1, Steady, DesksGrow DEF vars
<1>2. ASSUME NEW o \in Productions,
             \/ CreateProduction(o)
             \/ \E a \in {"startManufacturing", "submitForQc", "passQc", "failQc", "rework"} : MoveProduction(o, a)
             \/ \E S \in SUBSET Pieces : IssueMaterial(o, S)
             \/ \E S \in SUBSET Pieces, n \in Nat : CompleteProduction(o, S, n)
      PROVE  DesksOK'
  <2>1. UNCHANGED <<jobwork, batch, desk, overlapped>>
    BY <1>2 DEF CreateProduction, MoveProduction, IssueMaterial, CompleteProduction
  <2>2. ProductionsGrow
    BY <1>2, ProducingGrow
  <2> QED BY <2>1, <2>2, Steady, DesksGrow
<1>3. CASE Producing
  <2>1. Cardinality(Pieces) \in Nat
    BY FS_CardinalityType, WorkshopAssumption
  <2>2. PICK o \in Productions :
          \/ CreateProduction(o)
          \/ \E a \in {"startManufacturing", "submitForQc", "passQc", "failQc", "rework"} : MoveProduction(o, a)
          \/ \E S \in SUBSET Pieces : IssueMaterial(o, S)
          \/ \E S \in SUBSET Pieces, n \in Nat : CompleteProduction(o, S, n)
          \/ \E w \in Workers : ReadForCancel(w, o)
    BY <1>3, <2>1 DEF Producing
  <2> QED BY <1>2, <2>2, ReadForCancelDesk
<1>4. ASSUME NEW j \in JobOrders, CreateJobWork(j) \/ CancelJobWork(j) \/ \E S \in SUBSET Pieces : IssueJobWork(j, S)
      PROVE  DesksOK'
  <2>1. UNCHANGED <<production, batch, desk, overlapped>>
    BY <1>4 DEF CreateJobWork, CancelJobWork, IssueJobWork
  <2>2. JobWorksGrow
    BY <1>4, JobWorkingGrow
  <2> QED BY <2>1, <2>2, Steady, DesksGrow
<1>5. CASE JobWorking
  <2>1. \A n \in 0..Cardinality(Pieces), waste \in 0..MaxWaste : n \in Nat /\ waste \in Nat
    OBVIOUS
  <2>2. PICK j \in JobOrders :
          \/ CreateJobWork(j) \/ CancelJobWork(j)
          \/ \E S \in SUBSET Pieces : IssueJobWork(j, S)
          \/ \E w \in Workers, S \in SUBSET Pieces, n \in Nat, waste \in Nat, final \in BOOLEAN :
               ReadForReturn(w, j, S, n, waste, final)
    BY <1>5, <2>1 DEF JobWorking
  <2> QED BY <1>4, <2>2, ReadForReturnDesk
<1>6. ASSUME NEW b \in Batches,
             \/ \E S \in SUBSET Pieces : CreateBatch(b, S)
             \/ \E a \in {"arrive", "cancel"} : MoveBatch(b, a)
             \/ Dispatch(b)
             \/ Receive(b)
      PROVE  DesksOK'
  <2>1. UNCHANGED <<production, jobwork, desk, overlapped>>
    BY <1>6 DEF CreateBatch, MoveBatch, Dispatch, Receive
  <2>2. BatchesGrow
    BY <1>6, HallmarkingGrow
  <2> QED BY <2>1, <2>2, Steady, DesksGrow
<1>7. CASE Hallmarking
  <2>1. PICK b \in Batches :
          \/ \E S \in SUBSET Pieces : CreateBatch(b, S)
          \/ \E a \in {"arrive", "cancel"} : MoveBatch(b, a)
          \/ Dispatch(b)
          \/ Receive(b)
          \/ \E w \in Workers, x \in Pieces : ReadForVerdict(w, b, x)
    BY <1>7 DEF Hallmarking
  <2> QED BY <1>6, <2>1, ReadForVerdictDesk
<1>8. ASSUME NEW w \in Workers, Leave(w)
      PROVE  \A v \in Workers : desk'[v] = desk[v] \/ desk'[v] = Off
  BY <1>8 DEF Leave, TypeOK
<1>9. ASSUME NEW w \in Workers, CancelProduction(w) PROVE DesksOK'
  <2>1. UNCHANGED <<jobwork, batch, overlapped>> /\ Leave(w)
    BY <1>9 DEF CancelProduction
  <2> QED BY <1>8, <1>9, <2>1, CancelGrow, Steady, DesksGrow
<1>10. ASSUME NEW w \in Workers, NEW v \in Verdicts, Judge(w, v) PROVE DesksOK'
  <2>1. UNCHANGED <<production, jobwork, overlapped>> /\ Leave(w)
    BY <1>10 DEF Judge
  <2>2. batch[desk[w].doc] # None
    BY <1>10 DEF Judge, DesksOK
  <2>3. BatchesGrow
    BY <1>10, <2>2, BatchJudged DEF BatchesGrow
  <2> QED BY <1>8, <2>1, <2>3, Steady, DesksGrow
<1>11. ASSUME NEW w \in Workers, GiveUp(w) PROVE DesksOK'
  <2>1. UNCHANGED <<production, jobwork, batch, overlapped>> /\ Leave(w)
    BY <1>11 DEF GiveUp
  <2> QED BY <1>8, <2>1, Steady, DesksGrow
<1>12. CASE Shelf
  BY <1>12, ShelfSame, Steady, DesksGrow
<1> QED BY <1>1, <1>3, <1>5, <1>7, <1>9, <1>10, <1>11, <1>12, ReturnDesk DEF Next, Writing

-----------------------------------------------------------------------------
(* What was made.                                                           *)

(* Nothing is made, and no list of made pieces changes.                     *)
MadeSteady ==
  /\ \A x \in Pieces : item'[x] = None <=> item[x] = None
  /\ \A o \in Productions :
       (IF production'[o] = None THEN {} ELSE production'[o].finished) = (IF production[o] = None THEN {} ELSE production[o].finished)
  /\ \A j \in JobOrders :
       (IF jobwork'[j] = None THEN {} ELSE jobwork'[j].finished) = (IF jobwork[j] = None THEN {} ELSE jobwork[j].finished)
  /\ UNCHANGED lost

LEMMA SteadyMade ==
  ASSUME MadeOK, MadeSteady
  PROVE  MadeOK'
<1>1. \A x \in Pieces : ListedBy(x)' = ListedBy(x)
  BY DEF MadeSteady, ListedBy
<1> QED BY <1>1, MadeKept DEF MadeSteady

(* The order c lists the pieces of S from now on, and no other list changes. *)
Lists(c, S) ==
  /\ \A x \in S : ListedBy(x)' = {c}
  /\ \A x \in Pieces \ S : ListedBy(x)' = ListedBy(x)

(* F is made now, by the order c, after an attempt that had inserted G.     *)
LEMMA MadeNow ==
  ASSUME MadeOK, NEW F \in SUBSET Pieces, NEW G \in SUBSET Pieces, F \intersect G = {},
         \A x \in F \union G : item[x] = None, lost' = lost \union G,
         \A x \in F : item'[x] # None, \A x \in Pieces \ F : item'[x] = None <=> item[x] = None,
         NEW c, Lists(c, F \union G)
  PROVE  MadeOK'
<1>0. /\ \A x \in F \union G : ListedBy(x)' = {c}
      /\ \A x \in Pieces \ (F \union G) : ListedBy(x)' = ListedBy(x)
  BY DEF Lists
<1>1. ASSUME NEW x \in Pieces
      PROVE  /\ x \in Made' => ListedBy(x)' # {} /\ \A d, e \in ListedBy(x)' : d = e
             /\ item'[x] = None /\ ListedBy(x)' # {} => x \in lost'
  <2>1. CASE x \in F
    BY <1>0, <2>1
  <2>2. CASE x \in G
    BY <1>0, <2>2
  <2>3. CASE x \notin F \union G
    <3>1. x \in Made' <=> x \in Made
      BY <2>3 DEF Made
    <3>2. ListedBy(x)' = ListedBy(x) /\ (item'[x] = None <=> item[x] = None)
      BY <1>0, <2>3
    <3> QED BY <3>1, <3>2 DEF MadeOK
  <2> QED BY <2>1, <2>2, <2>3
<1> QED BY <1>1 DEF MadeOK

LEMMA UnlistedBefore ==
  ASSUME MadeOK, NEW x \in Pieces, item[x] = None, x \notin lost
  PROVE  /\ \A o \in Productions : production[o] # None => x \notin production[o].finished
         /\ \A j \in JobOrders : jobwork[j] # None => x \notin jobwork[j].finished
BY DEF MadeOK, ListedBy

LEMMA ListedNext ==
  ASSUME NEW x
  PROVE  ListedBy(x)' = {o \in Productions : production'[o] # None /\ x \in production'[o].finished}
                        \union {j \in JobOrders : jobwork'[j] # None /\ x \in jobwork'[j].finished}
BY DEF ListedBy

LEMMA CompleteMade ==
  ASSUME TypeOK, DocsOK, MadeOK, NEW o \in Productions, NEW S \in SUBSET Pieces, NEW n, CompleteProduction(o, S, n)
  PROVE  MadeOK'
<1>1. PICK F, G \in SUBSET Pieces : CompletesWith(o, S, F, G)
  BY Completed
<1> USE DEF CompletesWith
<1>2. production[o].finished = {} /\ UNCHANGED jobwork
  BY <1>1 DEF DocsOK, CompleteProduction
<1>3. \A x \in Pieces \ F : item'[x] = None <=> item[x] = None
  BY <1>1
<1>4. ASSUME NEW x \in F \union G PROVE ListedBy(x)' = {o}
  <2>1. /\ \A p \in Productions : production[p] # None => x \notin production[p].finished
        /\ \A j \in JobOrders : jobwork[j] # None => x \notin jobwork[j].finished
    BY <1>1, UnlistedBefore
  <2> QED BY <1>1, <1>2, <2>1, ListedNext
<1>5. ASSUME NEW x \in Pieces \ (F \union G) PROVE ListedBy(x)' = ListedBy(x)
  BY <1>1, <1>2 DEF ListedBy
<1>6. Lists(o, F \union G)
  BY <1>4, <1>5 DEF Lists
<1> QED BY <1>1, <1>3, <1>6, MadeNow

LEMMA ReturnMade ==
  ASSUME TypeOK, DesksOK, MadeOK, NEW w \in Workers, ReturnJobWork(w)
  PROVE  MadeOK'
<1>0. PICK t, j : t = desk[w] /\ j = t.doc
  OBVIOUS
<1>1. PICK F, G \in SUBSET Pieces : ReturnsWith(j, t, F, G)
  BY <1>0, Returned
<1> USE DEF ReturnsWith
<1>2. UNCHANGED production
  BY DEF ReturnJobWork
<1>3. \A x \in Pieces \ F : item'[x] = None <=> item[x] = None
  BY <1>1
<1>4. ASSUME NEW x \in F \union G PROVE ListedBy(x)' = {j}
  <2>1. /\ \A p \in Productions : production[p] # None => x \notin production[p].finished
        /\ \A k \in JobOrders : jobwork[k] # None => x \notin jobwork[k].finished
    BY <1>1, UnlistedBefore
  <2> QED BY <1>1, <1>2, <2>1, ListedNext
<1>5. ASSUME NEW x \in Pieces \ (F \union G) PROVE ListedBy(x)' = ListedBy(x)
  BY <1>1, <1>2 DEF ListedBy
<1>6. Lists(j, F \union G)
  BY <1>4, <1>5 DEF Lists
<1> QED BY <1>1, <1>3, <1>6, MadeNow

(* Stock moves, and a step of the documents that finishes nothing.          *)
LEMMA ProducingMade ==
  ASSUME TypeOK, MadeOK, NEW o \in Productions,
         \/ CreateProduction(o)
         \/ \E a \in {"startManufacturing", "submitForQc", "passQc", "failQc", "rework"} : MoveProduction(o, a)
         \/ \E S \in SUBSET Pieces : IssueMaterial(o, S)
  PROVE  MadeOK'
<1>1. CASE CreateProduction(o)
  BY <1>1, NewProduction, SteadyMade DEF MadeSteady, CreateProduction, history
<1>2. ASSUME NEW a \in {"startManufacturing", "submitForQc", "passQc", "failQc", "rework"}, MoveProduction(o, a)
      PROVE  MadeOK'
  <2>1. production[o] # None /\ ProductionRules[a].to \in Stages(ProductionRules)
        /\ production' = [production EXCEPT ![o].status = ProductionRules[a].to]
    BY <1>2, ProductionFrom, ProductionStagesAre DEF MoveProduction
  <2>2. /\ production'[o] # None /\ production'[o].finished = production[o].finished
        /\ \A p \in Productions \ {o} : production'[p] = production[p]
    BY <2>1, ProductionMoved
  <2> QED BY <1>2, <2>1, <2>2, SteadyMade DEF MadeSteady, MoveProduction, history
<1>3. ASSUME NEW S \in SUBSET Pieces, IssueMaterial(o, S) PROVE MadeOK'
  <2>1. production[o] # None
    BY <1>3, ProductionFrom DEF IssueMaterial
  <2>2. \A x \in Pieces : item'[x] = None <=> item[x] = None
    BY <1>3, IssueSame
  <2>3. /\ production'[o] # None /\ production'[o].finished = production[o].finished
        /\ \A p \in Productions \ {o} : production'[p] = production[p]
    BY <1>3, MaterialIssued
  <2>4. UNCHANGED <<jobwork, lost>>
    BY <1>3 DEF IssueMaterial, history
  <2> QED BY <2>1, <2>2, <2>3, <2>4, SteadyMade DEF MadeSteady
<1> QED BY <1>1, <1>2, <1>3

LEMMA CancelMade ==
  ASSUME TypeOK, MadeOK, NEW w \in Workers, CancelProduction(w)
  PROVE  MadeOK'
<1>1. PICK o, held : o = desk[w].doc /\ held = Held(w)
  OBVIOUS
<1>2. /\ production[o] # None /\ production'[o] # None /\ production'[o].finished = production[o].finished
      /\ \A p \in Productions \ {o} : production'[p] = production[p]
  BY <1>1, Cancelled
<1>3. UNCHANGED <<jobwork, lost>>
  BY DEF CancelProduction
<1>4. \A x \in Pieces : item'[x] = None <=> item[x] = None
  BY CancelSame
<1> QED BY <1>2, <1>3, <1>4, SteadyMade DEF MadeSteady

LEMMA JobWorkingMade ==
  ASSUME TypeOK, MadeOK, NEW j \in JobOrders,
         CreateJobWork(j) \/ CancelJobWork(j) \/ \E S \in SUBSET Pieces : IssueJobWork(j, S)
  PROVE  MadeOK'
<1>1. CASE CreateJobWork(j)
  BY <1>1, NewJobWork, SteadyMade DEF MadeSteady, CreateJobWork, history
<1>2. CASE CancelJobWork(j)
  BY <1>2, JobWorkCancelled, SteadyMade DEF MadeSteady, CancelJobWork, history
<1>3. ASSUME NEW S \in SUBSET Pieces, IssueJobWork(j, S) PROVE MadeOK'
  <2>1. \A x \in Pieces : item'[x] = None <=> item[x] = None
    BY <1>3, IssueJobSame
  <2>2. UNCHANGED <<production, lost>>
    BY <1>3 DEF IssueJobWork, history
  <2>3. /\ jobwork[j] # None /\ jobwork'[j] # None /\ jobwork'[j].finished = jobwork[j].finished
        /\ \A k \in JobOrders \ {j} : jobwork'[k] = jobwork[k]
    BY <1>3, JobWorkIssued
  <2> QED BY <2>1, <2>2, <2>3, SteadyMade DEF MadeSteady
<1> QED BY <1>1, <1>2, <1>3

LEMMA DocsSteadyMade ==
  ASSUME MadeOK, UNCHANGED <<production, jobwork, lost>>, \A x \in Pieces : item'[x] = None <=> item[x] = None
  PROVE  MadeOK'
BY SteadyMade DEF MadeSteady

LEMMA NextMade ==
  ASSUME TypeOK, DocsOK, DesksOK, MadeOK, [Next]_vars
  PROVE  MadeOK'
<1> USE DEF docs, history
<1>1. CASE UNCHANGED vars
  BY <1>1, DocsSteadyMade DEF vars
<1>2. CASE Producing
  <2>1. ASSUME NEW w \in Workers, NEW o \in Productions, ReadForCancel(w, o) PROVE MadeOK'
    BY <2>1, DocsSteadyMade DEF ReadForCancel, Take
  <2> QED BY <1>2, <2>1, ProducingMade, CompleteMade DEF Producing
<1>3. CASE JobWorking
  <2>1. ASSUME NEW j \in JobOrders, NEW w \in Workers, NEW S \in SUBSET Pieces, NEW n \in 0..Cardinality(Pieces),
               NEW waste \in 0..MaxWaste, NEW final \in BOOLEAN, ReadForReturn(w, j, S, n, waste, final)
        PROVE  MadeOK'
    BY <2>1, DocsSteadyMade DEF ReadForReturn, Take
  <2> QED BY <1>3, <2>1, JobWorkingMade DEF JobWorking
<1>4. CASE Hallmarking
  <2>1. UNCHANGED <<production, jobwork, lost>>
    BY <1>4 DEF Hallmarking, CreateBatch, MoveBatch, Dispatch, Receive, ReadForVerdict, Take
  <2>2. \A x \in Pieces : item'[x] = None <=> item[x] = None
    BY <1>4, DispatchSame, ReceiveSame DEF Hallmarking, CreateBatch, MoveBatch, ReadForVerdict, Take
  <2> QED BY <2>1, <2>2, DocsSteadyMade
<1>5. ASSUME NEW w \in Workers, GiveUp(w) \/ \E v \in Verdicts : Judge(w, v) PROVE MadeOK'
  BY <1>5, DocsSteadyMade DEF GiveUp, Judge
<1>6. CASE Shelf
  BY <1>6, ShelfSame, DocsSteadyMade
<1> QED BY <1>1, <1>2, <1>3, <1>4, <1>5, <1>6, CancelMade, ReturnMade DEF Next, Writing

-----------------------------------------------------------------------------
(* Job work within what was issued.                                         *)

Within(j) ==
  jobwork[j] # None =>
    /\ jobwork[j].settled <= Cardinality(DOMAIN jobwork[j].issued)
    /\ j \notin overlapped =>
         Cardinality(jobwork[j].returned) + Cardinality(jobwork[j].finished \ lost) <= jobwork[j].settled

LEMMA Counts ==
  ASSUME NEW S \in SUBSET Pieces, NEW T \in SUBSET Pieces
  PROVE  /\ Cardinality(S) \in Nat /\ Cardinality(T) \in Nat /\ Cardinality(S \union T) \in Nat
         /\ Cardinality(S \union T) <= Cardinality(S) + Cardinality(T)
         /\ S \subseteq T => Cardinality(S) <= Cardinality(T)
<1>1. IsFiniteSet(S) /\ IsFiniteSet(T) /\ IsFiniteSet(S \union T) /\ IsFiniteSet(S \intersect T)
  BY FS_Subset, WorkshopAssumption
<1>2. Cardinality(S \union T) = Cardinality(S) + Cardinality(T) - Cardinality(S \intersect T)
  BY <1>1, FS_Union
<1>3. Cardinality(S) \in Nat /\ Cardinality(T) \in Nat /\ Cardinality(S \union T) \in Nat /\ Cardinality(S \intersect T) \in Nat
  BY <1>1, FS_CardinalityType
<1>4. S \subseteq T => Cardinality(S) <= Cardinality(T)
  BY <1>1, FS_Subset
<1> QED BY <1>2, <1>3, <1>4

LEMMA JobWorkFields ==
  ASSUME TypeOK, NEW j \in JobOrders, jobwork[j] # None
  PROVE  /\ jobwork[j].returned \in SUBSET Pieces /\ jobwork[j].finished \in SUBSET Pieces /\ jobwork[j].settled \in Nat
         /\ jobwork[j].issued \in Origins /\ DOMAIN jobwork[j].issued \in SUBSET Pieces
<1>1. jobwork[j] \in JobWorkDocs
  BY JobWorkTypes
<1> QED BY <1>1, OriginDomain DEF JobWorkDocs

(* What is lost only grows, and so does what is issued.                     *)
LEMMA WithinStays ==
  ASSUME TypeOK, TypeOK', NEW j \in JobOrders, Within(j), lost \subseteq lost', overlapped \subseteq overlapped',
         jobwork[j] # None, jobwork'[j] # None, jobwork'[j].returned = jobwork[j].returned,
         jobwork'[j].finished = jobwork[j].finished, jobwork'[j].settled = jobwork[j].settled,
         jobwork'[j].issued = jobwork[j].issued \/ jobwork[j].issued = Empty
  PROVE  Within(j)'
<1>1. jobwork'[j].issued \in Origins
  BY DEF TypeOK, JobWorkDocs
<1>2. /\ Cardinality(DOMAIN jobwork[j].issued) <= Cardinality(DOMAIN jobwork'[j].issued)
      /\ Cardinality(DOMAIN jobwork[j].issued) \in Nat /\ Cardinality(DOMAIN jobwork'[j].issued) \in Nat
  BY <1>1, IssuedGrows
<1>3. jobwork[j].returned \in SUBSET Pieces /\ jobwork[j].finished \in SUBSET Pieces /\ jobwork[j].settled \in Nat
  BY JobWorkFields
<1> DEFINE A == jobwork[j].finished \ lost
           B == jobwork[j].finished \ lost'
<1>4. A \in SUBSET Pieces /\ B \in SUBSET Pieces /\ B \subseteq A
  BY <1>3
<1>5. jobwork'[j].finished \ lost' = B /\ A = jobwork[j].finished \ lost
  OBVIOUS
<1> HIDE DEF A, B
<1>6. Cardinality(B) <= Cardinality(A) /\ Cardinality(A) \in Nat /\ Cardinality(B) \in Nat
  BY <1>4, Counts
<1>7. Cardinality(jobwork[j].returned) \in Nat
  BY <1>3, Counts
<1>8. jobwork'[j].settled <= Cardinality(DOMAIN jobwork'[j].issued)
  BY <1>2, <1>3 DEF Within
<1>9. ASSUME j \notin overlapped'
      PROVE  Cardinality(jobwork'[j].returned) + Cardinality(B) <= jobwork'[j].settled
  <2>1. Cardinality(jobwork[j].returned) + Cardinality(A) <= jobwork[j].settled
    BY <1>5, <1>9 DEF Within
  <2> QED BY <1>3, <1>6, <1>7, <2>1
<1> QED BY <1>5, <1>8, <1>9 DEF Within

LEMMA WithinIs == WithinOK <=> \A j \in JobOrders : Within(j)
BY DEF WithinOK, Within

LEMMA WithinIsNext == WithinOK' <=> \A j \in JobOrders : Within(j)'
BY DEF WithinOK, Within

LEMMA JobWorkUntouched ==
  ASSUME TypeOK, TypeOK', NEW j \in JobOrders, Within(j), lost \subseteq lost', overlapped \subseteq overlapped',
         jobwork'[j] = jobwork[j]
  PROVE  Within(j)'
<1>1. CASE jobwork[j] = None
  BY <1>1 DEF Within
<1>2. CASE jobwork[j] # None
  BY <1>2, WithinStays
<1> QED BY <1>1, <1>2

LEMMA JobWorksUntouched ==
  ASSUME TypeOK, TypeOK', WithinOK, lost \subseteq lost', overlapped' = overlapped, UNCHANGED jobwork
  PROVE  WithinOK'
<1>1. \A j \in JobOrders : Within(j)'
  BY JobWorkUntouched, WithinIs
<1> QED BY <1>1, WithinIsNext

LEMMA JobWorkingWithin ==
  ASSUME TypeOK, TypeOK', DocsOK, WithinOK, NEW j \in JobOrders,
         CreateJobWork(j) \/ CancelJobWork(j) \/ \E S \in SUBSET Pieces : IssueJobWork(j, S)
  PROVE  WithinOK'
<1>1. UNCHANGED <<lost, overlapped>>
  BY DEF CreateJobWork, CancelJobWork, IssueJobWork, history
<1>2. \A k \in JobOrders \ {j} : jobwork'[k] = jobwork[k]
  BY NewJobWork, JobWorkCancelled, JobWorkIssued
<1>3. \A k \in JobOrders \ {j} : Within(k)'
  BY <1>1, <1>2, JobWorkUntouched, WithinIs
<1>4. CASE CreateJobWork(j)
  <2>1. /\ jobwork'[j].issued = Empty /\ jobwork'[j].returned = {} /\ jobwork'[j].finished = {} /\ jobwork'[j].settled = 0
    BY <1>4, NewJobWork
  <2>2. Cardinality({}) = 0 /\ {} \ lost' = {}
    BY FS_EmptySet
  <2>3. Within(j)'
    BY <2>1, <2>2, EmptyType DEF Within
  <2> QED BY <1>3, <2>3, WithinIsNext
<1>5. CASE CancelJobWork(j)
  <2>1. Within(j)'
    BY <1>1, <1>5, JobWorkCancelled, WithinStays, WithinIs
  <2> QED BY <1>3, <2>1, WithinIsNext
<1>6. ASSUME NEW S \in SUBSET Pieces, IssueJobWork(j, S) PROVE WithinOK'
  <2>1. jobwork[j] # None /\ jobwork[j].issued = Empty
    BY <1>6, JobWorkFrom DEF IssueJobWork, DocsOK
  <2>2. /\ jobwork'[j] # None /\ jobwork'[j].returned = jobwork[j].returned
        /\ jobwork'[j].finished = jobwork[j].finished /\ jobwork'[j].settled = jobwork[j].settled
    BY <1>6, JobWorkIssued
  <2>3. Within(j)'
    BY <1>1, <2>1, <2>2, WithinStays, WithinIs
  <2> QED BY <1>3, <2>3, WithinIsNext
<1> QED BY <1>4, <1>5, <1>6

LEMMA ReturnWithin ==
  ASSUME TypeOK, TypeOK', DesksOK, WithinOK, NEW w \in Workers, ReturnJobWork(w)
  PROVE  WithinOK'
<1>0. PICK t, j : t = desk[w] /\ j = t.doc
  OBVIOUS
<1>1. PICK F, G \in SUBSET Pieces : ReturnsWith(j, t, F, G)
  BY <1>0, Returned
<1>2. /\ t.settled \in Nat /\ t.before \in Nat /\ t.made \in Nat /\ t.back \in SUBSET Pieces
      /\ t.settled <= Cardinality(DOMAIN jobwork[j].issued)
      /\ t.before + Cardinality(t.back) + t.made <= t.settled
  BY <1>0, TaskTypes DEF ReturnJobWork, DesksOK, ReturnOK
<1>3. overlapped' = (IF t.before = jobwork[j].settled THEN overlapped ELSE overlapped \union {j})
  BY <1>0 DEF ReturnJobWork
<1>4. \A k \in JobOrders \ {j} : Within(k)'
  BY <1>1, <1>3, JobWorkUntouched, WithinIs DEF ReturnsWith
<1>5. j \in JobOrders /\ jobwork[j] # None /\ jobwork'[j].settled = t.settled /\ jobwork'[j].issued = jobwork[j].issued
  BY <1>1 DEF ReturnsWith
<1>6. ASSUME j \notin overlapped'
      PROVE  Cardinality(jobwork'[j].returned) + Cardinality(jobwork'[j].finished \ lost') <= jobwork'[j].settled
  <2> DEFINE R == jobwork[j].returned
             A == jobwork[j].finished \ lost
             B == jobwork'[j].finished \ lost'
  <2>1. R \in SUBSET Pieces /\ A \in SUBSET Pieces
    BY <1>5, JobWorkFields
  <2>2. jobwork'[j].returned = R \union t.back /\ B \in SUBSET Pieces /\ B \subseteq A \union F
    <3>1. jobwork'[j].returned = R \union t.back
      BY <1>1 DEF ReturnsWith
    <3>2. jobwork'[j].finished = jobwork[j].finished \union (F \union G) /\ lost' = lost \union G
      BY <1>1 DEF ReturnsWith
    <3>3. jobwork[j].finished \in SUBSET Pieces
      BY <1>5, JobWorkFields
    <3> QED BY <3>1, <3>2, <3>3
  <2>3. Cardinality(R) + Cardinality(A) <= jobwork[j].settled /\ jobwork[j].settled = t.before
    BY <1>3, <1>5, <1>6 DEF WithinOK
  <2>4. Cardinality(F) = t.made /\ jobwork'[j].settled = t.settled
    BY <1>1 DEF ReturnsWith
  <2> HIDE DEF R, A, B
  <2>5. /\ Cardinality(R) \in Nat /\ Cardinality(t.back) \in Nat /\ Cardinality(R \union t.back) \in Nat
        /\ Cardinality(R \union t.back) <= Cardinality(R) + Cardinality(t.back)
    BY <1>2, <2>1, Counts
  <2>6. /\ Cardinality(A) \in Nat /\ Cardinality(A \union F) \in Nat
        /\ Cardinality(A \union F) <= Cardinality(A) + Cardinality(F)
    BY <2>1, Counts
  <2>7. Cardinality(B) \in Nat /\ Cardinality(B) <= Cardinality(A \union F)
    <3>1. A \union F \in SUBSET Pieces
      BY <2>1
    <3> QED BY <2>2, <3>1, Counts
  <2>8. Cardinality(R \union t.back) + Cardinality(B) <= t.settled
    BY <1>2, <2>3, <2>4, <2>5, <2>6, <2>7
  <2> QED BY <2>2, <2>4, <2>8 DEF B
<1>7. Within(j)'
  BY <1>2, <1>5, <1>6 DEF Within
<1> QED BY <1>4, <1>7, WithinIsNext

LEMMA NextWithin ==
  ASSUME TypeOK, TypeOK', DocsOK, DesksOK, WithinOK, [Next]_vars
  PROVE  WithinOK'
<1> USE DEF docs, history
<1>1. CASE UNCHANGED vars
  BY <1>1, JobWorksUntouched DEF vars
<1>2. CASE Producing
  <2>1. lost \subseteq lost' /\ overlapped' = overlapped /\ UNCHANGED jobwork
    BY <1>2 DEF Producing, CreateProduction, MoveProduction, IssueMaterial, CompleteProduction, ReadForCancel, Take
  <2> QED BY <2>1, JobWorksUntouched
<1>3. CASE JobWorking
  <2>1. ASSUME NEW j \in JobOrders, NEW w \in Workers, NEW S \in SUBSET Pieces, NEW n \in 0..Cardinality(Pieces),
               NEW waste \in 0..MaxWaste, NEW final \in BOOLEAN, ReadForReturn(w, j, S, n, waste, final)
        PROVE  WithinOK'
    BY <2>1, JobWorksUntouched DEF ReadForReturn, Take
  <2> QED BY <1>3, <2>1, JobWorkingWithin DEF JobWorking
<1>4. CASE Hallmarking
  <2>1. UNCHANGED <<jobwork, lost, overlapped>>
    BY <1>4 DEF Hallmarking, CreateBatch, MoveBatch, Dispatch, Receive, ReadForVerdict, Take
  <2> QED BY <2>1, JobWorksUntouched
<1>5. ASSUME NEW w \in Workers, CancelProduction(w) \/ (\E v \in Verdicts : Judge(w, v)) \/ GiveUp(w) PROVE WithinOK'
  <2>1. UNCHANGED <<jobwork, lost, overlapped>>
    BY <1>5 DEF CancelProduction, Judge, GiveUp
  <2> QED BY <2>1, JobWorksUntouched
<1>6. CASE Shelf
  BY <1>6, ShelfSame, JobWorksUntouched
<1> QED BY <1>1, <1>2, <1>3, <1>4, <1>5, <1>6, ReturnWithin DEF Next, Writing

-----------------------------------------------------------------------------
(* The starts.                                                              *)

LEMMA InitIInv == Init => IInv
<1> SUFFICES ASSUME Init PROVE IInv
  OBVIOUS
<1>1. TypeOK
  BY InitTypeOK
<1>2. PICK s \in Starts : item = s.item /\ production = s.production /\ jobwork = s.jobwork /\ batch = s.batch
  BY DEF Init
<1>3. StartOK(s)
  BY StartsAssumption
<1>4. desk = [w \in Workers |-> Off] /\ lost = {} /\ blind = {} /\ overlapped = {}
  BY DEF Init
<1>5. \A o \in Productions : production[o] # None =>
        /\ production[o].status = "DRAFT" => production[o].issued = Empty
        /\ production[o].status # "COMPLETED" => production[o].returned = {} /\ production[o].finished = {}
        /\ \A x \in production[o].finished : item[x] # None
  BY <1>2, <1>3 DEF StartOK
<1>6. \A j \in JobOrders : jobwork[j] # None =>
        jobwork[j].issued = Empty /\ jobwork[j].returned = {} /\ jobwork[j].finished = {} /\ jobwork[j].settled = 0
  BY <1>2, <1>3 DEF StartOK
<1>7. DocsOK
  BY <1>4, <1>5, <1>6 DEF DocsOK
<1>8. FloorOK
  <2>1. ASSUME NEW x \in Pieces PROVE OneHolds(x, "IN_MANUFACTURING", OnFloorFor(x))
    <3> DEFINE out == {o \in Productions : production[o] # None /\ production[o].status # "CANCELLED"
                                            /\ x \in DOMAIN production[o].issued \ production[o].returned}
    <3>1. /\ \A o, p \in out : o = p
          /\ out = {} => item[x] = None \/ item[x].status # "IN_MANUFACTURING"
          /\ out # {} => item[x] # None /\ item[x].status = "IN_MANUFACTURING"
      BY <1>2, <1>3 DEF StartOK
    <3>2. OnFloorFor(x) = out
      BY <1>4 DEF OnFloorFor, Out
    <3> HIDE DEF out
    <3> QED BY <3>1, <3>2 DEF OneHolds, IsIn
  <2> QED BY <2>1 DEF FloorOK
<1>9. \A x \in Pieces : item[x] # None => item[x].status \notin {"WITH_JOB_WORKER", "HALLMARKING"}
  BY <1>2, <1>3 DEF StartOK
<1>10. WorkerOK
  <2>1. \A x \in Pieces : AtWorkerFor(x) = {}
    BY <1>6, EmptyType DEF AtWorkerFor, Out
  <2> QED BY <1>9, <2>1 DEF WorkerOK, OneHolds, IsIn
<1>11. CentreOK
  <2>1. \A b \in Batches : batch[b] # None => batch[b].status \notin {"IN_TRANSIT", "AT_CENTRE"}
    BY <1>2, <1>3 DEF StartOK
  <2>2. \A x \in Pieces : AtCentreFor(x) = {}
    BY <2>1 DEF AtCentreFor
  <2> QED BY <1>9, <2>2 DEF CentreOK, OneHolds, IsIn
<1>12. DesksOK
  BY <1>4 DEF DesksOK, Off
<1>13. MadeOK
  <2>1. Made = {}
    BY <1>2 DEF Made
  <2>2. ASSUME NEW x \in Pieces, item[x] = None PROVE ListedBy(x) = {}
    <3>1. \A o \in Productions : production[o] # None => x \notin production[o].finished
      BY <1>5, <2>2
    <3>2. \A j \in JobOrders : jobwork[j] # None => x \notin jobwork[j].finished
      BY <1>6
    <3> QED BY <3>1, <3>2 DEF ListedBy
  <2> QED BY <2>1, <2>2 DEF MadeOK
<1>14. WithinOK
  <2>1. Cardinality({}) = 0 /\ {} \ lost = {}
    BY FS_EmptySet
  <2>2. ASSUME NEW j \in JobOrders, jobwork[j] # None PROVE Within(j)
    <3>1. jobwork[j].issued = Empty /\ jobwork[j].returned = {} /\ jobwork[j].finished = {} /\ jobwork[j].settled = 0
      BY <1>6, <2>2
    <3>2. DOMAIN jobwork[j].issued = {}
      BY <3>1, EmptyType
    <3> QED BY <2>1, <3>1, <3>2 DEF Within
  <2> QED BY <2>2, WithinIs DEF Within
<1> QED BY <1>1, <1>7, <1>8, <1>10, <1>11, <1>12, <1>13, <1>14 DEF IInv

-----------------------------------------------------------------------------
(* The theorems.                                                            *)

(* What the stock shows as away, what the documents have out, the lists of  *)
(* what was made and the totals of job work agree in every state, whatever  *)
(* order the requests of however many workers come in.                      *)
THEOREM WorkshopInvariant == Spec => []IInv
<1>1. ASSUME IInv, [Next]_vars PROVE IInv'
  <2>1. TypeOK'
    BY <1>1, NextTypeOK DEF IInv
  <2>2. DocsOK' /\ DesksOK' /\ WithinOK'
    BY <1>1, <2>1, NextDocs, NextDesks, NextWithin DEF IInv
  <2>3. FloorOK' /\ WorkerOK' /\ CentreOK'
    BY <1>1, NextFloor, NextWorker, NextCentre DEF IInv
  <2>4. MadeOK'
    BY <1>1, NextMade DEF IInv
  <2> QED BY <2>1, <2>2, <2>3, <2>4 DEF IInv
<1> QED BY <1>1, InitIInv, PTL DEF Spec

(* Every variable keeps its type: the statuses of the three documents stay  *)
(* within their tables, and a copy in hand is of a document of its kind.    *)
THEOREM WorkshopTypes == Spec => []TypeOK
<1>1. IInv => TypeOK
  BY DEF IInv
<1> QED BY <1>1, WorkshopInvariant, PTL

LEMMA HoldersCount ==
  ASSUME NEW x, NEW status, NEW holders, OneHolds(x, status, holders)
  PROVE  Cardinality(holders) = IF IsIn(x, status) THEN 1 ELSE 0
<1>1. CASE holders = {}
  BY <1>1, FS_EmptySet DEF OneHolds
<1>2. CASE holders # {}
  <2>1. PICK h : holders = {h}
    BY <1>2 DEF OneHolds
  <2> QED BY <1>2, <2>1, FS_Singleton DEF OneHolds
<1> QED BY <1>1, <1>2

(* A piece in manufacturing, with a job worker or at a hallmarking centre   *)
(* is away for exactly one document, and what a document has out is shown   *)
(* as away: the compare-and-set on each document's status and the movement  *)
(* rules on each piece are enough, except where two returns of job work     *)
(* were computed on one copy, and for a piece that staff sent out or        *)
(* brought back themselves.                                                 *)
THEOREM AlwaysAwayForOne == Spec => []AwayForOneDocument
<1>1. IInv => AwayForOneDocument
  BY HoldersCount DEF IInv, FloorOK, WorkerOK, CentreOK, AwayForOneDocument
<1> QED BY <1>1, WorkshopInvariant, PTL

(* A piece that was made is listed by exactly one order, the one whose      *)
(* completion or return made it, and a list names a piece that does not     *)
(* exist only after a transaction that was rolled back and run again.       *)
THEOREM AlwaysListed == Spec => []MadePiecesAreListed
<1>1. ASSUME IInv PROVE MadePiecesAreListed
  <2>1. ASSUME NEW x \in Made PROVE Cardinality(ListedBy(x)) = 1
    <3>1. x \in Pieces /\ ListedBy(x) # {} /\ \A c, d \in ListedBy(x) : c = d
      BY <1>1, <2>1 DEF IInv, MadeOK, Made
    <3>2. PICK h : ListedBy(x) = {h}
      BY <3>1
    <3> QED BY <3>2, FS_Singleton
  <2> QED BY <1>1, <2>1 DEF IInv, MadeOK, MadePiecesAreListed
<1> QED BY <1>1, WorkshopInvariant, PTL

(* What came back from a job worker, finished or not, never exceeds the     *)
(* order's totals, and these never exceed what was issued, for every order  *)
(* whose returns were each computed on a copy that was still true.          *)
THEOREM AlwaysWithinIssued == Spec => []JobWorkWithinIssued
<1>1. IInv => JobWorkWithinIssued
  BY DEF IInv, WithinOK, JobWorkWithinIssued
<1> QED BY <1>1, WorkshopInvariant, PTL
=============================================================================
