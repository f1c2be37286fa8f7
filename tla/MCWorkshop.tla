----------------------------- MODULE MCWorkshop -----------------------------
(* Small instances of Workshop for TLC: the stock and documents to start   *)
(* from.                                                                   *)
EXTENDS Workshop, TLC

CONSTANTS x1, x2, x3, x4, o1, o2, j1, j2, b1, b2, w1, w2

Alike == Permutations({x1, x2}) \union Permutations({x3, x4}) \union Permutations({o1, o2})
         \union Permutations({j1, j2}) \union Permutations({b1, b2}) \union Permutations({w1, w2})

OnShelf == [status |-> "AVAILABLE", at |-> "STORE"]
InStore == x1 :> OnShelf @@ x2 :> OnShelf @@ x3 :> None @@ x4 :> None

Quiet == [status |-> "CANCELLED", issued |-> Empty, returned |-> {}, finished |-> {}]
NoJob == [status |-> "CANCELLED", issued |-> Empty, returned |-> {}, finished |-> {}, settled |-> 0]
NoJobs == j1 :> NoJob @@ j2 :> NoJob
NoBatch == [status |-> "CANCELLED", lines |-> Empty, outcome |-> <<>>]

(* One production order may finish while the other asks for material.      *)
Making ==
  [item |-> [InStore EXCEPT ![x2] = [status |-> "IN_MANUFACTURING", at |-> "MANUFACTURING_UNIT"]],
   production |-> o1 :> None @@ o2 :> [Quiet EXCEPT !.status = "QC_PENDING", !.issued = x2 :> "STORE"],
   jobwork |-> NoJobs, batch |-> b1 :> NoBatch @@ b2 :> NoBatch, free |-> {}]

(* Two orders that may send the same piece to a job worker, one after the  *)
(* other, with a return of the first still in hand.                        *)
Lending ==
  [item |-> [InStore EXCEPT ![x2] = [status |-> "SOLD", at |-> "STORE"]],
   production |-> o1 :> Quiet @@ o2 :> Quiet, jobwork |-> j1 :> None @@ j2 :> None,
   batch |-> b1 :> NoBatch @@ b2 :> NoBatch, free |-> {}]

(* A job work order, with all its pieces on the shelf.                     *)
Sending ==
  [item |-> InStore, production |-> o1 :> Quiet @@ o2 :> Quiet, jobwork |-> j1 :> None @@ j2 :> NoJob,
   batch |-> b1 :> NoBatch @@ b2 :> NoBatch, free |-> {}]

(* Two hallmarking batches name the same pieces, one of them newly made.   *)
Marking ==
  [Making EXCEPT !.item[x1] = [status |-> "SOLD", at |-> "STORE"],
                 !.production = o1 :> Quiet @@ o2 :> [Quiet EXCEPT !.status = "QC_PASSED", !.issued = x2 :> "STORE"],
                 !.batch = b1 :> None @@ b2 :> None]

(* Staff move or correct a piece themselves while the documents of one kind *)
(* send it, and another piece, out.                                        *)
ByHand(statuses) == [Lending EXCEPT !.jobwork = NoJobs, !.free = {x1} \X ({"AVAILABLE"} \union statuses)]
ByHandMaking == [ByHand({"IN_MANUFACTURING", "SCRAP"}) EXCEPT !.item[x2] = OnShelf, !.production[o1] = None]
ByHandSending == [ByHand({"WITH_JOB_WORKER"}) EXCEPT !.jobwork[j1] = None]
ByHandMarking == [ByHand({"HALLMARKING"}) EXCEPT !.batch[b1] = None]

MCStarts == {Making, Lending, Sending, Marking, ByHandMaking, ByHandSending, ByHandMarking}
=============================================================================
