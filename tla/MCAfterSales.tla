---------------------------- MODULE MCAfterSales ----------------------------
(* Small instances of AfterSales for TLC: the kinds of work and the stock. *)
EXTENDS AfterSales, TLC

CONSTANTS x1, x2, x3, o1, o2, t1, r1, r2, r3, d1, d2, e1, e2, w1, w2

Alike == Permutations({r1, r2, r3}) \union Permutations({d1, d2})
         \union Permutations({e1, e2}) \union Permutations({w1, w2})

NoOrder == [o \in {o1, o2, t1} |-> [stage |-> "NEW", allocated |-> {}]]
Lapsed == [stage |-> "LAPSED", allocated |-> {}]
NoBuyer == [x \in {x1, x2, x3} |-> None]

(* One piece sold, returned and sold again, with three returns about it.   *)
Returned ==
  [acts |-> {"selling", "returning"}, item |-> x1 :> "AVAILABLE" @@ x2 :> "SCRAP" @@ x3 :> "SCRAP",
   order |-> NoOrder, buyer |-> NoBuyer, free |-> {}]

(* A sold piece comes in for repair and on a return, and two of the        *)
(* customers' own for repair.                                              *)
Repaired ==
  [acts |-> {"returning", "repairing"}, item |-> x1 :> "SOLD" @@ x2 :> None @@ x3 :> "SCRAP",
   order |-> [NoOrder EXCEPT ![o1] = [stage |-> "SOLD", allocated |-> {x1}]], buyer |-> [NoBuyer EXCEPT ![x1] = o1], free |-> {}]

(* Old pieces are taken in exchange.                                       *)
Exchanged ==
  [acts |-> {"exchanging"}, item |-> x1 :> None @@ x2 :> None @@ x3 :> None,
   order |-> NoOrder, buyer |-> NoBuyer, free |-> {}]

(* One old piece goes all the way: taken in, sold and repaired.             *)
Resold ==
  [acts |-> {"selling", "repairing", "exchanging"},
   item |-> x1 :> None @@ x2 :> "SCRAP" @@ x3 :> "SCRAP", order |-> [NoOrder EXCEPT ![t1] = Lapsed], buyer |-> NoBuyer, free |-> {}]

(* Staff move a sold piece that is on a return or under repair, or a       *)
(* customer's own.                                                         *)
MovedReturned == [Returned EXCEPT !.order[t1] = Lapsed, !.free = {x1} \X {"UNDER_REPAIR", "AVAILABLE"}]
MovedRepaired ==
  [Repaired EXCEPT !.acts = {"selling", "repairing"}, !.item[x2] = "SCRAP", !.order[t1] = Lapsed,
                   !.free = {x1} \X {"UNDER_REPAIR", "AVAILABLE", "DAMAGED"}]
MovedGuest ==
  [Resold EXCEPT !.acts = {"selling", "repairing"}, !.free = {x1} \X {"AVAILABLE", "SOLD"}]

MCShifts == {Returned, Repaired, Exchanged, Resold, MovedReturned, MovedRepaired, MovedGuest}
=============================================================================
