----------------------------- MODULE Summation -----------------------------
(***************************************************************************)
(* The sum of a function into the natural numbers, counted unit by unit: an *)
(* amount of 2 is two units, and a sum is the number of units there are.   *)
(* It is how the code's sums of paise and of pieces are taken here (its    *)
(* `reduce((sum, x) => sum + x, 0)` and the `$inc` of a running total).    *)
(***************************************************************************)
EXTENDS Integers, FiniteSets

UnitsOf(f, x) == {x} \X (1..f[x])
Units(f) == UNION {UnitsOf(f, x) : x \in DOMAIN f}

SumOf(f) == Cardinality(Units(f))
=============================================================================
