-------------------------- MODULE SummationProofs --------------------------
(* What sums do when an amount is added, changed or removed: the facts     *)
(* about SumOf that the proofs about money and pieces cite.                *)
EXTENDS Summation, SequenceTheorems, FiniteSetTheorems, TLAPS

(* A unit is a place and a number up to the amount there. *)
LEMMA UnitsMembers ==
  ASSUME NEW f, NEW u
  PROVE  /\ u \in Units(f) <=> \E x \in DOMAIN f : \E k \in 1..f[x] : u = <<x, k>>
         /\ \A x, k : <<x, k>> \in Units(f) <=> x \in DOMAIN f /\ k \in 1..f[x]
<1>1. \A v : v \in Units(f) <=> \E x \in DOMAIN f : v \in UnitsOf(f, x)
  BY DEF Units
<1>2. \A v, x : v \in UnitsOf(f, x) <=> \E k \in 1..f[x] : v = <<x, k>>
  BY DEF UnitsOf
<1>3. u \in Units(f) <=> \E x \in DOMAIN f : \E k \in 1..f[x] : u = <<x, k>>
  BY <1>1, <1>2, ZenonT(30)
<1>4. ASSUME NEW x, NEW k PROVE <<x, k>> \in Units(f) <=> x \in DOMAIN f /\ k \in 1..f[x]
  BY <1>1, <1>2
<1> QED BY <1>3, <1>4

LEMMA UnitsOfAmount ==
  ASSUME NEW f, NEW x, f[x] \in Nat
  PROVE  IsFiniteSet(UnitsOf(f, x)) /\ Cardinality(UnitsOf(f, x)) = f[x]
<1>1. PICK A : A = {x}
  OBVIOUS
<1>2. PICK B : B = 1..f[x]
  OBVIOUS
<1>3. IsFiniteSet(A) /\ Cardinality(A) = 1
  BY <1>1, FS_Singleton
<1>4. IsFiniteSet(B) /\ Cardinality(B) = f[x]
  BY <1>2, FS_Interval
<1>5. IsFiniteSet(A \X B) /\ Cardinality(A \X B) = Cardinality(A) * Cardinality(B)
  BY ONLY <1>3, <1>4, FS_Product
<1>6. UnitsOf(f, x) = A \X B
  BY <1>1, <1>2, Zenon DEF UnitsOf
<1>7. 1 * f[x] = f[x]
  OBVIOUS
<1> QED BY <1>3, <1>4, <1>5, <1>6, <1>7

LEMMA UnitsFinite ==
  ASSUME NEW S, IsFiniteSet(S), NEW f \in [S -> Nat]
  PROVE  IsFiniteSet(Units(f))
<1> DEFINE all == {UnitsOf(f, x) : x \in S}
           g == [x \in S |-> UnitsOf(f, x)]
<1>1. g \in Surjection(S, all)
  BY DEF Surjection
<1>2. IsFiniteSet(all)
  BY <1>1, FS_Surjection
<1>3. \A T \in all : IsFiniteSet(T)
  BY UnitsOfAmount
<1> QED BY <1>2, <1>3, FS_UNION DEF Units

LEMMA SumIsNat ==
  ASSUME NEW S, IsFiniteSet(S), NEW f \in [S -> Nat]
  PROVE  SumOf(f) \in Nat
BY UnitsFinite, FS_CardinalityType DEF SumOf

(* One more place. *)
LEMMA SumExtended ==
  ASSUME NEW S, IsFiniteSet(S), NEW x, x \notin S, NEW T, T = S \union {x},
         NEW f \in [S -> Nat], NEW g \in [T -> Nat], \A y \in S : g[y] = f[y]
  PROVE  SumOf(g) = SumOf(f) + g[x]
<1>1. Units(g) = Units(f) \union UnitsOf(g, x)
  <2>1. \A y \in S : UnitsOf(g, y) = UnitsOf(f, y)
    BY DEF UnitsOf
  <2> QED BY <2>1 DEF Units
<1>2. Units(f) \intersect UnitsOf(g, x) = {}
  <2>1. \A y \in S : UnitsOf(f, y) \intersect UnitsOf(g, x) = {}
    BY DEF UnitsOf
  <2> QED BY <2>1 DEF Units
<1>3. IsFiniteSet(Units(f)) /\ IsFiniteSet(UnitsOf(g, x)) /\ Cardinality(UnitsOf(g, x)) = g[x]
  BY UnitsFinite, UnitsOfAmount
<1>4. Cardinality(Units(f) \union UnitsOf(g, x))
        = Cardinality(Units(f)) + Cardinality(UnitsOf(g, x)) - Cardinality(Units(f) \intersect UnitsOf(g, x))
  BY <1>3, FS_Union
<1>5. Cardinality(Units(f) \intersect UnitsOf(g, x)) = 0
  BY <1>2, FS_EmptySet
<1>6. Cardinality(Units(f)) \in Nat /\ g[x] \in Nat
  BY <1>3, FS_CardinalityType
<1> QED BY <1>1, <1>3, <1>4, <1>5, <1>6 DEF SumOf

LEMMA SumOfNothing ==
  ASSUME NEW f, DOMAIN f = {}
  PROVE  SumOf(f) = 0
BY FS_EmptySet DEF SumOf, Units

LEMMA SumOfOne ==
  ASSUME NEW x, NEW f \in [{x} -> Nat]
  PROVE  SumOf(f) = f[x]
<1>1. Units(f) = UnitsOf(f, x)
  BY DEF Units
<1> QED BY <1>1, UnitsOfAmount DEF SumOf

(* One place changes. *)
LEMMA SumChangedAt ==
  ASSUME NEW S, IsFiniteSet(S), NEW f \in [S -> Nat], NEW g \in [S -> Nat], NEW x \in S,
         \A y \in S \ {x} : g[y] = f[y]
  PROVE  SumOf(g) = SumOf(f) - f[x] + g[x]
<1> DEFINE R == S \ {x}
           r == [y \in R |-> f[y]]
<1>1. IsFiniteSet(R) /\ x \notin R /\ R \union {x} = S /\ r \in [R -> Nat]
  BY FS_Subset
<1>2. SumOf(r) \in Nat
  BY <1>1, SumIsNat
<1> HIDE DEF r
<1>3. \A y \in R : r[y] = f[y] /\ r[y] = g[y]
  BY DEF r
<1> HIDE DEF R
<1>5. SumOf(f) = SumOf(r) + f[x]
  BY <1>1, <1>3, SumExtended
<1>6. SumOf(g) = SumOf(r) + g[x]
  BY <1>1, <1>3, SumExtended
<1> QED BY <1>2, <1>5, <1>6

(* A part is at most the whole. *)
LEMMA SumBoundsParts ==
  ASSUME NEW S, IsFiniteSet(S), NEW f \in [S -> Nat], NEW x \in S
  PROVE  f[x] <= SumOf(f)
<1>1. UnitsOf(f, x) \subseteq Units(f)
  BY DEF Units
<1> QED BY <1>1, UnitsFinite, UnitsOfAmount, FS_Subset DEF SumOf

LEMMA SumIsZero ==
  ASSUME NEW S, IsFiniteSet(S), NEW f \in [S -> Nat]
  PROVE  SumOf(f) = 0 <=> \A x \in S : f[x] = 0
<1>1. SumOf(f) = 0 => \A x \in S : f[x] = 0
  BY SumBoundsParts
<1>2. (\A x \in S : f[x] = 0) => SumOf(f) = 0
  <2> SUFFICES ASSUME \A x \in S : f[x] = 0 PROVE Units(f) = {}
    BY FS_EmptySet DEF SumOf
  <2>1. \A x \in S : UnitsOf(f, x) = {}
    BY DEF UnitsOf
  <2> QED BY <2>1 DEF Units
<1> QED BY <1>1, <1>2

(* A larger function has a larger sum, and zeros add nothing. *)
LEMMA SumMonotone ==
  ASSUME NEW T, IsFiniteSet(T), NEW S, S \subseteq T, NEW f \in [S -> Nat], NEW g \in [T -> Nat],
         \A x \in S : f[x] <= g[x]
  PROVE  SumOf(f) <= SumOf(g) /\ SumOf(f) \in Nat /\ SumOf(g) \in Nat
<1>1. IsFiniteSet(S)
  BY FS_Subset
<1>2. ASSUME NEW u, u \in Units(f) PROVE u \in Units(g)
  <2>1. PICK x \in S : \E k \in 1..f[x] : u = <<x, k>>
    BY <1>2, UnitsMembers
  <2>2. PICK k \in 1..f[x] : u = <<x, k>>
    BY <2>1
  <2>3. k \in 1..g[x] /\ x \in DOMAIN g
    BY <2>2
  <2> QED BY <2>2, <2>3, UnitsMembers
<1>3. Units(f) \subseteq Units(g) /\ IsFiniteSet(Units(g))
  BY <1>2, UnitsFinite
<1> QED BY <1>1, <1>3, FS_Subset, SumIsNat DEF SumOf

LEMMA SumPadded ==
  ASSUME NEW T, IsFiniteSet(T), NEW S, S \subseteq T, NEW f \in [S -> Nat], NEW g \in [T -> Nat],
         \A x \in T : g[x] = IF x \in S THEN f[x] ELSE 0
  PROVE  SumOf(g) = SumOf(f)
<1>1. SumOf(f) <= SumOf(g) /\ SumOf(f) \in Nat /\ SumOf(g) \in Nat
  BY SumMonotone
<1>2. ASSUME NEW u, u \in Units(g) PROVE u \in Units(f)
  <2>1. PICK x \in T : \E k \in 1..g[x] : u = <<x, k>>
    BY <1>2, UnitsMembers
  <2>2. PICK k \in 1..g[x] : u = <<x, k>>
    BY <2>1
  <2>3. x \in DOMAIN f /\ k \in 1..f[x]
    BY <2>2
  <2> QED BY <2>2, <2>3, UnitsMembers
<1>3. Units(g) \subseteq Units(f) /\ IsFiniteSet(Units(f))
  <2>1. IsFiniteSet(S)
    BY FS_Subset
  <2> QED BY <1>2, <2>1, UnitsFinite
<1>4. SumOf(g) <= SumOf(f)
  BY <1>3, FS_Subset DEF SumOf
<1> QED BY <1>1, <1>4

(* One place changes, and the others do not grow. *)
LEMMA SumGrowsAt ==
  ASSUME NEW S, IsFiniteSet(S), NEW f \in [S -> Nat], NEW g \in [S -> Nat], NEW x \in S,
         \A y \in S \ {x} : g[y] <= f[y]
  PROVE  SumOf(g) <= SumOf(f) - f[x] + g[x]
<1>1. PICK h : h = [f EXCEPT ![x] = g[x]]
  OBVIOUS
<1>2. h \in [S -> Nat] /\ h[x] = g[x] /\ \A y \in S \ {x} : h[y] = f[y]
  BY <1>1
<1>3. SumOf(h) = SumOf(f) - f[x] + h[x]
  BY <1>2, SumChangedAt
<1>4. \A y \in S : g[y] <= h[y]
  BY <1>2
<1>5. SumOf(g) <= SumOf(h)
  BY <1>2, <1>4, SumMonotone
<1> QED BY <1>2, <1>3, <1>5

(* Two functions added. *)
LEMMA SumAdds ==
  ASSUME NEW S, IsFiniteSet(S), NEW f \in [S -> Nat], NEW g \in [S -> Nat],
         NEW h \in [S -> Nat], \A x \in S : h[x] = f[x] + g[x]
  PROVE  SumOf(h) = SumOf(f) + SumOf(g)
<1> DEFINE U == Units(f)
           V == Units(g)
           W == {w \in Units(h) : w[2] > f[w[1]]}
           raise == [v \in V |-> <<v[1], f[v[1]] + v[2]>>]
<1>1. IsFiniteSet(U) /\ IsFiniteSet(V) /\ IsFiniteSet(Units(h))
  BY UnitsFinite
<1>2. IsFiniteSet(W)
  BY <1>1, FS_Subset
<1>3. Units(h) = U \union W
  <2>1. ASSUME NEW u PROVE u \in Units(h) <=> u \in U \union W
    <3>1. u \in U => u \in Units(h)
      BY UnitsMembers
    <3>2. u \in Units(h) /\ u \notin U => u \in W
      BY UnitsMembers
    <3> QED BY <3>1, <3>2
  <2> QED BY <2>1
<1>4. U \intersect W = {}
  BY UnitsMembers
<1>5. raise \in [V -> W]
  BY UnitsMembers
<1>6. \A v1, v2 \in V : raise[v1] = raise[v2] => v1 = v2
  BY UnitsMembers
<1>7. \A w \in W : \E v \in V : raise[v] = w
  <2> SUFFICES ASSUME NEW w \in W PROVE \E v \in V : raise[v] = w
    OBVIOUS
  <2>1. PICK x \in S : \E k \in 1..h[x] : w = <<x, k>>
    BY UnitsMembers
  <2>1a. PICK k \in 1..h[x] : w = <<x, k>>
    BY <2>1
  <2>2. k > f[x] /\ f[x] \in Nat /\ h[x] = f[x] + g[x] /\ g[x] \in Nat
    BY <2>1a, UnitsMembers
  <2>3. k - f[x] \in 1..g[x]
    BY <2>2
  <2>4. <<x, k - f[x]>> \in V
    BY <2>3, UnitsMembers
  <2>5. raise[<<x, k - f[x]>>] = w
    BY <2>1a, <2>2, <2>4
  <2> QED BY <2>4, <2>5
<1> HIDE DEF U, V, W, raise
<1>8. raise \in Bijection(V, W)
  BY <1>5, <1>6, <1>7 DEF Bijection, Injection, Surjection, IsInjective
<1>9. Cardinality(W) = Cardinality(V)
  BY <1>1, <1>8, FS_Bijection DEF ExistsBijection
<1>10. Cardinality(U \union W) = Cardinality(U) + Cardinality(W) - Cardinality(U \intersect W)
  BY <1>1, <1>2, FS_Union
<1>11. Cardinality(Units(h)) = Cardinality(U) + Cardinality(W)
  <2>1. Cardinality(U) \in Nat /\ Cardinality(W) \in Nat
    BY <1>1, <1>2, FS_CardinalityType
  <2>2. Cardinality(U \intersect W) = 0
    BY <1>4, FS_EmptySet
  <2> QED BY <1>3, <1>10, <2>1, <2>2
<1> QED BY <1>9, <1>11 DEF SumOf, U, V

(* One more entry of a list. *)
LEMMA SumNumbered ==
  ASSUME NEW m \in Nat, NEW e \in [1..m -> Nat], NEW f \in [1..(m + 1) -> Nat],
         \A y \in 1..m : f[y] = e[y]
  PROVE  SumOf(f) = SumOf(e) + f[m + 1]
<1>1. IsFiniteSet(1..m)
  BY FS_Interval
<1>2. m + 1 \notin 1..m /\ 1..(m + 1) = (1..m) \union {m + 1}
  OBVIOUS
<1>3. PICK S : S = 1..m
  OBVIOUS
<1>4. PICK T : T = 1..(m + 1)
  OBVIOUS
<1>5. PICK x : x = m + 1
  OBVIOUS
<1>6. IsFiniteSet(S) /\ x \notin S /\ T = S \union {x} /\ e \in [S -> Nat] /\ f \in [T -> Nat]
  BY <1>1, <1>2, <1>3, <1>4, <1>5, Zenon
<1>7. \A y \in S : f[y] = e[y]
  BY <1>3
<1>8. SumOf(f) = SumOf(e) + f[x]
  BY <1>6, <1>7, SumExtended, SMTT(60)
<1> QED BY <1>5, <1>8

LEMMA SumAppended ==
  ASSUME NEW s \in Seq(Nat), NEW n \in Nat
  PROVE  SumOf(Append(s, n)) = SumOf(s) + n
<1> DEFINE m == Len(s)
           g == Append(s, n)
<1>1. m \in Nat /\ s \in [1..m -> Nat]
  BY LenProperties
<1>2. g \in Seq(Nat) /\ Len(g) = m + 1 /\ g[m + 1] = n /\ \A y \in 1..m : g[y] = s[y]
  BY AppendProperties
<1>3. g \in [1..(m + 1) -> Nat]
  BY <1>2, LenProperties
<1> HIDE DEF m, g
<1>4. SumOf(g) = SumOf(s) + g[m + 1]
  BY <1>1, <1>2, <1>3, SumNumbered
<1> QED BY <1>2, <1>4 DEF g

LEMMA SumOfListIsNat ==
  ASSUME NEW s \in Seq(Nat)
  PROVE  SumOf(s) \in Nat
<1>1. s \in [1..Len(s) -> Nat] /\ IsFiniteSet(1..Len(s))
  BY FS_Interval
<1> QED BY <1>1, SumIsNat
=============================================================================
