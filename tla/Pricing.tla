------------------------------ MODULE Pricing ------------------------------
(***************************************************************************)
(* The pricing engine (packages/pricing-engine): which rule governs a      *)
(* price, and the arithmetic from weights to the final amount.  It is a    *)
(* pure function; None is a PricingError, the refusal to guess.            *)
(*                                                                         *)
(* Amounts are integers already, as toScaled, toPaise, toPercent and       *)
(* toFineness make them: paise, milligrams, fractions of the two scales    *)
(* below.  The scales are constants, so that TLC can check the rounding    *)
(* with numbers it can hold.                                               *)
(***************************************************************************)
EXTENDS Integers, FiniteSets

CONSTANTS
  MgPerGram,     \* 1000 in the source
  Unit,          \* RATIO_SCALE: the fineness of pure metal
  Hundred,       \* PERCENT_DENOMINATOR: one hundred percent
  MaxWeight,     \* MAX_WEIGHT_MG
  None

ASSUME PricingAssumption ==
  /\ MgPerGram \in Nat \ {0} /\ Unit \in Nat \ {0} /\ Hundred \in Nat \ {0}
  /\ MaxWeight \in Nat
  /\ None \notin Int

(* n / d to the nearest integer, halves away from zero. *)
DivRound(n, d) == IF n < 0 THEN -((2 * (-n) + d) \div (2 * d)) ELSE (2 * n + d) \div (2 * d)

Percent(n, percent) == DivRound(n * percent, Hundred)

MetalValue(mg, fineness, rate, quoted) == DivRound(mg * fineness * rate, MgPerGram * quoted)

-----------------------------------------------------------------------------
(* A line to price: weights, pieces, the piece's fineness, the metal rate   *)
(* and the fineness it is quoted for, the stones' value, and the terms.     *)

Net(line) == line.gross - line.stone

Fine(line) == DivRound(Net(line) * line.fineness, Unit)

WeightsAgree(line) ==
  /\ line.gross \in 1..MaxWeight /\ line.stone \in 0..(line.gross - 1) /\ line.pieces >= 1
  /\ line.fine # None => line.fine - Fine(line) \in -1..1
  /\ line.net # None => line.net = Net(line)

RateUsable(line) ==
  line.rate > 0 /\ line.rateMetal = line.metal /\ line.fineness \in 1..Unit /\ line.quoted \in 1..Unit

LineMetal(line) == MetalValue(Net(line), line.fineness, line.rate, line.quoted)

WastageWeight(line, rule) ==
  CASE rule = None \/ rule.type = "NONE" -> 0
    [] rule # None /\ rule.type = "PERCENTAGE" -> Percent(Net(line), rule.value)
    [] rule # None /\ rule.type = "FIXED_WEIGHT" -> rule.value

WastageUsable(line, rule) == WastageWeight(line, rule) \in 0..Net(line)

Wastage(line, rule) == MetalValue(WastageWeight(line, rule), line.fineness, line.rate, line.quoted)

Making(line, rule) ==
  CASE rule = None -> 0
    [] rule # None /\ rule.type = "PERCENTAGE" -> Percent(LineMetal(line), rule.value)
    [] rule # None /\ rule.type = "PER_GRAM"   -> DivRound(Net(line) * rule.value, MgPerGram)
    [] rule # None /\ rule.type = "FIXED"      -> rule.value
    [] rule # None /\ rule.type = "PER_PIECE"  -> rule.value * line.pieces

(* A discount and the amount it is taken off.  One that exceeds it is       *)
(* refused, not cut down to it.                                             *)
DiscountBase(rule, making, subtotal) == IF rule.on = "MAKING_CHARGES" THEN making ELSE subtotal

DiscountDropped(rule, making, subtotal) ==    \* mutant: one that exceeds its base is left out
  IF rule = None THEN 0
  ELSE LET base == DiscountBase(rule, making, subtotal)
           amount == IF rule.type = "FLAT" THEN rule.value ELSE Percent(base, rule.value)
       IN IF amount > base THEN 0 ELSE amount

Discount(rule, making, subtotal) ==
  IF rule = None THEN 0
  ELSE LET base == DiscountBase(rule, making, subtotal)
           amount == IF rule.type = "FLAT" THEN rule.value ELSE Percent(base, rule.value)
       IN IF amount > base THEN None ELSE amount

(* Same state: CGST and SGST, each rounded by itself; otherwise IGST. *)
Tax(rates, taxable, intra) ==
  IF intra THEN Percent(taxable, rates.cgst) + Percent(taxable, rates.sgst) ELSE Percent(taxable, rates.igst)

(* calculatePrice, with the rules already chosen. *)
CalculatePrice(line, making, wastage, discount, rates, intra) ==
  IF ~(RateUsable(line) /\ WeightsAgree(line) /\ WastageUsable(line, wastage)) THEN None
  ELSE LET makingCharge == Making(line, making)
           subtotal == LineMetal(line) + Wastage(line, wastage) + makingCharge + line.stoneValue
           off == Discount(discount, makingCharge, subtotal)
       IN IF off = None THEN None
          ELSE [subtotal |-> subtotal, discount |-> off, taxable |-> subtotal - off,
                tax |-> Tax(rates, subtotal - off, intra),
                final |-> subtotal - off + Tax(rates, subtotal - off, intra)]

-----------------------------------------------------------------------------
(* Rule resolution.  A rule's scope has one entry per field that narrows it *)
(* (None: not set; channel BOTH is a channel not set).                      *)

ScopeKeys == {"customer", "customerGroup", "priceList", "category", "customerType", "metal", "purity", "channel"}

Dimensions == {"making", "wastage", "discount"}

InForce(r, at) == r.active /\ r.from <= at /\ (r.to # None => at < r.to)

TierRank(r) ==
  CASE r.scope["customer"] # None -> 1
    [] r.scope["customer"] = None /\ r.scope["customerGroup"] # None -> 2
    [] r.scope["customer"] = None /\ r.scope["customerGroup"] = None /\ r.scope["priceList"] # None -> 3
    [] /\ \A k \in {"customer", "customerGroup", "priceList"} : r.scope[k] = None
       /\ r.scope["category"] # None -> 4
    [] OTHER -> 5

Specificity(r) == Cardinality({k \in ScopeKeys : r.scope[k] # None})

AppliesTo(r, ctx) == InForce(r, ctx.asOf) /\ \A k \in ScopeKeys : r.scope[k] \in {None, ctx.scope[k]}

TiesBeforeId(a, b) ==
  /\ TierRank(a) = TierRank(b) /\ a.priority = b.priority
  /\ Specificity(a) = Specificity(b) /\ a.from = b.from

(* compareRules for the rules of a book, by id: i goes before j. *)
Precedes(book, i, j) ==
  LET a == book[i]  b == book[j] IN
  \/ TierRank(a) < TierRank(b)
  \/ TierRank(a) = TierRank(b) /\ a.priority > b.priority
  \/ TierRank(a) = TierRank(b) /\ a.priority = b.priority /\ Specificity(a) > Specificity(b)
  \/ /\ TierRank(a) = TierRank(b) /\ a.priority = b.priority /\ Specificity(a) = Specificity(b)
     /\ a.from > b.from
  \/ TiesBeforeId(a, b) /\ i < j

Eligible(book, ctx, dim) == {i \in DOMAIN book : book[i] # None /\ AppliesTo(book[i], ctx) /\ book[i][dim] # None}

Winner(book, ctx, dim) ==
  LET S == Eligible(book, ctx, dim) IN CHOOSE i \in S : \A j \in S \ {i} : Precedes(book, i, j)

(* The rules only the id decides between: the AMBIGUOUS_RULES warning. *)
Tied(book, ctx, dim) ==
  LET S == Eligible(book, ctx, dim) IN
  IF S = {} THEN {} ELSE {i \in S : TiesBeforeId(book[Winner(book, ctx, dim)], book[i])}

Governing(book, ctx, dim) ==
  IF Eligible(book, ctx, dim) = {} THEN None ELSE book[Winner(book, ctx, dim)][dim]

(* priceItem: a hand-entered override replaces what resolution picked.      *)
PriceItem(book, line, ctx, overrides, rates, intra) ==
  LET terms(dim) == IF overrides[dim] # None THEN overrides[dim] ELSE Governing(book, ctx, dim)
  IN [price |-> CalculatePrice(line, terms("making"), terms("wastage"), terms("discount"), rates, intra),
      made |-> terms("making") # None,       \* else NO_MAKING_RULE
      ambiguous |-> {dim \in Dimensions : overrides[dim] = None /\ Cardinality(Tied(book, ctx, dim)) > 1}]

(* resolveTaxRule: the latest of those in force; None when there is none,   *)
(* or when two start together.                                              *)
TaxRuleFor(rules, at) ==
  LET S == {r \in rules : InForce(r, at)}
      latest == {r \in S : \A q \in S : q.from <= r.from}
  IN IF Cardinality(latest) = 1 THEN CHOOSE r \in latest : TRUE ELSE None

-----------------------------------------------------------------------------
(* The check made when a rule is saved, which knows no context.             *)

OverlapWhenEqual(a, b) == \A k \in ScopeKeys : a.scope[k] = b.scope[k]     \* mutant: an unset field is a value too

ScopesOverlap(a, b) == \A k \in ScopeKeys : a.scope[k] = None \/ b.scope[k] = None \/ a.scope[k] = b.scope[k]

PeriodsOverlap(a, b) == (b.to # None => a.from < b.to) /\ (a.to # None => b.from < a.to)

Clash(a, b) ==
  /\ a.active /\ b.active
  /\ ScopesOverlap(a, b) /\ PeriodsOverlap(a, b) /\ TiesBeforeId(a, b)
  /\ \E dim \in Dimensions : a[dim] # None /\ b[dim] # None
=============================================================================
