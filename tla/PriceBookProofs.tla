--------------------------- MODULE PriceBookProofs ---------------------------
(* Proofs about PriceBook: for any rules, patches, sales and editors, what  *)
(* the check at saving accepts never ties on a sale, and at each moment one *)
(* version of a price list is in force; one of the rules that apply always  *)
(* goes before the others; and for any weights, rates and terms a heavier   *)
(* piece is never cheaper, and an order stands at a total that was told.    *)
EXTENDS PriceBook, TLAPS, FiniteSetTheorems, SequenceTheorems, WellFoundedInduction

-----------------------------------------------------------------------------
(* Rules: a tie on a sale is a clash without one.                           *)

LEMMA NoneIsNoDate == None \notin Nat /\ None \notin RuleIds
BY PricingAssumption DEF RuleIds

LEMMA ClashBothWays == ASSUME NEW a, NEW b, Clash(a, b) PROVE Clash(b, a)
<1>1. TiesBeforeId(b, a) /\ ScopesOverlap(b, a) /\ PeriodsOverlap(b, a)
  BY DEF Clash, TiesBeforeId, ScopesOverlap, PeriodsOverlap
<1> QED BY <1>1 DEF Clash

LEMMA TiedClash ==
  ASSUME NEW ctx \in Contexts, NEW dim \in Dimensions, NEW a, NEW b, NEW w, Dated(a), Dated(b),
         AppliesTo(a, ctx), AppliesTo(b, ctx), a[dim] # None, b[dim] # None,
         TiesBeforeId(w, a), TiesBeforeId(w, b)
  PROVE  Clash(a, b)
<1>1. TiesBeforeId(a, b)
  BY DEF TiesBeforeId
<1>2. a.active /\ b.active
  BY DEF AppliesTo, InForce
<1>3. ScopesOverlap(a, b)
  <2> SUFFICES ASSUME NEW k \in ScopeKeys PROVE a.scope[k] = None \/ b.scope[k] = None \/ a.scope[k] = b.scope[k]
    BY DEF ScopesOverlap
  <2>1. a.scope[k] \in {None, ctx.scope[k]} /\ b.scope[k] \in {None, ctx.scope[k]}
    BY DEF AppliesTo
  <2> QED BY <2>1
<1>4. PeriodsOverlap(a, b)
  <2>1. ctx.asOf \in Nat
    BY DatesAssumption
  <2>2. /\ a.from <= ctx.asOf /\ (a.to # None => ctx.asOf < a.to)
        /\ b.from <= ctx.asOf /\ (b.to # None => ctx.asOf < b.to)
    BY DEF AppliesTo, InForce
  <2>3. /\ a.from \in Nat /\ b.from \in Nat
        /\ (a.to # None => a.to \in Nat) /\ (b.to # None => b.to \in Nat)
    BY DEF Dated
  <2> QED BY <2>1, <2>2, <2>3 DEF PeriodsOverlap
<1> QED BY <1>1, <1>2, <1>3, <1>4 DEF Clash

LEMMA AtMostOne ==
  ASSUME NEW S, \A x, y \in S : x = y
  PROVE  Cardinality(S) <= 1
<1>1. CASE S = {}
  BY <1>1, FS_EmptySet
<1>2. CASE S # {}
  <2>1. PICK x \in S : S = {x}
    BY <1>2
  <2>2. Cardinality({x}) = 1
    BY FS_Singleton
  <2> QED BY <2>1, <2>2
<1> QED BY <1>1, <1>2

-----------------------------------------------------------------------------
(* The inductive invariant.  Rules that are in the book together do not     *)
(* clash; a save that has been checked against this very book would not     *)
(* either; each version is closed by the next.                              *)

NoClash ==
  \A i, j \in RuleIds : i # j /\ book[i] # None /\ book[j] # None => ~Clash(book[i], book[j])

Fields == {"job", "id", "rule", "patch", "n", "from", "to", "saved", "old"}

GoodRule(r) == Dated(r) /\ RuleTyped(r)

SaveOK(d) ==
  /\ d.job = "create" => GoodRule(d.rule)
  /\ d.job \in {"check", "update"} => d.id \in RuleIds /\ GoodRule(book[d.id]) /\ d.patch \in Patches
  /\ ~raced /\ ~d.old =>
       /\ d.job = "create" => Unambiguous(d.rule, None)
       /\ d.job \in {"check", "update"} => d.rule = Patched(book[d.id], d.patch)
       /\ d.job = "update" => Unambiguous(d.rule, d.id)

ListOK(d) ==
  /\ d.job \in {"list", "version"} => d.from \in Dates
  /\ d.job = "list" => d.to \in Dates \union {None}
  /\ d.job = "version" =>
       /\ d.n \in 1..Len(lists)
       /\ d.n = Len(lists) => lists[d.n].from < d.from
       /\ d.saved => retried

Chained ==
  /\ lists[Len(lists)].to # None => Len(lists) = 1
  /\ \A v \in DOMAIN lists : lists[1].from <= lists[v].from
  /\ \A u, v \in DOMAIN lists : u < v => lists[u].to \in Dates /\ lists[u].to <= lists[v].from
  /\ \A at \in Dates : at >= lists[1].from /\ ~Expired(at) => InForceVersion(at) # {}

BookTyped(b) == DOMAIN b = RuleIds /\ \A i \in RuleIds : b[i] # None => GoodRule(b[i])

RulesOK == BookTyped(book) /\ (~raced => NoClash)

VersionsOK == lists \in Seq(Versions) /\ (~retried /\ lists # <<>> => Chained)

EditorsOK ==
  /\ DOMAIN editing = Editors
  /\ \A e \in Editors : DOMAIN editing[e] = Fields /\ SaveOK(editing[e]) /\ ListOK(editing[e])

BooksOK == RulesOK /\ VersionsOK /\ EditorsOK

LEMMA AwayOK == DOMAIN Away = Fields /\ Away.job = "none" /\ SaveOK(Away) /\ ListOK(Away)
BY DEF Away, Fields, SaveOK, ListOK

LEMMA AwayOKNext == SaveOK(Away)' /\ ListOK(Away)'
BY DEF Away, SaveOK, ListOK

LEMMA Starts == Init => BooksOK
<1> SUFFICES ASSUME Init PROVE BooksOK
  OBVIOUS
<1>1. shift \in Shifts /\ book = shift.book
  BY DEF Init
<1>2. RulesOK
  BY <1>1, BooksAssumption, TermsAssumption DEF RulesOK, NoClash, BookTyped, GoodRule
<1>3. VersionsOK
  BY DEF Init, VersionsOK
<1>4. EditorsOK
  BY AwayOK DEF Init, EditorsOK
<1> QED BY <1>2, <1>3, <1>4 DEF BooksOK

(* An editor who only reads: it takes up a task, or puts one down.          *)
LEMMA ReadStep ==
  ASSUME BooksOK, NEW e \in Editors, NEW d, DOMAIN d = Fields, SaveOK(d), ListOK(d)',
         editing' = [editing EXCEPT ![e] = d], UNCHANGED <<book, raced, lists>>, retried => retried'
  PROVE  BooksOK'
<1>1. RulesOK' /\ VersionsOK'
  BY DEF BooksOK, RulesOK, BookTyped, NoClash, VersionsOK, Chained, InForceVersion, Expired
<1>2. DOMAIN editing' = Editors /\ \A f \in Editors : editing'[f] = editing[f] \/ editing'[f] = d
  BY DEF BooksOK, EditorsOK
<1>3. \A c : (SaveOK(c) => SaveOK(c)') /\ (ListOK(c) => ListOK(c)')
  BY DEF SaveOK, ListOK, Unambiguous
<1>4. EditorsOK'
  BY <1>2, <1>3 DEF BooksOK, EditorsOK
<1> QED BY <1>1, <1>4 DEF BooksOK

(* The book's writer e puts what the others have read out of date.          *)
LEMMA WriteStep ==
  ASSUME BooksOK, NEW e \in Editors, RulesOK', Wrote(e), UNCHANGED <<lists, retried>>,
         \A i \in RuleIds : GoodRule(book[i]) => GoodRule(book'[i])
  PROVE  BooksOK'
<1>1. VersionsOK'
  BY DEF BooksOK, VersionsOK, Chained, InForceVersion, Expired
<1>2. ASSUME NEW f \in Editors
      PROVE  \E c : editing'[f] = c /\ DOMAIN c = Fields /\ SaveOK(c)' /\ ListOK(c)'
  <2>1. CASE f = e \/ Doing(f, "none")
    <3>1. editing'[f] = Away
      BY <2>1 DEF Wrote, Doing
    <3> QED BY <3>1, AwayOK, AwayOKNext
  <2>2. CASE ~(f = e \/ Doing(f, "none"))
    <3>1. PICK d : d = [editing[f] EXCEPT !.old = TRUE]
      OBVIOUS
    <3>2. editing'[f] = d
      BY <2>2, <3>1 DEF Wrote, Doing
    <3>3. DOMAIN editing[f] = Fields /\ SaveOK(editing[f]) /\ ListOK(editing[f])
      BY DEF BooksOK, EditorsOK
    <3>4. /\ DOMAIN d = Fields /\ d.old /\ d.job = editing[f].job /\ d.rule = editing[f].rule
          /\ d.id = editing[f].id /\ d.patch = editing[f].patch
          /\ d.n = editing[f].n /\ d.from = editing[f].from /\ d.to = editing[f].to /\ d.saved = editing[f].saved
      BY <3>1, <3>3 DEF Fields
    <3>5. SaveOK(d)'
      BY <3>3, <3>4 DEF SaveOK
    <3>6. ListOK(d)'
      BY <3>3, <3>4 DEF ListOK
    <3> QED BY <3>2, <3>4, <3>5, <3>6
  <2> QED BY <2>1, <2>2
<1>3. DOMAIN editing' = Editors
  BY DEF Wrote
<1>4. EditorsOK'
  BY <1>2, <1>3 DEF EditorsOK
<1> QED BY <1>1, <1>4 DEF BooksOK

(* One rule of the book becomes r, which does not clash if it was checked.  *)
LEMMA RuleWritten ==
  ASSUME RulesOK, NEW i \in RuleIds, NEW r, GoodRule(r), book' = [book EXCEPT ![i] = r],
         ~raced' => ~raced /\ Unambiguous(r, i)
  PROVE  RulesOK' /\ \A j \in RuleIds : GoodRule(book[j]) => GoodRule(book'[j])
<1>1. \A j \in RuleIds : book'[j] = IF j = i THEN r ELSE book[j]
  BY DEF RulesOK, BookTyped
<1>2. BookTyped(book')
  BY <1>1 DEF RulesOK, BookTyped
<1>3. ASSUME ~raced', NEW j \in RuleIds, NEW k \in RuleIds, j # k, book'[j] # None, book'[k] # None,
             Clash(book'[j], book'[k])
      PROVE  FALSE
  <2>1. \A m \in RuleIds \ {i} : book[m] # None => ~Clash(r, book[m])
    <3>1. SUFFICES ASSUME NEW m \in RuleIds \ {i}, book[m] # None, Clash(r, book[m]) PROVE FALSE
      OBVIOUS
    <3>2. r.active
      BY <3>1 DEF Clash
    <3> QED BY <1>3, <3>1, <3>2 DEF Unambiguous
  <2>2. CASE j = i
    BY <1>1, <1>3, <2>1, <2>2
  <2>3. CASE k = i
    <3>1. book'[k] = r /\ book'[j] = book[j]
      BY <1>1, <1>3, <2>3
    <3>2. Clash(r, book[j])
      BY <1>3, <3>1, ClashBothWays
    <3> QED BY <1>3, <2>1, <2>3, <3>1, <3>2
  <2>4. CASE j # i /\ k # i
    BY <1>1, <1>3, <2>4 DEF RulesOK, NoClash
  <2> QED BY <2>2, <2>3, <2>4
<1> QED BY <1>1, <1>2, <1>3 DEF RulesOK, NoClash

LEMMA PatchedGood ==
  ASSUME NEW r, GoodRule(r), NEW patch \in Patches
  PROVE  GoodRule(Patched(r, patch))
<1>1. DOMAIN Patched(r, patch) = DOMAIN r
  BY DEF Patched
<1>2. \A f \in DOMAIN r : Patched(r, patch)[f] = r[f] \/ (f \in DOMAIN patch /\ Patched(r, patch)[f] = patch[f])
  BY DEF Patched
<1>3. Patched(r, patch).from \in Nat
  BY <1>2, DatesAssumption DEF Dated, GoodRule
<1>4. Patched(r, patch).to \in Nat \union {None}
  BY <1>2, DatesAssumption DEF Dated, GoodRule
<1>5. RuleTyped(Patched(r, patch))
  <2>1. DOMAIN Terms \subseteq DOMAIN r /\ \A f \in DOMAIN Terms : r[f] \in Terms[f]
    BY DEF GoodRule, RuleTyped
  <2>2. \A f \in DOMAIN Terms : Patched(r, patch)[f] \in Terms[f]
    BY <1>2, <2>1, TermsAssumption
  <2> QED BY <1>1, <2>1, <2>2 DEF RuleTyped
<1> QED BY <1>1, <1>3, <1>4, <1>5 DEF Dated, GoodRule

LEMMA CreateStep ==
  ASSUME BooksOK, NEW e \in Editors, CreateRule(e)
  PROVE  BooksOK'
<1>1. PICK i \in RuleIds : book[i] = None /\ book' = [book EXCEPT ![i] = editing[e].rule]
  BY DEF CreateRule
<1>2. Wrote(e) /\ UNCHANGED <<lists, retried>> /\ editing[e].job = "create"
  BY DEF CreateRule, Doing, listVars
<1>3. ~raced' => ~raced /\ ~editing[e].old
  BY <1>2 DEF Wrote
<1>4. GoodRule(editing[e].rule) /\ (~raced' => Unambiguous(editing[e].rule, None))
  BY <1>2, <1>3 DEF BooksOK, EditorsOK, SaveOK
<1>5. Unambiguous(editing[e].rule, None) => Unambiguous(editing[e].rule, i)
  BY NoneIsNoDate DEF Unambiguous
<1>6. RulesOK' /\ \A j \in RuleIds : GoodRule(book[j]) => GoodRule(book'[j])
  BY <1>1, <1>3, <1>4, <1>5, RuleWritten DEF BooksOK
<1> QED BY <1>2, <1>6, WriteStep

LEMMA UpdateStep ==
  ASSUME BooksOK, NEW e \in Editors, UpdateRule(e)
  PROVE  BooksOK'
<1>1. PICK i, r : i = editing[e].id /\ r = Patched(book[i], editing[e].patch)
  OBVIOUS
<1>2. book' = [book EXCEPT ![i] = r] /\ Wrote(e) /\ UNCHANGED <<lists, retried>> /\ editing[e].job = "update"
  BY <1>1 DEF UpdateRule, Doing, listVars
<1>3. ~raced' => ~raced /\ ~editing[e].old
  BY <1>2 DEF Wrote
<1>4. /\ i \in RuleIds /\ GoodRule(book[i]) /\ editing[e].patch \in Patches
      /\ ~raced' => r = editing[e].rule /\ Unambiguous(editing[e].rule, i)
  BY <1>1, <1>2, <1>3 DEF BooksOK, EditorsOK, SaveOK
<1>5. GoodRule(r)
  BY <1>1, <1>4, PatchedGood
<1>6. RulesOK' /\ \A j \in RuleIds : GoodRule(book[j]) => GoodRule(book'[j])
  BY <1>2, <1>3, <1>4, <1>5, RuleWritten DEF BooksOK
<1> QED BY <1>2, <1>6, WriteStep

LEMMA TakeUpSteps ==
  ASSUME BooksOK, NEW e \in Editors,
         \/ \E r \in Candidates : StartCreate(e, r)
         \/ \E i \in RuleIds, patch \in Patches : ReadRule(e, i, patch)
         \/ \E from \in Dates : StartVersion(e, from) \/ \E to \in Dates \union {None} : StartList(e, from, to)
  PROVE  BooksOK'
<1>1. CASE \E r \in Candidates : StartCreate(e, r)
  <2>1. PICK r \in Candidates : StartCreate(e, r)
    BY <1>1
  <2>2. PICK d : d = [Away EXCEPT !.job = "create", !.rule = r]
    OBVIOUS
  <2>3. DOMAIN d = Fields /\ SaveOK(d) /\ ListOK(d)'
    BY <2>1, <2>2, DatesAssumption, TermsAssumption DEF Away, Fields, SaveOK, ListOK, StartCreate, GoodRule
  <2> QED BY <2>1, <2>2, <2>3, ReadStep DEF StartCreate, ruleVars, listVars
<1>2. CASE \E i \in RuleIds, patch \in Patches : ReadRule(e, i, patch)
  <2>1. PICK i \in RuleIds, patch \in Patches : ReadRule(e, i, patch)
    BY <1>2
  <2>2. PICK d : d = [Away EXCEPT !.job = "check", !.id = i, !.patch = patch, !.rule = Patched(book[i], patch)]
    OBVIOUS
  <2>3. DOMAIN d = Fields /\ SaveOK(d) /\ ListOK(d)'
    BY <2>1, <2>2 DEF Away, Fields, SaveOK, ListOK, ReadRule, BooksOK, RulesOK, BookTyped
  <2> QED BY <2>1, <2>2, <2>3, ReadStep DEF ReadRule, ruleVars, listVars
<1>3. CASE \E from \in Dates, to \in Dates \union {None} : StartList(e, from, to)
  <2>1. PICK from \in Dates, to \in Dates \union {None} : StartList(e, from, to)
    BY <1>3
  <2>2. PICK d : d = [Away EXCEPT !.job = "list", !.from = from, !.to = to]
    OBVIOUS
  <2>3. DOMAIN d = Fields /\ SaveOK(d) /\ ListOK(d)'
    BY <2>1, <2>2 DEF Away, Fields, SaveOK, ListOK, StartList
  <2> QED BY <2>1, <2>2, <2>3, ReadStep DEF StartList, ruleVars, listVars
<1>4. CASE \E from \in Dates : StartVersion(e, from)
  <2>1. PICK from \in Dates : StartVersion(e, from)
    BY <1>4
  <2>2. PICK d : d = [Away EXCEPT !.job = "version", !.n = Len(lists), !.from = from]
    OBVIOUS
  <2>3. DOMAIN d = Fields /\ d.job = "version" /\ d.n = Len(lists) /\ d.from = from /\ d.saved = FALSE
    BY <2>2 DEF Away, Fields
  <2>4. Len(lists) \in 1..Len(lists) /\ lists[Len(lists)].from < from
    <3>1. lists \in Seq(Versions) /\ lists # <<>>
      BY <2>1 DEF StartVersion, BooksOK, VersionsOK
    <3>2. PICK n : n = Len(lists)
      OBVIOUS
    <3>3. n \in Nat \ {0} /\ lists[n] \in Versions
      BY <3>1, <3>2
    <3>4. lists[n].from \in Dates /\ from > lists[n].from
      BY <2>1, <3>2, <3>3 DEF StartVersion, Versions
    <3>5. lists[n].from \in Nat /\ from \in Nat
      BY <3>4, PriceBookAssumption DEF Dates
    <3> QED BY <3>2, <3>3, <3>4, <3>5
  <2>5. UNCHANGED <<book, raced, lists, retried>>
    BY <2>1 DEF StartVersion, ruleVars, listVars
  <2>6. SaveOK(d) /\ ListOK(d)'
    BY <2>3, <2>4, <2>5 DEF SaveOK, ListOK
  <2> QED BY <2>1, <2>2, <2>3, <2>5, <2>6, ReadStep DEF StartVersion
<1> QED BY <1>1, <1>2, <1>3, <1>4

LEMMA CheckStep ==
  ASSUME BooksOK, NEW e \in Editors, CheckRule(e)
  PROVE  BooksOK'
<1>1. DOMAIN editing = Editors /\ DOMAIN editing[e] = Fields /\ SaveOK(editing[e]) /\ editing[e].job = "check"
  BY DEF BooksOK, EditorsOK, CheckRule, Doing
<1>2. UNCHANGED <<book, raced, lists, retried>>
  BY DEF CheckRule, ruleVars, listVars
<1>3. CASE Leave(e)
  BY <1>2, <1>3, AwayOK, AwayOKNext, ReadStep DEF Leave
<1>4. CASE Unambiguous(editing[e].rule, editing[e].id) /\ editing' = [editing EXCEPT ![e].job = "update"]
  <2>1. PICK d : d = [editing[e] EXCEPT !.job = "update"]
    OBVIOUS
  <2>2. editing' = [editing EXCEPT ![e] = d]
    BY <1>4, <2>1
  <2>3. DOMAIN d = Fields /\ SaveOK(d) /\ ListOK(d)'
    BY <1>1, <1>4, <2>1 DEF Fields, SaveOK, ListOK
  <2> QED BY <1>2, <2>2, <2>3, ReadStep
<1> QED BY <1>3, <1>4 DEF CheckRule

LEMMA RetryStep ==
  ASSUME BooksOK, NEW e \in Editors, RetryVersion(e)
  PROVE  BooksOK'
<1>1. DOMAIN editing = Editors /\ DOMAIN editing[e] = Fields /\ ListOK(editing[e]) /\ editing[e].job = "version"
  BY DEF BooksOK, EditorsOK, RetryVersion, Doing
<1>2. PICK d : d = [editing[e] EXCEPT !.saved = TRUE]
  OBVIOUS
<1>3. editing' = [editing EXCEPT ![e] = d] /\ UNCHANGED <<book, raced, lists>> /\ retried'
  BY <1>2 DEF RetryVersion, ruleVars
<1>4. /\ DOMAIN d = Fields /\ d.job = "version" /\ d.from = editing[e].from /\ d.n = editing[e].n
  BY <1>1, <1>2 DEF Fields
<1>5. SaveOK(d) /\ ListOK(d)'
  BY <1>1, <1>3, <1>4 DEF SaveOK, ListOK
<1> QED BY <1>3, <1>4, <1>5, ReadStep

-----------------------------------------------------------------------------
(* Price lists: what is written keeps the chain of versions.                *)

LEMMA ListStep ==
  ASSUME BooksOK, NEW e \in Editors, VersionsOK', Leave(e), UNCHANGED <<book, raced, retried>>,
         Len(lists') > Len(lists) \/ lists' = lists
  PROVE  BooksOK'
<1>1. RulesOK'
  BY DEF BooksOK, RulesOK, BookTyped, NoClash
<1>2. DOMAIN editing' = Editors /\ \A f \in Editors : editing'[f] = editing[f] \/ editing'[f] = Away
  BY DEF Leave, BooksOK, EditorsOK
<1>3. Len(lists) \in Nat /\ Len(lists') \in Nat
  BY DEF BooksOK, VersionsOK
<1>4. \A c : (SaveOK(c) => SaveOK(c)') /\ (ListOK(c) => ListOK(c)')
  BY <1>3 DEF SaveOK, ListOK, Unambiguous
<1>5. EditorsOK'
  BY <1>2, <1>4, AwayOK, AwayOKNext DEF BooksOK, EditorsOK
<1> QED BY <1>1, <1>5 DEF BooksOK

LEMMA CreateListStep ==
  ASSUME BooksOK, NEW e \in Editors, CreateList(e)
  PROVE  BooksOK'
<1>1. /\ lists \in Seq(Versions) /\ editing[e].from \in Dates /\ editing[e].to \in Dates \union {None}
      /\ Leave(e) /\ UNCHANGED <<book, raced, retried>>
  BY DEF BooksOK, VersionsOK, EditorsOK, ListOK, CreateList, Doing, ruleVars
<1>2. CASE lists # <<>>
  <2>1. lists' = lists
    BY <1>2 DEF CreateList
  <2>2. VersionsOK'
    BY <1>1, <2>1 DEF BooksOK, VersionsOK, Chained, InForceVersion, Expired
  <2> QED BY <1>1, <2>1, <2>2, ListStep
<1>3. CASE lists = <<>>
  <2>1. PICK v : v = [from |-> editing[e].from, to |-> editing[e].to]
    OBVIOUS
  <2>2. v \in Versions /\ v.from = editing[e].from /\ v.to = editing[e].to
    BY <1>1, <2>1 DEF Versions
  <2>3. lists' = <<v>>
    BY <1>3, <2>1 DEF CreateList
  <2>4. lists' \in Seq(Versions) /\ Len(lists') = 1 /\ lists'[1] = v /\ DOMAIN lists' = {1}
    BY <2>2, <2>3
  <2>5. v.from \in Nat
    BY <1>1, <2>2, PriceBookAssumption DEF Dates
  <2>6. ASSUME NEW at \in Dates, at >= lists'[1].from, ~Expired(at)'
        PROVE  1 \in InForceVersion(at)'
    <3>1. at \in Nat /\ (v.to # None => v.to \in Nat)
      BY <2>2, PriceBookAssumption DEF Dates, Versions
    <3> QED BY <2>2, <2>4, <2>5, <2>6, <3>1 DEF InForceVersion, Expired
  <2>7. Chained'
    BY <1>1, <2>2, <2>4, <2>5, <2>6 DEF Chained
  <2>8. VersionsOK'
    BY <2>4, <2>7 DEF VersionsOK
  <2> QED BY <1>1, <1>3, <2>4, <2>8, ListStep
<1> QED BY <1>2, <1>3

(* A version that starts after the last closes it on the day it starts.     *)
LEMMA ChainGrows ==
  ASSUME lists \in Seq(Versions), lists # <<>>, Chained, NEW from \in Dates, lists[Len(lists)].from < from,
         lists' = Append([lists EXCEPT ![Len(lists)].to = from], [from |-> from, to |-> None])
  PROVE  Chained'
<1>1. PICK n : n = Len(lists)
  OBVIOUS
<1>2. n \in Nat \ {0} /\ DOMAIN lists = 1..n /\ \A v \in 1..n : lists[v] \in Versions
  BY <1>1
<1>3. \A at \in Dates : at \in Nat
  BY PriceBookAssumption DEF Dates
<1>4. PICK last, new : last = [lists[n] EXCEPT !.to = from] /\ new = [from |-> from, to |-> None]
  OBVIOUS
<1>5. /\ last \in Versions /\ last.from = lists[n].from /\ last.to = from
      /\ new \in Versions /\ new.from = from /\ new.to = None
  BY <1>2, <1>4 DEF Versions
<1>6. PICK closed : closed = [lists EXCEPT ![n] = last]
  OBVIOUS
<1>7. /\ closed \in Seq(Versions) /\ Len(closed) = n
      /\ closed[n] = last /\ \A v \in 1..(n-1) : closed[v] = lists[v]
  BY <1>1, <1>2, <1>5, <1>6
<1>8. lists' = Append(closed, new)
  BY <1>1, <1>4, <1>6
<1>9. /\ Len(lists') = n + 1 /\ DOMAIN lists' = 1..(n+1)
      /\ \A v \in 1..(n-1) : lists'[v] = lists[v]
      /\ lists'[n] = last /\ lists'[n+1] = new
  BY <1>2, <1>5, <1>7, <1>8, AppendProperties
<1>a. /\ lists'[n+1].to = None /\ lists'[n].to = from /\ lists'[n+1].from = from
      /\ \A v \in 1..n : lists'[v].from = lists[v].from
      /\ \A v \in 1..(n-1) : lists'[v].to = lists[v].to
  <2>1. \A v \in 1..n : v \in 1..(n-1) \/ v = n
    BY <1>2
  <2> QED BY <1>5, <1>9, <2>1
<1>b. /\ \A v \in 1..n : lists[1].from <= lists[v].from
      /\ \A u, v \in 1..n : u < v => lists[u].to \in Dates /\ lists[u].to <= lists[v].from
      /\ \A at \in Dates : at >= lists[1].from /\ ~Expired(at) => InForceVersion(at) # {}
      /\ lists[n].from < from
  BY <1>1, <1>2 DEF Chained
<1>c. from \in Nat /\ \A v \in 1..n : lists[v].from \in Nat
  BY <1>2, <1>3 DEF Versions
<1>d. \A v \in 1..(n+1) : lists'[1].from <= lists'[v].from
  <2>1. \A v \in 1..(n+1) : v \in 1..n \/ v = n + 1
    BY <1>2
  <2>2. 1 \in 1..n /\ n \in 1..n
    BY <1>2
  <2>3. lists'[1].from = lists[1].from /\ lists'[n+1].from = from
    BY <1>a, <2>2
  <2>4. lists[1].from \in Nat /\ lists[n].from \in Nat /\ from \in Nat
    BY <1>c, <2>2
  <2>5. lists[1].from <= lists[n].from /\ lists[n].from < from
    BY <1>b, <2>2
  <2>6. lists[1].from <= from
    BY <2>4, <2>5
  <2>7. ASSUME NEW v \in 1..n PROVE lists'[1].from <= lists'[v].from
    BY <1>a, <1>b, <2>3
  <2> QED BY <2>1, <2>3, <2>6, <2>7
<1>e. ASSUME NEW u \in 1..(n+1), NEW v \in 1..(n+1), u < v
      PROVE  lists'[u].to \in Dates /\ lists'[u].to <= lists'[v].from
  <2>1. CASE v \in 1..n
    <3>1. u \in 1..(n-1) /\ u \in 1..n
      BY <1>2, <1>e, <2>1
    <3> QED BY <1>a, <1>b, <1>e, <2>1, <3>1
  <2>2. CASE v = n + 1 /\ u = n
    <3>1. lists'[u].to = from /\ lists'[v].from = from /\ from <= from
      BY <1>2, <1>a, <1>c, <2>2
    <3> QED BY <1>a, <2>2, <3>1
  <2>3. CASE v = n + 1 /\ u # n
    <3>1. u \in 1..(n-1) /\ u \in 1..n /\ n \in 1..n /\ u < n
      BY <1>2, <1>e, <2>3
    <3>2. lists[u].to \in Dates /\ lists[u].to <= lists[n].from
      BY <1>b, <3>1
    <3>3. lists[u].to \in Nat /\ lists[n].from \in Nat /\ from \in Nat /\ lists[n].from < from
      BY <1>b, <1>c, <1>3, <3>1, <3>2
    <3>4. lists[u].to <= from
      BY <3>2, <3>3
    <3> QED BY <1>a, <2>3, <3>1, <3>2, <3>4
  <2> QED BY <1>2, <2>1, <2>2, <2>3
<1>f. ASSUME NEW at \in Dates, at >= lists'[1].from
      PROVE  InForceVersion(at)' # {}
  <2>1. at \in Nat /\ n \in 1..n /\ 1 \in 1..n
    BY <1>2, <1>3
  <2>2. CASE at >= from
    <3>1. n + 1 \in InForceVersion(at)'
      BY <1>2, <1>9, <1>a, <1>c, <2>1, <2>2 DEF InForceVersion
    <3> QED BY <3>1
  <2>3. CASE at < from
    <3>1. PICK v \in 1..n : lists[v].from <= at /\ (v # n /\ lists[v].to # None => at < lists[v].to)
      <4>1. CASE Expired(at)
        <5>1. n = 1 /\ lists'[1].from = lists[1].from
          BY <1>1, <1>a, <2>1, <4>1 DEF Expired
        <5>2. lists[1].from \in Nat /\ lists[1].from <= at
          BY <1>c, <1>f, <2>1, <5>1
        <5> QED BY <5>1, <5>2
      <4>2. CASE ~Expired(at)
        <5>1. InForceVersion(at) # {}
          BY <1>a, <1>b, <1>f, <2>1, <4>2
        <5> QED BY <1>2, <5>1 DEF InForceVersion
      <4> QED BY <4>1, <4>2
    <3>3. v \in 1..(n+1) /\ lists'[v].from <= at
      BY <1>2, <1>a, <3>1
    <3>4. lists'[v].to # None => at < lists'[v].to
      <4>1. CASE v = n
        BY <1>a, <2>3, <4>1
      <4>2. CASE v # n
        <5>1. v \in 1..(n-1)
          BY <1>2, <3>1, <4>2
        <5> QED BY <1>a, <3>1, <4>2, <5>1
      <4> QED BY <4>1, <4>2
    <3>5. v \in InForceVersion(at)'
      BY <1>9, <3>3, <3>4 DEF InForceVersion
    <3> QED BY <3>5
  <2> QED BY <1>c, <2>1, <2>2, <2>3
<1> QED BY <1>9, <1>a, <1>d, <1>e, <1>f DEF Chained

LEMMA CommitStep ==
  ASSUME BooksOK, NEW e \in Editors, CommitVersion(e)
  PROVE  BooksOK'
<1>1. /\ lists \in Seq(Versions) /\ ListOK(editing[e]) /\ editing[e].job = "version"
      /\ Leave(e) /\ UNCHANGED <<book, raced, retried>>
  BY DEF BooksOK, VersionsOK, EditorsOK, CommitVersion, Doing, ruleVars
<1>2. editing[e].from \in Dates /\ editing[e].n \in 1..Len(lists) /\ Len(lists) \in Nat
  BY <1>1 DEF ListOK
<1>3. CASE Len(lists) > editing[e].n
  <2>1. lists' = lists
    BY <1>3 DEF CommitVersion
  <2>2. VersionsOK'
    BY <1>1, <2>1 DEF BooksOK, VersionsOK, Chained, InForceVersion, Expired
  <2> QED BY <1>1, <2>1, <2>2, ListStep
<1>4. CASE editing[e].n = Len(lists)
  <2>1. PICK n, to, new : /\ n = Len(lists) /\ to = IF editing[e].saved THEN lists[n].to ELSE editing[e].from
                          /\ new = [from |-> editing[e].from, to |-> None]
    OBVIOUS
  <2>2. lists' = Append([lists EXCEPT ![n].to = to], new)
    BY <1>2, <1>4, <2>1 DEF CommitVersion
  <2>3. PICK last : last = [lists[n] EXCEPT !.to = to]
    OBVIOUS
  <2>4. n \in 1..Len(lists) /\ lists[n] \in Versions
    BY <1>1, <1>2, <1>4, <2>1
  <2>5. to \in Dates \union {None}
    BY <1>2, <2>1, <2>4 DEF Versions
  <2>6. last \in Versions /\ new \in Versions
    BY <1>2, <2>1, <2>3, <2>4, <2>5 DEF Versions
  <2>7. PICK closed : closed = [lists EXCEPT ![n] = last]
    OBVIOUS
  <2>8. closed \in Seq(Versions) /\ Len(closed) = Len(lists)
    BY <1>1, <2>4, <2>6, <2>7
  <2>9. lists' = Append(closed, new)
    BY <2>2, <2>3, <2>7
  <2>a. lists' \in Seq(Versions) /\ Len(lists') = Len(lists) + 1
    BY <2>6, <2>8, <2>9, AppendProperties
  <2>b. ASSUME ~retried PROVE Chained'
    <3>1. lists # <<>> /\ Chained
      BY <1>2, <2>b DEF BooksOK, VersionsOK
    <3>2. to = editing[e].from /\ lists[n].from < editing[e].from
      BY <1>1, <1>4, <2>1, <2>b DEF ListOK
    <3> QED BY <1>1, <1>2, <2>1, <2>2, <3>1, <3>2, ChainGrows
  <2>c. VersionsOK'
    BY <1>1, <2>a, <2>b DEF VersionsOK
  <2> QED BY <1>1, <1>2, <2>a, <2>c, ListStep
<1> QED BY <1>2, <1>3, <1>4

-----------------------------------------------------------------------------
(* The invariant, and what follows from it.                                 *)

ShiftOK == shift \in Shifts /\ BooksOK

LEMMA Steps == ShiftOK /\ [Next]_vars => ShiftOK'
<1> SUFFICES ASSUME ShiftOK, [Next]_vars PROVE BooksOK'
  BY DEF ShiftOK, Next, vars
<1> USE DEF ShiftOK
<1>1. ASSUME UNCHANGED <<book, raced, lists, retried, editing>>
      PROVE  BooksOK'
  BY <1>1 DEF BooksOK, RulesOK, BookTyped, NoClash, VersionsOK, Chained, InForceVersion, Expired, EditorsOK, SaveOK, ListOK, Unambiguous
<1>2. CASE UNCHANGED vars
  BY <1>1, <1>2 DEF vars, ruleVars, listVars
<1>3. CASE RuleSaves
  <2>1. shift.candidates \subseteq Candidates /\ shift.patches \subseteq Patches
    BY TermsAssumption
  <2> QED BY <1>3, <2>1, TakeUpSteps, CreateStep, CheckStep, UpdateStep DEF RuleSaves
<1>4. CASE ListSaves
  BY <1>4, TakeUpSteps, CreateListStep, RetryStep, CommitStep DEF ListSaves
<1>5. CASE Shopping
  <2>1. UNCHANGED <<book, raced, lists, retried, editing>>
    BY <1>5 DEF Shopping, EnterRate, EnterTaxRule, DayPasses, Show, ruleVars, listVars
  <2> QED BY <1>1, <2>1
<1>6. CASE Ordering
  <2>1. UNCHANGED <<book, raced, lists, retried, editing>>
    BY <1>6 DEF Ordering, Verify, Accept, Refuse, Replay, CreateOrder, ruleVars, listVars
  <2> QED BY <1>1, <2>1
<1> QED BY <1>2, <1>3, <1>4, <1>5, <1>6 DEF Next

LEMMA BooksInvariant == Spec => []ShiftOK
<1>1. Init => ShiftOK
  BY Starts DEF Init, ShiftOK
<1> QED BY Steps, <1>1, PTL DEF Spec

(* TiesAreRefused: unless two saves overlapped, no sale has two rules that  *)
(* only their ids decide between; the check at saving                       *)
(* (assertNoAmbiguousPricingRule) is enough although it knows no sale.      *)
THEOREM NoTies == Spec => []TiesAreRefused
<1>1. BooksOK => TiesAreRefused
  <2> SUFFICES ASSUME BooksOK, ~raced, NEW ctx \in Contexts, NEW dim \in Dimensions
               PROVE  Cardinality(Tied(book, ctx, dim)) <= 1
    BY DEF TiesAreRefused
  <2>1. ASSUME NEW i \in Tied(book, ctx, dim), NEW j \in Tied(book, ctx, dim)
        PROVE  i = j
    <3>1. PICK w : w = book[Winner(book, ctx, dim)]
      OBVIOUS
    <3>2. \A k \in Tied(book, ctx, dim) : k \in Eligible(book, ctx, dim) /\ TiesBeforeId(w, book[k])
      BY <3>1 DEF Tied
    <3>3. \A k \in {i, j} : /\ k \in RuleIds /\ book[k] # None /\ AppliesTo(book[k], ctx) /\ book[k][dim] # None
                            /\ Dated(book[k]) /\ TiesBeforeId(w, book[k])
      BY <2>1, <3>2 DEF Eligible, BooksOK, RulesOK, BookTyped, GoodRule
    <3>4. Clash(book[i], book[j])
      BY <3>3, TiedClash
    <3> QED BY <3>3, <3>4 DEF BooksOK, RulesOK, NoClash
  <2> QED BY <2>1, AtMostOne
<1>2. ShiftOK => TiesAreRefused
  BY <1>1 DEF ShiftOK
<1> QED BY <1>2, BooksInvariant, PTL

(* OneVersionInForce: from the first version's first day on, exactly one    *)
(* version is in force on each day, and none before (createNewVersion), nor *)
(* past the end of a list that has one version and was given one.           *)
THEOREM OneVersion == Spec => []OneVersionInForce
<1>1. BooksOK => OneVersionInForce
  <2> SUFFICES ASSUME BooksOK, ~retried, lists # <<>>, NEW at \in Dates
               PROVE  Cardinality(InForceVersion(at)) = IF at >= lists[1].from /\ ~Expired(at) THEN 1 ELSE 0
    BY DEF OneVersionInForce
  <2>1. Chained /\ lists \in Seq(Versions)
    BY DEF BooksOK, VersionsOK
  <2>2. at \in Nat /\ 1 \in DOMAIN lists /\ \A v \in DOMAIN lists : v \in Nat /\ lists[v].from \in Nat
    <3>1. DOMAIN lists = 1..Len(lists) /\ Len(lists) \in Nat \ {0} /\ \A v \in DOMAIN lists : lists[v] \in Versions
      BY <2>1
    <3>2. \A v \in DOMAIN lists : lists[v].from \in Dates
      BY <3>1 DEF Versions
    <3>3. \A d \in Dates : d \in Nat
      BY PriceBookAssumption DEF Dates
    <3> QED BY <3>1, <3>2, <3>3
  <2>3. CASE at >= lists[1].from /\ ~Expired(at)
    <3>1. ASSUME NEW u \in InForceVersion(at), NEW v \in InForceVersion(at), u < v
          PROVE  FALSE
      <4>1. lists[u].to \in Nat /\ lists[u].to <= lists[v].from
        BY <2>1, <3>1, PriceBookAssumption DEF InForceVersion, Chained, Dates
      <4>2. at < lists[u].to /\ lists[v].from <= at /\ lists[v].from \in Nat
        BY <2>2, <4>1, NoneIsNoDate DEF InForceVersion
      <4> QED BY <2>2, <4>1, <4>2
    <3>2. \A u, v \in InForceVersion(at) : u = v
      BY <2>2, <3>1 DEF InForceVersion
    <3>3. PICK v : v \in InForceVersion(at)
      BY <2>1, <2>3 DEF Chained
    <3>4. InForceVersion(at) = {v}
      BY <3>2, <3>3
    <3> QED BY <2>3, <3>4, FS_Singleton
  <2>4. CASE ~(at >= lists[1].from)
    <3>1. InForceVersion(at) = {}
      <4>1. \A v \in DOMAIN lists : ~(lists[v].from <= at)
        BY <2>1, <2>2, <2>4 DEF Chained
      <4> QED BY <4>1 DEF InForceVersion
    <3> QED BY <2>4, <3>1, FS_EmptySet
  <2>5. CASE Expired(at)
    <3>1. InForceVersion(at) = {}
      <4>1. DOMAIN lists = {1} /\ lists[1].to # None /\ lists[1].to \in Nat /\ at >= lists[1].to
        <5>1. Len(lists) = 1 /\ lists[1].to # None /\ at >= lists[1].to
          BY <2>5 DEF Expired
        <5>2. DOMAIN lists = {1} /\ lists[1] \in Versions
          BY <2>1, <5>1
        <5>3. lists[1].to \in Dates
          BY <5>1, <5>2 DEF Versions
        <5> QED BY <5>1, <5>2, <5>3, PriceBookAssumption DEF Dates
      <4> QED BY <2>2, <4>1 DEF InForceVersion
    <3> QED BY <2>5, <3>1, FS_EmptySet
  <2> QED BY <2>3, <2>4, <2>5
<1>2. ShiftOK => OneVersionInForce
  BY <1>1 DEF ShiftOK
<1> QED BY <1>2, BooksInvariant, PTL

-----------------------------------------------------------------------------
(* Rounding: divRound of fixed-point.ts lies within half of the quotient,   *)
(* and all the comparisons of prices rest on that.                          *)

LEMMA ProductGrows ==
  ASSUME NEW a \in Nat, NEW b \in Nat, NEW c \in Nat, a <= b
  PROVE  a * c <= b * c /\ c * a <= c * b /\ a * c \in Nat
OBVIOUS

LEMMA ProductStrict ==
  ASSUME NEW a \in Int, NEW b \in Int, NEW d \in Nat \ {0}, d * a < d * b
  PROVE  a < b
OBVIOUS

LEMMA Division ==
  ASSUME NEW n \in Nat, NEW d \in Nat \ {0}
  PROVE  /\ n \div d \in Nat
         /\ d * (n \div d) <= n /\ n < d * (n \div d) + d
OBVIOUS

LEMMA Rounded ==
  ASSUME NEW n \in Nat, NEW d \in Nat \ {0}
  PROVE  /\ DivRound(n, d) \in Nat
         /\ 2 * (d * DivRound(n, d)) <= 2 * n + d /\ 2 * n < 2 * (d * DivRound(n, d)) + d
<1>1. PICK q : q = (2 * n + d) \div (2 * d)
  OBVIOUS
<1>2. q \in Nat /\ (2 * d) * q <= 2 * n + d /\ 2 * n + d < (2 * d) * q + 2 * d
  <2>1. 2 * n + d \in Nat /\ 2 * d \in Nat \ {0}
    OBVIOUS
  <2> QED BY <1>1, <2>1, Division
<1>3. (2 * d) * q = 2 * (d * q)
  BY <1>2
<1>4. DivRound(n, d) = q
  BY <1>1 DEF DivRound
<1> QED BY <1>2, <1>3, <1>4

LEMMA RoundMonotone ==
  ASSUME NEW n \in Nat, NEW m \in Nat, n <= m, NEW d \in Nat \ {0}
  PROVE  DivRound(n, d) <= DivRound(m, d)
<1>1. PICK x, y : x = DivRound(n, d) /\ y = DivRound(m, d)
  OBVIOUS
<1>2. x \in Nat /\ y \in Nat /\ 2 * (d * x) <= 2 * n + d /\ 2 * m < 2 * (d * y) + d
  BY <1>1, Rounded
<1>3. d * x \in Nat /\ d * y \in Nat /\ d * (y + 1) = d * y + d
  BY <1>2
<1>4. d * x < d * (y + 1)
  BY <1>2, <1>3
<1>5. x < y + 1
  BY <1>2, <1>4, ProductStrict
<1> QED BY <1>1, <1>2, <1>5

LEMMA RoundWhole ==
  ASSUME NEW n \in Nat, NEW d \in Nat \ {0}
  PROVE  DivRound(n * d, d) = n
<1>1. PICK x : x = DivRound(n * d, d)
  OBVIOUS
<1>2. n * d \in Nat /\ n * d = d * n
  OBVIOUS
<1>3. x \in Nat /\ 2 * (d * x) <= 2 * (d * n) + d /\ 2 * (d * n) < 2 * (d * x) + d
  BY <1>1, <1>2, Rounded
<1>4. /\ d * x \in Nat /\ d * n \in Nat
      /\ d * (x + 1) = d * x + d /\ d * (n + 1) = d * n + d
  BY <1>3
<1>5. d * x < d * (n + 1) /\ d * n < d * (x + 1)
  BY <1>3, <1>4
<1>6. x < n + 1 /\ n < x + 1
  BY <1>3, <1>5, ProductStrict
<1> QED BY <1>1, <1>3, <1>6

(* Two parts rounded by themselves are at most one off their sum, rounded.  *)
LEMMA RoundSplit ==
  ASSUME NEW a \in Nat, NEW b \in Nat, NEW d \in Nat \ {0}
  PROVE  DivRound(a, d) + DivRound(b, d) - DivRound(a + b, d) \in -1..1
<1>1. PICK x, y, z : x = DivRound(a, d) /\ y = DivRound(b, d) /\ z = DivRound(a + b, d)
  OBVIOUS
<1>2. /\ x \in Nat /\ 2 * (d * x) <= 2 * a + d /\ 2 * a < 2 * (d * x) + d
      /\ y \in Nat /\ 2 * (d * y) <= 2 * b + d /\ 2 * b < 2 * (d * y) + d
      /\ z \in Nat /\ 2 * (d * z) <= 2 * (a + b) + d /\ 2 * (a + b) < 2 * (d * z) + d
  <2>1. PICK c \in Nat : c = a + b
    OBVIOUS
  <2> QED BY <1>1, <2>1, Rounded
<1>3. /\ d * x \in Nat /\ d * y \in Nat /\ d * z \in Nat
      /\ d * (x + y) = d * x + d * y /\ d * (z + 2) = d * z + 2 * d
      /\ d * (x + y + 2) = d * x + d * y + 2 * d
  BY <1>2
<1>4. d * (x + y) < d * (z + 2) /\ d * z < d * (x + y + 2)
  BY <1>2, <1>3
<1>5. x + y < z + 2 /\ z < x + y + 2
  BY <1>2, <1>4, ProductStrict
<1>6. x + y - z \in -1..1
  BY <1>2, <1>5
<1> QED BY <1>1, <1>6

LEMMA PercentType ==
  ASSUME NEW n \in Nat, NEW p \in Nat
  PROVE  Percent(n, p) \in Nat
<1>1. n * p \in Nat
  OBVIOUS
<1> QED BY <1>1, Rounded, PricingAssumption DEF Percent

LEMMA PercentGrows ==
  ASSUME NEW n \in Nat, NEW m \in Nat, n <= m, NEW p \in Nat
  PROVE  Percent(n, p) <= Percent(m, p)
<1>1. n * p \in Nat /\ m * p \in Nat /\ n * p <= m * p
  BY ProductGrows
<1> QED BY <1>1, RoundMonotone, PricingAssumption DEF Percent

(* A percentage that is not more than it is taken of grows no faster.       *)
LEMMA PercentLeaves ==
  ASSUME NEW n \in Nat, NEW m \in Nat, n <= m, NEW p \in Nat,
         Percent(n, p) <= n, Percent(m, p) <= m
  PROVE  Percent(m, p) - Percent(n, p) <= m - n
<1>1. PICK h, x, y : h = Hundred /\ x = Percent(n, p) /\ y = Percent(m, p)
  OBVIOUS
<1>2. h \in Nat \ {0} /\ x \in Nat /\ y \in Nat /\ x <= n /\ y <= m
  BY <1>1, PercentType, PricingAssumption
<1>3. CASE p <= h
  <2>1. PICK k : k = m - n
    OBVIOUS
  <2>2. k \in Nat /\ m = n + k
    BY <2>1
  <2>3. n * p \in Nat /\ k * p \in Nat /\ m * p = n * p + k * p /\ m * p \in Nat
    BY <2>2
  <2>4. k * p <= h * k
    BY <1>2, <1>3, <2>2, ProductGrows
  <2>5. 2 * (n * p) < 2 * (h * x) + h /\ 2 * (h * y) <= 2 * (m * p) + h
    BY <1>1, <1>2, <2>3, Rounded DEF Percent
  <2>6. /\ h * x \in Nat /\ h * y \in Nat /\ h * k \in Nat
        /\ h * (x + k + 1) = h * x + h * k + h
    BY <1>2, <2>2
  <2>7. h * y < h * (x + k + 1)
    BY <1>2, <2>3, <2>4, <2>5, <2>6
  <2>8. y < x + k + 1
    BY <1>2, <2>2, <2>7, ProductStrict
  <2> QED BY <1>1, <1>2, <2>1, <2>2, <2>8
<1>4. CASE p > h
  <2>1. ASSUME NEW b \in Nat PROVE b <= Percent(b, p)
    <3>1. b * h \in Nat /\ b * p \in Nat /\ b * h <= b * p
      BY <1>2, <1>4, ProductGrows
    <3>2. DivRound(b * h, h) <= DivRound(b * p, h)
      BY <1>2, <3>1, RoundMonotone
    <3> QED BY <1>1, <1>2, <3>2, RoundWhole DEF Percent
  <2> QED BY <1>1, <1>2, <2>1
<1> QED BY <1>2, <1>3, <1>4

-----------------------------------------------------------------------------
(* The price of a line, part by part.                                       *)

LEMMA MetalGrows ==
  ASSUME NEW n \in Nat, NEW m \in Nat, n <= m, NEW f \in Nat, NEW r \in Nat, NEW q \in Nat \ {0}
  PROVE  /\ MetalValue(n, f, r, q) \in Nat /\ MetalValue(m, f, r, q) \in Nat
         /\ MetalValue(n, f, r, q) <= MetalValue(m, f, r, q)
<1>1. n * f \in Nat /\ m * f \in Nat /\ n * f <= m * f
  BY ProductGrows
<1>2. PICK x, y : x = n * f * r /\ y = m * f * r
  OBVIOUS
<1>3. x \in Nat /\ y \in Nat /\ x <= y
  BY <1>1, <1>2, ProductGrows
<1>4. PICK d : d = MgPerGram * q
  OBVIOUS
<1>5. d \in Nat \ {0}
  BY <1>4, PricingAssumption
<1>6. MetalValue(n, f, r, q) = DivRound(x, d) /\ MetalValue(m, f, r, q) = DivRound(y, d)
  BY <1>2, <1>4 DEF MetalValue
<1> QED BY <1>3, <1>5, <1>6, RoundMonotone, Rounded

(* Two lines that differ in gross weight alone, b's the heavier; both can   *)
(* be priced.                                                               *)
Typed(line) == {line.gross, line.stone, line.stoneValue, line.pieces, line.rate} \subseteq Nat

Heavier(a, b) ==
  /\ a.gross <= b.gross
  /\ b.stone = a.stone /\ b.stoneValue = a.stoneValue /\ b.pieces = a.pieces
  /\ b.fineness = a.fineness /\ b.quoted = a.quoted /\ b.rate = a.rate

Priceable(line) == Typed(line) /\ RateUsable(line) /\ WeightsAgree(line)

LEMMA PriceableTypes ==
  ASSUME NEW line, Priceable(line)
  PROVE  /\ Net(line) \in Nat /\ line.fineness \in Nat /\ line.rate \in Nat /\ line.quoted \in Nat \ {0}
         /\ line.stoneValue \in Nat /\ line.pieces \in Nat
<1>1. /\ line.gross \in Nat /\ line.stone \in Nat /\ line.stone \in 0..(line.gross - 1)
      /\ line.fineness \in 1..Unit /\ line.quoted \in 1..Unit
  BY DEF Priceable, Typed, RateUsable, WeightsAgree
<1> QED BY <1>1, PricingAssumption DEF Net, Priceable, Typed

LEMMA NetGrows ==
  ASSUME NEW a, NEW b, Heavier(a, b), Priceable(a), Priceable(b)
  PROVE  Net(a) <= Net(b)
<1>1. a.gross \in Nat /\ b.gross \in Nat /\ a.stone \in Nat /\ b.stone = a.stone /\ a.gross <= b.gross
  BY DEF Heavier, Priceable, Typed
<1> QED BY <1>1 DEF Net

LEMMA LineMetalGrows ==
  ASSUME NEW a, NEW b, Heavier(a, b), Priceable(a), Priceable(b)
  PROVE  /\ LineMetal(a) \in Nat /\ LineMetal(b) \in Nat
         /\ LineMetal(a) <= LineMetal(b)
<1>1. Net(a) \in Nat /\ Net(b) \in Nat /\ Net(a) <= Net(b)
  BY PriceableTypes, NetGrows
<1>2. a.fineness \in Nat /\ a.rate \in Nat /\ a.quoted \in Nat \ {0}
  BY PriceableTypes
<1>3. b.fineness = a.fineness /\ b.rate = a.rate /\ b.quoted = a.quoted
  BY DEF Heavier
<1>4. LineMetal(a) \in Nat /\ LineMetal(a) <= MetalValue(Net(b), a.fineness, a.rate, a.quoted)
  BY <1>1, <1>2, MetalGrows DEF LineMetal
<1>5. MetalValue(Net(b), a.fineness, a.rate, a.quoted) \in Nat
  BY <1>1, <1>2, MetalGrows
<1> QED BY <1>3, <1>4, <1>5 DEF LineMetal

LEMMA WastageGrows ==
  ASSUME NEW a, NEW b, Heavier(a, b), Priceable(a), Priceable(b),
         NEW rule, rule # None => rule.type = "NONE" \/ rule \in WastageTerms
  PROVE  /\ Wastage(a, rule) \in Nat /\ Wastage(b, rule) \in Nat
         /\ Wastage(a, rule) <= Wastage(b, rule)
<1>1. Net(a) \in Nat /\ Net(b) \in Nat /\ Net(a) <= Net(b)
  BY PriceableTypes, NetGrows
<1>2. PICK v, w : v = WastageWeight(a, rule) /\ w = WastageWeight(b, rule)
  OBVIOUS
<1>3. v \in Nat /\ w \in Nat /\ v <= w
  <2>1. CASE rule = None \/ rule.type = "NONE"
    BY <1>2, <2>1 DEF WastageWeight
  <2>2. CASE rule # None /\ rule.type = "PERCENTAGE" /\ rule.value \in Nat
    <3>1. v = Percent(Net(a), rule.value) /\ w = Percent(Net(b), rule.value)
      BY <1>2, <2>2 DEF WastageWeight
    <3> QED BY <1>1, <2>2, <3>1, PercentType, PercentGrows
  <2>3. CASE rule # None /\ rule.type = "FIXED_WEIGHT" /\ rule.value \in Nat
    <3>1. v = rule.value /\ w = rule.value
      BY <1>2, <2>3 DEF WastageWeight
    <3> QED BY <2>3, <3>1
  <2> QED BY <2>1, <2>2, <2>3 DEF WastageTerms
<1>4. a.fineness \in Nat /\ a.rate \in Nat /\ a.quoted \in Nat \ {0}
  BY PriceableTypes
<1>5. b.fineness = a.fineness /\ b.rate = a.rate /\ b.quoted = a.quoted
  BY DEF Heavier
<1>6. /\ MetalValue(v, a.fineness, a.rate, a.quoted) \in Nat
      /\ MetalValue(w, a.fineness, a.rate, a.quoted) \in Nat
      /\ MetalValue(v, a.fineness, a.rate, a.quoted) <= MetalValue(w, a.fineness, a.rate, a.quoted)
  BY <1>3, <1>4, MetalGrows
<1> QED BY <1>2, <1>5, <1>6 DEF Wastage

LEMMA MakingGrows ==
  ASSUME NEW a, NEW b, Heavier(a, b), Priceable(a), Priceable(b), NEW rule, rule # None => rule \in MakingTerms
  PROVE  /\ Making(a, rule) \in Nat /\ Making(b, rule) \in Nat
         /\ Making(a, rule) <= Making(b, rule)
<1>1. Net(a) \in Nat /\ Net(b) \in Nat /\ Net(a) <= Net(b)
  BY PriceableTypes, NetGrows
<1>2. LineMetal(a) \in Nat /\ LineMetal(b) \in Nat /\ LineMetal(a) <= LineMetal(b)
  BY LineMetalGrows
<1>3. a.pieces \in Nat /\ b.pieces = a.pieces
  BY PriceableTypes DEF Heavier
<1>4. CASE rule = None
  BY <1>4 DEF Making
<1>5. CASE rule # None /\ rule.type = "PERCENTAGE" /\ rule.value \in Nat
  <2>1. Making(a, rule) = Percent(LineMetal(a), rule.value) /\ Making(b, rule) = Percent(LineMetal(b), rule.value)
    BY <1>5 DEF Making
  <2> QED BY <1>2, <1>5, <2>1, PercentType, PercentGrows
<1>6. CASE rule # None /\ rule.type = "PER_GRAM" /\ rule.value \in Nat
  <2>1. PICK x, y : x = Net(a) * rule.value /\ y = Net(b) * rule.value
    OBVIOUS
  <2>2. x \in Nat /\ y \in Nat /\ x <= y
    BY <1>1, <1>6, <2>1, ProductGrows
  <2>3. Making(a, rule) = DivRound(x, MgPerGram) /\ Making(b, rule) = DivRound(y, MgPerGram)
    BY <1>6, <2>1 DEF Making
  <2> QED BY <2>2, <2>3, Rounded, RoundMonotone, PricingAssumption
<1>7. CASE rule # None /\ rule.type = "FIXED" /\ rule.value \in Nat
  <2>1. Making(a, rule) = rule.value /\ Making(b, rule) = rule.value
    BY <1>7 DEF Making
  <2> QED BY <1>7, <2>1
<1>8. CASE rule # None /\ rule.type = "PER_PIECE" /\ rule.value \in Nat
  <2>1. PICK x : x = rule.value * a.pieces
    OBVIOUS
  <2>2. Making(a, rule) = x /\ Making(b, rule) = x
    BY <1>3, <1>8, <2>1 DEF Making
  <2>3. x \in Nat
    BY <1>3, <1>8, <2>1
  <2> QED BY <2>2, <2>3
<1> QED BY <1>4, <1>5, <1>6, <1>7, <1>8 DEF MakingTerms

(* What a discount takes off grows no faster than what it is taken off.     *)
LEMMA DiscountLeaves ==
  ASSUME NEW rule, rule # None => rule \in DiscountTerms,
         NEW made \in Nat, NEW total \in Nat, NEW made2 \in Nat, NEW total2 \in Nat,
         made <= made2, made <= total, made2 <= total2, made2 - made <= total2 - total,
         Discount(rule, made, total) # None, Discount(rule, made2, total2) # None
  PROVE  /\ Discount(rule, made, total) \in 0..total
         /\ Discount(rule, made2, total2) \in 0..total2
         /\ Discount(rule, made2, total2) - Discount(rule, made, total) <= total2 - total
<1>1. CASE rule = None
  BY <1>1 DEF Discount
<1>2. CASE rule # None
  <2>1. rule.type \in {"PERCENTAGE", "FLAT"} /\ rule.value \in Nat
    BY <1>2 DEF DiscountTerms
  <2>2. PICK n, m : n = DiscountBase(rule, made, total) /\ m = DiscountBase(rule, made2, total2)
    OBVIOUS
  <2>3. /\ n \in Nat /\ m \in Nat /\ n <= total /\ m <= total2
        /\ n <= m /\ m - n <= total2 - total
    BY <2>2 DEF DiscountBase
  <2>4. PICK x, y : /\ x = IF rule.type = "FLAT" THEN rule.value ELSE Percent(n, rule.value)
                    /\ y = IF rule.type = "FLAT" THEN rule.value ELSE Percent(m, rule.value)
    OBVIOUS
  <2>5. /\ Discount(rule, made, total) = IF x > n THEN None ELSE x
        /\ Discount(rule, made2, total2) = IF y > m THEN None ELSE y
    BY <1>2, <2>2, <2>4 DEF Discount
  <2>6. x \in Nat /\ y \in Nat
    BY <2>1, <2>3, <2>4, PercentType
  <2>7. x <= n /\ y <= m
    BY <2>3, <2>5, <2>6
  <2>8. Discount(rule, made, total) = x /\ Discount(rule, made2, total2) = y
    BY <2>3, <2>5, <2>6, <2>7
  <2>9. y - x <= m - n
    <3>1. CASE rule.type = "FLAT"
      BY <2>3, <2>4, <2>6, <3>1
    <3>2. CASE rule.type # "FLAT"
      BY <2>1, <2>3, <2>4, <2>7, <3>2, PercentLeaves
    <3> QED BY <3>1, <3>2
  <2> QED BY <2>3, <2>6, <2>7, <2>8, <2>9
<1> QED BY <1>1, <1>2

TaxTyped(t) == t.cgst \in Nat /\ t.sgst \in Nat /\ t.igst = t.cgst + t.sgst

LEMMA TaxGrows ==
  ASSUME NEW t, TaxTyped(t), NEW n \in Nat, NEW m \in Nat, n <= m, NEW here \in BOOLEAN
  PROVE  /\ Tax(t, n, here) \in Nat /\ Tax(t, m, here) \in Nat
         /\ Tax(t, n, here) <= Tax(t, m, here)
<1>1. t.cgst \in Nat /\ t.sgst \in Nat /\ t.igst \in Nat
  BY DEF TaxTyped
<1>2. ASSUME NEW p \in Nat
      PROVE  Percent(n, p) \in Nat /\ Percent(m, p) \in Nat /\ Percent(n, p) <= Percent(m, p)
  BY PercentType, PercentGrows
<1>3. CASE here
  BY <1>1, <1>2, <1>3 DEF Tax
<1>4. CASE ~here
  BY <1>1, <1>2, <1>4 DEF Tax
<1> QED BY <1>3, <1>4

(* CGST and SGST, each rounded by itself, are IGST to the paisa.            *)
LEMMA TaxSplits ==
  ASSUME NEW t, TaxTyped(t), NEW n \in Nat, NEW one \in BOOLEAN, NEW here \in BOOLEAN
  PROVE  Tax(t, n, one) \in Nat /\ Tax(t, n, here) \in Nat /\ Tax(t, n, here) - Tax(t, n, one) \in -1..1
<1>1. PICK c, s : c = n * t.cgst /\ s = n * t.sgst
  OBVIOUS
<1>2. c \in Nat /\ s \in Nat /\ n * t.igst = c + s
  BY <1>1 DEF TaxTyped
<1>3. PICK x, y, z : x = DivRound(c, Hundred) /\ y = DivRound(s, Hundred) /\ z = DivRound(c + s, Hundred)
  OBVIOUS
<1>4. x \in Nat /\ y \in Nat /\ z \in Nat /\ x + y - z \in -1..1
  <2>1. c + s \in Nat
    BY <1>2
  <2> QED BY <1>2, <1>3, <2>1, Rounded, RoundSplit, PricingAssumption
<1>5. \A h \in BOOLEAN : Tax(t, n, h) = IF h THEN x + y ELSE z
  BY <1>1, <1>2, <1>3 DEF Tax, Percent
<1>6. Tax(t, n, one) \in {x + y, z} /\ Tax(t, n, here) \in {x + y, z}
  BY <1>5
<1> QED BY <1>4, <1>6

Subtotal(line, making, wastage) ==
  LineMetal(line) + Wastage(line, wastage) + Making(line, making) + line.stoneValue

RulesTyped(making, wastage, discount) ==
  /\ making # None => making \in MakingTerms
  /\ wastage # None => wastage.type = "NONE" \/ wastage \in WastageTerms
  /\ discount # None => discount \in DiscountTerms

(* What calculatePrice answers: whether it does is not for the tax to say.   *)
LEMMA PriceIs ==
  ASSUME NEW a, Typed(a), NEW making, NEW wastage, NEW discount, RulesTyped(making, wastage, discount),
         NEW t, NEW some, CalculatePrice(a, making, wastage, discount, t, some) # None,
         NEW here, NEW price, price = CalculatePrice(a, making, wastage, discount, t, here),
         NEW s, s = Subtotal(a, making, wastage), NEW m, m = Making(a, making),
         NEW off, off = Discount(discount, m, s)
  PROVE  /\ Priceable(a)
         /\ s \in Nat /\ m \in Nat /\ m <= s /\ off \in 0..s /\ off # None
         /\ price.taxable = s - off
         /\ price.final = s - off + Tax(t, s - off, here)
<1>1. Priceable(a)
  BY DEF CalculatePrice, Priceable
<1>2. Heavier(a, a)
  BY <1>1 DEF Heavier, Priceable, Typed
<1>3. /\ LineMetal(a) \in Nat /\ Wastage(a, wastage) \in Nat /\ m \in Nat /\ a.stoneValue \in Nat
  BY <1>1, <1>2, LineMetalGrows, WastageGrows, MakingGrows, PriceableTypes DEF RulesTyped
<1>4. s \in Nat /\ m <= s
  BY <1>3 DEF Subtotal
<1>5. off # None
  BY DEF CalculatePrice, Subtotal
<1>6. price = [subtotal |-> s, discount |-> off, taxable |-> s - off,
               tax |-> Tax(t, s - off, here), final |-> s - off + Tax(t, s - off, here)]
  BY <1>5 DEF CalculatePrice, Subtotal
<1>7. off \in 0..s
  <2>1. m <= m /\ m - m <= s - s
    BY <1>3, <1>4
  <2> QED BY <1>3, <1>4, <1>5, <2>1, DiscountLeaves DEF RulesTyped
<1> QED BY <1>1, <1>3, <1>4, <1>5, <1>6, <1>7

(* Of two lines that differ in gross weight alone and can both be priced,   *)
(* the heavier never has the smaller final amount: calculatePrice is        *)
(* monotone in the weight through every rounding, percentage and discount.  *)
THEOREM HeavierCostsMore ==
  ASSUME NEW a, NEW b, Typed(a), Typed(b), Heavier(a, b),
         NEW making, NEW wastage, NEW discount, RulesTyped(making, wastage, discount), NEW t, TaxTyped(t), NEW here \in BOOLEAN,
         NEW p, p = CalculatePrice(a, making, wastage, discount, t, here), p # None,
         NEW q, q = CalculatePrice(b, making, wastage, discount, t, here), q # None
  PROVE  p.final <= q.final
<1>1. PICK s, m, off : s = Subtotal(a, making, wastage) /\ m = Making(a, making) /\ off = Discount(discount, m, s)
  OBVIOUS
<1>2. PICK s2, m2, off2 : s2 = Subtotal(b, making, wastage) /\ m2 = Making(b, making) /\ off2 = Discount(discount, m2, s2)
  OBVIOUS
<1>3. /\ Priceable(a)
      /\ s \in Nat /\ m \in Nat /\ m <= s /\ off \in 0..s /\ off # None
      /\ p.final = s - off + Tax(t, s - off, here)
  BY <1>1, PriceIs
<1>4. /\ Priceable(b)
      /\ s2 \in Nat /\ m2 \in Nat /\ m2 <= s2 /\ off2 \in 0..s2 /\ off2 # None
      /\ q.final = s2 - off2 + Tax(t, s2 - off2, here)
  BY <1>2, PriceIs
<1>5. m <= m2 /\ m2 - m <= s2 - s
  <2>1. /\ LineMetal(a) \in Nat /\ LineMetal(b) \in Nat /\ LineMetal(a) <= LineMetal(b)
        /\ Wastage(a, wastage) \in Nat /\ Wastage(b, wastage) \in Nat /\ Wastage(a, wastage) <= Wastage(b, wastage)
        /\ m <= m2
    BY <1>1, <1>2, <1>3, <1>4, LineMetalGrows, WastageGrows, MakingGrows DEF RulesTyped
  <2>2. a.stoneValue \in Nat /\ b.stoneValue = a.stoneValue
    BY <1>3, PriceableTypes DEF Heavier
  <2> QED BY <1>1, <1>2, <1>3, <1>4, <2>1, <2>2 DEF Subtotal
<1>6. off2 - off <= s2 - s
  BY <1>1, <1>2, <1>3, <1>4, <1>5, DiscountLeaves DEF RulesTyped
<1>7. PICK n, k : n = s - off /\ k = s2 - off2
  OBVIOUS
<1>8. n \in Nat /\ k \in Nat /\ n <= k
  BY <1>3, <1>4, <1>6, <1>7
<1>9. Tax(t, n, here) \in Nat /\ Tax(t, k, here) \in Nat /\ Tax(t, n, here) <= Tax(t, k, here)
  BY <1>8, TaxGrows
<1>a. p.final = n + Tax(t, n, here) /\ q.final = k + Tax(t, k, here)
  BY <1>3, <1>4, <1>7
<1> QED BY <1>8, <1>9, <1>a

(* The buyer's state changes the tax alone, and the total by a paisa.       *)
LEMMA SamePriceEverywhere ==
  ASSUME NEW a, Typed(a), NEW making, NEW wastage, NEW discount, RulesTyped(making, wastage, discount),
         NEW t, TaxTyped(t), NEW one \in BOOLEAN, NEW here \in BOOLEAN,
         NEW p, p = CalculatePrice(a, making, wastage, discount, t, one), p # None,
         NEW q, q = CalculatePrice(a, making, wastage, discount, t, here)
  PROVE  q.taxable = p.taxable /\ q.final - p.final \in -1..1
<1>1. PICK s, m, off : s = Subtotal(a, making, wastage) /\ m = Making(a, making) /\ off = Discount(discount, m, s)
  OBVIOUS
<1>2. PICK n : n = s - off
  OBVIOUS
<1>3. s \in Nat /\ off \in 0..s /\ p.taxable = n /\ p.final = n + Tax(t, n, one)
  BY <1>1, <1>2, PriceIs
<1>4. q.taxable = n /\ q.final = n + Tax(t, n, here)
  BY <1>1, <1>2, PriceIs
<1>5. n \in Nat
  BY <1>2, <1>3
<1>6. /\ Tax(t, n, one) \in Nat /\ Tax(t, n, here) \in Nat
      /\ Tax(t, n, here) - Tax(t, n, one) \in -1..1
  BY <1>5, TaxSplits
<1>7. PICK x, y : x = Tax(t, n, one) /\ y = Tax(t, n, here)
  OBVIOUS
<1>8. (n + y) - (n + x) \in -1..1
  <2>1. x \in Nat /\ y \in Nat /\ y - x \in -1..1
    BY <1>6, <1>7
  <2> QED BY <1>5, <2>1
<1> QED BY <1>3, <1>4, <1>7, <1>8

LEMMA FinalIsAmount ==
  ASSUME NEW a, Typed(a), NEW making, NEW wastage, NEW discount, RulesTyped(making, wastage, discount),
         NEW t, TaxTyped(t), NEW one \in BOOLEAN, NEW here \in BOOLEAN,
         NEW p, p = CalculatePrice(a, making, wastage, discount, t, one), p # None,
         NEW q, q = CalculatePrice(a, making, wastage, discount, t, here)
  PROVE  q.final \in Nat
<1>1. PICK s, m, off : s = Subtotal(a, making, wastage) /\ m = Making(a, making) /\ off = Discount(discount, m, s)
  OBVIOUS
<1>2. PICK n : n = s - off
  OBVIOUS
<1>3. s \in Nat /\ off \in 0..s /\ q.final = n + Tax(t, n, here)
  BY <1>1, <1>2, PriceIs
<1>4. n \in Nat
  BY <1>2, <1>3
<1>5. Tax(t, n, here) \in Nat
  BY <1>4, TaxSplits
<1> QED BY <1>3, <1>4, <1>5

-----------------------------------------------------------------------------
(* Which rule governs: there is always one, and it is one of those that     *)
(* apply.                                                                   *)

(* A finite set that a strict total order arranges has a first element.     *)
LEMMA FirstOfOrder ==
  ASSUME NEW S, IsFiniteSet(S), S # {}, NEW R,
         \A i \in S : <<i, i>> \notin R,
         \A i, j, k \in S : <<i, j>> \in R /\ <<j, k>> \in R => <<i, k>> \in R,
         \A i, j \in S : i # j => <<i, j>> \in R \/ <<j, i>> \in R
  PROVE  \E i \in S : \A j \in S \ {i} : <<i, j>> \in R
<1> DEFINE Before(i) == {j \in S : <<j, i>> \in R}
           Counts == {Cardinality(Before(i)) : i \in S}
<1>1. \A i \in S : IsFiniteSet(Before(i)) /\ Cardinality(Before(i)) \in Nat
  BY FS_Subset, FS_CardinalityType
<1>2. Counts \subseteq Nat /\ Counts # {}
  <2>1. ASSUME NEW m \in Counts PROVE m \in Nat
    <3>1. PICK i \in S : m = Cardinality(Before(i))
      BY <2>1
    <3> HIDE DEF Before
    <3> QED BY <1>1, <3>1
  <2>2. PICK i \in S : TRUE
    OBVIOUS
  <2>3. Cardinality(Before(i)) \in Counts
    BY <2>2
  <2> HIDE DEF Counts
  <2> QED BY <2>1, <2>3
<1>3. PICK n \in Counts : \A m \in Counts : <<m, n>> \notin OpToRel(<, Nat)
  <2> HIDE DEF Counts
  <2> QED BY <1>2, NatLessThanWellFounded, WFMin
<1>4. \A m \in Counts : ~(m < n)
  BY <1>2, <1>3 DEF OpToRel
<1>5. PICK i \in S : n = Cardinality(Before(i))
  BY <1>3
<1>6. ASSUME NEW j \in S \ {i} PROVE <<i, j>> \in R
  <2> SUFFICES ASSUME <<j, i>> \in R PROVE FALSE
    BY <1>6
  <2>1. Before(j) \subseteq Before(i) /\ j \in Before(i) /\ j \notin Before(j)
    BY <1>6
  <2>2. Cardinality(Before(j)) < Cardinality(Before(i))
    <3> HIDE DEF Before
    <3>1. Before(j) # Before(i)
      BY <2>1
    <3> QED BY <1>1, <2>1, <3>1, FS_Subset, FS_CardinalityType
  <2>3. Cardinality(Before(j)) \in Counts
    OBVIOUS
  <2> QED BY <1>4, <1>5, <2>2, <2>3
<1> QED BY <1>6

LEMMA TierRankType == \A r : TierRank(r) \in 1..5
BY DEF TierRank

LEMMA SpecificityType == \A r : Specificity(r) \in Nat
<1>1. IsFiniteSet(ScopeKeys)
  <2>1. ASSUME NEW S, IsFiniteSet(S), NEW x, NEW y PROVE IsFiniteSet(S \union {x, y})
    <3>1. S \union {x, y} = (S \union {x}) \union {y}
      OBVIOUS
    <3> QED BY <2>1, <3>1, FS_AddElement
  <2> DEFINE A == {} \union {"customer", "customerGroup"}
             B == A \union {"priceList", "category"}
             C == B \union {"customerType", "metal"}
             D == C \union {"purity", "channel"}
  <2>2. IsFiniteSet(A)
    BY <2>1, FS_EmptySet
  <2>3. IsFiniteSet(B)
    <3> HIDE DEF A
    <3> QED BY <2>1, <2>2
  <2>4. IsFiniteSet(C)
    <3> HIDE DEF B
    <3> QED BY <2>1, <2>3
  <2>5. IsFiniteSet(D)
    <3> HIDE DEF C
    <3> QED BY <2>1, <2>4
  <2>6. D = ScopeKeys
    BY DEF ScopeKeys
  <2> QED BY <2>5, <2>6
<1> QED BY <1>1, FS_Subset, FS_CardinalityType DEF Specificity

(* compareRules leaves one rule that goes before all the others: whatever   *)
(* the book and the sale, if any rule applies resolution picks one of them, *)
(* however many tie but for their ids (resolvePricingRules).                *)
THEOREM OneRuleGoverns ==
  ASSUME NEW b, NEW ctx, NEW dim, DOMAIN b = RuleIds,
         \A i \in RuleIds : b[i] # None => b[i].from \in Nat /\ b[i].priority \in Int,
         Eligible(b, ctx, dim) # {}
  PROVE  /\ Winner(b, ctx, dim) \in Eligible(b, ctx, dim)
         /\ \A j \in Eligible(b, ctx, dim) \ {Winner(b, ctx, dim)} : Precedes(b, Winner(b, ctx, dim), j)
<1>1. PICK S : S = Eligible(b, ctx, dim)
  OBVIOUS
<1>2. IsFiniteSet(S)
  BY <1>1, PriceBookAssumption, FS_Interval, FS_Subset DEF Eligible, RuleIds
<1>3. \A i \in S : i \in Nat /\ b[i].from \in Nat /\ b[i].priority \in Int
  BY <1>1 DEF Eligible, RuleIds
<1>4. \A i \in S : TierRank(b[i]) \in Nat /\ Specificity(b[i]) \in Nat
  BY TierRankType, SpecificityType
<1>5. PICK R : R = {p \in S \X S : Precedes(b, p[1], p[2])}
  OBVIOUS
<1>6. \A i, j \in S : <<i, j>> \in R <=> Precedes(b, i, j)
  BY <1>5
<1>7. \A i \in S : <<i, i>> \notin R
  BY <1>3, <1>4, <1>6 DEF Precedes
<1>8. \A i, j, k \in S : <<i, j>> \in R /\ <<j, k>> \in R => <<i, k>> \in R
  <2> SUFFICES ASSUME NEW i \in S, NEW j \in S, NEW k \in S, Precedes(b, i, j), Precedes(b, j, k)
               PROVE  Precedes(b, i, k)
    BY <1>6
  <2> QED BY <1>3, <1>4 DEF Precedes, TiesBeforeId
<1>9. \A i, j \in S : i # j => <<i, j>> \in R \/ <<j, i>> \in R
  <2> SUFFICES ASSUME NEW i \in S, NEW j \in S, i # j
               PROVE  Precedes(b, i, j) \/ Precedes(b, j, i)
    BY <1>6
  <2> QED BY <1>3, <1>4 DEF Precedes, TiesBeforeId
<1>a. \E i \in S : \A j \in S \ {i} : <<i, j>> \in R
  BY <1>1, <1>2, <1>7, <1>8, <1>9, FirstOfOrder
<1>b. \E i \in S : \A j \in S \ {i} : Precedes(b, i, j)
  BY <1>6, <1>a
<1> QED BY <1>1, <1>b DEF Winner

-----------------------------------------------------------------------------
(* The shop.                                                                *)

LineOf(design, quote) == [design EXCEPT !.rate = quote.perGram, !.quoted = quote.fineness]

Term(world, dim) == Governing(world.rules, Shopper(world.now), dim)

LEMMA StorePriceIs ==
  ASSUME NEW design, NEW world, NEW here \in BOOLEAN
  PROVE  StorePrice(design, world, here) =
           IF world.tax = None \/ Term(world, "making") = None THEN None
           ELSE CalculatePrice(LineOf(design, world.quote), Term(world, "making"), Term(world, "wastage"),
                               Term(world, "discount"), world.tax, here)
BY DEF StorePrice, PriceItem, NoOverride, Dimensions, LineOf, Term

(* What a request has loaded is what the schemas let in, and every price    *)
(* the shop names is computed from what its request has loaded.             *)
WorldOK(world) ==
  /\ BookTyped(world.rules)
  /\ world.tax # None => TaxTyped(world.tax)
  /\ world.quote \in Rates

BagOK(bag) ==
  /\ WorldOK(bag.world)
  /\ \E intra \in BOOLEAN : bag.price = StorePrice(shown.design, bag.world, intra)

Told(bag) == bag.price # None => bag.price.final \in told

ShownOK == shown # None => /\ shown.design \in Designs /\ WorldOK(shown.world)
                           /\ shown.price = StorePrice(shown.design, shown.world, TRUE)

AskedOK == asked # None => shown # None /\ BagOK(asked) /\ Told(asked)

SentOK ==
  /\ DOMAIN sent = Requests
  /\ \A q \in Requests : sent[q].step = "accepted" =>
       shown # None /\ BagOK(sent[q].bag) /\ sent[q].bag.price # None /\ Told(sent[q].bag)

PlacedOK == placed # None => shown # None /\ BagOK(placed) /\ placed.price # None /\ Told(placed)

ShopOK ==
  /\ taxes \subseteq TaxRules /\ rates \subseteq Rates
  /\ ShownOK /\ AskedOK /\ SentOK /\ PlacedOK

LEMMA GoverningTyped ==
  ASSUME NEW b, BookTyped(b), NEW ctx
  PROVE  RulesTyped(Governing(b, ctx, "making"), Governing(b, ctx, "wastage"), Governing(b, ctx, "discount"))
<1>1. ASSUME NEW dim, Governing(b, ctx, dim) # None
      PROVE  \E i \in RuleIds : RuleTyped(b[i]) /\ Governing(b, ctx, dim) = b[i][dim]
  <2>1. Eligible(b, ctx, dim) # {} /\ Governing(b, ctx, dim) = b[Winner(b, ctx, dim)][dim]
    BY <1>1 DEF Governing
  <2>2. \A i \in RuleIds : b[i] # None => b[i].from \in Nat /\ b[i].priority \in Int
    BY DEF BookTyped, GoodRule, Dated, RuleTyped, Terms
  <2>3. Winner(b, ctx, dim) \in Eligible(b, ctx, dim)
    BY <2>1, <2>2, OneRuleGoverns DEF BookTyped
  <2>4. Winner(b, ctx, dim) \in RuleIds /\ b[Winner(b, ctx, dim)] # None
    BY <2>3 DEF Eligible, BookTyped
  <2> QED BY <2>1, <2>4 DEF BookTyped, GoodRule
<1>2. ASSUME NEW r, RuleTyped(r)
      PROVE  /\ r.making \in {None} \union MakingTerms
             /\ r.wastage \in {None} \union [type : {"NONE"}, value : {0}] \union WastageTerms
             /\ r.discount \in {None} \union DiscountTerms
  BY <1>2 DEF RuleTyped, Terms
<1> QED BY <1>1, <1>2 DEF RulesTyped

LEMMA TaxRuleTyped ==
  ASSUME taxes \subseteq TaxRules, NEW at, TaxRuleFor(taxes, at) # None
  PROVE  TaxTyped(TaxRuleFor(taxes, at))
<1>1. PICK latest : /\ latest \subseteq taxes
                    /\ TaxRuleFor(taxes, at) = IF Cardinality(latest) = 1 THEN CHOOSE r \in latest : TRUE ELSE None
  BY DEF TaxRuleFor
<1>2. latest # {} /\ TaxRuleFor(taxes, at) = CHOOSE r \in latest : TRUE
  BY <1>1, FS_EmptySet
<1>3. TaxRuleFor(taxes, at) \in taxes
  BY <1>1, <1>2
<1> QED BY <1>3, TermsAssumption DEF TaxTyped

LEMMA WorldsOK ==
  ASSUME BookTyped(book), taxes \subseteq TaxRules, rates \subseteq Rates, NEW design, NEW w \in Worlds(design)
  PROVE  WorldOK(w)
<1>1. PICK q \in Quotes(design, today) : w = [now |-> today, rules |-> book, tax |-> TaxRuleFor(taxes, today), quote |-> q]
  BY DEF Worlds
<1>2. q \in Rates
  BY DEF Quotes, Latest
<1> QED BY <1>1, <1>2, TaxRuleTyped DEF WorldOK

LEMMA BagsOK ==
  ASSUME BookTyped(book), ShopOK, NEW intra \in BOOLEAN, NEW bag \in Bags(intra)
  PROVE  BagOK(bag)
<1>1. PICK w \in Worlds(shown.design) : bag = [world |-> w, price |-> StorePrice(shown.design, w, intra)]
  BY DEF Bags
<1>2. WorldOK(w)
  BY WorldsOK DEF ShopOK
<1> QED BY <1>1, <1>2 DEF BagOK

(* What has been told stays told, and what is shown stays shown.            *)
LEMMA StillTold ==
  ASSUME ShopOK, UNCHANGED shown, told \subseteq told'
  PROVE  /\ \A bag : (BagOK(bag) => BagOK(bag)') /\ (Told(bag) => Told(bag)')
         /\ ShownOK'
         /\ UNCHANGED asked => AskedOK'
         /\ UNCHANGED sent => SentOK'
         /\ UNCHANGED placed => PlacedOK'
<1>1. \A bag : (BagOK(bag) => BagOK(bag)') /\ (Told(bag) => Told(bag)')
  BY DEF BagOK, Told
<1>2. ShownOK'
  BY DEF ShopOK, ShownOK
<1>3. ASSUME UNCHANGED asked PROVE AskedOK'
  BY <1>1, <1>3 DEF ShopOK, AskedOK
<1>4. ASSUME UNCHANGED sent PROVE SentOK'
  BY <1>1, <1>4 DEF ShopOK, SentOK
<1>5. ASSUME UNCHANGED placed PROVE PlacedOK'
  BY <1>1, <1>5 DEF ShopOK, PlacedOK
<1> QED BY <1>1, <1>2, <1>3, <1>4, <1>5

LEMMA ShopStarts == Init => ShopOK
<1> SUFFICES ASSUME Init PROVE ShopOK
  OBVIOUS
<1>1. taxes \subseteq TaxRules /\ rates \subseteq Rates
  BY TermsAssumption DEF Init
<1>2. shown = None /\ asked = None /\ placed = None
  BY DEF Init
<1>3. SentOK
  BY DEF Init, SentOK, New
<1> QED BY <1>1, <1>2, <1>3 DEF ShopOK, ShownOK, AskedOK, PlacedOK

LEMMA ShowStep ==
  ASSUME BookTyped(book), ShopOK, NEW d \in Designs, Show(d)
  PROVE  ShopOK'
<1>1. /\ shown = None /\ UNCHANGED <<taxes, rates, asked, sent, placed, told>>
  BY DEF Show, worldVars
<1>2. PICK w \in Worlds(d) : shown' = [design |-> d, world |-> w, price |-> StorePrice(d, w, TRUE)]
  BY DEF Show
<1>3. WorldOK(w)
  BY WorldsOK DEF ShopOK
<1>4. ShownOK'
  BY <1>2, <1>3 DEF ShownOK
<1>5. asked = None /\ placed = None /\ \A q \in Requests : sent[q].step # "accepted"
  BY <1>1 DEF ShopOK, AskedOK, SentOK, PlacedOK
<1> QED BY <1>1, <1>4, <1>5 DEF ShopOK, AskedOK, SentOK, PlacedOK

LEMMA OrderingStep ==
  ASSUME BookTyped(book), ShopOK, Ordering
  PROVE  ShopOK'
<1>1. UNCHANGED <<taxes, rates, shown>> /\ told \subseteq told'
  BY DEF Ordering, Verify, Accept, Refuse, Replay, CreateOrder, Tell, worldVars
<1>2. ASSUME AskedOK', SentOK', PlacedOK' PROVE ShopOK'
  BY <1>1, <1>2, StillTold DEF ShopOK
<1>3. ASSUME NEW intra \in BOOLEAN, NEW bag \in Bags(intra), Tell(bag), shown # None
      PROVE  AskedOK'
  <2>1. BagOK(bag)'
    BY <1>1, <1>3, BagsOK, StillTold
  <2>2. asked' = bag /\ Told(bag)'
    BY <1>3 DEF Tell, Told
  <2> QED BY <1>1, <1>3, <2>1, <2>2 DEF AskedOK
<1>4. ASSUME NEW q \in Requests, NEW r, sent' = [sent EXCEPT ![q] = r],
             r.step = "accepted" => shown # None /\ BagOK(r.bag) /\ r.bag.price # None /\ Told(r.bag)
      PROVE  SentOK'
  <2>1. DOMAIN sent' = Requests /\ \A p \in Requests : sent'[p] = IF p = q THEN r ELSE sent[p]
    BY <1>4 DEF ShopOK, SentOK
  <2>2. \A bag : (BagOK(bag) => BagOK(bag)') /\ (Told(bag) => Told(bag)')
    BY <1>1, StillTold
  <2> QED BY <1>1, <1>4, <2>1, <2>2 DEF ShopOK, SentOK
<1>5. ASSUME NEW q \in Requests, Answered(q) PROVE SentOK'
  <2>1. PICK r : r = [step |-> "answered"]
    OBVIOUS
  <2>2. sent' = [sent EXCEPT ![q] = r] /\ r.step # "accepted"
    BY <1>5, <2>1 DEF Answered
  <2> QED BY <1>4, <2>2
<1>6. ASSUME NEW intra \in BOOLEAN, Verify(intra) PROVE ShopOK'
  <2>1. PICK bag \in Bags(intra) : Tell(bag)
    BY <1>6 DEF Verify
  <2> QED BY <1>1, <1>2, <1>3, <1>6, <2>1, StillTold DEF Verify
<1>7. ASSUME NEW intra \in BOOLEAN, NEW q \in Requests, Accept(q, intra) PROVE ShopOK'
  <2>1. shown # None /\ Told(asked) /\ asked.price # None
    BY <1>7 DEF Accept, MaySend, ShopOK, AskedOK
  <2>2. PICK bag \in Bags(intra) :
          /\ bag.price # None /\ bag.price.final = asked.price.final
          /\ sent' = [sent EXCEPT ![q] = [step |-> "accepted", agreed |-> asked.price.final, bag |-> bag]]
    BY <1>7 DEF Accept
  <2>3. BagOK(bag) /\ Told(bag)
    BY <2>1, <2>2, BagsOK DEF Told
  <2>4. PICK r : r = [step |-> "accepted", agreed |-> asked.price.final, bag |-> bag]
    OBVIOUS
  <2>5. r.bag = bag /\ sent' = [sent EXCEPT ![q] = r]
    BY <2>2, <2>4
  <2>6. SentOK'
    BY <1>4, <2>1, <2>2, <2>3, <2>5
  <2> QED BY <1>1, <1>2, <1>7, <2>6, StillTold DEF Accept
<1>8. ASSUME NEW intra \in BOOLEAN, NEW q \in Requests, Refuse(q, intra) PROVE ShopOK'
  <2>1. shown # None
    BY <1>8 DEF Refuse, MaySend, ShopOK, AskedOK
  <2>2. PICK bag \in Bags(intra) : Tell(bag)
    BY <1>8 DEF Refuse
  <2>3. PICK r : r = [step |-> "refused"]
    OBVIOUS
  <2>4. sent' = [sent EXCEPT ![q] = r] /\ r.step # "accepted"
    BY <1>8, <2>3 DEF Refuse
  <2>5. SentOK'
    BY <1>4, <2>4
  <2> QED BY <1>1, <1>2, <1>3, <1>8, <2>1, <2>2, <2>5, StillTold DEF Refuse
<1>9. ASSUME NEW q \in Requests, Replay(q) PROVE ShopOK'
  BY <1>1, <1>2, <1>5, <1>9, StillTold DEF Replay
<1>a. ASSUME NEW q \in Requests, CreateOrder(q) PROVE ShopOK'
  <2>1. placed' = placed \/ placed' = sent[q].bag
    BY <1>a DEF CreateOrder
  <2>2. shown # None /\ BagOK(sent[q].bag) /\ sent[q].bag.price # None /\ Told(sent[q].bag)
    BY <1>a DEF CreateOrder, ShopOK, SentOK
  <2>3. PlacedOK'
    BY <1>1, <2>1, <2>2, StillTold DEF PlacedOK
  <2> QED BY <1>1, <1>2, <1>5, <1>a, <2>3, StillTold DEF CreateOrder
<1> QED BY <1>6, <1>7, <1>8, <1>9, <1>a DEF Ordering

LEMMA ShopSteps == ShiftOK /\ ShopOK /\ [Next]_vars => ShopOK'
<1> SUFFICES ASSUME ShiftOK, ShopOK, [Next]_vars PROVE ShopOK'
  OBVIOUS
<1>1. BookTyped(book) /\ shift.designs \subseteq Designs
  BY TermsAssumption DEF ShiftOK, BooksOK, RulesOK
<1>2. ASSUME UNCHANGED shopVars, taxes' \subseteq TaxRules, rates' \subseteq Rates PROVE ShopOK'
  <2>1. UNCHANGED <<shown, asked, sent, placed, told>>
    BY <1>2 DEF shopVars
  <2> QED BY <1>2, <2>1, StillTold DEF ShopOK
<1>3. ASSUME UNCHANGED <<worldVars, shopVars>> PROVE ShopOK'
  BY <1>2, <1>3 DEF worldVars, ShopOK
<1>4. CASE UNCHANGED vars
  BY <1>3, <1>4 DEF vars
<1>5. CASE RuleSaves
  BY <1>3, <1>5 DEF RuleSaves, StartCreate, ReadRule, CreateRule, CheckRule, UpdateRule
<1>6. CASE ListSaves
  BY <1>3, <1>6 DEF ListSaves, StartList, StartVersion, CreateList, RetryVersion, CommitVersion
<1>7. CASE Shopping
  <2>1. ASSUME NEW r \in Rates, EnterRate(r) PROVE ShopOK'
    BY <1>2, <2>1 DEF EnterRate, ShopOK
  <2>2. ASSUME NEW t \in TaxRules, EnterTaxRule(t) PROVE ShopOK'
    BY <1>2, <2>2 DEF EnterTaxRule, ShopOK
  <2>3. ASSUME DayPasses PROVE ShopOK'
    BY <2>3, StillTold DEF DayPasses, worldVars, ShopOK
  <2> QED BY <1>1, <1>7, <2>1, <2>2, <2>3, ShowStep DEF Shopping
<1>8. CASE Ordering
  BY <1>1, <1>8, OrderingStep
<1> QED BY <1>4, <1>5, <1>6, <1>7, <1>8 DEF Next

LEMMA ShopInvariant == Spec => []ShopOK
BY ShopStarts, ShopSteps, BooksInvariant, PTL DEF Spec

LEMMA LineTyped ==
  ASSUME NEW d \in Designs, NEW quote \in Rates, NEW more \in Nat, NEW h, h = [d EXCEPT !.gross = @ + more]
  PROVE  /\ Typed(LineOf(d, quote)) /\ Typed(LineOf(h, quote))
         /\ Heavier(LineOf(d, quote), LineOf(h, quote))
<1>1. /\ {"gross", "stone", "stoneValue", "pieces", "fineness", "rate", "quoted"} \subseteq DOMAIN d
      /\ d.gross \in Nat /\ d.stone \in Nat /\ d.stoneValue \in Nat /\ d.pieces \in Nat /\ quote.perGram \in Nat
  BY TermsAssumption
<1>2. /\ DOMAIN h = DOMAIN d /\ h.gross = d.gross + more
      /\ h.stone = d.stone /\ h.stoneValue = d.stoneValue /\ h.pieces = d.pieces /\ h.fineness = d.fineness
  BY <1>1
<1>3. ASSUME NEW e, DOMAIN e = DOMAIN d
      PROVE  LET l == LineOf(e, quote)
             IN /\ l.gross = e.gross /\ l.stone = e.stone /\ l.stoneValue = e.stoneValue /\ l.pieces = e.pieces
                /\ l.fineness = e.fineness /\ l.rate = quote.perGram /\ l.quoted = quote.fineness
  BY <1>1, <1>3 DEF LineOf
<1>4. PICK l, k : l = LineOf(d, quote) /\ k = LineOf(h, quote)
  OBVIOUS
<1>5. /\ l.gross = d.gross /\ l.stone = d.stone /\ l.stoneValue = d.stoneValue /\ l.pieces = d.pieces
      /\ l.fineness = d.fineness /\ l.rate = quote.perGram /\ l.quoted = quote.fineness
  BY <1>3, <1>4
<1>6. /\ k.gross = d.gross + more /\ k.stone = d.stone /\ k.stoneValue = d.stoneValue /\ k.pieces = d.pieces
      /\ k.fineness = d.fineness /\ k.rate = quote.perGram /\ k.quoted = quote.fineness
  BY <1>2, <1>3, <1>4
<1>7. Typed(l) /\ Typed(k)
  BY <1>1, <1>5, <1>6 DEF Typed
<1>8. Heavier(l, k)
  BY <1>1, <1>5, <1>6 DEF Heavier
<1> QED BY <1>4, <1>7, <1>8

(* HeavierNeverCheaper: a heavier piece of a design never costs less than   *)
(* the price shown, for any rules, rates and weights and however the rules  *)
(* are edited: no rounding, percentage or discount of calculatePrice turns  *)
(* the order around.                                                        *)
THEOREM WeightNeverPays == Spec => []HeavierNeverCheaper
<1>1. ShopOK => HeavierNeverCheaper
  <2> SUFFICES ASSUME ShopOK, shown # None, shown.price # None, NEW more \in 1..2,
                      NEW h, h = [shown.design EXCEPT !.gross = @ + more],
                      StorePrice(h, shown.world, TRUE) # None
               PROVE  StorePrice(h, shown.world, TRUE).final >= shown.price.final
    BY DEF HeavierNeverCheaper
  <2>1. PICK here \in BOOLEAN : here = TRUE
    OBVIOUS
  <2>2. PICK d, w : d = shown.design /\ w = shown.world
    OBVIOUS
  <2>3. d \in Designs /\ WorldOK(w) /\ shown.price = StorePrice(d, w, here)
    BY <2>1, <2>2 DEF ShopOK, ShownOK
  <2>4. PICK a, b : a = LineOf(d, w.quote) /\ b = LineOf(h, w.quote)
    OBVIOUS
  <2>5. Typed(a) /\ Typed(b) /\ Heavier(a, b)
    BY <2>2, <2>3, <2>4, LineTyped DEF WorldOK
  <2>6. PICK making, wastage, discount, t :
          /\ making = Term(w, "making") /\ wastage = Term(w, "wastage") /\ discount = Term(w, "discount") /\ t = w.tax
    OBVIOUS
  <2>7. PICK p, q : p = shown.price /\ q = StorePrice(h, w, here)
    OBVIOUS
  <2>8. p # None /\ q # None
    BY <2>1, <2>2, <2>7
  <2>9. /\ t # None
        /\ p = CalculatePrice(a, making, wastage, discount, t, here)
        /\ q = CalculatePrice(b, making, wastage, discount, t, here)
    BY <2>3, <2>4, <2>6, <2>7, <2>8, StorePriceIs
  <2>a. RulesTyped(making, wastage, discount) /\ TaxTyped(t)
    BY <2>3, <2>6, <2>9, GoverningTyped DEF WorldOK, Term
  <2>b. p.final <= q.final
    BY <2>5, <2>8, <2>9, <2>a, HeavierCostsMore
  <2>c. p.final \in Int /\ q.final \in Int
    BY <2>5, <2>8, <2>9, <2>a, FinalIsAmount
  <2> QED BY <2>1, <2>2, <2>7, <2>b, <2>c
<1> QED BY <1>1, ShopInvariant, PTL

(* OrderedAsTold: whatever rates, tax rules, terms and days come between    *)
(* showing, asking and ordering, and however many requests and editors race *)
(* (place, checkout.service.ts:200), an order stands at a total the         *)
(* customer was told; and where its request loaded the quote, tax rule and  *)
(* terms the shop showed, within a paisa of the price shown.                *)
THEOREM OrdersAsTold == Spec => []OrderedAsTold
<1>1. ShopOK => OrderedAsTold
  <2> SUFFICES ASSUME ShopOK, placed # None, Alike(placed.world, shown.world)
               PROVE  placed.price.final - shown.price.final \in -1..1
    BY DEF ShopOK, PlacedOK, Told, OrderedAsTold
  <2>1. PICK one \in BOOLEAN : one = TRUE
    OBVIOUS
  <2>2. PICK d, w, v : d = shown.design /\ w = shown.world /\ v = placed.world
    OBVIOUS
  <2>3. /\ d \in Designs /\ WorldOK(w) /\ shown.price = StorePrice(d, w, one)
        /\ placed.price # None
    BY <2>1, <2>2 DEF ShopOK, ShownOK, PlacedOK
  <2>4. PICK intra \in BOOLEAN : placed.price = StorePrice(d, v, intra)
    BY <2>2 DEF ShopOK, PlacedOK, BagOK
  <2>5. PICK a : a = LineOf(d, w.quote)
    OBVIOUS
  <2>6. Typed(a)
    <3>1. 0 \in Nat
      OBVIOUS
    <3> QED BY <2>3, <2>5, <3>1, LineTyped DEF WorldOK
  <2>7. PICK making, wastage, discount, t :
          /\ making = Term(w, "making") /\ wastage = Term(w, "wastage") /\ discount = Term(w, "discount") /\ t = w.tax
    OBVIOUS
  <2>8. /\ v.quote = w.quote /\ v.tax = t
        /\ making = Term(v, "making") /\ wastage = Term(v, "wastage") /\ discount = Term(v, "discount")
    BY <2>2, <2>7 DEF Alike, Term, Dimensions
  <2>9. PICK p, q : p = placed.price /\ q = shown.price
    OBVIOUS
  <2>a. /\ p # None /\ t # None
        /\ p = CalculatePrice(a, making, wastage, discount, t, intra)
        /\ q = CalculatePrice(a, making, wastage, discount, t, one)
    BY <2>3, <2>4, <2>5, <2>7, <2>8, <2>9, StorePriceIs
  <2>b. RulesTyped(making, wastage, discount) /\ TaxTyped(t)
    BY <2>3, <2>7, <2>a, GoverningTyped DEF WorldOK, Term
  <2>c. q.final - p.final \in -1..1
    BY <2>6, <2>a, <2>b, SamePriceEverywhere
  <2>d. p.final \in Int /\ q.final \in Int
    BY <2>6, <2>a, <2>b, FinalIsAmount
  <2> QED BY <2>9, <2>c, <2>d
<1> QED BY <1>1, ShopInvariant, PTL
=============================================================================
