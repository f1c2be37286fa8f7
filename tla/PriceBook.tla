----------------------------- MODULE PriceBook -----------------------------
(***************************************************************************)
(* What the pricing engine prices from, and who changes it: the pricing    *)
(* rules (pricing-rule.repository.ts), the versions of a price list        *)
(* (price-list.repository.ts), the tax rules and the metal rates, and the  *)
(* storefront that shows a price, asks it of a bag and turns the bag into  *)
(* an order (storefront-pricing.ts, checkout.service.ts up to the draft).  *)
(*                                                                         *)
(* Saving a rule or a version first reads what is there and checks itself  *)
(* against it, then writes; two editors may be between the two at once.    *)
(***************************************************************************)
EXTENDS Pricing, Sequences

CONSTANTS
  MaxRules,      \* bound: rules ever created; ids grow with time, as ObjectIds do
  Candidates,    \* the rules an editor may enter
  Patches,       \* the partial updates: functions from some fields of a rule
  Contexts,      \* who may buy what, when
  ShopScope,     \* what a rule's scope is compared with when the shop prices
  Editors,
  MaxDate,       \* bound: dates are 1..MaxDate
  MaxVersions,   \* bound: versions of the price list
  MaxDay,        \* bound: the days the shop is followed
  Designs,       \* the lines the shop shows a price for
  TaxRules,      \* tax rules that may be saved: CGST and SGST add up to IGST (taxTermsSchema)
  Rates,         \* metal rates that may be entered
  MaxEntries,    \* bound: rates, and tax rules, on record at a time
  Requests,      \* bound: the requests sent with one idempotency key
  Shifts         \* what a behaviour is about, what it starts from, and the rules, patches and designs in it

ASSUME PriceBookAssumption == MaxRules \in Nat /\ MaxDate \in Nat /\ MaxVersions \in Nat /\ MaxEntries \in Nat /\ MaxDay \in Nat \ {0}

Dated(r) == {"from", "to"} \subseteq DOMAIN r /\ r.from \in Nat /\ r.to \in Nat \union {None}

ASSUME DatesAssumption ==
  /\ \A r \in Candidates : Dated(r)
  /\ \A patch \in Patches : /\ "from" \in DOMAIN patch => patch["from"] \in Nat
                            /\ "to" \in DOMAIN patch => patch["to"] \in Nat \union {None}
  /\ \A ctx \in Contexts : ctx.asOf \in Nat

VARIABLES
  book,      \* PricingRule documents by id
  lists,     \* the versions of one price list code, in order of version
  rates,     \* MetalRate documents, append-only
  taxes,     \* TaxRule documents
  editing,   \* what each editor is doing, and what it has read
  shown,     \* the price the shop last showed, and what it is the price of
  today,
  asked,     \* the price of it when the bag was last verified
  sent,      \* the requests to order it, at the total the bag asked
  placed,    \* the order, at the price it froze
  told,      \* history: the totals the customer was told
  raced,     \* history: a rule was written that was checked against an older book
  retried,   \* history: the transaction of a new version was run twice
  shift

ruleVars == <<book, raced>>
listVars == <<lists, retried>>
worldVars == <<rates, taxes>>
shopVars == <<today, shown, asked, sent, placed, told>>
vars == <<ruleVars, listVars, worldVars, shopVars, editing, shift>>

RuleIds == 1..MaxRules
Dates == 1..MaxDate

(* A book to start from is one the saves could have made. *)
ASSUME BooksAssumption ==
  \A s \in Shifts :
    /\ DOMAIN s.book = RuleIds
    /\ \A i \in RuleIds : s.book[i] # None =>
         /\ Dated(s.book[i])
         /\ \A j \in RuleIds \ {i} : s.book[j] # None => ~Clash(s.book[i], s.book[j])

(* What the schemas let into a rule, a tax rule, a rate and a design: no    *)
(* amount is negative, and CGST and SGST add up to IGST (taxTermsSchema).   *)
MakingTerms   == [type : {"PERCENTAGE", "PER_GRAM", "FIXED", "PER_PIECE"}, value : Nat]
WastageTerms  == [type : {"PERCENTAGE", "FIXED_WEIGHT"}, value : Nat]
DiscountTerms == [type : {"PERCENTAGE", "FLAT"}, value : Nat, on : {"TOTAL", "MAKING_CHARGES"}]

Terms ==
  [priority |-> Int,
   making   |-> {None} \union MakingTerms,
   wastage  |-> {None} \union [type : {"NONE"}, value : {0}] \union WastageTerms,
   discount |-> {None} \union DiscountTerms]

RuleTyped(r) == DOMAIN Terms \subseteq DOMAIN r /\ \A f \in DOMAIN Terms : r[f] \in Terms[f]

ASSUME TermsAssumption ==
  /\ \A s \in Shifts : /\ s.taxes \subseteq TaxRules /\ s.rates \subseteq Rates /\ s.designs \subseteq Designs
                      /\ s.candidates \subseteq Candidates /\ s.patches \subseteq Patches
                      /\ \A i \in RuleIds : s.book[i] # None => RuleTyped(s.book[i])
  /\ \A r \in Candidates : RuleTyped(r)
  /\ \A patch \in Patches, f \in DOMAIN Terms : f \in DOMAIN patch => patch[f] \in Terms[f]
  /\ \A t \in TaxRules : t.cgst \in Nat /\ t.sgst \in Nat /\ t.igst = t.cgst + t.sgst
  /\ \A r \in Rates : r.perGram \in Nat
  /\ \A d \in Designs : /\ {"gross", "stone", "stoneValue", "pieces", "fineness", "rate", "quoted"} \subseteq DOMAIN d
                       /\ {d.gross, d.stone, d.stoneValue, d.pieces} \subseteq Nat

Versions == [from : Dates, to : Dates \union {None}]

TypeOK ==
  /\ DOMAIN book = RuleIds
  /\ lists \in Seq(Versions) /\ Len(lists) <= MaxVersions
  /\ taxes \subseteq TaxRules /\ rates \subseteq Rates /\ today \in 1..MaxDay
  /\ DOMAIN sent = Requests /\ told \subseteq Int
  /\ DOMAIN editing = Editors
  /\ raced \in BOOLEAN /\ retried \in BOOLEAN

Away == [job |-> "none", id |-> None, rule |-> None, patch |-> <<>>, n |-> 0, from |-> 0, to |-> None, saved |-> FALSE, old |-> FALSE]

New == [step |-> "new"]

Init ==
  /\ shift \in Shifts
  /\ book = shift.book /\ taxes = shift.taxes /\ rates = shift.rates
  /\ lists = <<>>
  /\ editing = [e \in Editors |-> Away]
  /\ today = 1 /\ shown = None /\ asked = None
  /\ sent = [q \in Requests |-> New] /\ placed = None /\ told = {}
  /\ raced = FALSE /\ retried = FALSE

Doing(e, job) == editing[e].job = job
Leave(e) == editing' = [editing EXCEPT ![e] = Away]

-----------------------------------------------------------------------------
(* Pricing rules *)

(* createPricingRuleSchema, what of it spans fields. *)
ValidRule(r) ==
  /\ \E dim \in Dimensions : r[dim] # None
  /\ r.to # None => r.from < r.to

(* assertNoAmbiguousPricingRule, for a rule that would be active. *)
Unambiguous(r, self) ==
  r.active => \A i \in RuleIds \ {self} : book[i] # None => ~Clash(r, book[i])

StartCreate(e, r) ==
  /\ Doing(e, "none")
  /\ ValidRule(r) /\ Unambiguous(r, None)
  /\ editing' = [editing EXCEPT ![e] = [Away EXCEPT !.job = "create", !.rule = r]]
  /\ UNCHANGED <<ruleVars, listVars, worldVars, shopVars>>

(* A write puts what the other editors have read out of date. *)
Wrote(e) ==
  /\ editing' = [d \in Editors |-> IF d = e \/ Doing(d, "none") THEN Away ELSE [editing[d] EXCEPT !.old = TRUE]]
  /\ raced' = (raced \/ editing[e].old)

CreateRule(e) ==
  /\ Doing(e, "create")
  /\ \E i \in RuleIds :
       /\ book[i] = None /\ \A j \in RuleIds : j < i => book[j] # None
       /\ book' = [book EXCEPT ![i] = editing[e].rule]
  /\ Wrote(e)
  /\ UNCHANGED <<listVars, worldVars, shopVars>>

Patched(r, patch) == [f \in DOMAIN r |-> IF f \in DOMAIN patch THEN patch[f] ELSE r[f]]

(* updatePricingRule merges the patch with the rule it read, checks that    *)
(* against the rules it reads next, and then writes the patch alone.        *)
ReadRule(e, i, patch) ==
  /\ Doing(e, "none")
  /\ book[i] # None /\ ValidRule(Patched(book[i], patch))
  /\ editing' = [editing EXCEPT ![e] = [Away EXCEPT !.job = "check", !.id = i, !.patch = patch,
                                                    !.rule = Patched(book[i], patch)]]
  /\ UNCHANGED <<ruleVars, listVars, worldVars, shopVars>>

CheckRule(e) ==
  /\ Doing(e, "check")
  /\ IF Unambiguous(editing[e].rule, editing[e].id)
     THEN editing' = [editing EXCEPT ![e].job = "update"]
     ELSE Leave(e)
  /\ UNCHANGED <<ruleVars, listVars, worldVars, shopVars>>

UpdateRule(e) ==
  /\ Doing(e, "update")
  /\ book' = [book EXCEPT ![editing[e].id] = Patched(@, editing[e].patch)]
  /\ Wrote(e)
  /\ UNCHANGED <<listVars, worldVars, shopVars>>

RuleSaves ==
  \E e \in Editors :
    \/ \E r \in shift.candidates : StartCreate(e, r)
    \/ \E i \in RuleIds, patch \in shift.patches : ReadRule(e, i, patch)
    \/ CreateRule(e) \/ CheckRule(e) \/ UpdateRule(e)

-----------------------------------------------------------------------------
(* Price lists.  The unique index is on the code and the version.           *)

(* createPriceListSchema: version 1 may be given an end, after its start.   *)
StartList(e, from, to) ==
  /\ Doing(e, "none") /\ lists = <<>>
  /\ to # None => from < to
  /\ editing' = [editing EXCEPT ![e] = [Away EXCEPT !.job = "list", !.from = from, !.to = to]]
  /\ UNCHANGED <<ruleVars, listVars, worldVars, shopVars>>

CreateList(e) ==
  /\ Doing(e, "list")
  /\ lists' = IF lists = <<>> THEN <<[from |-> editing[e].from, to |-> editing[e].to]>> ELSE lists
  /\ Leave(e)
  /\ UNCHANGED <<ruleVars, retried, worldVars, shopVars>>

(* createNewVersion reads the current version before its transaction. *)
StartVersion(e, from) ==
  /\ Doing(e, "none")
  /\ lists # <<>> /\ from > lists[Len(lists)].from
  /\ editing' = [editing EXCEPT ![e] = [Away EXCEPT !.job = "version", !.n = Len(lists), !.from = from]]
  /\ UNCHANGED <<ruleVars, listVars, worldVars, shopVars>>

(* The commit fails for the network, and withTransaction runs the function  *)
(* again: the document it saves has nothing left to save by then.           *)
RetryVersion(e) ==
  /\ Doing(e, "version") /\ ~editing[e].saved /\ Len(lists) = editing[e].n
  /\ editing' = [editing EXCEPT ![e].saved = TRUE]
  /\ retried' = TRUE
  /\ UNCHANGED <<ruleVars, lists, worldVars, shopVars>>

CommitOver(e) ==     \* mutant: no unique index
  /\ Doing(e, "version") /\ Len(lists) < MaxVersions
  /\ lists' = Append([lists EXCEPT ![editing[e].n].to = IF editing[e].saved THEN @ ELSE editing[e].from],
                     [from |-> editing[e].from, to |-> None])
  /\ Leave(e)
  /\ UNCHANGED <<ruleVars, retried, worldVars, shopVars>>

(* Closes the version it read, whatever end that was given, and inserts the *)
(* next, which has none; unless there is one by now: then nothing of the    *)
(* transaction stays.                                                       *)
CommitVersion(e) ==
  /\ Doing(e, "version") /\ Len(lists) < MaxVersions
  /\ lists' = IF Len(lists) > editing[e].n THEN lists
              ELSE Append([lists EXCEPT ![editing[e].n].to = IF editing[e].saved THEN @ ELSE editing[e].from],
                          [from |-> editing[e].from, to |-> None])
  /\ Leave(e)
  /\ UNCHANGED <<ruleVars, retried, worldVars, shopVars>>

InForceVersion(at) ==
  {v \in DOMAIN lists : lists[v].from <= at /\ (lists[v].to # None => at < lists[v].to)}

ListSaves ==
  \E e \in Editors :
    \/ \E from \in Dates : StartVersion(e, from) \/ \E to \in Dates \union {None} : StartList(e, from, to)
    \/ CreateList(e) \/ RetryVersion(e) \/ CommitVersion(e)

-----------------------------------------------------------------------------
(* Rates, taxes and the shop.  Both keep coming while the customer looks.   *)

EnterRate(r) ==
  /\ Cardinality(rates) < MaxEntries
  /\ rates' = rates \union {r}
  /\ UNCHANGED <<ruleVars, listVars, taxes, shopVars, editing>>

EnterTaxRule(t) ==
  /\ Cardinality(taxes) < MaxEntries
  /\ taxes' = taxes \union {t}
  /\ UNCHANGED <<ruleVars, listVars, rates, shopVars, editing>>

DayPasses ==
  /\ today < MaxDay
  /\ today' = today + 1
  /\ UNCHANGED <<ruleVars, listVars, worldVars, shown, asked, sent, placed, told, editing>>

Latest(S) == {r \in S : \A q \in S : q.from <= r.from}

(* loadPricingWorld keeps the newest quote of each purity; a design is      *)
(* priced from its own purity's, or else from the newest of the others.     *)
(* Nothing decides between two that start together.                         *)
Quotes(design, at) ==
  LET inForce == {r \in rates : r.from <= at}
      own == Latest({r \in inForce : r.fineness = design.fineness})
  IN IF own # {} THEN own ELSE Latest(inForce)

(* What a request prices a design from: everything is loaded anew for it.   *)
Worlds(design) ==
  {[now |-> today, rules |-> book, tax |-> TaxRuleFor(taxes, today), quote |-> q] : q \in Quotes(design, today)}

NoOverride == [dim \in Dimensions |-> None]

Shopper(at) == [asOf |-> at, scope |-> ShopScope]

(* priceDesign: a price needs a quote, one tax rule and a making rule.      *)
StorePrice(design, world, intra) ==
  LET line == [design EXCEPT !.rate = world.quote.perGram, !.quoted = world.quote.fineness]
      item == PriceItem(world.rules, line, Shopper(world.now), NoOverride, world.tax, intra)
  IN IF world.tax = None \/ ~item.made THEN None ELSE item.price

(* Browsing, the buyer's state is not known and the sale is taken to be     *)
(* inside the seller's; when the bag is verified it is.                     *)
Show(design) ==
  /\ shown = None
  /\ \E w \in Worlds(design) : shown' = [design |-> design, world |-> w, price |-> StorePrice(design, w, TRUE)]
  /\ UNCHANGED <<ruleVars, listVars, worldVars, today, asked, sent, placed, told, editing>>

(* The bag as assess prices it now, and what the customer is then told.     *)
Bags(intra) == {[world |-> w, price |-> StorePrice(shown.design, w, intra)] : w \in Worlds(shown.design)}

Tell(bag) ==
  /\ asked' = bag
  /\ told' = IF bag.price = None THEN told ELSE told \union {bag.price.final}

Verify(intra) ==
  /\ shown # None
  /\ \E bag \in Bags(intra) : Tell(bag)
  /\ UNCHANGED <<ruleVars, listVars, worldVars, today, shown, sent, placed, editing>>

(* place: a request carries the total the bag asked.  One that finds the    *)
(* order its key has made is answered with it, or refused if it is for      *)
(* another address: either way it is done.                                  *)
Answered(q) == sent' = [sent EXCEPT ![q] = [step |-> "answered"]]

MaySend(q) == sent[q] = New /\ asked # None /\ asked.price # None

Replay(q) ==
  /\ MaySend(q) /\ placed # None
  /\ Answered(q)
  /\ UNCHANGED <<ruleVars, listVars, worldVars, today, shown, asked, placed, told, editing>>

AcceptBlind(q, intra) ==     \* mutant: the agreed total is not compared
  /\ MaySend(q) /\ placed = None
  /\ \E bag \in Bags(intra) :
       /\ bag.price # None
       /\ sent' = [sent EXCEPT ![q] = [step |-> "accepted", agreed |-> asked.price.final, bag |-> bag]]
  /\ UNCHANGED <<ruleVars, listVars, worldVars, today, shown, asked, placed, told, editing>>

(* Otherwise the bag is priced again, and goes on only at the agreed total. *)
Accept(q, intra) ==
  /\ MaySend(q) /\ placed = None
  /\ \E bag \in Bags(intra) :
       /\ bag.price # None /\ bag.price.final = asked.price.final
       /\ sent' = [sent EXCEPT ![q] = [step |-> "accepted", agreed |-> asked.price.final, bag |-> bag]]
  /\ UNCHANGED <<ruleVars, listVars, worldVars, today, shown, asked, placed, told, editing>>

(* PriceChangedError, or CheckoutBlockedError: the fresh bag is the answer. *)
Refuse(q, intra) ==
  /\ MaySend(q) /\ placed = None
  /\ \E bag \in Bags(intra) :
       /\ bag.price # None => bag.price.final # asked.price.final
       /\ Tell(bag)
  /\ sent' = [sent EXCEPT ![q] = [step |-> "refused"]]
  /\ UNCHANGED <<ruleVars, listVars, worldVars, today, shown, placed, editing>>

(* The order and its frozen prices are written together, unless the key is  *)
(* taken by now.                                                            *)
CreateOrder(q) ==
  /\ sent[q].step = "accepted"
  /\ placed' = IF placed = None THEN sent[q].bag ELSE placed
  /\ Answered(q)
  /\ UNCHANGED <<ruleVars, listVars, worldVars, today, shown, asked, told, editing>>

Shopping ==
  \/ \E r \in Rates : EnterRate(r)
  \/ \E t \in TaxRules : EnterTaxRule(t)
  \/ DayPasses
  \/ \E d \in shift.designs : Show(d)

Ordering ==
  \/ \E intra \in BOOLEAN : Verify(intra) \/ \E q \in Requests : Accept(q, intra) \/ Refuse(q, intra)
  \/ \E q \in Requests : Replay(q) \/ CreateOrder(q)

Next ==
  /\ \/ "rules" \in shift.about /\ RuleSaves
     \/ "lists" \in shift.about /\ ListSaves
     \/ "shop" \in shift.about /\ Shopping
     \/ "orders" \in shift.about /\ Ordering
  /\ UNCHANGED shift

Spec == Init /\ [][Next]_vars

-----------------------------------------------------------------------------
(* business-rules 1.4: a book is refused the rule that would make a tie.    *)
(* What the check at saving accepts, knowing no sale, never leaves a sale   *)
(* that only the ids decide, whoever buys what and when; it can only if two *)
(* saves overlapped, for each is checked before the other is written.       *)
TiesAreRefused ==
  ~raced => \A ctx \in Contexts, dim \in Dimensions : Cardinality(Tied(book, ctx, dim)) <= 1

(* On no day are two versions of a price list in force, and from its first  *)
(* day on there is always one, however two editors race, except past the    *)
(* end that the list was given and that no later version has taken off it:  *)
(* the version each closes is the one its own follows.  (A transaction that *)
(* is run again does not close it.)                                         *)
Expired(at) == Len(lists) = 1 /\ lists[1].to # None /\ at >= lists[1].to

OneVersionInForce ==
  (~retried /\ lists # <<>>) =>
    \A at \in Dates : Cardinality(InForceVersion(at)) = IF at >= lists[1].from /\ ~Expired(at) THEN 1 ELSE 0

(* A heavier piece of the same kind never costs less, through every         *)
(* rounding, percentage and discount on the way to the final amount.        *)
HeavierNeverCheaper ==
  (shown # None /\ shown.price # None) =>
    \A more \in 1..2 :
      LET heavier == StorePrice([shown.design EXCEPT !.gross = @ + more], shown.world, TRUE)
      IN heavier # None => heavier.final >= shown.price.final

(* Two requests that price a design from the same quote, tax rule and terms. *)
Alike(v, w) ==
  /\ v.quote = w.quote /\ v.tax = w.tax
  /\ \A dim \in Dimensions : Governing(v.rules, Shopper(v.now), dim) = Governing(w.rules, Shopper(w.now), dim)

(* business-rules 11.2, a price change is never silent: whatever rates, tax *)
(* rules, terms and days come between showing, asking and ordering, and     *)
(* however many requests race, the order stands at a total the customer was *)
(* told; and where nothing came between, at the price the shop showed, to   *)
(* the paisa that rounding CGST and SGST separately can make.               *)
OrderedAsTold ==
  placed # None =>
    /\ placed.price.final \in told
    /\ Alike(placed.world, shown.world) => placed.price.final - shown.price.final \in -1..1

(* Said of the code, and not kept by it (see the README):                   *)
(* storefront-pricing.ts:101: "the total is the same whichever applies".    *)
SameTotalWhicheverApplies ==
  (asked # None /\ asked.price # None /\ Alike(asked.world, shown.world)) => asked.price.final = shown.price.final

(* business-rules 11.2: if the server's total differs from the one the      *)
(* customer agreed to, they are shown it and must accept it.  A request     *)
(* that agrees to a new total is answered with the order at the old one.    *)
AnsweredAtAgreedTotal ==
  [][\A q \in Requests :
       (sent'[q].step = "answered" /\ sent[q].step # "answered") =>
         placed'.price.final = IF sent[q] = New THEN asked.price.final ELSE sent[q].agreed]_vars
=============================================================================
