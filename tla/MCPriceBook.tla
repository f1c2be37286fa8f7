---------------------------- MODULE MCPriceBook ----------------------------
(* A small instance of PriceBook for TLC: rules, buyers, designs, rates. *)
EXTENDS PriceBook, TLC

CONSTANTS anna, gold

Anyone == [k \in ScopeKeys |-> None]
For(key, value) == [Anyone EXCEPT ![key] = value]

Percentage(v) == [type |-> "PERCENTAGE", value |-> v]

Rule1 == [scope |-> Anyone, making |-> Percentage(3), wastage |-> None, discount |-> None,
          priority |-> 0, from |-> 1, to |-> None, active |-> TRUE]

(* Rules that differ in scope, dates, dimension and activity. *)
MCCandidates ==
  { Rule1,
    [Rule1 EXCEPT !.scope = For("metal", gold), !.to = 2],
    [Rule1 EXCEPT !.scope = For("customer", anna), !.wastage = Percentage(1), !.active = FALSE] }

Repriced == [making |-> Percentage(7)]

MCPatches == {[active |-> TRUE], [from |-> 2], [scope |-> For("channel", "B2C")], Repriced}

Buyer(customer, channel, at) ==
  [asOf |-> at, scope |-> [Anyone EXCEPT !["customer"] = customer, !["channel"] = channel, !["metal"] = gold,
                                         !["customerType"] = "B2C", !["purity"] = "22K"]]

MCContexts == {Buyer(c, channel, at) : c \in {None, anna}, channel \in {"B2C", "ERP"}, at \in Dates}

MCShopScope == Buyer(None, "B2C", 1).scope

(* The shop's books: each making, wastage and discount there is. *)
Makings   == {Percentage(3), [type |-> "PER_GRAM", value |-> 3], [type |-> "FIXED", value |-> 4], [type |-> "PER_PIECE", value |-> 2]}
Wastages  == {None, Percentage(1), [type |-> "FIXED_WEIGHT", value |-> 1]}
Discounts == {None, [type |-> "PERCENTAGE", value |-> 3, on |-> "TOTAL"], [type |-> "PERCENTAGE", value |-> 7, on |-> "MAKING_CHARGES"],
              [type |-> "FLAT", value |-> 9, on |-> "TOTAL"], [type |-> "FLAT", value |-> 4, on |-> "MAKING_CHARGES"]}

Blank == [i \in RuleIds |-> None]

(* Two that start on day 1, one on day 2. *)
MCTaxRules ==
  {[id |-> k[1], cgst |-> k[2], sgst |-> k[2], igst |-> 2 * k[2], from |-> k[3], to |-> None, active |-> TRUE] :
     k \in {<<1, 1, 1>>, <<2, 3, 1>>, <<3, 3, 2>>}}

MCRates == {[perGram |-> k[1], fineness |-> k[2], from |-> k[3]] : k \in {<<5, 4, 1>>, <<7, 3, 1>>, <<8, 3, 1>>, <<9, 3, 2>>}}

MCDesigns ==
  {[gross |-> k[1], stone |-> k[2], stoneValue |-> k[3], pieces |-> 1, net |-> None, fine |-> None, metal |-> gold,
    rateMetal |-> gold, fineness |-> 3, quoted |-> None, rate |-> None] : k \in {<<3, 0, 0>>, <<5, 2, 3>>, <<4, 1, 0>>}}

Quiet == [about |-> {}, taxes |-> {}, rates |-> {}, book |-> Blank, designs |-> {}, candidates |-> {}, patches |-> {}]

Saving == [Quiet EXCEPT !.about = {"rules"}, !.candidates = MCCandidates, !.patches = MCPatches \ {Repriced}]

Selling(m, w, d) ==
  [Quiet EXCEPT !.about = {"shop"}, !.designs = MCDesigns, !.taxes = {t \in MCTaxRules : t.id \in {1, 3}},
                !.book[1] = [Rule1 EXCEPT !.making = m, !.wastage = w, !.discount = d]]

(* A shop that takes orders, while another rate may be entered, another    *)
(* tax rule, or a making charge be changed.  A rate or a tax rule, or both, *)
(* come into force on day 2 by themselves.                                  *)
Ordered(rateIds, taxIds) ==
  [Quiet EXCEPT !.about = {"shop", "orders"}, !.book[1] = Rule1, !.designs = {d \in MCDesigns : d.gross = 5},
                !.rates = {r \in MCRates : r.perGram \in rateIds}, !.taxes = {t \in MCTaxRules : t.id \in taxIds}]

Rated == Ordered({7}, {1, 3})
Taxed == Ordered({7, 9}, {1})
Edited == [Ordered({7, 9}, {1, 3}) EXCEPT !.about = @ \union {"rules"}, !.patches = {Repriced}]

MCShifts ==
  {Saving, [Quiet EXCEPT !.about = {"lists"}], Rated, Taxed, Edited}
  \union {Selling(m, w, d) : m \in Makings, w \in Wastages, d \in Discounts}

Symmetry == Permutations(Editors) \union Permutations(Requests)
=============================================================================
