----------------------------- MODULE MCPayables -----------------------------
(* Small instances of Payables for TLC: the shifts and where they start.   *)
EXTENDS Payables, TLC

CONSTANTS r1, p1, p2, c1, c2, b1, b2, y1, y2, k1, k2

Alike == Permutations({c1, c2}) \union Permutations({b1, b2}) \union Permutations({y1, y2}) \union Permutations({k1, k2})

MCTerms == {<<1, 1>>, <<2, 1>>}
Approved(t, c) == [status |-> "APPROVED", requisition |-> None, ordered |-> t, consumable |-> c, received |-> <<0, 0>>]

(* A draft without CONSUMABLE lines, or with the second. *)
MCConsumables == {{}, {2}}

(* A requisition becomes a purchase order, or two. *)
Requesting == [acts |-> {"ordering"}, req |-> r1 :> None, spo |-> p1 :> None @@ p2 :> None]

(* An order is edited, approved and received at once. *)
Hurrying ==
  [acts |-> {"ordering", "receiving"}, req |-> r1 :> [status |-> "CANCELLED", wanted |-> <<1, 1>>, order |-> None],
   spo |-> p1 :> [Approved(<<1, 1>>, {}) EXCEPT !.status = "DRAFT"] @@ p2 :> [Approved(<<1, 1>>, {}) EXCEPT !.status = "CANCELLED"]]

(* Deliveries for an approved order of two lines arrive together. *)
Receiving2(c) == [Hurrying EXCEPT !.acts = {"receiving"}, !.spo[p1] = Approved(<<2, 1>>, c)]

Paying == [Hurrying EXCEPT !.acts = {"paying"}, !.spo = p1 :> None @@ p2 :> None]

MCShifts == {Requesting, Hurrying, Paying} \union {Receiving2(c) : c \in MCConsumables}
=============================================================================
