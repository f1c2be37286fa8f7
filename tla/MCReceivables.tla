--------------------------- MODULE MCReceivables ---------------------------
(* Small instances of Receivables for TLC: the shifts and where they start. *)
EXTENDS Receivables, TLC

CONSTANTS e1, e2, y1, y2, anna, bela

Purchase(status, n) == [status |-> status, lines |-> n, quote |-> None, approved |-> [lines |-> n, quote |-> None]]
Order(status, n) == [status |-> status, held |-> <<>>, invoiced |-> n, override |-> FALSE]
OnShelf == [x \in Pieces |-> [status |-> "AVAILABLE", holder |-> None, buyer |-> None]]
Sold(S, p) == [x \in Pieces |-> IF x \in S THEN [status |-> "SOLD", holder |-> None, buyer |-> p] ELSE OnShelf[x]]
Nothing == [i \in Invoices |-> 0]
Verified(n) == [amount |-> n, by |-> anna, verifiedBy |-> bela, status |-> "VERIFIED"]

Bill(p, S) == [so |-> p, items |-> S, billed |-> Cardinality(S)]

Unwritten == [q \in Quotes |-> None]

(* An enquiry, from the first draft to its end, beside one that has ended. *)
Enquiring ==
  [acts |-> {"enquiry"}, orders |-> Enquiries, po |-> (e1 :> None @@ e2 :> Purchase("CANCELLED", 1)), quote |-> Unwritten,
   so |-> (e1 :> None @@ e2 :> None), piece |-> OnShelf, invoice |-> <<>>,
   payment |-> (y1 :> None @@ y2 :> None),
   applied |-> (y1 :> Nothing @@ y2 :> Nothing), posted |-> (y1 :> <<>> @@ y2 :> <<>>)]

(* An order agreed on a quotation is withdrawn while it is being converted. *)
Agreed ==
  [Enquiring EXCEPT !.acts = {"enquiry", "commitment"},
     !.po = e1 :> [Purchase("APPROVED", 2) EXCEPT !.quote = 1, !.approved.quote = 1] @@ e2 :> Purchase("CANCELLED", 1),
     !.quote = [Unwritten EXCEPT ![1] = [po |-> e1, version |-> 1, lines |-> 2, status |-> "APPROVED"]]]

(* Two approved purchase orders compete for one credit limit.  *)
Committing ==
  [Enquiring EXCEPT !.acts = {"commitment"}, !.po = e1 :> Purchase("APPROVED", 2) @@ e2 :> Purchase("APPROVED", 2)]

(* Two orders share what is left on the shelf after a piece was invoiced.  *)
Fulfilling ==
  [Enquiring EXCEPT !.acts = {"fulfilment", "cancelling"},
     !.po = e1 :> Purchase("CONVERTED", 2) @@ e2 :> Purchase("CONVERTED", 2),
     !.so = e1 :> Order("CONFIRMED", 0) @@ e2 :> Order("PARTIALLY_FULFILLED", 1),
     !.piece = Sold({3}, e2), !.invoice = <<Bill(e2, {3})>>]

(* An order is fulfilled while the next one is checked against the limit;  *)
(* the next one is not fulfilled any more in this shift.                   *)
Promising ==
  [Enquiring EXCEPT !.acts = {"commitment", "fulfilment"}, !.orders = {e1},
     !.po = e1 :> Purchase("CONVERTED", 2) @@ e2 :> Purchase("APPROVED", 1),
     !.so = e1 :> Order("CONFIRMED", 0) @@ e2 :> None]

(* An order is converted while the payment of an earlier one bounces. *)
Bouncing ==
  [Enquiring EXCEPT !.acts = {"commitment", "reversal", "note"},
     !.po = e1 :> Purchase("CONVERTED", 2) @@ e2 :> Purchase("APPROVED", 2),
     !.so = e1 :> Order("FULFILLED", 2) @@ e2 :> None, !.piece = Sold({1, 2}, e1),
     !.invoice = <<Bill(e1, {1}), Bill(e1, {2})>>,
     !.payment = y1 :> Verified(2) @@ y2 :> None,
     !.applied = y1 :> [Nothing EXCEPT ![1] = 1] @@ y2 :> Nothing, !.posted = y1 :> <<1>> @@ y2 :> <<>>]

(* Two invoices are paid by two payments. *)
Paying ==
  [Bouncing EXCEPT !.acts = {"receipt", "reversal"}, !.payment = y1 :> None @@ y2 :> Verified(2),
                   !.applied = y1 :> Nothing @@ y2 :> Nothing, !.posted = y1 :> <<>> @@ y2 :> <<>>]

MCShifts == {Enquiring, Agreed, Committing, Fulfilling, Promising, Bouncing, Paying}
=============================================================================
