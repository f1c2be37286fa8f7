------------------------------ MODULE MCOrders ------------------------------
(* Instances of Orders for TLC, and the scopes their behaviours keep to. *)
EXTENDS Orders, TLC

Interchangeable ==
  Permutations(Orders) \union Permutations(Workers) \union Permutations(Pieces) \union Permutations(Payments)

(* One order and one payment, with everything that can race on them. *)
Alone ==
  [orders |-> 1, payments |-> 1, refunds |-> 2, amounts |-> {2, 3}, reports |-> {"AUTHORIZED", "CAPTURED", "FAILED"},
   answers |-> {"SUCCEEDED", "PENDING"}, jobs |-> {"place", "initiate", "webhook", "return", "close", "cancel", "expire"}]

(* Two orders and two payments after the same piece. *)
Contending ==
  [orders |-> 2, payments |-> 2, refunds |-> 1, amounts |-> {2}, reports |-> {"CAPTURED"}, answers |-> {"SUCCEEDED"},
   jobs |-> {"place", "initiate", "webhook"}]

(* One payment whose refunds fail, at once or later, and are tried again. *)
Refused ==
  [Alone EXCEPT !.reports = {"CAPTURED"}, !.answers = {"SUCCEEDED", "PENDING", "FAILED"},
                !.jobs = {"place", "initiate", "webhook", "return", "cancel"}]

Withdrawn ==
  [Alone EXCEPT !.refunds = 1, !.amounts = {2}, !.answers = {"SUCCEEDED"}, !.jobs = {"place", "initiate", "webhook", "cancel"}]

Unpaid ==
  [Alone EXCEPT !.payments = 2, !.refunds = 1, !.amounts = {2}, !.answers = {"PENDING", "FAILED"},
                !.jobs = {"place", "initiate", "webhook", "expire"}]

Confirming ==
  [Alone EXCEPT !.orders = 2, !.refunds = 1, !.amounts = {2}, !.answers = {"SUCCEEDED"},
                !.jobs = {"place", "initiate", "webhook", "return"}]

RaceScopes  == {Alone, Contending, Refused}
RefusedScopes == {Refused}
MoneyScopes == {Withdrawn}
EndScopes   == {Unpaid}
ConfirmScopes == {Confirming}
=============================================================================
