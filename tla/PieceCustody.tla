---------------------------- MODULE PieceCustody ----------------------------
(***************************************************************************)
(* What the inventory promises the rest of the system about one physical   *)
(* piece: where it stands in the status graph, and for whom it is held.    *)
(* A hold is exclusive (taken only from the shelf, never handed from one   *)
(* reference to another) and it ends exactly when the piece leaves         *)
(* RESERVED.  StockLedger implements this; Orders relies on it.            *)
(***************************************************************************)
EXTENDS StockRules

CONSTANTS Pieces, Holders, Nobody

VARIABLE custody    \* per piece: its status ("ABSENT" before it exists) and the reference holding it

CustodyTypeOK ==
  custody \in [Pieces -> [status : Statuses \union {"ABSENT"}, holder : Holders \union {Nobody}]]

Init == custody = [p \in Pieces |-> [status |-> "ABSENT", holder |-> Nobody]]

(* A piece enters the business, in any status and held by nobody. *)
Enters(old, new) ==
  /\ old.status = "ABSENT"
  /\ new.status \in Statuses
  /\ new.holder = Nobody

(* A reference takes an exclusive hold of a piece that is on the shelf. *)
Held(old, new) ==
  /\ old.status = "AVAILABLE" /\ old.holder = Nobody
  /\ new.status = "RESERVED" /\ new.holder \in Holders

(* The piece moves along the status graph; a hold does not survive it. *)
Moves(old, new) ==
  /\ old.status \in Statuses
  /\ Legal(old.status, new.status)
  /\ new.holder = Nobody

(* One committed stock transaction: some pieces change, all of them legally. *)
Next ==
  /\ custody' \in [Pieces -> [status : Statuses \union {"ABSENT"}, holder : Holders \union {Nobody}]]
  /\ \A p \in Pieces :
       \/ custody'[p] = custody[p]
       \/ Enters(custody[p], custody'[p])
       \/ Held(custody[p], custody'[p])
       \/ Moves(custody[p], custody'[p])

Spec == Init /\ [][Next]_custody
=============================================================================
