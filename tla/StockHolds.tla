----------------------------- MODULE StockHolds -----------------------------
(***************************************************************************)
(* Who ends a hold.  Besides the sale to the holder, two front doors end   *)
(* one after looking at it outside the transaction that writes:            *)
(*   - releaseExpiredReservations, the sweep server.ts runs every minute,  *)
(*     lists the lapsed holds and then releases them one transaction at a  *)
(*     time, naming for each the reference it read;                        *)
(*   - the release endpoint of inventory.service.ts, which lets a user     *)
(*     without approval authority release only holds of their own, and     *)
(*     checks that before the transaction.                                 *)
(* Between the look and the write anybody else may act.                    *)
(***************************************************************************)
EXTENDS StockLedger

CONSTANTS Managers      \* users with inventory.approve_adjustment

ASSUME ManagersAssumption == Managers \subseteq Users /\ Managers # {}   \* the seeded administrator is one

VARIABLES
  stale,     \* <<item, reference>> pairs a sweep has listed and not yet handled
  vetted     \* releases whose ownership check has passed and that have not run yet

holdVars == <<item, ledger, stale, vetted>>

Vettings == [by : Users, items : SUBSET Items, ref : Refs]

HoldsTypeOK ==
  /\ TypeOK
  /\ stale \subseteq Items \X Refs
  /\ vetted \subseteq Vettings

HoldsInit == Init /\ stale = {} /\ vetted = {}

ReleaseLine(r) == [Line EXCEPT !.to = "AVAILABLE", !.claim = r, !.ref = r]

(* A release that is refused writes nothing. *)
ReleaseOrRefuse(S, r) ==
  \/ Release(S, r, FALSE)
  \/ ~(\A i \in S : CanPost("RELEASE_RESERVATION", i, ReleaseLine(r))) /\ UNCHANGED vars

SweepReadOpen ==      \* mutant: lists the holds without an expiry instead
  /\ stale' = stale \union {<<i, item[i].hold.ref>> :
                              i \in {j \in Items : item[j].hold # None /\ item[j].hold.age = "open"}}
  /\ UNCHANGED <<item, ledger, vetted>>

(* The sweep's query.  A slow sweep and the next one may overlap. *)
SweepRead ==
  /\ stale' = stale \union {<<i, item[i].hold.ref>> :
                              i \in {j \in Items : item[j].hold # None /\ item[j].hold.age = "lapsed"}}
  /\ UNCHANGED <<item, ledger, vetted>>

(* One iteration of its loop: released, or skipped because it changed. *)
SweepRelease(i, r) ==
  /\ <<i, r>> \in stale
  /\ stale' = stale \ {<<i, r>>}
  /\ ReleaseOrRefuse({i}, r)
  /\ UNCHANGED vetted

(* inventory.service release: the held pieces must all be one's own. *)
Vet(u, S, r) ==
  /\ u \notin Managers
  /\ \A i \in S : item[i].status = "RESERVED" => item[i].hold # None /\ item[i].hold.by = u
  /\ vetted' = vetted \union {[by |-> u, items |-> S, ref |-> r]}
  /\ UNCHANGED <<item, ledger, stale>>

ReleaseVetted(v) ==
  /\ v \in vetted
  /\ vetted' = vetted \ {v}
  /\ ReleaseOrRefuse(v.items, v.ref)
  /\ UNCHANGED stale

(* A manager is not vetted, and may force. *)
ManagerRelease(u, S, r, force) ==
  /\ u \in Managers
  /\ Release(S, r, force)
  /\ UNCHANGED <<stale, vetted>>

(* The whole life of the ledger goes on around the releases.  Room keeps   *)
(* the model's MaxSeq bound from being what stops one.                     *)
Room == \A i \in Items : item[i].hold # None => item[i].seq < MaxSeq

StockMoves ==
  /\ Next
  /\ Room'
  /\ UNCHANGED <<stale, vetted>>

Release1 ==   \* the three ways a hold is released
  \/ \E i \in Items, r \in Refs : SweepRelease(i, r)
  \/ \E v \in vetted : ReleaseVetted(v)
  \/ \E u \in Managers, S \in (SUBSET Items) \ {{}}, r \in Refs, force \in BOOLEAN : ManagerRelease(u, S, r, force)

HoldsNext ==
  \/ StockMoves
  \/ SweepRead
  \/ \E u \in Users, S \in (SUBSET Items) \ {{}}, r \in Refs : vetted = {} /\ Vet(u, S, r)   \* bound: one vetted release at a time
  \/ Release1

(* setInterval starts a sweep every minute and its loop handles every row. *)
HoldsFairness ==
  /\ WF_holdVars(SweepRead)
  /\ \A i \in Items, r \in Refs : WF_holdVars(SweepRelease(i, r))

HoldsSpec == HoldsInit /\ [][HoldsNext]_holdVars /\ HoldsFairness

-----------------------------------------------------------------------------
Frees(i) == item[i].hold # None /\ item'[i].status = "AVAILABLE"

(* However late the write comes after the look, a release that nobody      *)
(* forces only ever frees a piece held for the very reference it names.    *)
UnforcedReleaseMatchesHolder ==
  [][ \A i \in Items : Frees(i) =>
        \/ LastEntry(i)'.ref = item[i].hold.ref
        \/ \E u \in Managers, S \in SUBSET Items, r \in Refs : ManagerRelease(u, S, r, TRUE) ]_holdVars

(* business-rules 2.4: a hold whose window has passed does not stay.       *)
LapsedHoldEnds ==
  \A i \in Items :
    (item[i].hold # None /\ item[i].hold.age = "lapsed")
      ~> (item[i].hold = None \/ item[i].hold.age # "lapsed")

=============================================================================
