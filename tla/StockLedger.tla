---------------------------- MODULE StockLedger ----------------------------
(***************************************************************************)
(* The stock ledger: one cached record per inventory item, one append-only *)
(* sequence of ledger entries per item, and the single write path          *)
(* (postInSession) through which every operation changes both in one       *)
(* MongoDB transaction.  The transaction reads only the item documents it  *)
(* compare-and-sets, so a committed one is a single step here and an       *)
(* aborted one is no step.                                                 *)
(*                                                                         *)
(* Data is abstracted: `bal` stands for the quantity and the three weights *)
(* of an item, which are edited together by the same line.                 *)
(***************************************************************************)
EXTENDS StockRules, Integers, Sequences

CONSTANTS
  Items,       \* inventory items
  Units,       \* those serialised as UNIT (one piece); the others are BATCH
  Locations,   \* locations, active and inactive
  Active,      \* locations with isActive
  LocType,     \* the type of each location
  Refs,        \* orders, purchase orders and manual references that hold or move stock
  Users,       \* who may place a hold
  None,        \* "undefined" in the source
  MaxSeq,      \* bound: ledger entries per item
  MaxBal       \* bound: what an item can weigh or count

Ages == {"open", "running", "lapsed"}   \* no expiresAt; expiresAt ahead; expiresAt passed

Holds == [ref : Refs, by : Users, age : Ages]

ASSUME ItemsAssumption     == Units \subseteq Items
ASSUME LocationsAssumption == Active \subseteq Locations /\ LocType \in [Locations -> LocationTypes]
ASSUME NoneAssumption      == /\ None \notin Refs \union Users \union Locations
                              /\ None \notin Int \union Statuses \union Holds
ASSUME BoundsAssumption    == MaxSeq \in Nat /\ MaxBal \in Nat

VARIABLES
  item,        \* per item: the cached status, location, balance, ledgerSeq and hold
  ledger       \* per item: its InventoryLedger entries, oldest first

vars == <<item, ledger>>

Absent == [status |-> "ABSENT", loc |-> None, bal |-> 0, seq |-> 0, hold |-> None]

ItemDocs ==
  [ status : Statuses, loc : Locations, bal : 0..MaxBal, seq : 1..MaxSeq,
    hold : Holds \union {None} ]

Entries ==
  [ movement : Movements, seq : 1..MaxSeq, from : Statuses \union {None}, to : Statuses,
    src : Locations \union {None}, dst : Locations, delta : Int, bal : 0..MaxBal,
    ref : Refs \union {None} ]

TypeOK ==
  /\ item \in [Items -> ItemDocs \union {Absent}]
  /\ ledger \in [Items -> Seq(Entries)]

Init ==
  /\ item = [i \in Items |-> Absent]
  /\ ledger = [i \in Items |-> <<>>]

Exists(i) == item[i].status # "ABSENT"

LastEntry(i) == ledger[i][Len(ledger[i])]

-----------------------------------------------------------------------------
(* postInSession.  A line carries the target status (None: keep it), the   *)
(* destination (None: where it is), the reference it claims, the header's  *)
(* reference, who acts, whether the hold may be overridden, the age of a   *)
(* new hold, and an edit (an absolute weight for a UNIT, a delta for a     *)
(* BATCH, None for neither).                                               *)

Line == [to |-> None, dest |-> None, claim |-> None, ref |-> None, by |-> None,
         override |-> FALSE, age |-> "open", edit |-> None]

Target(i, l) == IF l.to = None THEN item[i].status ELSE l.to

Destination(i, l) == IF l.dest = None THEN item[i].loc ELSE l.dest

Balance(i, l) ==
  CASE l.edit = None -> item[i].bal
    [] l.edit # None /\ i \in Units -> l.edit
    [] OTHER -> item[i].bal + l.edit

Holder(i) == IF item[i].hold = None THEN None ELSE item[i].hold.ref

StatusAllowed(m, i, l) ==
  IF m = "ADJUSTMENT"
  THEN Target(i, l) = item[i].status \/ Legal(item[i].status, Target(i, l))
  ELSE Target(i, l) \in AllowedTargets(m, item[i].status) /\ Legal(item[i].status, Target(i, l))

DestinationAllowed(m, l) ==
  IF l.dest = None
  THEN ~NeedsDestination(m)
  ELSE l.dest \in Active /\ LocType[l.dest] \in MovementRules[m].destination

EditAllowed(m, i, l) ==
  /\ l.edit # None => (i \in Units => m = "ADJUSTMENT" /\ l.edit > 0)
  /\ Balance(i, l) \in 0..MaxBal          \* never negative; MaxBal is the model's bound
  /\ m = "ADJUSTMENT" => Target(i, l) # item[i].status \/ l.edit # None

HoldIgnored(i, l) == TRUE     \* mutant: nobody asks who holds it

(* Only the holder's line, or an override, moves a RESERVED item on. *)
HoldHonoured(i, l) ==
  item[i].status = "RESERVED" => l.override \/ Holder(i) = l.claim

HoldAllowed(m, i, l) ==
  IF m = "RESERVATION" THEN i \in Units /\ l.claim # None ELSE HoldHonoured(i, l)

CanPost(m, i, l) ==
  /\ Exists(i)
  /\ item[i].seq < MaxSeq
  /\ StatusAllowed(m, i, l)
  /\ DestinationAllowed(m, l)
  /\ EditAllowed(m, i, l)
  /\ HoldAllowed(m, i, l)

HoldKept(m, i, l) ==     \* mutant: a hold is taken and never cleared
  IF m = "RESERVATION" THEN [ref |-> l.claim, by |-> l.by, age |-> l.age] ELSE item[i].hold

NextHold(m, i, l) ==
  CASE m = "RESERVATION" -> [ref |-> l.claim, by |-> l.by, age |-> l.age]
    [] m # "RESERVATION" /\ item[i].status = "RESERVED" -> None
    [] OTHER -> item[i].hold

PostedSameSeq(m, i, l) ==     \* mutant: the sequence is not advanced
  [ status |-> Target(i, l), loc |-> Destination(i, l), bal |-> Balance(i, l),
    seq |-> item[i].seq, hold |-> NextHold(m, i, l) ]

Posted(m, i, l) ==
  [ status |-> Target(i, l), loc |-> Destination(i, l), bal |-> Balance(i, l),
    seq |-> item[i].seq + 1, hold |-> NextHold(m, i, l) ]

Entry(m, i, l) ==
  [ movement |-> m, seq |-> item[i].seq + 1, from |-> item[i].status, to |-> Target(i, l),
    src |-> item[i].loc, dst |-> Destination(i, l), delta |-> Balance(i, l) - item[i].bal,
    bal |-> Balance(i, l), ref |-> l.ref ]

PostUnledgered(m, S, l) ==     \* mutant: a release writes no entry
  /\ \A i \in S : CanPost(m, i, l)
  /\ item' = [i \in Items |-> IF i \in S THEN Posted(m, i, l) ELSE item[i]]
  /\ ledger' = [i \in Items |-> IF i \in S /\ m # "RELEASE_RESERVATION"
                                THEN Append(ledger[i], Entry(m, i, l)) ELSE ledger[i]]

(* All lines commit or none does. *)
Post(m, S, l) ==
  /\ \A i \in S : CanPost(m, i, l)
  /\ item' = [i \in Items |-> IF i \in S THEN Posted(m, i, l) ELSE item[i]]
  /\ ledger' = [i \in Items |-> IF i \in S THEN Append(ledger[i], Entry(m, i, l)) ELSE ledger[i]]

-----------------------------------------------------------------------------
(* receiveNewInventoryItem: an item and its first entry.  The status comes *)
(* with the new item (the receiving endpoint accepts any).                 *)
Receive(m, i, status, loc, bal) ==
  /\ ~Exists(i)
  /\ MaxSeq >= 1
  /\ MovementRules[m].creates
  /\ loc \in Active
  /\ LocType[loc] \in MovementRules[m].destination
  /\ item' = [item EXCEPT ![i] = [status |-> status, loc |-> loc, bal |-> bal, seq |-> 1, hold |-> None]]
  /\ ledger' = [ledger EXCEPT ![i] = <<[movement |-> m, seq |-> 1, from |-> None, to |-> status,
                                        src |-> None, dst |-> loc, delta |-> bal, bal |-> bal, ref |-> None]>>]

Reserve(S, r, u, age) ==
  Post("RESERVATION", S, [Line EXCEPT !.to = "RESERVED", !.claim = r, !.ref = r, !.by = u, !.age = age])

Release(S, r, force) ==
  Post("RELEASE_RESERVATION", S, [Line EXCEPT !.to = "AVAILABLE", !.claim = r, !.ref = r, !.override = force])

Sell(S, r) ==
  Post("SALE", S, [Line EXCEPT !.to = "SOLD", !.claim = r, !.ref = r])

ReturnSold(S, r, loc) ==
  Post("RETURN", S, [Line EXCEPT !.to = "RETURNED", !.dest = loc, !.ref = r])

Inspect(S, outcome, loc) ==
  Post("RETURN", S, [Line EXCEPT !.to = outcome, !.dest = loc])

PartnerTarget ==
  [ MANUFACTURING_ISSUE |-> "IN_MANUFACTURING", MANUFACTURING_RECEIPT |-> "AVAILABLE",
    JOBWORK_ISSUE |-> "WITH_JOB_WORKER",        JOBWORK_RECEIPT |-> "AVAILABLE",
    REPAIR_OUT |-> "UNDER_REPAIR",              REPAIR_IN |-> "AVAILABLE",
    HALLMARKING_OUT |-> "HALLMARKING",          HALLMARKING_IN |-> "AVAILABLE" ]

MovePartner(m, S, loc) ==
  Post(m, S, [Line EXCEPT !.to = PartnerTarget[m], !.dest = loc])

(* A repaired piece handed back: the repair order picks SOLD (we sold it)  *)
(* or RETURNED_TO_CUSTOMER (it never was ours).                            *)
HandBack(i, to) ==
  Post("REPAIR_RETURN", {i}, [Line EXCEPT !.to = to])

(* The clock passes a hold's expiresAt; nothing is written. *)
HoldLapses(i) ==
  /\ item[i].hold # None
  /\ item[i].hold.age = "running"
  /\ item' = [item EXCEPT ![i].hold.age = "lapsed"]
  /\ UNCHANGED ledger

Next ==
  \/ \E m \in Movements, i \in Items, s \in Statuses, loc \in Locations, b \in 1..MaxBal :
       Receive(m, i, s, loc, b)
  \/ \E S \in (SUBSET Items) \ {{}} :
       \/ \E r \in Refs, u \in Users, age \in {"open", "running"} : Reserve(S, r, u, age)
       \/ \E r \in Refs, force \in BOOLEAN : Release(S, r, force)
       \/ \E r \in Refs : Sell(S, r)
       \/ \E r \in Refs \union {None}, loc \in Locations : ReturnSold(S, r, loc)
       \/ \E outcome \in {"AVAILABLE", "DAMAGED"}, loc \in Locations : Inspect(S, outcome, loc)
       \/ \E m \in DOMAIN PartnerTarget, loc \in Locations : MovePartner(m, S, loc)
  \/ \E i \in Items, to \in {"SOLD", "RETURNED_TO_CUSTOMER"} : HandBack(i, to)
  \/ \E i \in Items : HoldLapses(i)

Spec == Init /\ [][Next]_vars

-----------------------------------------------------------------------------
(* Properties *)

(* Replaying an item's ledger, as replayLedger and reconcileItem do, finds *)
(* no gap, no broken status chain, no balance that is not the previous one *)
(* plus the delta, and ends in exactly the cached item: what the scheduled *)
(* reconcileAll job looks for (reconciliation.ts) is never there.          *)
ChainOK(i) ==
  \A k \in 2..Len(ledger[i]) :
    /\ ledger[i][k].from = ledger[i][k-1].to
    /\ ledger[i][k].src = ledger[i][k-1].dst
    /\ ledger[i][k].bal = ledger[i][k-1].bal + ledger[i][k].delta

CacheOK(i) ==
  /\ Len(ledger[i]) = item[i].seq
  /\ Exists(i) => /\ item[i].seq >= 1
                  /\ item[i].status = LastEntry(i).to
                  /\ item[i].loc = LastEntry(i).dst
                  /\ item[i].bal = LastEntry(i).bal

GapFree(i) == \A k \in 1..Len(ledger[i]) : ledger[i][k].seq = k

Reconciles == \A i \in Items : GapFree(i) /\ ChainOK(i) /\ CacheOK(i)

(* An item is held exactly while the newest line of its ledger is the      *)
(* RESERVATION that took the hold, and for the reference that line names:  *)
(* no other write leaves a hold behind or takes one away silently.         *)
HoldMatchesLedger ==
  \A i \in Items :
    IF Exists(i) /\ LastEntry(i).movement = "RESERVATION"
    THEN item[i].hold # None /\ item[i].hold.ref = LastEntry(i).ref /\ item[i].status = "RESERVED"
    ELSE item[i].hold = None

(* business-rules 2.3: a piece that was held is sold only to the order     *)
(* that held it, over the whole history of the piece.                      *)
SaleHonoursHold ==
  \A i \in Items : \A k \in 2..Len(ledger[i]) :
    (ledger[i][k].movement = "SALE" /\ ledger[i][k-1].movement = "RESERVATION")
      => ledger[i][k].ref = ledger[i][k-1].ref

(* The ledger is append-only, and an item never changes (its hold's age    *)
(* aside, which is the clock's) without exactly one new entry of its own.  *)
EveryChangeIsLedgered ==
  [][ \A i \in Items :
        \/ /\ ledger'[i] = ledger[i]
           /\ \/ item'[i] = item[i]
              \/ item'[i].hold # None /\ item[i] = [item'[i] EXCEPT !.hold.age = item[i].hold.age]
        \/ /\ Len(ledger'[i]) = Len(ledger[i]) + 1
           /\ SubSeq(ledger'[i], 1, Len(ledger[i])) = ledger[i]
           /\ LastEntry(i)'.seq = item'[i].seq ]_vars

(* The abstract custody of a piece, and its specification as a property.   *)
Custody == [i \in Items |-> [status |-> item[i].status, holder |-> Holder(i)]]

Abstract == INSTANCE PieceCustody
              WITH Pieces <- Items, Holders <- Refs, Nobody <- None, custody <- Custody

ImplementsCustody == Abstract!Spec

(* Said of the code, and not kept by it (see the README):                  *)
(* movement-rules.ts:44 and business-rules 2.5: a piece that was sold goes *)
(* back on the shelf only through a RETURN.                                *)
SoldComesBackByReturn ==
  \A i \in Items : \A j \in 1..Len(ledger[i]) :
    (ledger[i][j].movement = "SALE" /\ Exists(i) /\ item[i].status = "AVAILABLE")
      => \E k \in j..Len(ledger[i]) : ledger[i][k].movement = "RETURN"

=============================================================================
