----------------------------- MODULE StockProofs ------------------------------
(* Proofs about the inventory.  First StockLedger: its record and its      *)
(* history agree.  Then StockHolds and StockDocuments, whose every handler *)
(* is a step of the ledger: holds and documents say what the ledger says.  *)
EXTENDS StockDocuments, StockHolds, FiniteSetTheorems, TLAPS

(* The lines the operations write: well-typed; a RESERVATION names its      *)
(* holder and who placed it; a line claims what it refers to or nothing (a  *)
(* SALE always, an ADJUSTMENT never); only a forced release overrides.      *)
Lines ==
  [ to : Statuses \union {None}, dest : Locations \union {None}, claim : Refs \union {None},
    ref : Refs \union {None}, by : Users \union {None}, override : BOOLEAN, age : Ages,
    edit : Int \union {None} ]

ReleasingLine(r, force) == [Line EXCEPT !.to = "AVAILABLE", !.claim = r, !.ref = r, !.override = force]

LineOK(m, l) ==
  /\ m \in Movements
  /\ l \in Lines
  /\ l.claim \in {None, l.ref}
  /\ l.override => /\ m = "RELEASE_RESERVATION"
                   /\ l.ref \in Refs /\ l = ReleasingLine(l.ref, TRUE)
  /\ m = "RESERVATION" => l.to = "RESERVED" /\ l.claim = l.ref /\ l.ref \in Refs /\ l.by \in Users
  /\ m = "SALE" => l.claim = l.ref
  /\ m = "ADJUSTMENT" => l.claim = None

LEMMA StatusNames ==
  /\ "ABSENT" \notin Statuses
  /\ {"AVAILABLE", "RESERVED", "SOLD", "RETURNED", "DAMAGED", "IN_MANUFACTURING", "WITH_JOB_WORKER",
      "UNDER_REPAIR", "HALLMARKING", "RETURNED_TO_CUSTOMER"} \subseteq Statuses
BY DEF Statuses, LegalTransitions

LEMMA MovementNames ==
  {"RESERVATION", "RELEASE_RESERVATION", "SALE", "RETURN", "REPAIR_RETURN", "MANUFACTURING_ISSUE",
   "MANUFACTURING_RECEIPT", "JOBWORK_ISSUE", "JOBWORK_RECEIPT", "REPAIR_OUT", "REPAIR_IN",
   "HALLMARKING_OUT", "HALLMARKING_IN"} \subseteq Movements
BY DEF Movements, MovementRules, Rule

-----------------------------------------------------------------------------
(* Every step is a posting, a receipt or the clock. *)

PostStep == \E m \in Movements, S \in SUBSET Items, l \in Lines : LineOK(m, l) /\ Post(m, S, l)

ReceiveStep ==
  \E m \in Movements, i \in Items, s \in Statuses, loc \in Locations, b \in 1..MaxBal : Receive(m, i, s, loc, b)

LapseStep == \E i \in Items : HoldLapses(i)

(* What any module built on the ledger may do to it. *)
LedgerStep == PostStep \/ ReceiveStep \/ LapseStep \/ UNCHANGED vars

LEMMA LineType == Line \in Lines
BY DEF Line, Lines, Ages

LEMMA ReleaseIsPosted ==
  ASSUME NEW S \in SUBSET Items, NEW r \in Refs, NEW force \in BOOLEAN, Release(S, r, force)
  PROVE  /\ LineOK("RELEASE_RESERVATION", ReleasingLine(r, force))
         /\ Post("RELEASE_RESERVATION", S, ReleasingLine(r, force))
         /\ PostStep
<1>1. LineOK("RELEASE_RESERVATION", ReleasingLine(r, force))
  BY LineType, StatusNames, MovementNames DEF LineOK, Lines, Line, Ages, ReleasingLine
<1>2. Post("RELEASE_RESERVATION", S, ReleasingLine(r, force))
  BY DEF Release, ReleasingLine
<1> QED BY <1>1, <1>2 DEF PostStep, LineOK

LEMMA StepCases == Next => PostStep \/ ReceiveStep \/ LapseStep
<1> SUFFICES ASSUME Next PROVE PostStep \/ ReceiveStep \/ LapseStep
  OBVIOUS
<1> USE LineType, StatusNames, MovementNames
<1>1. CASE \E m \in Movements, i \in Items, s \in Statuses, loc \in Locations, b \in 1..MaxBal : Receive(m, i, s, loc, b)
  BY <1>1 DEF ReceiveStep
<1>2. ASSUME NEW S \in (SUBSET Items) \ {{}}, NEW r \in Refs, NEW u \in Users, NEW age \in {"open", "running"}, Reserve(S, r, u, age)
      PROVE  PostStep
  <2> DEFINE l == [Line EXCEPT !.to = "RESERVED", !.claim = r, !.ref = r, !.by = u, !.age = age]
  <2>1. LineOK("RESERVATION", l)
    BY <1>2 DEF LineOK, Lines, Line, Ages
  <2> QED BY <1>2, <2>1 DEF PostStep, Reserve, LineOK
<1>3. ASSUME NEW S \in (SUBSET Items) \ {{}}, NEW r \in Refs, NEW force \in BOOLEAN, Release(S, r, force)
      PROVE  PostStep
  BY <1>3, ReleaseIsPosted
<1>4. ASSUME NEW S \in (SUBSET Items) \ {{}}, NEW r \in Refs, Sell(S, r)
      PROVE  PostStep
  <2> DEFINE l == [Line EXCEPT !.to = "SOLD", !.claim = r, !.ref = r]
  <2>1. LineOK("SALE", l)
    BY <1>4 DEF LineOK, Lines, Line, Ages
  <2> QED BY <1>4, <2>1 DEF PostStep, Sell, LineOK
<1>5. ASSUME NEW S \in (SUBSET Items) \ {{}}, NEW r \in Refs \union {None}, NEW loc \in Locations, ReturnSold(S, r, loc)
      PROVE  PostStep
  <2> DEFINE l == [Line EXCEPT !.to = "RETURNED", !.dest = loc, !.ref = r]
  <2>1. LineOK("RETURN", l)
    BY <1>5 DEF LineOK, Lines, Line, Ages
  <2> QED BY <1>5, <2>1 DEF PostStep, ReturnSold, LineOK
<1>6. ASSUME NEW S \in (SUBSET Items) \ {{}}, NEW outcome \in {"AVAILABLE", "DAMAGED"}, NEW loc \in Locations, Inspect(S, outcome, loc)
      PROVE  PostStep
  <2> DEFINE l == [Line EXCEPT !.to = outcome, !.dest = loc]
  <2>1. LineOK("RETURN", l)
    BY <1>6 DEF LineOK, Lines, Line, Ages
  <2> QED BY <1>6, <2>1 DEF PostStep, Inspect, LineOK
<1>7. ASSUME NEW S \in (SUBSET Items) \ {{}}, NEW m \in DOMAIN PartnerTarget, NEW loc \in Locations, MovePartner(m, S, loc)
      PROVE  PostStep
  <2> DEFINE l == [Line EXCEPT !.to = PartnerTarget[m], !.dest = loc]
  <2>1. m \in Movements /\ m \notin {"RESERVATION", "SALE", "ADJUSTMENT"} /\ PartnerTarget[m] \in Statuses
    BY DEF PartnerTarget
  <2>2. LineOK(m, l)
    BY <2>1 DEF LineOK, Lines, Line, Ages
  <2> QED BY <1>7, <2>2 DEF PostStep, MovePartner, LineOK
<1>8. ASSUME NEW i \in Items, NEW to \in {"SOLD", "RETURNED_TO_CUSTOMER"}, HandBack(i, to)
      PROVE  PostStep
  <2> DEFINE l == [Line EXCEPT !.to = to]
  <2>1. LineOK("REPAIR_RETURN", l)
    BY <1>8 DEF LineOK, Lines, Line, Ages
  <2> QED BY <1>8, <2>1 DEF PostStep, HandBack, LineOK
<1>9. CASE \E i \in Items : HoldLapses(i)
  BY <1>9 DEF LapseStep
<1> QED BY <1>1, <1>2, <1>3, <1>4, <1>5, <1>6, <1>7, <1>8, <1>9 DEF Next

-----------------------------------------------------------------------------
(* Type correctness *)

LEMMA PostTypes ==
  ASSUME TypeOK, NEW m, NEW S \in SUBSET Items, NEW l, LineOK(m, l), Post(m, S, l), NEW i \in S
  PROVE  /\ item[i] \in ItemDocs
         /\ Posted(m, i, l) \in ItemDocs
         /\ Entry(m, i, l) \in Entries
<1> USE StatusNames
<1>1. CanPost(m, i, l) /\ i \in Items
  BY DEF Post
<1>2. item[i] \in ItemDocs
  BY <1>1 DEF TypeOK, CanPost, Exists, Absent
<1>3. Target(i, l) \in Statuses
  BY <1>2 DEF Target, LineOK, Lines, ItemDocs
<1>4. Destination(i, l) \in Locations
  BY <1>2 DEF Destination, LineOK, Lines, ItemDocs
<1>5. Balance(i, l) \in 0..MaxBal
  BY <1>1 DEF CanPost, EditAllowed
<1>6. item[i].seq + 1 \in 1..MaxSeq
  BY <1>1, <1>2, BoundsAssumption DEF CanPost, ItemDocs
<1>7. NextHold(m, i, l) \in Holds \union {None}
  BY <1>2 DEF NextHold, LineOK, Lines, Holds, ItemDocs
<1>8. Posted(m, i, l) \in ItemDocs
  BY <1>3, <1>4, <1>5, <1>6, <1>7 DEF Posted, ItemDocs
<1>9. Balance(i, l) - item[i].bal \in Int
  BY <1>2, <1>5, BoundsAssumption DEF ItemDocs
<1>10. /\ item[i].status \in Statuses /\ item[i].loc \in Locations /\ m \in Movements
       /\ l.ref \in Refs \union {None}
  BY <1>2 DEF ItemDocs, LineOK, Lines
<1>11. Entry(m, i, l) \in Entries
  BY <1>3, <1>4, <1>5, <1>6, <1>9, <1>10 DEF Entry, Entries
<1> QED BY <1>2, <1>8, <1>11

(* The type invariant holds for every choice of items, references, users,  *)
(* locations and bounds.                                                    *)
LEMMA InitTypes == Init => TypeOK
BY DEF Init, TypeOK

LEMMA StepTypes == TypeOK /\ LedgerStep => TypeOK'
<1> SUFFICES ASSUME TypeOK, LedgerStep PROVE TypeOK'
  OBVIOUS
<1>1. CASE PostStep
  <2>1. PICK m \in Movements, S \in SUBSET Items, l \in Lines : LineOK(m, l) /\ Post(m, S, l)
    BY <1>1 DEF PostStep
  <2>2. item' \in [Items -> ItemDocs \union {Absent}]
    <3>1. \A i \in Items : (IF i \in S THEN Posted(m, i, l) ELSE item[i]) \in ItemDocs \union {Absent}
      BY <2>1, PostTypes DEF TypeOK
    <3> QED BY <2>1, <3>1 DEF Post
  <2>3. ledger' \in [Items -> Seq(Entries)]
    <3>1. \A i \in Items : (IF i \in S THEN Append(ledger[i], Entry(m, i, l)) ELSE ledger[i]) \in Seq(Entries)
      <4> SUFFICES ASSUME NEW i \in Items
                   PROVE  (IF i \in S THEN Append(ledger[i], Entry(m, i, l)) ELSE ledger[i]) \in Seq(Entries)
        OBVIOUS
      <4>1. ledger[i] \in Seq(Entries)
        BY DEF TypeOK
      <4>2. i \in S => Entry(m, i, l) \in Entries
        BY <2>1, PostTypes
      <4> QED BY <4>1, <4>2
    <3> QED BY <2>1, <3>1 DEF Post
  <2> QED BY <2>2, <2>3 DEF TypeOK
<1>2. CASE ReceiveStep
  <2>1. PICK m \in Movements, i \in Items, s \in Statuses, loc \in Locations, b \in 1..MaxBal : Receive(m, i, s, loc, b)
    BY <1>2 DEF ReceiveStep
  <2> DEFINE doc == [status |-> s, loc |-> loc, bal |-> b, seq |-> 1, hold |-> None]
             entry == [movement |-> m, seq |-> 1, from |-> None, to |-> s, src |-> None, dst |-> loc,
                       delta |-> b, bal |-> b, ref |-> None]
  <2>2. b \in 0..MaxBal /\ b \in Int /\ 1 \in 1..MaxSeq
    BY <2>1, BoundsAssumption DEF Receive
  <2>3. doc \in ItemDocs /\ entry \in Entries
    BY <2>2 DEF ItemDocs, Entries
  <2>4. item' = [item EXCEPT ![i] = doc] /\ ledger' = [ledger EXCEPT ![i] = <<entry>>]
    BY <2>1 DEF Receive
  <2>5. <<entry>> \in Seq(Entries)
    BY <2>3
  <2> HIDE DEF doc, entry
  <2> QED BY <2>3, <2>4, <2>5 DEF TypeOK
<1>3. CASE LapseStep
  <2>1. PICK i \in Items : HoldLapses(i)
    BY <1>3 DEF LapseStep
  <2>2. item[i] \in ItemDocs /\ item[i].hold \in Holds
    BY <2>1 DEF HoldLapses, TypeOK, Absent, ItemDocs
  <2>3. [item[i] EXCEPT !.hold.age = "lapsed"] \in ItemDocs
    BY <2>2 DEF ItemDocs, Holds, Ages
  <2>4. item' = [item EXCEPT ![i] = [item[i] EXCEPT !.hold.age = "lapsed"]] /\ UNCHANGED ledger
    BY <2>1 DEF HoldLapses, TypeOK
  <2> QED BY <2>3, <2>4 DEF TypeOK
<1>4. CASE UNCHANGED vars
  BY <1>4 DEF vars, TypeOK
<1> QED BY <1>1, <1>2, <1>3, <1>4 DEF LedgerStep

LEMMA NextTypes == TypeOK /\ [Next]_vars => TypeOK'
BY StepTypes, StepCases DEF LedgerStep

THEOREM TypesHold == Spec => []TypeOK
BY InitTypes, NextTypes, PTL DEF Spec

-----------------------------------------------------------------------------
(* What a posting and a receipt do to one item and its ledger. *)

LEMMA PostFrame ==
  ASSUME TypeOK, NEW m, NEW S \in SUBSET Items, NEW l, LineOK(m, l), Post(m, S, l)
  PROVE  /\ \A i \in Items \ S : item'[i] = item[i] /\ ledger'[i] = ledger[i]
         /\ \A i \in S :
              /\ CanPost(m, i, l)
              /\ item[i] \in ItemDocs
              /\ item'[i] = Posted(m, i, l)
              /\ Len(ledger'[i]) = Len(ledger[i]) + 1
              /\ \A k \in 1..Len(ledger[i]) : ledger'[i][k] = ledger[i][k]
              /\ ledger'[i][Len(ledger[i]) + 1] = Entry(m, i, l)
              /\ Len(ledger[i]) \in Nat
<1>1. \A i \in Items \ S : item'[i] = item[i] /\ ledger'[i] = ledger[i]
  BY DEF Post
<1>2. ASSUME NEW i \in S
      PROVE  /\ CanPost(m, i, l)
             /\ item[i] \in ItemDocs
             /\ item'[i] = Posted(m, i, l)
             /\ Len(ledger'[i]) = Len(ledger[i]) + 1
             /\ \A k \in 1..Len(ledger[i]) : ledger'[i][k] = ledger[i][k]
             /\ ledger'[i][Len(ledger[i]) + 1] = Entry(m, i, l)
             /\ Len(ledger[i]) \in Nat
  <2>1. item[i] \in ItemDocs /\ Entry(m, i, l) \in Entries
    BY PostTypes
  <2>2. /\ CanPost(m, i, l)
        /\ item'[i] = Posted(m, i, l)
        /\ ledger'[i] = Append(ledger[i], Entry(m, i, l))
    BY DEF Post
  <2>3. ledger[i] \in Seq(Entries)
    BY DEF TypeOK
  <2> QED BY <2>1, <2>2, <2>3
<1> QED BY <1>1, <1>2

(* The newest entry of an item's ledger, whose number and contents the     *)
(* cache repeats.                                                          *)
LEMMA Newest ==
  ASSUME TypeOK, Reconciles, NEW i \in Items, Exists(i)
  PROVE  /\ item[i].seq = Len(ledger[i])
         /\ Len(ledger[i]) \in Nat
         /\ Len(ledger[i]) >= 1
         /\ LastEntry(i) = ledger[i][Len(ledger[i])]
         /\ item[i].status = LastEntry(i).to
         /\ item[i].loc = LastEntry(i).dst
         /\ item[i].bal = LastEntry(i).bal
         /\ item[i].bal \in Int
<1>1. ledger[i] \in Seq(Entries) /\ item[i] \in ItemDocs
  BY StatusNames DEF TypeOK, Exists, Absent
<1>2. item[i].bal \in Int
  BY <1>1, BoundsAssumption DEF ItemDocs
<1> QED BY <1>1, <1>2 DEF Reconciles, CacheOK, LastEntry

-----------------------------------------------------------------------------
(* The cache is what replaying the ledger finds. *)

LEMMA PostReconciles ==
  ASSUME TypeOK, Reconciles, NEW m, NEW S \in SUBSET Items, NEW l, LineOK(m, l), Post(m, S, l)
  PROVE  Reconciles'
<1> SUFFICES ASSUME NEW i \in Items PROVE GapFree(i)' /\ ChainOK(i)' /\ CacheOK(i)'
  BY DEF Reconciles
<1>1. GapFree(i) /\ ChainOK(i) /\ CacheOK(i)
  BY DEF Reconciles
<1>2. CASE i \notin S
  <2>1. item'[i] = item[i] /\ ledger'[i] = ledger[i]
    BY <1>2, PostFrame
  <2> QED BY <1>1, <2>1 DEF GapFree, ChainOK, CacheOK, Exists, LastEntry
<1>3. CASE i \in S
  <2> DEFINE n == Len(ledger[i])
             e == Entry(m, i, l)
  <2>1. /\ Len(ledger'[i]) = n + 1
        /\ \A k \in 1..n : ledger'[i][k] = ledger[i][k]
        /\ ledger'[i][n + 1] = e
        /\ item'[i] = Posted(m, i, l)
        /\ CanPost(m, i, l)
        /\ n \in Nat
    <3> HIDE DEF e
    <3> QED BY <1>3, PostFrame, ZenonT(40) DEF e
  <2>a. Exists(i) /\ Balance(i, l) \in Int
    BY <2>1, BoundsAssumption DEF CanPost, EditAllowed
  <2>2. /\ item[i].seq = n
        /\ n >= 1
        /\ item[i].status = ledger[i][n].to
        /\ item[i].loc = ledger[i][n].dst
        /\ item[i].bal = ledger[i][n].bal
        /\ item[i].bal \in Int
    BY <2>a, Newest
  <2>3. /\ e.seq = n + 1 /\ e.from = ledger[i][n].to /\ e.src = ledger[i][n].dst
        /\ e.to = item'[i].status /\ e.dst = item'[i].loc /\ e.bal = item'[i].bal
        /\ item'[i].seq = n + 1
        /\ e.bal = ledger[i][n].bal + e.delta
    BY <2>1, <2>2, <2>a DEF Entry, Posted
  <2> HIDE DEF n, e
  <2>4. GapFree(i)'
    <3> SUFFICES ASSUME NEW k \in 1..(n + 1) PROVE ledger'[i][k].seq = k
      BY <2>1 DEF GapFree
    <3>1. CASE k = n + 1
      BY <2>1, <2>3, <3>1
    <3>2. CASE k # n + 1
      <4>1. k \in 1..n
        BY <2>1, <3>2
      <4> QED BY <1>1, <2>1, <4>1 DEF GapFree, n
    <3> QED BY <3>1, <3>2
  <2>5. ChainOK(i)'
    <3> SUFFICES ASSUME NEW k \in 2..(n + 1)
                 PROVE  /\ ledger'[i][k].from = ledger'[i][k-1].to
                        /\ ledger'[i][k].src = ledger'[i][k-1].dst
                        /\ ledger'[i][k].bal = ledger'[i][k-1].bal + ledger'[i][k].delta
      BY <2>1 DEF ChainOK
    <3>1. CASE k = n + 1
      <4>1. k - 1 = n /\ n \in 1..n
        BY <2>1, <2>2, <3>1
      <4>2. ledger'[i][k - 1] = ledger[i][n] /\ ledger'[i][k] = e
        BY <2>1, <3>1, <4>1
      <4> QED BY <2>3, <4>2
    <3>2. CASE k # n + 1
      <4>1. k \in 2..n /\ k \in 1..n /\ k - 1 \in 1..n
        BY <2>1, <3>2
      <4>2. ledger'[i][k - 1] = ledger[i][k - 1] /\ ledger'[i][k] = ledger[i][k]
        BY <2>1, <4>1
      <4> QED BY <1>1, <4>1, <4>2 DEF ChainOK, n
    <3> QED BY <3>1, <3>2
  <2>6. CacheOK(i)'
    BY <2>1, <2>2, <2>3 DEF CacheOK, LastEntry
  <2> QED BY <2>4, <2>5, <2>6
<1> QED BY <1>2, <1>3

LEMMA ReceiveFrame ==
  ASSUME TypeOK, NEW m, NEW i \in Items, NEW s, NEW loc, NEW b, Receive(m, i, s, loc, b)
  PROVE  /\ ~Exists(i)
         /\ \A j \in Items \ {i} : item'[j] = item[j] /\ ledger'[j] = ledger[j]
         /\ item'[i] = [status |-> s, loc |-> loc, bal |-> b, seq |-> 1, hold |-> None]
         /\ Len(ledger'[i]) = 1
         /\ ledger'[i][1] = [movement |-> m, seq |-> 1, from |-> None, to |-> s, src |-> None,
                             dst |-> loc, delta |-> b, bal |-> b, ref |-> None]
         /\ MovementRules[m].creates
BY DEF Receive, TypeOK

LEMMA ReceiveReconciles ==
  ASSUME TypeOK, Reconciles, NEW m, NEW i \in Items, NEW s, NEW loc, NEW b, Receive(m, i, s, loc, b)
  PROVE  Reconciles'
<1> SUFFICES ASSUME NEW j \in Items PROVE GapFree(j)' /\ ChainOK(j)' /\ CacheOK(j)'
  BY DEF Reconciles
<1>1. CASE j # i
  <2>1. item'[j] = item[j] /\ ledger'[j] = ledger[j]
    BY <1>1, ReceiveFrame
  <2>2. GapFree(j) /\ ChainOK(j) /\ CacheOK(j)
    BY DEF Reconciles
  <2> QED BY <2>1, <2>2 DEF GapFree, ChainOK, CacheOK, Exists, LastEntry
<1>2. CASE j = i
  <2>1. /\ item'[j].seq = 1 /\ Len(ledger'[j]) = 1 /\ ledger'[j][1].seq = 1
        /\ item'[j].status = ledger'[j][1].to /\ item'[j].loc = ledger'[j][1].dst
        /\ item'[j].bal = ledger'[j][1].bal
    <3>1. /\ item'[i] = [status |-> s, loc |-> loc, bal |-> b, seq |-> 1, hold |-> None]
          /\ Len(ledger'[i]) = 1
          /\ ledger'[i][1] = [movement |-> m, seq |-> 1, from |-> None, to |-> s, src |-> None,
                              dst |-> loc, delta |-> b, bal |-> b, ref |-> None]
      BY ReceiveFrame
    <3> QED BY <1>2, <3>1
  <2> QED BY <2>1 DEF GapFree, ChainOK, CacheOK, LastEntry
<1> QED BY <1>1, <1>2

LEMMA LapseFrame ==
  ASSUME TypeOK, NEW i \in Items, HoldLapses(i)
  PROVE  /\ ledger' = ledger
         /\ \A j \in Items : /\ item'[j].status = item[j].status /\ item'[j].loc = item[j].loc
                             /\ item'[j].bal = item[j].bal /\ item'[j].seq = item[j].seq
                             /\ item[j].hold = None <=> item'[j].hold = None
                             /\ item[j].hold # None => item'[j].hold.ref = item[j].hold.ref
<1>1. item[i] \in ItemDocs /\ item[i].hold \in Holds
  BY DEF HoldLapses, TypeOK, Absent, ItemDocs
<1> DEFINE aged == [ref |-> item[i].hold.ref, by |-> item[i].hold.by, age |-> "lapsed"]
           doc == [status |-> item[i].status, loc |-> item[i].loc, bal |-> item[i].bal,
                   seq |-> item[i].seq, hold |-> aged]
<1>2. aged \in Holds /\ aged # None
  BY <1>1, NoneAssumption DEF Holds, Ages
<1>3. [item[i] EXCEPT !.hold.age = "lapsed"] = doc
  BY <1>1 DEF ItemDocs, Holds
<1>4. item' = [item EXCEPT ![i] = doc] /\ ledger' = ledger
  BY <1>3 DEF HoldLapses
<1>5. item[i].hold # None
  BY DEF HoldLapses
<1>6. aged.ref = item[i].hold.ref
  OBVIOUS
<1> HIDE DEF aged
<1>7. ASSUME NEW j \in Items
      PROVE  /\ item'[j].status = item[j].status /\ item'[j].loc = item[j].loc
             /\ item'[j].bal = item[j].bal /\ item'[j].seq = item[j].seq
             /\ item[j].hold = None <=> item'[j].hold = None
             /\ item[j].hold # None => item'[j].hold.ref = item[j].hold.ref
  <2>1. CASE j = i
    <3>1. item'[j] = doc
      BY <1>4, <2>1 DEF TypeOK
    <3> QED BY <1>2, <1>5, <1>6, <2>1, <3>1
  <2>2. CASE j # i
    BY <1>4, <2>2 DEF TypeOK
  <2> QED BY <2>1, <2>2
<1> QED BY <1>4, <1>7

LEMMA LapseReconciles ==
  ASSUME TypeOK, Reconciles, NEW i \in Items, HoldLapses(i)
  PROVE  Reconciles'
<1> SUFFICES ASSUME NEW j \in Items PROVE GapFree(j)' /\ ChainOK(j)' /\ CacheOK(j)'
  BY DEF Reconciles
<1>1. /\ ledger' = ledger
      /\ item'[j].status = item[j].status /\ item'[j].loc = item[j].loc
      /\ item'[j].bal = item[j].bal /\ item'[j].seq = item[j].seq
  BY LapseFrame
<1>2. GapFree(j) /\ ChainOK(j) /\ CacheOK(j)
  BY DEF Reconciles
<1> QED BY <1>1, <1>2 DEF GapFree, ChainOK, CacheOK, Exists, LastEntry

-----------------------------------------------------------------------------
(* A hold is what the newest ledger entry says. *)

LEMMA ReservationRule ==
  \A from : "RESERVED" \in AllowedTargets("RESERVATION", from) => from = "AVAILABLE"
BY DEF AllowedTargets, MovementRules, Rule

LEMMA CreatingRules == \A m \in Movements : MovementRules[m].creates => m \notin {"RESERVATION", "SALE"}
BY DEF Movements, MovementRules, Rule

(* The hold a posting leaves on an item: the one it takes, or none. *)
LEMMA HoldAfterPost ==
  ASSUME TypeOK, Reconciles, HoldMatchesLedger,
         NEW m, NEW l, LineOK(m, l), NEW i \in Items, CanPost(m, i, l)
  PROVE  /\ m = "RESERVATION" => /\ item[i].status = "AVAILABLE" /\ item[i].hold = None
                                 /\ Target(i, l) = "RESERVED"
                                 /\ NextHold(m, i, l) # None /\ NextHold(m, i, l).ref = l.ref
         /\ m # "RESERVATION" => NextHold(m, i, l) = None
<1>1. Exists(i)
  BY DEF CanPost
<1>2. CASE m = "RESERVATION"
  <2>1. l.to = "RESERVED" /\ l.claim = l.ref /\ l.claim \in Refs /\ l.by \in Users /\ l.age \in Ages
    BY <1>2 DEF LineOK, Lines
  <2>2. Target(i, l) = "RESERVED"
    BY <2>1, StatusNames, NoneAssumption DEF Target
  <2>3. item[i].status = "AVAILABLE"
    BY <1>2, <2>2, ReservationRule DEF CanPost, StatusAllowed
  <2>4. item[i].hold = None
    BY <1>1, <2>3 DEF HoldMatchesLedger
  <2>5. NextHold(m, i, l) = [ref |-> l.claim, by |-> l.by, age |-> l.age]
    BY <1>2 DEF NextHold
  <2>6. [ref |-> l.claim, by |-> l.by, age |-> l.age] \in Holds
    BY <2>1 DEF Holds
  <2> QED BY <1>2, <2>1, <2>2, <2>3, <2>4, <2>5, <2>6, NoneAssumption
<1>3. CASE m # "RESERVATION"
  <2>1. CASE item[i].status = "RESERVED"
    BY <1>3, <2>1 DEF NextHold
  <2>2. CASE item[i].status # "RESERVED"
    BY <1>1, <1>3, <2>2 DEF NextHold, HoldMatchesLedger
  <2> QED BY <2>1, <2>2
<1> QED BY <1>2, <1>3

LEMMA PostHolds ==
  ASSUME TypeOK, Reconciles, HoldMatchesLedger,
         NEW m, NEW S \in SUBSET Items, NEW l, LineOK(m, l), Post(m, S, l)
  PROVE  HoldMatchesLedger'
<1> SUFFICES ASSUME NEW i \in Items
             PROVE  IF Exists(i)' /\ LastEntry(i)'.movement = "RESERVATION"
                    THEN item'[i].hold # None /\ item'[i].hold.ref = LastEntry(i)'.ref /\ item'[i].status = "RESERVED"
                    ELSE item'[i].hold = None
  BY DEF HoldMatchesLedger
<1>1. CASE i \notin S
  <2>1. item'[i] = item[i] /\ ledger'[i] = ledger[i]
    BY <1>1, PostFrame
  <2> QED BY <2>1 DEF HoldMatchesLedger, Exists, LastEntry
<1>2. CASE i \in S
  <2>1. /\ CanPost(m, i, l)
        /\ item'[i] = Posted(m, i, l)
        /\ Len(ledger'[i]) = Len(ledger[i]) + 1
        /\ ledger'[i][Len(ledger[i]) + 1] = Entry(m, i, l)
    BY <1>2, PostFrame, ZenonT(40)
  <2>2. /\ item'[i].status = Target(i, l) /\ item'[i].hold = NextHold(m, i, l)
        /\ LastEntry(i)' = Entry(m, i, l)
    BY <2>1 DEF Posted, LastEntry
  <2>3. Entry(m, i, l).movement = m /\ Entry(m, i, l).ref = l.ref
    BY DEF Entry
  <2>4. /\ m = "RESERVATION" => /\ Target(i, l) = "RESERVED"
                                /\ NextHold(m, i, l) # None /\ NextHold(m, i, l).ref = l.ref
        /\ m # "RESERVATION" => NextHold(m, i, l) = None
    BY <2>1, HoldAfterPost
  <2>5. m = "RESERVATION" => Exists(i)'
    BY <2>2, <2>4 DEF Exists
  <2> QED BY <2>2, <2>3, <2>4, <2>5
<1> QED BY <1>1, <1>2

LEMMA ReceiveHolds ==
  ASSUME TypeOK, HoldMatchesLedger, NEW m \in Movements, NEW i \in Items, NEW s, NEW loc, NEW b,
         Receive(m, i, s, loc, b)
  PROVE  HoldMatchesLedger'
<1> SUFFICES ASSUME NEW j \in Items
             PROVE  IF Exists(j)' /\ LastEntry(j)'.movement = "RESERVATION"
                    THEN item'[j].hold # None /\ item'[j].hold.ref = LastEntry(j)'.ref /\ item'[j].status = "RESERVED"
                    ELSE item'[j].hold = None
  BY DEF HoldMatchesLedger
<1>1. CASE j # i
  <2>1. item'[j] = item[j] /\ ledger'[j] = ledger[j]
    BY <1>1, ReceiveFrame
  <2> QED BY <2>1 DEF HoldMatchesLedger, Exists, LastEntry
<1>2. CASE j = i
  <2>1. /\ item'[i] = [status |-> s, loc |-> loc, bal |-> b, seq |-> 1, hold |-> None]
        /\ Len(ledger'[i]) = 1
        /\ ledger'[i][1] = [movement |-> m, seq |-> 1, from |-> None, to |-> s, src |-> None,
                            dst |-> loc, delta |-> b, bal |-> b, ref |-> None]
        /\ MovementRules[m].creates
    BY ReceiveFrame
  <2>2. item'[i].hold = None /\ LastEntry(i)'.movement = m
    BY <2>1 DEF LastEntry
  <2>3. m # "RESERVATION"
    BY <2>1, CreatingRules
  <2> QED BY <1>2, <2>2, <2>3
<1> QED BY <1>1, <1>2

LEMMA LapseHolds ==
  ASSUME TypeOK, HoldMatchesLedger, NEW i \in Items, HoldLapses(i)
  PROVE  HoldMatchesLedger'
<1> SUFFICES ASSUME NEW j \in Items
             PROVE  IF Exists(j)' /\ LastEntry(j)'.movement = "RESERVATION"
                    THEN item'[j].hold # None /\ item'[j].hold.ref = LastEntry(j)'.ref /\ item'[j].status = "RESERVED"
                    ELSE item'[j].hold = None
  BY DEF HoldMatchesLedger
<1>1. /\ ledger' = ledger
      /\ item'[j].status = item[j].status
      /\ item[j].hold = None <=> item'[j].hold = None
      /\ item[j].hold # None => item'[j].hold.ref = item[j].hold.ref
  BY LapseFrame
<1> QED BY <1>1 DEF HoldMatchesLedger, Exists, LastEntry

-----------------------------------------------------------------------------
(* A sale that follows a reservation is to the reference that reserved. *)

LEMMA PostSales ==
  ASSUME TypeOK, Reconciles, HoldMatchesLedger, SaleHonoursHold,
         NEW m, NEW S \in SUBSET Items, NEW l, LineOK(m, l), Post(m, S, l)
  PROVE  SaleHonoursHold'
<1>0. \A x \in S : /\ CanPost(m, x, l)
                   /\ Len(ledger[x]) \in Nat
                   /\ Len(ledger'[x]) = Len(ledger[x]) + 1
                   /\ \A j \in 1..Len(ledger[x]) : ledger'[x][j] = ledger[x][j]
                   /\ ledger'[x][Len(ledger[x]) + 1] = Entry(m, x, l)
  BY PostFrame, ZenonT(40)
<1> SUFFICES ASSUME NEW i \in Items, NEW k \in 2..Len(ledger'[i]),
                    ledger'[i][k].movement = "SALE", ledger'[i][k-1].movement = "RESERVATION"
             PROVE  ledger'[i][k].ref = ledger'[i][k-1].ref
  BY DEF SaleHonoursHold
<1>1. CASE i \notin S
  <2>1. ledger'[i] = ledger[i]
    BY <1>1, PostFrame
  <2> QED BY <2>1 DEF SaleHonoursHold
<1>2. CASE i \in S
  <2> DEFINE n == Len(ledger[i])
             e == Entry(m, i, l)
  <2>1. /\ CanPost(m, i, l)
        /\ n \in Nat
        /\ Len(ledger'[i]) = n + 1
        /\ \A j \in 1..n : ledger'[i][j] = ledger[i][j]
        /\ ledger'[i][n + 1] = e
    BY <1>2, <1>0
  <2>2. /\ n >= 1
        /\ LastEntry(i) = ledger[i][n]
        /\ Exists(i)
        /\ item[i].status = LastEntry(i).to
    BY <2>1, Newest DEF CanPost
  <2>3. e.movement = m /\ e.ref = l.ref
    BY DEF Entry
  <2> HIDE DEF n, e
  <2>4. CASE k # n + 1
    <3>1. k \in 2..n /\ k \in 1..n /\ k - 1 \in 1..n
      BY <2>1, <2>4
    <3>2. ledger'[i][k] = ledger[i][k] /\ ledger'[i][k-1] = ledger[i][k-1]
      BY <2>1, <3>1
    <3> QED BY <3>1, <3>2 DEF SaleHonoursHold, n
  <2>5. CASE k = n + 1
    <3>1. k - 1 = n /\ n \in 1..n
      BY <2>1, <2>2, <2>5
    <3>2. ledger'[i][k] = e /\ ledger'[i][k-1] = ledger[i][n]
      BY <2>1, <2>5, <3>1
    <3>3. m = "SALE" /\ LastEntry(i).movement = "RESERVATION"
      BY <2>2, <2>3, <3>2
    <3>4. item[i].hold # None /\ item[i].hold.ref = LastEntry(i).ref /\ item[i].status = "RESERVED"
      BY <2>2, <3>3 DEF HoldMatchesLedger
    <3>5. Holder(i) = l.claim
      BY <2>1, <3>3, <3>4 DEF CanPost, HoldAllowed, HoldHonoured, LineOK
    <3>6. l.claim = l.ref
      BY <3>3 DEF LineOK
    <3> QED BY <2>2, <2>3, <3>2, <3>4, <3>5, <3>6 DEF Holder
  <2> QED BY <2>4, <2>5
<1> QED BY <1>1, <1>2

LEMMA ReceiveSales ==
  ASSUME TypeOK, SaleHonoursHold, NEW m, NEW i \in Items, NEW s, NEW loc, NEW b, Receive(m, i, s, loc, b)
  PROVE  SaleHonoursHold'
<1> SUFFICES ASSUME NEW j \in Items, NEW k \in 2..Len(ledger'[j]),
                    ledger'[j][k].movement = "SALE", ledger'[j][k-1].movement = "RESERVATION"
             PROVE  ledger'[j][k].ref = ledger'[j][k-1].ref
  BY DEF SaleHonoursHold
<1>1. j # i
  <2>1. Len(ledger'[i]) = 1
    BY ReceiveFrame
  <2> QED BY <2>1
<1>2. ledger'[j] = ledger[j]
  BY <1>1, ReceiveFrame
<1> QED BY <1>2 DEF SaleHonoursHold

-----------------------------------------------------------------------------
(* The history invariant: the cache is what the ledger says, a hold is what *)
(* its newest entry says, and so a sale can only be to the holder.  Types   *)
(* and Reconciles are inductive together; HoldMatchesLedger needs both, and *)
(* SaleHonoursHold needs all three: that the holder checked at a sale is    *)
(* the one the ledger names is exactly what HoldMatchesLedger adds.         *)
HistoryOK == TypeOK /\ Reconciles /\ HoldMatchesLedger /\ SaleHonoursHold

LEMMA InitHistory == Init => HistoryOK
<1> SUFFICES ASSUME Init PROVE HistoryOK
  OBVIOUS
<1>1. \A i \in Items : /\ item[i].status = "ABSENT" /\ item[i].seq = 0 /\ item[i].hold = None
                       /\ ledger[i] = <<>> /\ Len(ledger[i]) = 0
  BY DEF Init, Absent
<1>2. Reconciles
  BY <1>1 DEF Reconciles, GapFree, ChainOK, CacheOK, Exists
<1>3. HoldMatchesLedger
  BY <1>1 DEF HoldMatchesLedger, Exists
<1>4. SaleHonoursHold
  BY <1>1 DEF SaleHonoursHold
<1> QED BY <1>2, <1>3, <1>4, InitTypes DEF HistoryOK

LEMMA StepHistory == HistoryOK /\ LedgerStep => HistoryOK'
<1> SUFFICES ASSUME HistoryOK, LedgerStep PROVE HistoryOK'
  OBVIOUS
<1>0. TypeOK /\ Reconciles /\ HoldMatchesLedger /\ SaleHonoursHold
  BY DEF HistoryOK
<1>t. TypeOK'
  BY <1>0, StepTypes
<1>1. CASE PostStep
  <2>1. PICK m \in Movements, S \in SUBSET Items, l \in Lines : LineOK(m, l) /\ Post(m, S, l)
    BY <1>1 DEF PostStep
  <2>2. Reconciles'
    BY <1>0, <2>1, PostReconciles
  <2>3. HoldMatchesLedger'
    BY <1>0, <2>1, PostHolds
  <2>4. SaleHonoursHold'
    BY <1>0, <2>1, PostSales
  <2> QED BY <1>t, <2>2, <2>3, <2>4 DEF HistoryOK
<1>2. CASE ReceiveStep
  <2>1. PICK m \in Movements, i \in Items, s \in Statuses, loc \in Locations, b \in 1..MaxBal : Receive(m, i, s, loc, b)
    BY <1>2 DEF ReceiveStep
  <2>2. Reconciles'
    BY <1>0, <2>1, ReceiveReconciles
  <2>3. HoldMatchesLedger'
    BY <1>0, <2>1, ReceiveHolds
  <2>4. SaleHonoursHold'
    BY <1>0, <2>1, ReceiveSales
  <2> QED BY <1>t, <2>2, <2>3, <2>4 DEF HistoryOK
<1>3. CASE LapseStep
  <2>1. PICK i \in Items : HoldLapses(i)
    BY <1>3 DEF LapseStep
  <2>2. Reconciles'
    BY <1>0, <2>1, LapseReconciles
  <2>3. HoldMatchesLedger'
    BY <1>0, <2>1, LapseHolds
  <2>4. SaleHonoursHold'
    BY <1>0, <2>1 DEF HoldLapses, SaleHonoursHold
  <2> QED BY <1>t, <2>2, <2>3, <2>4 DEF HistoryOK
<1>4. CASE UNCHANGED vars
  <2>1. Reconciles'
    BY <1>0, <1>4 DEF vars, Reconciles, GapFree, ChainOK, CacheOK, Exists, LastEntry
  <2>2. HoldMatchesLedger'
    BY <1>0, <1>4 DEF vars, HoldMatchesLedger, Exists, LastEntry
  <2>3. SaleHonoursHold'
    BY <1>0, <1>4 DEF vars, SaleHonoursHold
  <2> QED BY <1>t, <2>1, <2>2, <2>3 DEF HistoryOK
<1> QED BY <1>1, <1>2, <1>3, <1>4 DEF LedgerStep

LEMMA NextHistory == HistoryOK /\ [Next]_vars => HistoryOK'
BY StepHistory, StepCases DEF LedgerStep

LEMMA HistoryInvariant == Spec => []HistoryOK
BY InitHistory, NextHistory, PTL DEF Spec

(* Replaying an item's ledger always gives back the cached item, with no   *)
(* gap and no broken chain, for any number of items, references and lines. *)
THEOREM LedgerReconciles == Spec => []Reconciles
<1>1. HistoryOK => Reconciles
  BY DEF HistoryOK
<1> QED BY HistoryInvariant, <1>1, PTL

(* An item is held exactly while its newest entry is the reservation that  *)
(* took the hold, for the reference that entry names.                      *)
THEOREM HoldsMatchLedger == Spec => []HoldMatchesLedger
<1>1. HistoryOK => HoldMatchesLedger
  BY DEF HistoryOK
<1> QED BY HistoryInvariant, <1>1, PTL

(* Whoever else posts to an item in between, a piece that was reserved is  *)
(* sold only to the reference that reserved it.                            *)
THEOREM SalesHonourHolds == Spec => []SaleHonoursHold
<1>1. HistoryOK => SaleHonoursHold
  BY DEF HistoryOK
<1> QED BY HistoryInvariant, <1>1, PTL

-----------------------------------------------------------------------------
(* No change without its entry. *)

OneNewEntry(i) ==
  /\ Len(ledger'[i]) = Len(ledger[i]) + 1
  /\ SubSeq(ledger'[i], 1, Len(ledger[i])) = ledger[i]
  /\ LastEntry(i)'.seq = item'[i].seq

NoNewEntry(i) ==
  /\ ledger'[i] = ledger[i]
  /\ \/ item'[i] = item[i]
     \/ item'[i].hold # None /\ item[i] = [item'[i] EXCEPT !.hold.age = item[i].hold.age]

LEMMA AppendedEntry ==
  ASSUME NEW X, NEW s \in Seq(X), NEW e \in X
  PROVE  /\ Len(Append(s, e)) = Len(s) + 1
         /\ SubSeq(Append(s, e), 1, Len(s)) = s
         /\ Append(s, e)[Len(Append(s, e))] = e
<1>1. Append(s, e) \in Seq(X) /\ Len(Append(s, e)) = Len(s) + 1 /\ Len(s) \in Nat
  OBVIOUS
<1>2. Append(s, e)[Len(s) + 1] = e /\ \A k \in 1..Len(s) : Append(s, e)[k] = s[k]
  OBVIOUS
<1> DEFINE t == SubSeq(Append(s, e), 1, Len(s))
<1>3. t \in Seq(X) /\ Len(t) = Len(s)
  BY <1>1
<1>4. \A k \in 1..Len(s) : t[k] = s[k]
  BY <1>1, <1>2
<1>5. t = s
  <2> HIDE DEF t
  <2> QED BY <1>3, <1>4
<1> QED BY <1>1, <1>2, <1>5

LEMMA LapsedHold ==
  ASSUME TypeOK, NEW i \in Items, HoldLapses(i)
  PROVE  item'[i].hold # None /\ item[i] = [item'[i] EXCEPT !.hold.age = item[i].hold.age]
<1>1. item[i] \in ItemDocs /\ item[i].hold \in Holds
  BY DEF HoldLapses, TypeOK, Absent, ItemDocs
<1>2. item'[i] = [item[i] EXCEPT !.hold.age = "lapsed"]
  BY DEF HoldLapses, TypeOK
<1>3. item[i] = [status |-> item[i].status, loc |-> item[i].loc, bal |-> item[i].bal,
                 seq |-> item[i].seq, hold |-> item[i].hold]
  BY <1>1 DEF ItemDocs
<1>4. item[i].hold = [ref |-> item[i].hold.ref, by |-> item[i].hold.by, age |-> item[i].hold.age]
  BY <1>1 DEF Holds
<1>5. item'[i] = [status |-> item[i].status, loc |-> item[i].loc, bal |-> item[i].bal, seq |-> item[i].seq,
                  hold |-> [ref |-> item[i].hold.ref, by |-> item[i].hold.by, age |-> "lapsed"]]
  BY <1>2, <1>3, <1>4
<1>6. item'[i].hold \in Holds
  BY <1>1, <1>5 DEF Holds, Ages
<1> QED BY <1>3, <1>4, <1>5, <1>6, NoneAssumption

LEMMA StepIsLedgered ==
  ASSUME HistoryOK, HistoryOK', LedgerStep, NEW i \in Items
  PROVE  NoNewEntry(i) \/ OneNewEntry(i)
<1>0. TypeOK /\ TypeOK'
  BY DEF HistoryOK
<1>1. CASE PostStep
  <2>1. PICK m \in Movements, S \in SUBSET Items, l \in Lines : LineOK(m, l) /\ Post(m, S, l)
    BY <1>1 DEF PostStep
  <2>2. CASE i \in S
    <3>1. Entry(m, i, l) \in Entries /\ ledger[i] \in Seq(Entries)
      BY <1>0, <2>1, <2>2, PostTypes DEF TypeOK
    <3>2. item'[i] = Posted(m, i, l) /\ ledger'[i] = Append(ledger[i], Entry(m, i, l))
      BY <2>1, <2>2 DEF Post
    <3>3. LastEntry(i)' = Entry(m, i, l)
      BY <3>1, <3>2, AppendedEntry DEF LastEntry
    <3>4. Entry(m, i, l).seq = Posted(m, i, l).seq
      BY DEF Entry, Posted
    <3> QED BY <3>1, <3>2, <3>3, <3>4, AppendedEntry DEF OneNewEntry
  <2>3. CASE i \notin S
    BY <1>0, <2>1, <2>3, PostFrame DEF NoNewEntry
  <2> QED BY <2>2, <2>3
<1>2. CASE ReceiveStep
  <2>1. PICK m \in Movements, j \in Items, s \in Statuses, loc \in Locations, b \in 1..MaxBal : Receive(m, j, s, loc, b)
    BY <1>2 DEF ReceiveStep
  <2>2. CASE i = j
    <3>1. ledger[i] = <<>>
      <4>1. ~Exists(i)
        BY <1>0, <2>1, <2>2, ReceiveFrame
      <4>2. item[i].seq = 0
        BY <1>0, <4>1, StatusNames DEF TypeOK, ItemDocs, Absent, Exists
      <4>3. Len(ledger[i]) = 0 /\ ledger[i] \in Seq(Entries)
        BY <1>0, <4>2 DEF HistoryOK, Reconciles, CacheOK, TypeOK
      <4> QED BY <4>3
    <3>2. item'[i].seq = 1 /\ Len(ledger'[i]) = 1 /\ ledger'[i][1].seq = 1
      <4>1. /\ item'[j] = [status |-> s, loc |-> loc, bal |-> b, seq |-> 1, hold |-> None]
            /\ Len(ledger'[j]) = 1
            /\ ledger'[j][1] = [movement |-> m, seq |-> 1, from |-> None, to |-> s, src |-> None,
                                dst |-> loc, delta |-> b, bal |-> b, ref |-> None]
        BY <1>0, <2>1, ReceiveFrame
      <4> QED BY <2>2, <4>1
    <3>3. SubSeq(ledger'[i], 1, 0) = <<>>
      BY <1>0 DEF TypeOK
    <3> QED BY <3>1, <3>2, <3>3 DEF OneNewEntry, LastEntry
  <2>3. CASE i # j
    BY <1>0, <2>1, <2>3, ReceiveFrame, ZenonT(40) DEF NoNewEntry
  <2> QED BY <2>2, <2>3
<1>3. CASE LapseStep
  <2>1. PICK j \in Items : HoldLapses(j)
    BY <1>3 DEF LapseStep
  <2>2. CASE i = j
    BY <1>0, <2>1, <2>2, LapsedHold DEF NoNewEntry, HoldLapses
  <2>3. CASE i # j
    BY <1>0, <2>1, <2>3 DEF NoNewEntry, HoldLapses, TypeOK
  <2> QED BY <2>2, <2>3
<1>4. CASE UNCHANGED vars
  BY <1>4 DEF NoNewEntry, vars
<1> QED BY <1>1, <1>2, <1>3, <1>4 DEF LedgerStep

(* Nothing about an item ever changes, the age of its hold aside, without  *)
(* exactly one new entry of its own ledger, and no entry is ever rewritten.*)
THEOREM ChangesAreLedgered == Spec => EveryChangeIsLedgered
<1>1. HistoryOK /\ HistoryOK' /\ [Next]_vars => \A i \in Items : NoNewEntry(i) \/ OneNewEntry(i)
  BY StepIsLedgered, StepCases DEF LedgerStep
<1>2. (\A i \in Items : NoNewEntry(i) \/ OneNewEntry(i)) =>
        \A i \in Items :
          \/ /\ ledger'[i] = ledger[i]
             /\ \/ item'[i] = item[i]
                \/ item'[i].hold # None /\ item[i] = [item'[i] EXCEPT !.hold.age = item[i].hold.age]
          \/ /\ Len(ledger'[i]) = Len(ledger[i]) + 1
             /\ SubSeq(ledger'[i], 1, Len(ledger[i])) = ledger[i]
             /\ LastEntry(i)'.seq = item'[i].seq
  BY DEF NoNewEntry, OneNewEntry
<1> QED BY HistoryInvariant, <1>1, <1>2, PTL DEF Spec, EveryChangeIsLedgered

-----------------------------------------------------------------------------
(* The ledger implements the abstract custody of a piece. *)

LEMMA SameRules ==
  /\ Abstract!Statuses = Statuses
  /\ \A from, to : Abstract!Legal(from, to) <=> Legal(from, to)
BY DEF Abstract!Statuses, Abstract!Legal, Abstract!LegalTransitions, Statuses, Legal, LegalTransitions

LEMMA CustodyType == TypeOK => Custody \in [Items -> [status : Statuses \union {"ABSENT"}, holder : Refs \union {None}]]
<1> SUFFICES ASSUME TypeOK, NEW i \in Items
             PROVE  [status |-> item[i].status, holder |-> Holder(i)] \in [status : Statuses \union {"ABSENT"}, holder : Refs \union {None}]
  BY DEF Custody
<1>1. item[i].status \in Statuses \union {"ABSENT"} /\ item[i].hold \in Holds \union {None}
  BY DEF TypeOK, ItemDocs, Absent
<1>2. Holder(i) \in Refs \union {None}
  BY <1>1 DEF Holder, Holds
<1> QED BY <1>1, <1>2

(* A posting holds or moves each of its items. *)
LEMMA PostCustody ==
  ASSUME TypeOK, Reconciles, HoldMatchesLedger,
         NEW m, NEW S \in SUBSET Items, NEW l, LineOK(m, l), Post(m, S, l), NEW i \in S
  PROVE  \/ Custody'[i] = Custody[i]
         \/ Abstract!Held(Custody[i], Custody'[i])
         \/ Abstract!Moves(Custody[i], Custody'[i])
<1>1. CanPost(m, i, l) /\ item[i] \in ItemDocs /\ item'[i] = Posted(m, i, l)
  BY PostFrame
<1>2. /\ item'[i].status = Target(i, l)
      /\ item'[i].hold = NextHold(m, i, l)
  BY <1>1 DEF Posted
<1>3. /\ Custody[i] = [status |-> item[i].status, holder |-> Holder(i)]
      /\ Custody'[i] = [status |-> item'[i].status, holder |-> Holder(i)']
  BY DEF Custody
<1>4. /\ m = "RESERVATION" => /\ item[i].status = "AVAILABLE" /\ item[i].hold = None
                              /\ Target(i, l) = "RESERVED"
                              /\ NextHold(m, i, l) # None /\ NextHold(m, i, l).ref = l.ref
      /\ m # "RESERVATION" => NextHold(m, i, l) = None
  BY <1>1, HoldAfterPost
<1>5. CASE m = "RESERVATION"
  <2>1. Holder(i) = None /\ Holder(i)' = l.ref /\ l.ref \in Refs
    BY <1>2, <1>4, <1>5 DEF Holder, LineOK
  <2> QED BY <1>2, <1>3, <1>4, <1>5, <2>1 DEF Abstract!Held
<1>6. CASE m # "RESERVATION"
  <2>1. Holder(i)' = None
    BY <1>2, <1>4, <1>6 DEF Holder
  <2>2. item[i].status \in Statuses
    BY <1>1 DEF ItemDocs
  <2>3. CASE Legal(item[i].status, Target(i, l))
    BY <1>2, <1>3, <2>1, <2>2, <2>3, SameRules DEF Abstract!Moves
  <2>4. CASE ~Legal(item[i].status, Target(i, l))
    <3>1. m = "ADJUSTMENT" /\ Target(i, l) = item[i].status
      BY <1>1, <2>4 DEF CanPost, StatusAllowed
    <3>2. item[i].status = "RESERVED" => Holder(i) = None
      BY <1>1, <3>1 DEF CanPost, HoldAllowed, HoldHonoured, LineOK
    <3>3. item[i].status # "RESERVED" => item[i].hold = None
      BY <1>1 DEF HoldMatchesLedger, CanPost
    <3>4. Holder(i) = None
      BY <3>2, <3>3 DEF Holder
    <3> QED BY <1>2, <1>3, <2>1, <3>1, <3>4
  <2> QED BY <2>3, <2>4
<1> QED BY <1>5, <1>6

LEMMA ReceiveCustody ==
  ASSUME TypeOK, NEW m, NEW i \in Items, NEW s \in Statuses, NEW loc, NEW b,
         Receive(m, i, s, loc, b)
  PROVE  Abstract!Enters(Custody[i], Custody'[i])
<1>1. /\ ~Exists(i)
      /\ item'[i] = [status |-> s, loc |-> loc, bal |-> b, seq |-> 1, hold |-> None]
  BY DEF Receive, TypeOK
<1>2. item[i].status = "ABSENT" /\ item'[i].status = s /\ Holder(i)' = None
  BY <1>1 DEF Exists, Holder
<1>3. /\ Custody[i] = [status |-> item[i].status, holder |-> Holder(i)]
      /\ Custody'[i] = [status |-> item'[i].status, holder |-> Holder(i)']
  BY DEF Custody
<1> QED BY <1>2, <1>3, SameRules DEF Abstract!Enters

LEMMA CustodyKept ==
  ASSUME NEW i \in Items, item'[i].status = item[i].status, Holder(i)' = Holder(i)
  PROVE  Custody'[i] = Custody[i]
BY DEF Custody

LEMMA StepImplements == HistoryOK /\ HistoryOK' /\ LedgerStep => [Abstract!Next]_Custody
<1> SUFFICES ASSUME HistoryOK, HistoryOK', LedgerStep
             PROVE  /\ Custody' \in [Items -> [status : Statuses \union {"ABSENT"}, holder : Refs \union {None}]]
                    /\ \A p \in Items : \/ Custody'[p] = Custody[p]
                                        \/ Abstract!Enters(Custody[p], Custody'[p])
                                        \/ Abstract!Held(Custody[p], Custody'[p])
                                        \/ Abstract!Moves(Custody[p], Custody'[p])
  BY SameRules DEF Abstract!Next
<1>0. TypeOK /\ Reconciles /\ HoldMatchesLedger /\ TypeOK'
  BY DEF HistoryOK
<1>t. Custody' \in [Items -> [status : Statuses \union {"ABSENT"}, holder : Refs \union {None}]]
  <2>1. (TypeOK => Custody \in [Items -> [status : Statuses \union {"ABSENT"}, holder : Refs \union {None}]])'
    BY CustodyType, PTL
  <2> QED BY <1>0, <2>1
<1> SUFFICES ASSUME NEW p \in Items
             PROVE  \/ Custody'[p] = Custody[p]
                    \/ Abstract!Enters(Custody[p], Custody'[p])
                    \/ Abstract!Held(Custody[p], Custody'[p])
                    \/ Abstract!Moves(Custody[p], Custody'[p])
  BY <1>t
<1>1. CASE PostStep
  <2>1. PICK m \in Movements, S \in SUBSET Items, l \in Lines : LineOK(m, l) /\ Post(m, S, l)
    BY <1>1 DEF PostStep
  <2>2. CASE p \in S
    BY <1>0, <2>1, <2>2, PostCustody
  <2>3. CASE p \notin S
    <3>1. item'[p] = item[p]
      BY <1>0, <2>1, <2>3, PostFrame
    <3> QED BY <3>1, CustodyKept DEF Holder
  <2> QED BY <2>2, <2>3
<1>2. CASE ReceiveStep
  <2>1. PICK m \in Movements, i \in Items, s \in Statuses, loc \in Locations, b \in 1..MaxBal : Receive(m, i, s, loc, b)
    BY <1>2 DEF ReceiveStep
  <2>2. CASE p = i
    BY <1>0, <2>1, <2>2, ReceiveCustody
  <2>3. CASE p # i
    <3>1. item'[p] = item[p]
      BY <1>0, <2>1, <2>3, ReceiveFrame
    <3> QED BY <3>1, CustodyKept DEF Holder
  <2> QED BY <2>2, <2>3
<1>3. CASE LapseStep
  <2>1. PICK i \in Items : HoldLapses(i)
    BY <1>3 DEF LapseStep
  <2>2. /\ item'[p].status = item[p].status
        /\ item[p].hold = None <=> item'[p].hold = None
        /\ item[p].hold # None => item'[p].hold.ref = item[p].hold.ref
    BY <1>0, <2>1, LapseFrame
  <2>3. Holder(p)' = Holder(p)
    BY <2>2 DEF Holder
  <2> QED BY <2>2, <2>3, CustodyKept
<1>4. CASE UNCHANGED vars
  BY <1>4, CustodyKept DEF vars, Holder
<1> QED BY <1>1, <1>2, <1>3, <1>4 DEF LedgerStep

LEMMA InitImplements == Init => Abstract!Init
<1> SUFFICES ASSUME Init PROVE Custody = [p \in Items |-> [status |-> "ABSENT", holder |-> None]]
  BY DEF Abstract!Init
<1>1. \A i \in Items : item[i].status = "ABSENT" /\ Holder(i) = None
  BY DEF Init, Absent, Holder
<1> QED BY <1>1 DEF Custody

(* However the ledger's operations interleave, what the rest of the system *)
(* sees of a piece is exactly an abstract custody: it enters once, is held *)
(* by one reference at a time and only off the shelf, and otherwise walks  *)
(* the status graph with no hold.                                          *)
THEOREM LedgerImplementsCustody == Spec => ImplementsCustody
<1>1. Spec => []HistoryOK
  BY HistoryInvariant
<1>2. Init => Abstract!Init
  BY InitImplements
<1>3. HistoryOK /\ HistoryOK' /\ [Next]_vars => [Abstract!Next]_Custody
  BY StepImplements, StepCases DEF LedgerStep
<1> QED BY <1>1, <1>2, <1>3, PTL DEF Spec, Abstract!Spec, ImplementsCustody

-----------------------------------------------------------------------------
(* Holds and documents: the names their postings use. *)

LEMMA DocMovements == {"TRANSFER_OUT", "TRANSFER_IN", "SCRAP", "MELTING", "ADJUSTMENT", "PURCHASE_RECEIPT"} \subseteq Movements
BY DEF Movements, MovementRules, Rule

LEMMA DocStatuses == RequestStatuses \subseteq Statuses \union {None} /\ "IN_TRANSIT" \in Statuses
BY DEF RequestStatuses, Statuses, LegalTransitions

-----------------------------------------------------------------------------
(* The posting each handler makes. *)

DispatchLine(t, to)  == [Line EXCEPT !.to = "IN_TRANSIT", !.dest = to, !.ref = t]
IntakeLine(t, loc)   == [Line EXCEPT !.to = "AVAILABLE", !.dest = loc, !.ref = t]
AdjustmentLine(a)    == [Line EXCEPT !.to = adjustment[a].to, !.edit = adjustment[a].edit, !.ref = a]

LEMMA DispatchLineOK ==
  ASSUME NEW t \in Transfers, NEW to \in Locations
  PROVE  LineOK("TRANSFER_OUT", DispatchLine(t, to)) /\ DispatchLine(t, to) \in Lines
BY DocMovements, DocStatuses, DocumentsAssumption DEF LineOK, Lines, Line, Ages, DispatchLine

LEMMA IntakeLineOK ==
  ASSUME NEW t \in Transfers, NEW loc \in Locations
  PROVE  LineOK("TRANSFER_IN", IntakeLine(t, loc)) /\ IntakeLine(t, loc) \in Lines
BY DocMovements, StatusNames, DocumentsAssumption DEF LineOK, Lines, Line, Ages, IntakeLine

LEMMA AdjustmentLineOK ==
  ASSUME DocsTypeOK, NEW a \in Adjustments, adjustment[a] # None
  PROVE  /\ LineOK(MovementOf(adjustment[a].to), AdjustmentLine(a))
         /\ AdjustmentLine(a) \in Lines
         /\ MovementOf(adjustment[a].to) \in Movements \ {"TRANSFER_OUT", "TRANSFER_IN"}
<1>1. adjustment[a] \in AdjustmentDocs
  BY DEF DocsTypeOK
<1>2. MovementOf(adjustment[a].to) \in {"SCRAP", "MELTING", "ADJUSTMENT"}
  BY DEF MovementOf
<1>3. AdjustmentLine(a) \in Lines
  BY <1>1, DocumentsAssumption DEF AdjustmentDocs, AdjustmentLine, Lines, Line, Ages
<1>4. AdjustmentLine(a).claim = None /\ ~AdjustmentLine(a).override
  BY DEF AdjustmentLine, Line
<1> QED BY <1>2, <1>3, <1>4, DocMovements DEF LineOK

-----------------------------------------------------------------------------
(* One step of the documents, as the ledger sees it. *)

DocPost(m, S, r) ==       \* a posting, or a receipt, that refers to r
  /\ S \in SUBSET Items
  /\ \/ \E l \in Lines : LineOK(m, l) /\ Post(m, S, l) /\ l.ref = r
     \/ r = None /\ \E i \in Items, s \in Statuses, loc \in Locations, b \in 1..MaxBal : S = {i} /\ Receive(m, i, s, loc, b)

LEMMA DocPostStep ==
  ASSUME NEW m \in Movements, NEW S, NEW r, DocPost(m, S, r)
  PROVE  LedgerStep
BY DEF DocPost, LedgerStep, PostStep, ReceiveStep

LEMMA OtherMovesPost ==
  ASSUME OtherMoves
  PROVE  \E m \in Movements \ {"TRANSFER_OUT", "TRANSFER_IN"}, S \in SUBSET Items,
            r \in (Refs \union {None}) \ (Transfers \union Adjustments) : DocPost(m, S, r)
<1>0. None \notin Transfers \union Adjustments
  BY DocumentsAssumption, NoneAssumption
<1>1. ASSUME NEW i \in Items, NEW loc \in Active, NEW b \in 1..MaxBal,
             Receive("PURCHASE_RECEIPT", i, "AVAILABLE", loc, b)
      PROVE  DocPost("PURCHASE_RECEIPT", {i}, None)
  BY <1>1, StatusNames, LocationsAssumption DEF DocPost
<1>2. ASSUME NEW i \in Items, NEW r \in Refs, NEW u \in Users, Reserve({i}, r, u, "open")
      PROVE  DocPost("RESERVATION", {i}, r)
  <2> DEFINE l == [Line EXCEPT !.to = "RESERVED", !.claim = r, !.ref = r, !.by = u, !.age = "open"]
  <2>1. LineOK("RESERVATION", l) /\ l \in Lines /\ l.ref = r
    BY StatusNames, MovementNames DEF LineOK, Lines, Line, Ages
  <2> QED BY <1>2, <2>1 DEF DocPost, Reserve
<1>3. ASSUME NEW i \in Items, NEW r \in Refs, Release({i}, r, FALSE)
      PROVE  DocPost("RELEASE_RESERVATION", {i}, r)
  <2>1. ReleasingLine(r, FALSE).ref = r
    BY DEF ReleasingLine, Line
  <2> QED BY <1>3, <2>1, ReleaseIsPosted DEF DocPost, LineOK
<1>4. ASSUME NEW i \in Items, NEW r \in Refs, Sell({i}, r)
      PROVE  DocPost("SALE", {i}, r)
  <2> DEFINE l == [Line EXCEPT !.to = "SOLD", !.claim = r, !.ref = r]
  <2>1. LineOK("SALE", l) /\ l \in Lines /\ l.ref = r
    BY StatusNames, MovementNames DEF LineOK, Lines, Line, Ages
  <2> QED BY <1>4, <2>1 DEF DocPost, Sell
<1> QED BY <1>0, <1>1, <1>2, <1>3, <1>4, MovementNames, DocMovements DEF OtherMoves

(* What each handler posts, and for which document. *)
LEMMA CreatePosts ==
  ASSUME NEW t \in Transfers, NEW from \in Locations, NEW to \in Locations, NEW S \in SUBSET Items,
         CreateTransfer(t, from, to, S)
  PROVE  DocPost("TRANSFER_OUT", S, t)
<1>1. DispatchLine(t, to).ref = t
  BY DEF DispatchLine, Line
<1> QED BY <1>1, DispatchLineOK DEF CreateTransfer, DocPost, DispatchLine

LEMMA ReceivePosts ==
  ASSUME DocsTypeOK, NEW t \in Transfers, NEW S \in SUBSET Items, ReceiveTransfer(t, S)
  PROVE  DocPost("TRANSFER_IN", S, t) /\ Post("TRANSFER_IN", S, IntakeLine(t, transfer[t].to))
<1>1. transfer[t].to \in Locations
  BY DEF ReceiveTransfer, InTransit, DocsTypeOK, TransferDocs
<1>2. IntakeLine(t, transfer[t].to).ref = t
  BY DEF IntakeLine, Line
<1> QED BY <1>1, <1>2, IntakeLineOK DEF ReceiveTransfer, DocPost, IntakeLine

LEMMA CancelPosts ==
  ASSUME DocsTypeOK, NEW t \in Transfers, CancelTransfer(t)
  PROVE  DocPost("TRANSFER_IN", Pending(t), t) /\ Post("TRANSFER_IN", Pending(t), IntakeLine(t, transfer[t].from))
<1>1. transfer[t].from \in Locations
  BY DEF CancelTransfer, InTransit, DocsTypeOK, TransferDocs
<1>2. IntakeLine(t, transfer[t].from).ref = t
  BY DEF IntakeLine, Line
<1> QED BY <1>1, <1>2, IntakeLineOK DEF CancelTransfer, DocPost, IntakeLine, Pending

LEMMA ApprovePosts ==
  ASSUME DocsTypeOK, NEW a \in Adjustments, NEW u \in Users, ApproveAdjustment(a, u)
  PROVE  /\ DocPost(MovementOf(adjustment[a].to), {adjustment[a].item}, a)
         /\ adjustment[a].item \in Items
         /\ MovementOf(adjustment[a].to) \in Movements \ {"TRANSFER_OUT", "TRANSFER_IN"}
<1>1. adjustment[a] # None /\ adjustment[a] \in AdjustmentDocs
  BY DEF ApproveAdjustment, Undecided, DocsTypeOK
<1>2. AdjustmentLine(a).ref = a
  BY DEF AdjustmentLine, Line
<1>3. Post(MovementOf(adjustment[a].to), {adjustment[a].item}, AdjustmentLine(a))
  BY DEF ApproveAdjustment, AdjustmentLine
<1> QED BY <1>1, <1>2, <1>3, AdjustmentLineOK DEF AdjustmentDocs, DocPost

LEMMA DocsSteps == DocsTypeOK /\ [DocsNext]_docVars => LedgerStep
<1> SUFFICES ASSUME DocsTypeOK, [DocsNext]_docVars PROVE LedgerStep
  OBVIOUS
<1>1. ASSUME NEW t \in Transfers, NEW from \in Locations, NEW to \in Locations, NEW S \in SUBSET Items,
             CreateTransfer(t, from, to, S)
      PROVE  LedgerStep
  BY <1>1, CreatePosts, DocPostStep, DocMovements
<1>2. ASSUME NEW t \in Transfers, NEW S \in SUBSET Items, ReceiveTransfer(t, S)
      PROVE  LedgerStep
  BY <1>2, ReceivePosts, DocPostStep, DocMovements
<1>3. ASSUME NEW t \in Transfers, CancelTransfer(t)
      PROVE  LedgerStep
  BY <1>3, CancelPosts, DocPostStep, DocMovements DEF Pending
<1>4. ASSUME NEW a \in Adjustments, NEW u \in Users, ApproveAdjustment(a, u)
      PROVE  LedgerStep
  BY <1>4, ApprovePosts, DocPostStep
<1>5. CASE OtherMoves
  BY <1>5, OtherMovesPost, DocPostStep
<1>6. CASE UNCHANGED <<item, ledger>>
  BY <1>6 DEF LedgerStep, vars
<1> QED BY <1>1, <1>2, <1>3, <1>4, <1>5, <1>6, ZenonT(40) DEF DocsNext, RequestAdjustment, RejectAdjustment, docVars

-----------------------------------------------------------------------------
(* Types *)

LEMMA ResolvedType ==
  ASSUME NEW doc \in TransferDocs, NEW S \in SUBSET Items, NEW state \in LineStates
  PROVE  /\ Resolved(doc, S, state) \in TransferDocs
         /\ Resolved(doc, S, state).lines = [i \in Items |-> IF i \in S THEN state ELSE doc.lines[i]]
         /\ Resolved(doc, S, state).from = doc.from
         /\ Resolved(doc, S, state).to = doc.to
<1> DEFINE next == [i \in Items |-> IF i \in S THEN state ELSE doc.lines[i]]
           newer == [doc EXCEPT !.lines = next]
<1>1. next \in [Items -> LineStates]
  BY DEF TransferDocs
<1>2. Resolved(doc, S, state) = Settled(newer)
  BY DEF Resolved
<1> HIDE DEF next
<1>3. newer \in TransferDocs /\ newer.lines = next /\ newer.from = doc.from /\ newer.to = doc.to
  BY <1>1 DEF TransferDocs
<1> HIDE DEF newer
<1>4. /\ Settled(newer) \in TransferDocs
      /\ Settled(newer).lines = newer.lines /\ Settled(newer).from = newer.from /\ Settled(newer).to = newer.to
  <2>1. CASE \E i \in Items : newer.lines[i] = "PENDING"
    BY <1>3, <2>1 DEF Settled
  <2>2. CASE ~\E i \in Items : newer.lines[i] = "PENDING"
    <3>1. PICK st \in {"RECEIVED", "CANCELLED"} : Settled(newer) = [newer EXCEPT !.status = st]
      BY <2>2 DEF Settled
    <3> QED BY <1>3, <3>1 DEF TransferDocs
  <2> QED BY <2>1, <2>2
<1> QED BY <1>2, <1>3, <1>4 DEF next

LEMMA ResolveFrame ==
  ASSUME DocsTypeOK, NEW t \in Transfers, InTransit(t), NEW S, S \subseteq Items, NEW state \in LineStates,
         Resolve(t, S, state)
  PROVE  /\ transfer' \in [Transfers -> TransferDocs \union {None}]
         /\ \A x \in Transfers \ {t} : transfer'[x] = transfer[x]
         /\ transfer'[t] \in TransferDocs
         /\ transfer'[t].lines = [i \in Items |-> IF i \in S THEN state ELSE transfer[t].lines[i]]
         /\ transfer'[t].from = transfer[t].from /\ transfer'[t].to = transfer[t].to
<1> DEFINE newer == Resolved(transfer[t], S, state)
<1>1. transfer[t] \in TransferDocs /\ transfer \in [Transfers -> TransferDocs \union {None}]
  BY DEF DocsTypeOK, InTransit
<1>2. transfer' = [transfer EXCEPT ![t] = newer]
  BY DEF Resolve
<1>3. /\ newer \in TransferDocs
      /\ newer.lines = [i \in Items |-> IF i \in S THEN state ELSE transfer[t].lines[i]]
      /\ newer.from = transfer[t].from /\ newer.to = transfer[t].to
  BY <1>1, ResolvedType
<1> HIDE DEF newer
<1> QED BY <1>1, <1>2, <1>3

LEMMA DocsStepTypes == DocsTypeOK /\ [DocsNext]_docVars => DocsTypeOK'
<1> SUFFICES ASSUME DocsTypeOK, [DocsNext]_docVars PROVE DocsTypeOK'
  OBVIOUS
<1>t. TypeOK'
  BY DocsSteps, StepTypes DEF DocsTypeOK
<1> SUFFICES /\ transfer' \in [Transfers -> TransferDocs \union {None}]
             /\ adjustment' \in [Adjustments -> AdjustmentDocs \union {None}]
  BY <1>t DEF DocsTypeOK
<1>0. /\ transfer \in [Transfers -> TransferDocs \union {None}]
      /\ adjustment \in [Adjustments -> AdjustmentDocs \union {None}]
  BY DEF DocsTypeOK
<1>1. ASSUME NEW t \in Transfers, NEW from \in Locations, NEW to \in Locations, NEW S \in SUBSET Items,
             CreateTransfer(t, from, to, S)
      PROVE  transfer' \in [Transfers -> TransferDocs \union {None}] /\ UNCHANGED adjustment
  BY <1>0, <1>1 DEF CreateTransfer, TransferDocs, LineStates
<1>2. ASSUME NEW t \in Transfers, NEW S \in SUBSET Items, ReceiveTransfer(t, S)
      PROVE  transfer' \in [Transfers -> TransferDocs \union {None}] /\ UNCHANGED adjustment
  BY <1>2, ResolveFrame DEF ReceiveTransfer, LineStates
<1>3. ASSUME NEW t \in Transfers, CancelTransfer(t)
      PROVE  transfer' \in [Transfers -> TransferDocs \union {None}] /\ UNCHANGED adjustment
  BY <1>3, ResolveFrame DEF CancelTransfer, LineStates, Pending
<1>4. ASSUME NEW a \in Adjustments, NEW u \in Users, NEW i \in Items, NEW to \in RequestStatuses,
             NEW edit \in RequestEdits, RequestAdjustment(a, u, i, to, edit)
      PROVE  UNCHANGED transfer /\ adjustment' \in [Adjustments -> AdjustmentDocs \union {None}]
  <2>1. item[i].seq \in 1..MaxSeq
    BY <1>4 DEF RequestAdjustment, Exists, DocsTypeOK, TypeOK, ItemDocs, Absent
  <2>2. edit \in Int \union {None} /\ to \in Statuses \union {None}
    BY DocStatuses, BoundsAssumption DEF RequestEdits
  <2> QED BY <1>0, <1>4, <2>1, <2>2 DEF RequestAdjustment, AdjustmentDocs
<1>5. ASSUME NEW a \in Adjustments, NEW u \in Users, ApproveAdjustment(a, u) \/ RejectAdjustment(a, u)
      PROVE  UNCHANGED transfer /\ adjustment' \in [Adjustments -> AdjustmentDocs \union {None}]
  <2>1. adjustment[a] \in AdjustmentDocs
    BY <1>0, <1>5 DEF ApproveAdjustment, RejectAdjustment, Undecided
  <2> QED BY <1>0, <1>5, <2>1 DEF ApproveAdjustment, RejectAdjustment, AdjustmentDocs
<1>6. CASE UNCHANGED <<transfer, adjustment>>
  BY <1>0, <1>6
<1> QED BY <1>0, <1>1, <1>2, <1>3, <1>4, <1>5, <1>6 DEF DocsNext, OtherMoves, docVars

-----------------------------------------------------------------------------
(* What one posting adds to the entries of a document. *)

Grows(i, m, r) ==      \* one entry more in the ledger of i
  /\ Len(ledger'[i]) = Len(ledger[i]) + 1
  /\ \A k \in 1..Len(ledger[i]) : ledger'[i][k] = ledger[i][k]
  /\ ledger'[i][Len(ledger[i]) + 1].movement = m
  /\ ledger'[i][Len(ledger[i]) + 1].ref = r
  /\ item[i].seq = Len(ledger[i])
  /\ Len(ledger[i]) \in Nat

LEMMA PostGrows ==
  ASSUME TypeOK, Reconciles, NEW m, NEW S \in SUBSET Items, NEW l, LineOK(m, l), Post(m, S, l), NEW i \in S
  PROVE  Grows(i, m, l.ref)
<1>1. /\ Len(ledger'[i]) = Len(ledger[i]) + 1
      /\ \A k \in 1..Len(ledger[i]) : ledger'[i][k] = ledger[i][k]
      /\ ledger'[i][Len(ledger[i]) + 1] = Entry(m, i, l)
      /\ CanPost(m, i, l)
      /\ Len(ledger[i]) \in Nat
  BY PostFrame
<1>2. item[i].seq = Len(ledger[i])
  BY <1>1, Newest DEF CanPost
<1> QED BY <1>1, <1>2 DEF Entry, Grows

LEMMA ReceiveGrows ==
  ASSUME TypeOK, Reconciles, NEW m, NEW i \in Items, NEW s, NEW loc, NEW b, Receive(m, i, s, loc, b)
  PROVE  Grows(i, m, None)
<1>1. ~Exists(i)
  BY ReceiveFrame
<1>2. item[i].seq = 0 /\ Len(ledger[i]) = 0
  BY <1>1, StatusNames DEF TypeOK, ItemDocs, Absent, Exists, Reconciles, CacheOK
<1>3. /\ item'[i] = [status |-> s, loc |-> loc, bal |-> b, seq |-> 1, hold |-> None]
      /\ Len(ledger'[i]) = 1
      /\ ledger'[i][1] = [movement |-> m, seq |-> 1, from |-> None, to |-> s, src |-> None,
                          dst |-> loc, delta |-> b, bal |-> b, ref |-> None]
  BY ReceiveFrame
<1> QED BY <1>2, <1>3 DEF Grows

LEMMA EntriesGrow ==
  ASSUME TypeOK, Reconciles, NEW m, NEW S, NEW r, DocPost(m, S, r), NEW i \in Items
  PROVE  /\ i \notin S => ledger'[i] = ledger[i]
         /\ i \in S => Grows(i, m, r)
<1>1. ASSUME NEW l \in Lines, LineOK(m, l), Post(m, S, l), l.ref = r
      PROVE  /\ i \notin S => ledger'[i] = ledger[i]
             /\ i \in S => Grows(i, m, r)
  <2>1. S \in SUBSET Items
    BY DEF DocPost
  <2> QED BY <1>1, <2>1, PostFrame, PostGrows
<1>2. ASSUME NEW j \in Items, NEW s \in Statuses, NEW loc \in Locations, NEW b \in 1..MaxBal,
             S = {j}, Receive(m, j, s, loc, b), r = None
      PROVE  /\ i \notin S => ledger'[i] = ledger[i]
             /\ i \in S => Grows(i, m, r)
  <2>1. Grows(j, m, None) /\ \A x \in Items \ {j} : ledger'[x] = ledger[x]
    BY <1>2, ReceiveFrame, ReceiveGrows
  <2> QED BY <1>2, <2>1
<1> QED BY <1>1, <1>2 DEF DocPost

RefEntries(i, r) == {k \in 1..Len(ledger[i]) : ledger[i][k].ref = r}

LEMMA RefEntriesAfter ==
  ASSUME TypeOK, Reconciles, NEW m, NEW S, NEW r, DocPost(m, S, r), NEW i \in Items, NEW a
  PROVE  RefEntries(i, a)' = RefEntries(i, a) \union (IF i \in S /\ a = r THEN {item[i].seq + 1} ELSE {})
<1>1. CASE i \notin S
  <2>1. ledger'[i] = ledger[i]
    BY <1>1, EntriesGrow
  <2> QED BY <1>1, <2>1 DEF RefEntries
<1>2. CASE i \in S
  <2> DEFINE n == Len(ledger[i])
  <2>1. /\ Len(ledger'[i]) = n + 1 /\ n \in Nat /\ item[i].seq = n
        /\ \A k \in 1..n : ledger'[i][k] = ledger[i][k]
        /\ ledger'[i][n + 1].ref = r
    <3>1. Grows(i, m, r)
      BY <1>2, EntriesGrow
    <3> QED BY <3>1 DEF Grows
  <2>2. 1..(n + 1) = (1..n) \union {n + 1}
    BY <2>1
  <2> HIDE DEF n
  <2>3. RefEntries(i, a)' = {k \in 1..(n + 1) : ledger'[i][k].ref = a}
    BY <2>1 DEF RefEntries
  <2>4. RefEntries(i, a) = {k \in 1..n : ledger[i][k].ref = a}
    BY DEF RefEntries, n
  <2> QED BY <1>2, <2>1, <2>2, <2>3, <2>4
<1> QED BY <1>1, <1>2

LEMMA EntriesKept ==
  ASSUME TypeOK, Reconciles, NEW m, NEW S, NEW r, DocPost(m, S, r), NEW i \in Items, NEW x, NEW t,
         i \notin S \/ x # m \/ t # r
  PROVE  EntriesOf(ledger'[i], x, t) = EntriesOf(ledger[i], x, t)
<1>1. CASE i \notin S
  <2>1. ledger'[i] = ledger[i]
    BY <1>1, EntriesGrow
  <2> QED BY <1>1, <2>1 DEF EntriesOf
<1>2. CASE i \in S
  <2>1. Grows(i, m, r)
    BY <1>2, EntriesGrow
  <2>2. 1..(Len(ledger[i]) + 1) = (1..Len(ledger[i])) \union {Len(ledger[i]) + 1}
    BY <2>1 DEF Grows
  <2> QED BY <1>2, <2>1, <2>2 DEF EntriesOf, Grows
<1> QED BY <1>1, <1>2

LEMMA EntriesAdded ==
  ASSUME TypeOK, Reconciles, NEW m, NEW S, NEW r, DocPost(m, S, r), NEW i \in S, i \in Items
  PROVE  EntriesOf(ledger'[i], m, r) = EntriesOf(ledger[i], m, r) \union {Len(ledger[i]) + 1}
<1>1. Grows(i, m, r)
  BY EntriesGrow
<1>2. 1..(Len(ledger[i]) + 1) = (1..Len(ledger[i])) \union {Len(ledger[i]) + 1}
  BY <1>1 DEF Grows
<1> QED BY <1>1, <1>2 DEF EntriesOf, Grows

-----------------------------------------------------------------------------
(* An adjustment and its only entry. *)

AppliedOnce(a, i) ==
  RefEntries(i, a) =
    IF adjustment[a] # None /\ adjustment[a].status = "APPROVED" /\ i = adjustment[a].item
    THEN {adjustment[a].expected + 1} ELSE {}

LEMMA AppliedKept ==
  ASSUME TypeOK, Reconciles, NEW m, NEW S, NEW r, DocPost(m, S, r),
         NEW a \in Adjustments, a # r, adjustment'[a] = adjustment[a], NEW i \in Items, AppliedOnce(a, i)
  PROVE  AppliedOnce(a, i)'
<1>1. RefEntries(i, a)' = RefEntries(i, a)
  <2>1. RefEntries(i, a)' = RefEntries(i, a) \union (IF i \in S /\ a = r THEN {item[i].seq + 1} ELSE {})
    BY RefEntriesAfter
  <2> QED BY <2>1
<1> QED BY <1>1 DEF AppliedOnce

(* Everything the documents do to the stock, by who does it. *)
LEMMA DocsCases ==
  ASSUME DocsTypeOK, [DocsNext]_docVars
  PROVE  \/ \E t \in Transfers, from, to \in Locations, S \in (SUBSET Items) \ {{}} : CreateTransfer(t, from, to, S)
         \/ \E t \in Transfers, S \in SUBSET Items : ReceiveTransfer(t, S)
         \/ \E t \in Transfers : CancelTransfer(t)
         \/ \E a \in Adjustments, u \in Users : ApproveAdjustment(a, u)
         \/ /\ UNCHANGED <<item, ledger, transfer>>
            /\ \/ UNCHANGED adjustment
               \/ \E a \in Adjustments, u \in Users :
                    \/ RejectAdjustment(a, u)
                    \/ \E i \in Items, to \in RequestStatuses, edit \in RequestEdits : RequestAdjustment(a, u, i, to, edit)
         \/ OtherMoves
<1>1. ASSUME NEW a \in Adjustments, NEW u \in Users, RejectAdjustment(a, u)
      PROVE  UNCHANGED <<item, ledger, transfer>>
  BY <1>1 DEF RejectAdjustment
<1>2. ASSUME NEW a \in Adjustments, NEW u \in Users, NEW i \in Items, NEW to \in RequestStatuses,
             NEW edit \in RequestEdits, RequestAdjustment(a, u, i, to, edit)
      PROVE  UNCHANGED <<item, ledger, transfer>>
  BY <1>2 DEF RequestAdjustment
<1>3. CASE UNCHANGED docVars
  BY <1>3 DEF docVars
<1>4. CASE DocsNext
  BY <1>1, <1>2, <1>4 DEF DocsNext
<1> QED BY <1>3, <1>4

LEMMA ForeignPosts ==
  ASSUME DocsTypeOK,
         \/ \E t \in Transfers, from, to \in Locations, S \in SUBSET Items : CreateTransfer(t, from, to, S)
         \/ \E t \in Transfers, S \in SUBSET Items : ReceiveTransfer(t, S)
         \/ \E t \in Transfers : CancelTransfer(t)
         \/ OtherMoves
  PROVE  UNCHANGED adjustment /\ \E m, r : \E S \in SUBSET Items : r \notin Adjustments /\ DocPost(m, S, r)
<1>0. \A t \in Transfers : t \notin Adjustments
  BY DocumentsAssumption
<1>1. ASSUME NEW t \in Transfers, NEW from \in Locations, NEW to \in Locations, NEW S \in SUBSET Items,
             CreateTransfer(t, from, to, S)
      PROVE  UNCHANGED adjustment /\ DocPost("TRANSFER_OUT", S, t)
  BY <1>1, CreatePosts DEF CreateTransfer
<1>2. ASSUME NEW t \in Transfers, NEW S \in SUBSET Items, ReceiveTransfer(t, S)
      PROVE  UNCHANGED adjustment /\ DocPost("TRANSFER_IN", S, t)
  BY <1>2, ReceivePosts DEF ReceiveTransfer
<1>3. ASSUME NEW t \in Transfers, CancelTransfer(t)
      PROVE  UNCHANGED adjustment /\ DocPost("TRANSFER_IN", Pending(t), t) /\ Pending(t) \in SUBSET Items
  BY <1>3, CancelPosts DEF CancelTransfer, Pending
<1>4. CASE OtherMoves
  <2>1. UNCHANGED adjustment
    BY <1>4 DEF OtherMoves
  <2> QED BY <1>4, <2>1, OtherMovesPost
<1> QED BY <1>0, <1>1, <1>2, <1>3, <1>4

LEMMA AdjustmentsKept ==
  ASSUME DocsTypeOK, HistoryOK, [DocsNext]_docVars, \A a \in Adjustments, i \in Items : AppliedOnce(a, i)
  PROVE  \A a \in Adjustments, i \in Items : AppliedOnce(a, i)'
<1>0. TypeOK /\ Reconciles
  BY DEF HistoryOK
<1> SUFFICES ASSUME NEW a \in Adjustments, NEW i \in Items PROVE AppliedOnce(a, i)'
  OBVIOUS
<1>1. CASE \/ \E t \in Transfers, from, to \in Locations, S \in SUBSET Items : CreateTransfer(t, from, to, S)
           \/ \E t \in Transfers, S \in SUBSET Items : ReceiveTransfer(t, S)
           \/ \E t \in Transfers : CancelTransfer(t)
           \/ OtherMoves
  <2>1. UNCHANGED adjustment
    BY <1>1, ForeignPosts
  <2>2. PICK m, r : \E S \in SUBSET Items : r \notin Adjustments /\ DocPost(m, S, r)
    BY <1>1, ForeignPosts
  <2>3. PICK S \in SUBSET Items : r \notin Adjustments /\ DocPost(m, S, r)
    BY <2>2
  <2> QED BY <1>0, <2>1, <2>3, AppliedKept
<1>2. ASSUME NEW b \in Adjustments, NEW u \in Users, ApproveAdjustment(b, u)
      PROVE  AppliedOnce(a, i)'
  <2> DEFINE m == MovementOf(adjustment[b].to)
  <2>1. DocPost(m, {adjustment[b].item}, b) /\ {adjustment[b].item} \in SUBSET Items
    BY <1>2, ApprovePosts
  <2>2. /\ adjustment[b] \in AdjustmentDocs /\ adjustment[b] # None /\ adjustment[b].status = "PENDING"
        /\ item[adjustment[b].item].seq = adjustment[b].expected
        /\ adjustment' = [adjustment EXCEPT ![b].status = "APPROVED", ![b].decidedBy = u]
        /\ adjustment \in [Adjustments -> AdjustmentDocs \union {None}]
    BY <1>2 DEF ApproveAdjustment, Undecided, DocsTypeOK
  <2> HIDE DEF m
  <2>3. CASE a # b
    <3>1. adjustment'[a] = adjustment[a]
      BY <2>2, <2>3
    <3> QED BY <1>0, <2>1, <2>3, <3>1, AppliedKept
  <2>4. CASE a = b
    <3>1. /\ adjustment'[a].status = "APPROVED" /\ adjustment'[a].item = adjustment[a].item
          /\ adjustment'[a].expected = adjustment[a].expected /\ adjustment'[a] \in AdjustmentDocs
      BY <2>2, <2>4 DEF AdjustmentDocs
    <3>2. adjustment'[a] # None
      BY <3>1, DocumentsAssumption
    <3>3. RefEntries(i, a) = {}
      BY <2>2, <2>4 DEF AppliedOnce
    <3>4. RefEntries(i, a)' = IF i = adjustment[a].item THEN {item[i].seq + 1} ELSE {}
      <4>1. RefEntries(i, a)' = RefEntries(i, a) \union (IF i \in {adjustment[b].item} /\ a = b THEN {item[i].seq + 1} ELSE {})
        BY <1>0, <2>1, RefEntriesAfter
      <4> QED BY <2>4, <3>3, <4>1
    <3>5. i = adjustment[a].item => item[i].seq = adjustment'[a].expected
      BY <2>2, <2>4, <3>1
    <3> QED BY <3>1, <3>2, <3>4, <3>5 DEF AppliedOnce
  <2> QED BY <2>3, <2>4
<1>3. ASSUME UNCHANGED <<item, ledger, transfer>>, NEW b \in Adjustments, NEW u \in Users,
             \/ RejectAdjustment(b, u)
             \/ \E j \in Items, to \in RequestStatuses, edit \in RequestEdits : RequestAdjustment(b, u, j, to, edit)
      PROVE  AppliedOnce(a, i)'
  <2>1. RefEntries(i, a)' = RefEntries(i, a)
    BY <1>3 DEF RefEntries
  <2>2. /\ a # b => adjustment'[a] = adjustment[a]
        /\ a = b => /\ adjustment[a] = None \/ adjustment[a].status = "PENDING"
                    /\ adjustment'[a].status # "APPROVED"
    BY <1>3 DEF RejectAdjustment, RequestAdjustment, Undecided, DocsTypeOK, AdjustmentDocs
  <2>3. CASE a # b
    BY <2>1, <2>2, <2>3 DEF AppliedOnce
  <2>4. CASE a = b
    BY <2>1, <2>2, <2>4 DEF AppliedOnce
  <2> QED BY <2>3, <2>4
<1>4. CASE UNCHANGED <<item, ledger, transfer>> /\ UNCHANGED adjustment
  BY <1>4 DEF AppliedOnce, RefEntries
<1> QED BY <1>1, <1>2, <1>3, <1>4, DocsCases

-----------------------------------------------------------------------------
(* A transfer and its two entries per piece. *)

Out(entries, t)  == EntriesOf(entries, "TRANSFER_OUT", t)
Back(entries, t) == EntriesOf(entries, "TRANSFER_IN", t)

BackAt(entries, t, loc) == \E k \in 1..Len(entries) : Back(entries, t) = {k} /\ entries[k].dst = loc

LineTrue(i, t) ==
  /\ transfer[t] = None => Out(ledger[i], t) = {} /\ Back(ledger[i], t) = {}
  /\ transfer[t] # None =>
       /\ transfer[t].lines[i] = "NONE" => Out(ledger[i], t) = {}
       /\ transfer[t].lines[i] # "NONE" => \E k \in Int : Out(ledger[i], t) = {k}
       /\ transfer[t].lines[i] \in {"NONE", "PENDING"} => Back(ledger[i], t) = {}
       /\ transfer[t].lines[i] = "RECEIVED" => BackAt(ledger[i], t, transfer[t].to)
       /\ transfer[t].lines[i] = "RETURNED" => BackAt(ledger[i], t, transfer[t].from)

OpenWhilePending(t) ==
  transfer[t] # None => ((transfer[t].status = "IN_TRANSIT") <=> (\E i \in Items : transfer[t].lines[i] = "PENDING"))

LEMMA LineKept ==
  ASSUME NEW t \in Transfers, NEW i \in Items, LineTrue(i, t), transfer'[t] = transfer[t],
         Out(ledger'[i], t) = Out(ledger[i], t), Back(ledger'[i], t) = Back(ledger[i], t),
         \/ ledger'[i] = ledger[i]
         \/ /\ Len(ledger[i]) \in Nat /\ Len(ledger'[i]) = Len(ledger[i]) + 1
            /\ \A k \in 1..Len(ledger[i]) : ledger'[i][k] = ledger[i][k]
  PROVE  LineTrue(i, t)'
<1>1. ASSUME NEW loc, BackAt(ledger[i], t, loc)
      PROVE  BackAt(ledger'[i], t, loc)
  <2>1. PICK k \in 1..Len(ledger[i]) : Back(ledger[i], t) = {k} /\ ledger[i][k].dst = loc
    BY <1>1 DEF BackAt
  <2>2. k \in 1..Len(ledger'[i]) /\ ledger'[i][k] = ledger[i][k]
    BY <2>1
  <2> QED BY <2>1, <2>2 DEF BackAt
<1> HIDE DEF Out, Back, BackAt
<1> QED BY <1>1 DEF LineTrue

(* A posting for something else leaves the transfer's lines true. *)
LEMMA ForeignLine ==
  ASSUME TypeOK, Reconciles, NEW m, NEW S, NEW r, DocPost(m, S, r),
         NEW t \in Transfers, t # r, transfer'[t] = transfer[t], NEW i \in Items, LineTrue(i, t)
  PROVE  LineTrue(i, t)'
<1>1. Out(ledger'[i], t) = Out(ledger[i], t)
  BY EntriesKept DEF Out
<1>2. Back(ledger'[i], t) = Back(ledger[i], t)
  BY EntriesKept DEF Back
<1>3. CASE i \in S
  <2>1. Grows(i, m, r)
    BY <1>3, EntriesGrow
  <2> QED BY <1>1, <1>2, <2>1, LineKept DEF Grows
<1>4. CASE i \notin S
  <2>1. ledger'[i] = ledger[i]
    BY <1>4, EntriesGrow
  <2> QED BY <1>1, <1>2, <2>1, LineKept
<1> QED BY <1>3, <1>4

(* The dispatch writes the one TRANSFER_OUT of each of its pieces. *)
LEMMA DispatchedLine ==
  ASSUME DocsTypeOK, Reconciles, NEW t \in Transfers, NEW from \in Locations, NEW to \in Locations,
         NEW S \in SUBSET Items, CreateTransfer(t, from, to, S), NEW i \in Items, LineTrue(i, t)
  PROVE  LineTrue(i, t)'
<1>1. DocPost("TRANSFER_OUT", S, t) /\ TypeOK
  BY CreatePosts DEF DocsTypeOK
<1>2. Out(ledger[i], t) = {} /\ Back(ledger[i], t) = {}
  BY DEF LineTrue, CreateTransfer
<1>3. /\ i \in S => Out(ledger'[i], t) = {Len(ledger[i]) + 1}
      /\ i \notin S => Out(ledger'[i], t) = {}
  <2>1. i \in S => Out(ledger'[i], t) = Out(ledger[i], t) \union {Len(ledger[i]) + 1}
    BY <1>1, EntriesAdded DEF Out
  <2>2. i \notin S => Out(ledger'[i], t) = Out(ledger[i], t)
    BY <1>1, EntriesKept DEF Out
  <2> QED BY <1>2, <2>1, <2>2
<1>4. Back(ledger'[i], t) = {}
  <2>1. Back(ledger'[i], t) = Back(ledger[i], t)
    BY <1>1, EntriesKept DEF Back
  <2> QED BY <1>2, <2>1
<1>5. /\ transfer'[t].lines[i] = (IF i \in S THEN "PENDING" ELSE "NONE")
      /\ transfer'[t] \in TransferDocs
  BY DEF CreateTransfer, DocsTypeOK, TransferDocs, LineStates
<1>6. transfer'[t] # None
  BY <1>5, DocumentsAssumption
<1>7. Len(ledger[i]) + 1 \in Int
  BY <1>1 DEF TypeOK
<1> HIDE DEF Out, Back
<1> QED BY <1>3, <1>4, <1>5, <1>6, <1>7 DEF LineTrue

(* An intake, here or back home, writes the one TRANSFER_IN of each.       *)
LEMMA IntakenLine ==
  ASSUME DocsTypeOK, Reconciles, NEW t \in Transfers, InTransit(t), NEW S \in SUBSET Items, S \subseteq Pending(t),
         NEW loc \in Locations, NEW state \in {"RECEIVED", "RETURNED"},
         state = "RECEIVED" => loc = transfer[t].to, state = "RETURNED" => loc = transfer[t].from,
         Post("TRANSFER_IN", S, IntakeLine(t, loc)), DocPost("TRANSFER_IN", S, t), Resolve(t, S, state),
         NEW i \in Items, LineTrue(i, t)
  PROVE  LineTrue(i, t)'
<1>0. TypeOK /\ transfer[t] # None
  BY DEF DocsTypeOK, InTransit
<1>1. /\ transfer'[t] \in TransferDocs
      /\ transfer'[t].lines[i] = IF i \in S THEN state ELSE transfer[t].lines[i]
      /\ transfer'[t].from = transfer[t].from /\ transfer'[t].to = transfer[t].to
  <2>1. /\ transfer'[t] \in TransferDocs
        /\ transfer'[t].lines = [x \in Items |-> IF x \in S THEN state ELSE transfer[t].lines[x]]
        /\ transfer'[t].from = transfer[t].from /\ transfer'[t].to = transfer[t].to
    <3>1. state \in LineStates /\ S \subseteq Items
      BY DEF LineStates
    <3> QED BY <3>1, ResolveFrame
  <2> QED BY <2>1
<1>2. transfer'[t] # None
  BY <1>1, DocumentsAssumption
<1>3. Out(ledger'[i], t) = Out(ledger[i], t)
  BY <1>0, EntriesKept DEF Out
<1>4. /\ i \in S => Back(ledger'[i], t) = Back(ledger[i], t) \union {Len(ledger[i]) + 1}
      /\ i \notin S => Back(ledger'[i], t) = Back(ledger[i], t)
  <2>1. i \in S => Back(ledger'[i], t) = Back(ledger[i], t) \union {Len(ledger[i]) + 1}
    BY <1>0, EntriesAdded DEF Back
  <2>2. i \notin S => Back(ledger'[i], t) = Back(ledger[i], t)
    BY <1>0, EntriesKept DEF Back
  <2> QED BY <2>1, <2>2
<1>5. CASE i \in S
  <2>1. transfer[t].lines[i] = "PENDING"
    BY <1>5 DEF Pending
  <2>2. Back(ledger[i], t) = {} /\ \E k \in Int : Out(ledger[i], t) = {k}
    BY <1>0, <2>1 DEF LineTrue
  <2>3. Back(ledger'[i], t) = {Len(ledger[i]) + 1}
    BY <1>4, <1>5, <2>2
  <2>4. ledger'[i][Len(ledger[i]) + 1].dst = loc /\ Len(ledger[i]) + 1 \in 1..Len(ledger'[i])
    <3>1. /\ ledger'[i][Len(ledger[i]) + 1] = Entry("TRANSFER_IN", i, IntakeLine(t, loc))
          /\ Len(ledger'[i]) = Len(ledger[i]) + 1 /\ Len(ledger[i]) \in Nat
      <4>1. LineOK("TRANSFER_IN", IntakeLine(t, loc))
        BY IntakeLineOK
      <4> QED BY <1>0, <1>5, <4>1, PostFrame, ZenonT(40)
    <3>2. IntakeLine(t, loc).dest = loc /\ loc # None
      BY NoneAssumption DEF IntakeLine, Line
    <3>3. Entry("TRANSFER_IN", i, IntakeLine(t, loc)).dst = loc
      BY <3>2 DEF Entry, Destination
    <3> QED BY <3>1, <3>3
  <2>5. BackAt(ledger'[i], t, loc)
    BY <2>3, <2>4 DEF BackAt
  <2> HIDE DEF Out, Back, BackAt
  <2> QED BY <1>1, <1>2, <1>3, <1>5, <2>2, <2>5 DEF LineTrue
<1>6. CASE i \notin S
  <2>1. ledger'[i] = ledger[i]
    BY <1>0, <1>6, EntriesGrow
  <2>2. transfer'[t].lines[i] = transfer[t].lines[i] /\ Back(ledger'[i], t) = Back(ledger[i], t)
    BY <1>1, <1>4, <1>6
  <2>3. \A x : BackAt(ledger[i], t, x) => BackAt(ledger'[i], t, x)
    BY <2>1, <2>2 DEF BackAt
  <2> HIDE DEF Out, Back, BackAt
  <2> QED BY <1>0, <1>1, <1>2, <1>3, <2>2, <2>3 DEF LineTrue
<1> QED BY <1>5, <1>6

TransfersTrue == \A t \in Transfers : OpenWhilePending(t) /\ \A i \in Items : LineTrue(i, t)

LEMMA ResolvedOpen ==
  ASSUME DocsTypeOK, NEW t \in Transfers, InTransit(t), NEW S \in SUBSET Items, NEW state \in LineStates,
         Resolve(t, S, state)
  PROVE  OpenWhilePending(t)'
<1> DEFINE next == [transfer[t] EXCEPT !.lines = [i \in Items |-> IF i \in S THEN state ELSE transfer[t].lines[i]]]
<1>1. transfer[t] \in TransferDocs /\ transfer[t].status = "IN_TRANSIT"
  BY DEF DocsTypeOK, InTransit
<1>2. next.status = "IN_TRANSIT" /\ next \in TransferDocs
  BY <1>1 DEF TransferDocs
<1>3. transfer'[t] = Settled(next)
  BY DEF Resolve, Resolved, DocsTypeOK
<1> HIDE DEF next
<1>4. CASE \E i \in Items : next.lines[i] = "PENDING"
  BY <1>2, <1>3, <1>4 DEF Settled, OpenWhilePending
<1>5. CASE ~\E i \in Items : next.lines[i] = "PENDING"
  <2>1. PICK st \in {"RECEIVED", "CANCELLED"} : transfer'[t] = [next EXCEPT !.status = st]
    BY <1>3, <1>5 DEF Settled
  <2>2. transfer'[t].status # "IN_TRANSIT" /\ transfer'[t].lines = next.lines
    BY <1>2, <2>1 DEF TransferDocs
  <2> QED BY <1>5, <2>2 DEF OpenWhilePending
<1> QED BY <1>4, <1>5

LEMMA TransferKept ==
  ASSUME NEW t \in Transfers, transfer'[t] = transfer[t], OpenWhilePending(t)
  PROVE  OpenWhilePending(t)'
BY DEF OpenWhilePending

LEMMA TransfersKept ==
  ASSUME DocsTypeOK, HistoryOK, [DocsNext]_docVars, TransfersTrue
  PROVE  TransfersTrue'
<1>0. TypeOK /\ Reconciles /\ transfer \in [Transfers -> TransferDocs \union {None}]
  BY DEF HistoryOK, DocsTypeOK
<1> SUFFICES ASSUME NEW t \in Transfers PROVE OpenWhilePending(t)' /\ \A i \in Items : LineTrue(i, t)'
  BY DEF TransfersTrue
<1>a. OpenWhilePending(t) /\ \A i \in Items : LineTrue(i, t)
  BY DEF TransfersTrue
<1>1. ASSUME NEW m, NEW S, NEW r, DocPost(m, S, r), t # r, transfer'[t] = transfer[t]
      PROVE  OpenWhilePending(t)' /\ \A i \in Items : LineTrue(i, t)'
  BY <1>0, <1>a, <1>1, TransferKept, ForeignLine
<1>2. ASSUME NEW x \in Transfers, NEW from \in Locations, NEW to \in Locations, NEW S \in (SUBSET Items) \ {{}},
             CreateTransfer(x, from, to, S)
      PROVE  OpenWhilePending(t)' /\ \A i \in Items : LineTrue(i, t)'
  <2>1. CASE t # x
    <3>1. transfer'[t] = transfer[t]
      BY <1>0, <1>2, <2>1 DEF CreateTransfer
    <3> QED BY <1>1, <1>2, <2>1, <3>1, CreatePosts
  <2>2. CASE t = x
    <3>1. transfer'[t] = [from |-> from, to |-> to, status |-> "IN_TRANSIT",
                          lines |-> [i \in Items |-> IF i \in S THEN "PENDING" ELSE "NONE"]]
      BY <1>0, <1>2, <2>2 DEF CreateTransfer
    <3>2. \E i \in Items : transfer'[t].lines[i] = "PENDING"
      <4>0. S # {} /\ S \subseteq Items
        OBVIOUS
      <4>1. PICK i \in Items : i \in S
        BY <4>0
      <4>2. transfer'[t].lines[i] = "PENDING"
        BY <3>1, <4>1
      <4> QED BY <4>2
    <3> QED BY <1>0, <1>2, <1>a, <2>2, <3>1, <3>2, DispatchedLine DEF OpenWhilePending
  <2> QED BY <2>1, <2>2
<1>3. ASSUME NEW x \in Transfers, NEW S \in SUBSET Items, ReceiveTransfer(x, S)
      PROVE  OpenWhilePending(t)' /\ \A i \in Items : LineTrue(i, t)'
  <2>1. /\ InTransit(x) /\ S \subseteq Pending(x) /\ Resolve(x, S, "RECEIVED")
        /\ transfer[x].to \in Locations /\ "RECEIVED" \in LineStates
    BY <1>3 DEF ReceiveTransfer, InTransit, DocsTypeOK, TransferDocs, LineStates
  <2>2. DocPost("TRANSFER_IN", S, x) /\ Post("TRANSFER_IN", S, IntakeLine(x, transfer[x].to))
    BY <1>3, ReceivePosts
  <2>3. CASE t # x
    <3>1. transfer'[t] = transfer[t]
      BY <2>1, <2>3, ResolveFrame
    <3> QED BY <1>1, <2>2, <2>3, <3>1
  <2>4. CASE t = x
    <3>1. OpenWhilePending(t)'
      BY <2>1, <2>4, ResolvedOpen
    <3>2. \A i \in Items : LineTrue(i, t)'
      BY <1>0, <1>a, <2>1, <2>2, <2>4, IntakenLine
    <3> QED BY <3>1, <3>2
  <2> QED BY <2>3, <2>4
<1>4. ASSUME NEW x \in Transfers, CancelTransfer(x)
      PROVE  OpenWhilePending(t)' /\ \A i \in Items : LineTrue(i, t)'
  <2>1. /\ InTransit(x) /\ Pending(x) \in SUBSET Items /\ Resolve(x, Pending(x), "RETURNED")
        /\ transfer[x].from \in Locations /\ "RETURNED" \in LineStates
    BY <1>4 DEF CancelTransfer, InTransit, DocsTypeOK, TransferDocs, LineStates, Pending
  <2>2. DocPost("TRANSFER_IN", Pending(x), x) /\ Post("TRANSFER_IN", Pending(x), IntakeLine(x, transfer[x].from))
    BY <1>4, CancelPosts
  <2>3. CASE t # x
    <3>1. transfer'[t] = transfer[t]
      BY <2>1, <2>3, ResolveFrame
    <3> QED BY <1>1, <2>2, <2>3, <3>1
  <2>4. CASE t = x
    <3>1. OpenWhilePending(t)'
      BY <2>1, <2>4, ResolvedOpen
    <3>2. \A i \in Items : LineTrue(i, t)'
      BY <1>0, <1>a, <2>1, <2>2, <2>4, IntakenLine
    <3> QED BY <3>1, <3>2
  <2> QED BY <2>3, <2>4
<1>5. ASSUME NEW a \in Adjustments, NEW u \in Users, ApproveAdjustment(a, u)
      PROVE  OpenWhilePending(t)' /\ \A i \in Items : LineTrue(i, t)'
  <2>1. t # a /\ transfer'[t] = transfer[t]
    BY <1>5, DocumentsAssumption DEF ApproveAdjustment
  <2> QED BY <1>1, <1>5, <2>1, ApprovePosts
<1>6. CASE OtherMoves
  <2>1. PICK m \in Movements \ {"TRANSFER_OUT", "TRANSFER_IN"}, S \in SUBSET Items,
             r \in (Refs \union {None}) \ (Transfers \union Adjustments) : DocPost(m, S, r)
    BY <1>6, OtherMovesPost
  <2>2. t # r /\ transfer'[t] = transfer[t]
    BY <1>6 DEF OtherMoves
  <2> QED BY <1>1, <2>1, <2>2
<1>7. CASE UNCHANGED <<item, ledger, transfer>>
  BY <1>a, <1>7 DEF OpenWhilePending, LineTrue
<1> QED BY <1>2, <1>3, <1>4, <1>5, <1>6, <1>7, DocsCases

-----------------------------------------------------------------------------
(* The documents' invariant: the ledger's own, and what each document says *)
(* of the entries that refer to it.  Which entries those are needs the     *)
(* ledger's numbering (Reconciles): an adjustment's is the one after the   *)
(* number its requester saw.                                               *)
DocsOK ==
  /\ DocsTypeOK
  /\ HistoryOK
  /\ TransfersTrue
  /\ \A a \in Adjustments, i \in Items : AppliedOnce(a, i)

LEMMA DocsInitOK == DocsInit => DocsOK
<1> SUFFICES ASSUME DocsInit PROVE DocsOK
  OBVIOUS
<1>1. DocsTypeOK /\ HistoryOK
  BY InitHistory DEF DocsInit, DocsTypeOK, HistoryOK
<1>2. \A i \in Items : ledger[i] = <<>> /\ Len(ledger[i]) = 0
  BY DEF DocsInit, Init
<1>3. \A t \in Transfers : transfer[t] = None
  BY DEF DocsInit
<1>4. \A a \in Adjustments : adjustment[a] = None
  BY DEF DocsInit
<1>5. TransfersTrue
  BY <1>2, <1>3 DEF TransfersTrue, OpenWhilePending, LineTrue, Out, Back, EntriesOf
<1>6. \A a \in Adjustments, i \in Items : AppliedOnce(a, i)
  BY <1>2, <1>4 DEF AppliedOnce, RefEntries
<1> QED BY <1>1, <1>5, <1>6 DEF DocsOK

LEMMA DocsInvariant == DocsSpec => []DocsOK
<1>1. DocsOK /\ [DocsNext]_docVars => DocsOK'
  <2> SUFFICES ASSUME DocsOK, [DocsNext]_docVars PROVE DocsOK'
    OBVIOUS
  <2>1. DocsTypeOK /\ HistoryOK /\ TransfersTrue /\ \A a \in Adjustments, i \in Items : AppliedOnce(a, i)
    BY DEF DocsOK
  <2>2. DocsTypeOK'
    BY <2>1, DocsStepTypes
  <2>3. HistoryOK'
    BY <2>1, DocsSteps, StepHistory
  <2>4. TransfersTrue'
    BY <2>1, TransfersKept
  <2>5. \A a \in Adjustments, i \in Items : AppliedOnce(a, i)'
    BY <2>1, AdjustmentsKept
  <2> QED BY <2>2, <2>3, <2>4, <2>5 DEF DocsOK
<1> QED BY DocsInitOK, <1>1, PTL DEF DocsSpec

(* A transfer's lines say exactly what the ledger shows of its pieces: for *)
(* any number of transfers and adjustments, each piece was dispatched once *)
(* and taken in once, where the line says, and never otherwise.            *)
THEOREM TransfersMatchLedger == DocsSpec => []TransferMatchesLedger
<1>1. DocsOK => TransferMatchesLedger
  <2> SUFFICES ASSUME DocsOK, NEW t \in Transfers, transfer[t] # None
               PROVE  /\ \A i \in Items :
                           /\ Cardinality(Out(ledger[i], t)) = (IF transfer[t].lines[i] = "NONE" THEN 0 ELSE 1)
                           /\ Cardinality(Back(ledger[i], t)) = (IF transfer[t].lines[i] \in {"RECEIVED", "RETURNED"} THEN 1 ELSE 0)
                           /\ \A k \in Back(ledger[i], t) :
                                ledger[i][k].dst = (IF transfer[t].lines[i] = "RECEIVED" THEN transfer[t].to ELSE transfer[t].from)
                      /\ (transfer[t].status = "IN_TRANSIT") <=> (Pending(t) # {})
    BY DEF TransferMatchesLedger, Out, Back
  <2>1. transfer[t] \in TransferDocs /\ TransfersTrue
    BY DEF DocsOK, DocsTypeOK
  <2>2. ASSUME NEW i \in Items
        PROVE  /\ Cardinality(Out(ledger[i], t)) = (IF transfer[t].lines[i] = "NONE" THEN 0 ELSE 1)
               /\ Cardinality(Back(ledger[i], t)) = (IF transfer[t].lines[i] \in {"RECEIVED", "RETURNED"} THEN 1 ELSE 0)
               /\ \A k \in Back(ledger[i], t) :
                    ledger[i][k].dst = (IF transfer[t].lines[i] = "RECEIVED" THEN transfer[t].to ELSE transfer[t].from)
    <3>1. LineTrue(i, t) /\ transfer[t].lines[i] \in {"PENDING", "RECEIVED", "RETURNED", "NONE"}
      BY <2>1 DEF TransfersTrue, TransferDocs, LineStates
    <3>2. Cardinality(Out(ledger[i], t)) = (IF transfer[t].lines[i] = "NONE" THEN 0 ELSE 1)
      BY <3>1, FS_EmptySet, FS_Singleton DEF LineTrue
    <3>3. CASE transfer[t].lines[i] \in {"NONE", "PENDING"}
      BY <3>1, <3>2, <3>3, FS_EmptySet DEF LineTrue
    <3>4. CASE transfer[t].lines[i] = "RECEIVED"
      <4>1. PICK k : Back(ledger[i], t) = {k} /\ ledger[i][k].dst = transfer[t].to
        BY <3>1, <3>4 DEF LineTrue, BackAt
      <4> QED BY <3>2, <3>4, <4>1, FS_Singleton
    <3>5. CASE transfer[t].lines[i] = "RETURNED"
      <4>1. PICK k : Back(ledger[i], t) = {k} /\ ledger[i][k].dst = transfer[t].from
        BY <3>1, <3>5 DEF LineTrue, BackAt
      <4> QED BY <3>2, <3>5, <4>1, FS_Singleton
    <3> QED BY <3>1, <3>3, <3>4, <3>5
  <2>3. (transfer[t].status = "IN_TRANSIT") <=> (Pending(t) # {})
    BY <2>1 DEF TransfersTrue, OpenWhilePending, Pending
  <2> QED BY <2>2, <2>3
<1> QED BY DocsInvariant, <1>1, PTL

(* However many requests pile up on an item, an approved adjustment made   *)
(* the entry right after the one its requester saw, and no other, and a    *)
(* request that was not approved has touched nothing.                      *)
THEOREM AdjustmentsMatchLedger == DocsSpec => []AdjustmentMatchesLedger
<1>1. DocsOK => AdjustmentMatchesLedger
  BY DEF DocsOK, AppliedOnce, RefEntries, AdjustmentMatchesLedger
<1> QED BY DocsInvariant, <1>1, PTL

(* Transfers and adjustments too move every piece as an abstract custody.  *)
THEOREM DocumentsImplementCustody == DocsSpec => ImplementsCustody
<1>1. DocsInit => Abstract!Init
  BY InitImplements DEF DocsInit
<1>2. DocsOK /\ DocsOK' /\ [DocsNext]_docVars => [Abstract!Next]_Custody
  BY DocsSteps, StepImplements DEF DocsOK
<1> QED BY DocsInvariant, <1>1, <1>2, PTL DEF DocsSpec, Abstract!Spec, ImplementsCustody

-----------------------------------------------------------------------------
(* Holds: releasing one on what was read earlier does the ledger no harm,  *)
(* and frees a piece only from the reference named.                        *)

(* Every release, however late, is a posting of the ledger or no write.     *)
LEMMA ReleaseOrRefuseStep ==
  ASSUME NEW S \in SUBSET Items, NEW r \in Refs, ReleaseOrRefuse(S, r)
  PROVE  LedgerStep
<1>1. CASE Release(S, r, FALSE)
  BY <1>1, ReleaseIsPosted DEF LedgerStep
<1>2. CASE UNCHANGED vars
  BY <1>2 DEF LedgerStep
<1> QED BY <1>1, <1>2 DEF ReleaseOrRefuse

LEMMA HoldsSteps == HoldsTypeOK /\ [HoldsNext]_holdVars => LedgerStep
<1> SUFFICES ASSUME HoldsTypeOK, [HoldsNext]_holdVars PROVE LedgerStep
  OBVIOUS
<1>1. CASE StockMoves
  BY <1>1, StepCases DEF StockMoves, LedgerStep
<1>2. CASE SweepRead
  BY <1>2 DEF SweepRead, LedgerStep, vars
<1>3. ASSUME NEW u \in Users, NEW S \in SUBSET Items, NEW r \in Refs, Vet(u, S, r)
      PROVE  LedgerStep
  BY <1>3 DEF Vet, LedgerStep, vars
<1>4. ASSUME NEW i \in Items, NEW r \in Refs, SweepRelease(i, r)
      PROVE  LedgerStep
  BY <1>4, ReleaseOrRefuseStep DEF SweepRelease
<1>5. ASSUME NEW v \in vetted, ReleaseVetted(v)
      PROVE  LedgerStep
  <2>1. v.items \in SUBSET Items /\ v.ref \in Refs
    BY DEF HoldsTypeOK, Vettings
  <2> QED BY <1>5, <2>1, ReleaseOrRefuseStep DEF ReleaseVetted
<1>6. ASSUME NEW u \in Managers, NEW S \in SUBSET Items, NEW r \in Refs, NEW force \in BOOLEAN,
             ManagerRelease(u, S, r, force)
      PROVE  LedgerStep
  BY <1>6, ReleaseIsPosted DEF ManagerRelease, LedgerStep
<1>7. CASE UNCHANGED holdVars
  BY <1>7 DEF holdVars, vars, LedgerStep
<1> QED BY <1>1, <1>2, <1>3, <1>4, <1>5, <1>6, <1>7 DEF HoldsNext, Release1

-----------------------------------------------------------------------------
(* What is remembered between the look and the write is well-typed. *)

LEMMA HoldsStepTypes == HoldsTypeOK /\ [HoldsNext]_holdVars => HoldsTypeOK'
<1> SUFFICES ASSUME HoldsTypeOK, [HoldsNext]_holdVars PROVE HoldsTypeOK'
  OBVIOUS
<1>0. TypeOK'
  BY HoldsSteps, StepTypes DEF HoldsTypeOK
<1>1. CASE SweepRead
  <2>1. \A i \in Items : item[i].hold # None => item[i].hold.ref \in Refs
    BY DEF HoldsTypeOK, TypeOK, ItemDocs, Absent, Holds
  <2> QED BY <1>0, <1>1, <2>1 DEF SweepRead, HoldsTypeOK
<1>2. ASSUME NEW u \in Users, NEW S \in SUBSET Items, NEW r \in Refs, Vet(u, S, r)
      PROVE  HoldsTypeOK'
  BY <1>0, <1>2 DEF Vet, HoldsTypeOK, Vettings
<1>3. CASE stale' \subseteq stale /\ vetted' \subseteq vetted
  BY <1>0, <1>3 DEF HoldsTypeOK
<1>4. StockMoves \/ Release1 \/ UNCHANGED holdVars => stale' \subseteq stale /\ vetted' \subseteq vetted
  BY DEF StockMoves, Release1, SweepRelease, ReleaseVetted, ManagerRelease, holdVars
<1> QED BY <1>1, <1>2, <1>3, <1>4 DEF HoldsNext

HoldsOK == HoldsTypeOK /\ HistoryOK

LEMMA HoldsInvariant == HoldsSpec => []HoldsOK
<1>1. HoldsInit => HoldsOK
  BY InitHistory DEF HoldsInit, HoldsOK, HoldsTypeOK, HistoryOK
<1>2. HoldsOK /\ [HoldsNext]_holdVars => HoldsOK'
  BY HoldsSteps, HoldsStepTypes, StepHistory DEF HoldsOK
<1> QED BY <1>1, <1>2, PTL DEF HoldsSpec

(* The ledger reconciles, and its holds and sales stay true to it, however  *)
(* the sweep and the releases are delayed and interleaved with everything.  *)
THEOREM HoldsKeepHistory == HoldsSpec => [](Reconciles /\ HoldMatchesLedger /\ SaleHonoursHold)
<1>1. HoldsOK => Reconciles /\ HoldMatchesLedger /\ SaleHonoursHold
  BY DEF HoldsOK, HistoryOK
<1> QED BY HoldsInvariant, <1>1, PTL

-----------------------------------------------------------------------------
(* A piece is freed from the reference that is named. *)

Freed(i) ==
  \/ LastEntry(i)'.ref = item[i].hold.ref
  \/ \E u \in Managers, S \in SUBSET Items, r \in Refs : ManagerRelease(u, S, r, TRUE)

LEMMA FreedByPosting ==
  ASSUME HistoryOK, NEW m, NEW S \in SUBSET Items, NEW l, LineOK(m, l), Post(m, S, l), ~l.override,
         NEW i \in Items, Frees(i)
  PROVE  LastEntry(i)'.ref = item[i].hold.ref
<1>0. TypeOK /\ Reconciles /\ HoldMatchesLedger
  BY DEF HistoryOK
<1>1. item[i].hold # None /\ item[i].status = "RESERVED" /\ item'[i].status = "AVAILABLE"
  BY <1>0 DEF Frees, HoldMatchesLedger
<1>2. i \in S
  BY <1>0, <1>1, PostFrame
<1>3. /\ CanPost(m, i, l)
      /\ item'[i] = Posted(m, i, l)
      /\ LastEntry(i)' = Entry(m, i, l)
  BY <1>0, <1>2, PostFrame DEF LastEntry
<1>4. Target(i, l) = "AVAILABLE"
  BY <1>1, <1>3 DEF Posted
<1>5. m # "RESERVATION"
  BY <1>0, <1>1, <1>3, HoldAfterPost
<1>6. Holder(i) = l.claim
  BY <1>1, <1>3, <1>5 DEF CanPost, HoldAllowed, HoldHonoured
<1>7. item[i].hold.ref = l.claim /\ l.claim \in Refs
  BY <1>0, <1>1, <1>6 DEF Holder, TypeOK, ItemDocs, Absent, Holds
<1>8. l.claim = l.ref
  BY <1>7, NoneAssumption DEF LineOK
<1> QED BY <1>3, <1>7, <1>8 DEF Entry

LEMMA FreedOnlyByPosting ==
  ASSUME HistoryOK, ReceiveStep \/ LapseStep \/ UNCHANGED vars, NEW i \in Items
  PROVE  ~Frees(i)
<1>0. TypeOK /\ HoldMatchesLedger
  BY DEF HistoryOK
<1>a. Frees(i) => item[i].status = "RESERVED" /\ item'[i].status = "AVAILABLE"
  BY <1>0 DEF Frees, HoldMatchesLedger
<1>1. CASE ReceiveStep
  <2>1. PICK m \in Movements, j \in Items, s \in Statuses, loc \in Locations, b \in 1..MaxBal : Receive(m, j, s, loc, b)
    BY <1>1 DEF ReceiveStep
  <2>2. CASE i = j
    BY <1>0, <1>a, <2>1, <2>2, ReceiveFrame DEF Exists
  <2>3. CASE i # j
    BY <1>0, <1>a, <2>1, <2>3, ReceiveFrame
  <2> QED BY <2>2, <2>3
<1>2. CASE LapseStep
  <2>1. PICK j \in Items : HoldLapses(j)
    BY <1>2 DEF LapseStep
  <2> QED BY <1>0, <1>a, <2>1, LapseFrame
<1>3. CASE UNCHANGED vars
  BY <1>a, <1>3 DEF vars
<1> QED BY <1>1, <1>2, <1>3

LEMMA FreedByRelease ==
  ASSUME HistoryOK, NEW S \in SUBSET Items, NEW r \in Refs, ReleaseOrRefuse(S, r), NEW i \in Items, Frees(i)
  PROVE  Freed(i)
<1>1. CASE Release(S, r, FALSE)
  <2>1. ~ReleasingLine(r, FALSE).override
    BY DEF ReleasingLine, Line
  <2> QED BY <1>1, <2>1, ReleaseIsPosted, FreedByPosting DEF Freed
<1>2. CASE UNCHANGED vars
  BY <1>2, FreedOnlyByPosting
<1> QED BY <1>1, <1>2 DEF ReleaseOrRefuse

LEMMA StepFrees ==
  ASSUME HoldsOK, [HoldsNext]_holdVars, NEW i \in Items, Frees(i)
  PROVE  Freed(i)
<1>0. HistoryOK /\ HoldsTypeOK
  BY DEF HoldsOK
<1>1. CASE StockMoves
  <2>1. PostStep
    BY <1>0, <1>1, StepCases, FreedOnlyByPosting DEF StockMoves
  <2>2. PICK m \in Movements, S \in SUBSET Items, l \in Lines : LineOK(m, l) /\ Post(m, S, l)
    BY <2>1 DEF PostStep
  <2>3. CASE l.override
    <3>1. l.ref \in Refs /\ Release(S, l.ref, TRUE)
      BY <2>2, <2>3 DEF LineOK, Release, ReleasingLine
    <3>2. PICK u \in Managers : TRUE
      BY ManagersAssumption
    <3>3. ManagerRelease(u, S, l.ref, TRUE)
      BY <1>1, <3>1 DEF StockMoves, ManagerRelease
    <3> QED BY <3>1, <3>3 DEF Freed
  <2>4. CASE ~l.override
    BY <1>0, <2>2, <2>4, FreedByPosting DEF Freed
  <2> QED BY <2>3, <2>4
<1>2. CASE SweepRead
  BY <1>0, <1>2, FreedOnlyByPosting DEF SweepRead, vars
<1>3. ASSUME NEW u \in Users, NEW S \in SUBSET Items, NEW r \in Refs, Vet(u, S, r)
      PROVE  FALSE
  BY <1>0, <1>3, FreedOnlyByPosting DEF Vet, vars
<1>4. ASSUME NEW j \in Items, NEW r \in Refs, SweepRelease(j, r)
      PROVE  Freed(i)
  BY <1>0, <1>4, FreedByRelease DEF SweepRelease
<1>5. ASSUME NEW v \in vetted, ReleaseVetted(v)
      PROVE  Freed(i)
  <2>1. v.items \in SUBSET Items /\ v.ref \in Refs
    BY <1>0 DEF HoldsTypeOK, Vettings
  <2> QED BY <1>0, <1>5, <2>1, FreedByRelease DEF ReleaseVetted
<1>6. ASSUME NEW u \in Managers, NEW S \in SUBSET Items, NEW r \in Refs, NEW force \in BOOLEAN,
             ManagerRelease(u, S, r, force)
      PROVE  Freed(i)
  <2>1. CASE force = TRUE
    BY <1>6, <2>1 DEF Freed
  <2>2. CASE force = FALSE
    <3>1. ReleaseOrRefuse(S, r)
      BY <1>6, <2>2 DEF ManagerRelease, ReleaseOrRefuse
    <3> QED BY <1>0, <3>1, FreedByRelease
  <2> QED BY <2>1, <2>2
<1>7. CASE UNCHANGED holdVars
  BY <1>0, <1>7, FreedOnlyByPosting DEF holdVars, vars
<1> QED BY <1>1, <1>2, <1>3, <1>4, <1>5, <1>6, <1>7 DEF HoldsNext, Release1

(* For any number of sweeps and releases in flight: unless a manager forces *)
(* it, a hold is only ever ended for the reference that holds the piece.    *)
THEOREM ReleasesMatchHolders == HoldsSpec => UnforcedReleaseMatchesHolder
<1>1. HoldsOK /\ [HoldsNext]_holdVars => \A i \in Items : Frees(i) => Freed(i)
  BY StepFrees
<1>2. (\A i \in Items : Frees(i) => Freed(i)) =>
        \A i \in Items : Frees(i) =>
          \/ LastEntry(i)'.ref = item[i].hold.ref
          \/ \E u \in Managers, S \in SUBSET Items, r \in Refs : ManagerRelease(u, S, r, TRUE)
  BY DEF Freed
<1> QED BY HoldsInvariant, <1>1, <1>2, PTL DEF HoldsSpec, UnforcedReleaseMatchesHolder
=============================================================================
