CONSTANTS
  i1 = i1
  shop = shop  bench = bench  closed = closed
  Items = {i1}
  Units = {i1}
  Locations = {shop, bench, closed}
  Active = {shop, bench}
  LocType <- MCLocType
  Refs = {o1, o2}
  Users = {u1, u2, boss}
  Managers = {boss}
  None = None
  MaxSeq = 5
  MaxBal = 1
SPECIFICATION HoldsSpec
INVARIANT Reconciles
INVARIANT HoldMatchesLedger
INVARIANT SaleHonoursHold
PROPERTY EveryChangeIsLedgered
PROPERTY ImplementsCustody
PROPERTY UnforcedReleaseMatchesHolder
PROPERTY LapsedHoldEnds
CHECK_DEADLOCK FALSE
