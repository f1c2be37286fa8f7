CONSTANTS
  i1 = i1  i2 = i2  shop = shop  vault = vault  u1 = u1  u2 = u2  t1 = t1  t2 = t2
  Items = {i1, i2}
  Units = {i1}
  Locations = {shop, vault}
  Active = {shop, vault}
  LocType <- MCLocType
  Refs = {o1, t1, t2, a1}
  Transfers = {t1, t2}
  Adjustments = {a1}
  Users = {u1, u2}
  None = None
  MaxSeq = 4
  MaxBal = 1
SPECIFICATION DocsSpec
SYMMETRY Interchangeable
INVARIANT TransferMatchesLedger
INVARIANT AdjustmentMatchesLedger
CHECK_DEADLOCK FALSE
