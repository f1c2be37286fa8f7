CONSTANTS
  r1 = r1  p1 = p1  p2 = p2  c1 = c1  c2 = c2  b1 = b1  b2 = b2  y1 = y1  y2 = y2  k1 = k1  k2 = k2
  Requisitions = {r1}
  Orders = {p1, p2}
  Lines = {1, 2}
  Terms <- MCTerms
  Consumables <- MCConsumables
  MaxEntries = 2
  Clerks = {c1, c2}
  None = None
  Bills = {b1, b2}
  Payouts = {y1, y2}
  DebitNotes = {n1}
  Accountants = {k1, k2}
  MaxSum = 2
  MaxPosts = 2
  Shifts <- MCShifts
SYMMETRY Alike
SPECIFICATION Spec
INVARIANT ReceivedIsInStock
INVARIANT StatusFollowsReceipts
INVARIANT NothingOverpaid
INVARIANT PayablesMatchDocuments
CHECK_DEADLOCK FALSE
