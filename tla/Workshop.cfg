CONSTANTS
  x1 = x1  x2 = x2  x3 = x3  x4 = x4  o1 = o1  o2 = o2  j1 = j1  j2 = j2  b1 = b1  b2 = b2  w1 = w1  w2 = w2
  Pieces = {x1, x2, x3, x4}
  Productions = {o1, o2}
  JobOrders = {j1, j2}
  Batches = {b1, b2}
  Workers = {w1, w2}
  MaxWaste = 1
  Starts <- MCStarts
  None = None
SYMMETRY Alike
SPECIFICATION Spec
INVARIANT AwayForOneDocument
INVARIANT MadePiecesAreListed
INVARIANT JobWorkWithinIssued
CHECK_DEADLOCK FALSE
