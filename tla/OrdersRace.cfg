CONSTANTS
  o1 = o1  o2 = o2
  x1 = x1
  p1 = p1  p2 = p2
  w1 = w1  w2 = w2
  Orders = {o1, o2}
  Pieces = {x1}
  Payments = {p1, p2}
  Workers = {w1, w2}
  None = None
  Need = 1
  Total = 2
  Amounts = {2, 3}
  Scopes <- RaceScopes
  MaxPicks = 2
  MaxRefunds = 2
  MaxCrashes = 0
SPECIFICATION Spec
SYMMETRY Interchangeable
INVARIANT ConfirmedOwnsPieces
INVARIANT RefundWithinCapture
INVARIANT ProviderRefundsWithinCapture
PROPERTY PiecesFollowCustody
PROPERTY BackOnlyByStaleTotal
CHECK_DEADLOCK FALSE
