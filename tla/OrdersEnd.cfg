CONSTANTS
  o1 = o1
  x1 = x1
  p1 = p1  p2 = p2
  w1 = w1
  Orders = {o1}
  Pieces = {x1}
  Payments = {p1, p2}
  Workers = {w1}
  None = None
  Need = 1
  Total = 2
  Amounts = {2}
  Scopes <- EndScopes
  MaxPicks = 1
  MaxRefunds = 1
  MaxCrashes = 1
SPECIFICATION StockSpec
PROPERTY UnpaidOrderEnds
CHECK_DEADLOCK FALSE
