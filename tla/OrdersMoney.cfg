CONSTANTS
  o1 = o1
  x1 = x1
  p1 = p1
  w1 = w1  w2 = w2
  Orders = {o1}
  Pieces = {x1}
  Payments = {p1}
  Workers = {w1, w2}
  None = None
  Need = 1
  Total = 2
  Amounts = {2}
  Scopes <- MoneyScopes
  MaxPicks = 1
  MaxRefunds = 1
  MaxCrashes = 0
SPECIFICATION MoneySpec
PROPERTY NoMoneyIsLost
PROPERTY CancelledMoneyReturns
CHECK_DEADLOCK FALSE
