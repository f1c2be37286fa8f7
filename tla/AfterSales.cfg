CONSTANTS
  x1 = x1  x2 = x2  x3 = x3  o1 = o1  o2 = o2  t1 = t1  r1 = r1  r2 = r2  r3 = r3
  d1 = d1  d2 = d2  e1 = e1  e2 = e2  w1 = w1  w2 = w2
  Pieces = {x1, x2, x3}
  Orders = {o1, o2, t1}
  Trade = {t1}
  Returns = {r1, r2, r3}
  Repairs = {d1, d2}
  Exchanges = {e1, e2}
  Values = {1, 2}
  Price = 2
  Workers = {w1, w2}
  Shifts <- MCShifts
  None = None
SYMMETRY Alike
SPECIFICATION Spec
INVARIANT KeptForOneDocument
INVARIANT TakenInOnce
PROPERTY ReturnTakesBackItsSale
CHECK_DEADLOCK FALSE
