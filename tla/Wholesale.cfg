CONSTANTS
  e1 = e1  e2 = e2  y1 = y1  y2 = y2  anna = anna  bela = bela
  Enquiries = {e1, e2}
  MaxQuotes = 2
  Asks = {1, 2}
  Workers = {w1, w2}
  None = None
  MaxPieces = 3
  Limit = 3
  MaxPicks = 2
  MaxNamed = 2
  Clerks = {c1, c2}
  Payments = {y1, y2}
  Notes = {n1}
  Staff = {anna, bela}
  Cashiers = {k1, k2}
  MaxAmount = 2
  MaxPosts = 2
  Shifts <- MCShifts
SPECIFICATION Spec
INVARIANT OneNegotiation
INVARIANT AgreedAsAsked
INVARIANT SoldOnOneInvoice
INVARIANT OrderMatchesStock
INVARIANT NothingOverApplied
INVARIANT JournalMatchesDocuments
PROPERTY CreditHonoured
PROPERTY QuotationsSettle
CHECK_DEADLOCK FALSE
