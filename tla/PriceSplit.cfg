CONSTANTS
  anna = anna  gold = gold
  None = None
  MgPerGram = 2
  Unit = 4
  Hundred = 8
  MaxWeight = 9
  MaxRules = 2
  Candidates <- MCCandidates
  Patches <- MCPatches
  Contexts <- MCContexts
  ShopScope <- MCShopScope
  Editors = {e1, e2}
  MaxDate = 3
  MaxVersions = 3
  MaxDay = 2
  Designs <- MCDesigns
  TaxRules <- MCTaxRules
  Rates <- MCRates
  MaxEntries = 2
  Requests = {q1, q2}
  Shifts <- MCShifts
SYMMETRY Symmetry
SPECIFICATION Spec
INVARIANT SameTotalWhicheverApplies
CHECK_DEADLOCK FALSE
