SPECIFICATION Spec
CONSTANTS
  c1 = c1
  c2 = c2
  c3 = c3
  x1 = x1
  x2 = x2
  Call <- MCCall
  Service <- MCService
  PriceOf <- MCPriceOf
  MaxAmount = 2
  Ceiling = 3
  Conditions <- MCAnyConditions
SYMMETRY MCSymmetry
INVARIANTS
  TypeOK
  SpentIsExact
  CommittedWithinCeiling
