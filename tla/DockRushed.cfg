SPECIFICATION Spec
CONSTANTS
  l1 = l1
  l2 = l2
  Lines = {l1}
  Ordered <- TwoOfOne
  Checks <- OnlyVisual
  Clerks = {c1, c2}
  MaxReceipts = 2
  SameLot = TRUE
  PutAwayAllUsed = TRUE
  Dispositions = {"USE_AS_IS", "REPAIR", "SCRAP"}
  Dock = Dock
  NoCase = NoCase
SYMMETRY AnyClerk
INVARIANTS UnitsAccounted
PROPERTIES CageHolds
CHECK_DEADLOCK FALSE
