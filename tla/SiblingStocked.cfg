SPECIFICATION Spec
CONSTANTS
  l1 = l1
  l2 = l2
  Lines = {l1, l2}
  Ordered <- OneEach
  Checks <- BothChecked
  Clerks = {c1}
  MaxReceipts = 1
  SameLot = FALSE
  PutAwayAllUsed = FALSE
  Dispositions = {"USE_AS_IS", "REPAIR", "SCRAP"}
  Dock = Dock
  NoCase = NoCase
INVARIANTS StockedIsInspected
CHECK_DEADLOCK FALSE
