SPECIFICATION FairSpec
CONSTANTS
  l1 = l1
  l2 = l2
  Lines = {l1, l2}
  Ordered <- TwoAndOne
  Checks <- FirstChecked
  Clerks = {c1}
  MaxReceipts = 3
  SameLot = FALSE
  PutAwayAllUsed = FALSE
  Dispositions = {"USE_AS_IS", "REPAIR", "SCRAP"}
  Dock = Dock
  NoCase = NoCase
INVARIANTS TypeOK ReceivedIsCounted StockedIsInspected TravelerTellsTruth
CHECK_DEADLOCK FALSE
PROPERTIES InspectedGetsStocked PromiseOfReceiving
