SPECIFICATION Spec
CONSTANTS
  w1 = w1
  w2 = w2
  b1 = b1
  b2 = b2
  p1 = p1
  r1 = r1
  r2 = r2
  WorkOrders = {w1, w2}
  Kits = {k1, k2}
  BomLines = {b1, b2}
  Parts = {p1}
  Rows = {r1, r2}
  Pickers = {c1}
  Bom <- TwoLinesAndOne
  LinePart <- LinesOfOnePart
  PerUnit <- TwoAndOne
  WoQty <- OneEach
  Charge <- MatchesAndOther
  Builds <- NoComponent
  RowPart <- RowsOfOnePart
  OpeningStock <- Opening
  OpeningArea <- Areas
  PutAwayAreas = {"STORAGE"}
  SaleRows = {r1}
  MayBypass = {w2}
  MaxOnHand = 1
  MaxStaged = 3
  Crashes = TRUE
  NoKit = NoKit
  NoPart = NoPart
  NoWorkOrder = NoWorkOrder
INVARIANTS TypeOK KittedInFull StagedCoversPicks NoNeedlessWait
PROPERTIES PicksConserved
SYMMETRY AnyKit
CHECK_DEADLOCK FALSE
