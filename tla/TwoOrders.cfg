SPECIFICATION Spec
CONSTANTS
  o1 = o1 o2 = o2 l1 = l1 l2 = l2 p1 = p1 p2 = p2
  r1 = r1 r2 = r2 r3 = r3 s1 = s1 s2 = s2
  NoOrder = NoOrder
  Orders = {o1, o2}
  Lines = {l1, l2}
  Parts = {p1}
  Rows = {r1, r2}
  Shipments = {s1, s2}
  LineOrder <- TwoOrders
  LinePart <- OnePart
  LineQty <- Qty11
  RowPart <- RowsOfOnePart
  OpeningStock <- Opening1
  MakeParts = {p1}
  BuyParts = {}
  Deposits = {"N_A"}
  Gates = {FALSE}
  PutAwayAreas = {"STORAGE", "GFP"}
  ReceiptQtys = {1}
  ReleaseQtys = {1}
  MaxOnHand = 1
  MaxRequested = 2
  AgentEnabled = TRUE
INVARIANTS TypeOK RowAccounting NoOverPlanning
PROPERTY UnitsConserved
SYMMETRY AnyShipment
CHECK_DEADLOCK FALSE
