SPECIFICATION FairSpec
CONSTANTS
  o1 = o1 o2 = o2 l1 = l1 l2 = l2 p1 = p1 p2 = p2
  r1 = r1 r2 = r2 r3 = r3 s1 = s1 s2 = s2
  NoOrder = NoOrder
  Orders = {o1}
  Lines = {l1, l2}
  Parts = {p1, p2}
  Rows = {r1, r2, r3}
  Shipments = {s1, s2}
  LineOrder <- OneOrderTwoLines
  LinePart <- TwoParts
  LineQty <- Qty11
  RowPart <- ThreeRows
  OpeningStock <- OpeningThree
  MakeParts = {p1, p2}
  BuyParts = {}
  Deposits = {"N_A", "PENDING"}
  Gates = {TRUE, FALSE}
  PutAwayAreas = {"STORAGE"}
  ReceiptQtys = {}
  ReleaseQtys = {1}
  MaxOnHand = 2
  MaxRequested = 2
  AgentEnabled = FALSE
PROPERTY OrdersShip
CHECK_DEADLOCK FALSE
