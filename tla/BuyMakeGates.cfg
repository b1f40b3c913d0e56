SPECIFICATION Spec
CONSTANTS
  o1 = o1 o2 = o2 l1 = l1 l2 = l2 p1 = p1 p2 = p2
  r1 = r1 r2 = r2 r3 = r3 s1 = s1 s2 = s2
  NoOrder = NoOrder
  Orders = {o1}
  Lines = {l1, l2}
  Parts = {p1, p2}
  Rows = {r1, r2, r3}
  Shipments = {s1}
  LineOrder <- OneOrderTwoLines
  LinePart <- TwoParts
  LineQty <- Qty21
  RowPart <- ThreeRows
  OpeningStock <- OpeningThree
  MakeParts = {p2}
  BuyParts = {p1}
  Deposits = {"N_A", "PENDING"}
  Gates = {TRUE, FALSE}
  PutAwayAreas = {"STORAGE"}
  ReceiptQtys = {1}
  ReleaseQtys = {}
  MaxOnHand = 2
  MaxRequested = 3
  AgentEnabled = FALSE
INVARIANTS PlannedIsSourced ReadyMeansAllocated ShippedInFullAndBilledOnce
PROPERTY KeepsThePromise
CHECK_DEADLOCK FALSE
