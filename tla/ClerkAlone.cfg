SPECIFICATION FairSpec
CONSTANTS
  c1 = c1 c2 = c2 o1 = o1 o2 = o2 o3 = o3 r1 = r1 r2 = r2
  Clerks = {c1}
  Orders = {o1, o2, o3}
  Rows = {r1, r2}
  OrderQty <- Qty211
  Opening <- Opening21
  Planning = TRUE
  Crashes = FALSE
INVARIANTS UnitsKept AtMostOneInvoice
PROPERTIES ShippedGetsBilled ShippedStaysShipped
CHECK_DEADLOCK FALSE
