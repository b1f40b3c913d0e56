SPECIFICATION Spec
CONSTANTS
  x1 = x1
  x2 = x2
  x3 = x3
  b1 = b1
  b2 = b2
  Sheets = {s1, s2}
  Bins = {b1, b2}
  Rows = {x1, x2, x3}
  BinOf <- TwoLots
  MaxQty = 1
  MaxCount = 2
INVARIANTS TypeOK
 
CHECK_DEADLOCK FALSE
SYMMETRY AnySheetOrLot
