SPECIFICATION Spec
CONSTANTS
  c1 = c1 c2 = c2 o1 = o1 o2 = o2 o3 = o3 r1 = r1 r2 = r2
  Clerks = {c1, c2}
  Orders = {o1, o2}
  Rows = {r1}
  OrderQty <- Qty11
  Opening <- Opening1
  Planning = TRUE
  Crashes = TRUE
INVARIANTS TypeOK BooksFollowGoods
SYMMETRY AnyClerk
CHECK_DEADLOCK FALSE
