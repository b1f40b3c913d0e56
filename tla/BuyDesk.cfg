SPECIFICATION Spec
CONSTANTS
  N = 4
  Routing <- Pipeline
  MinAmount <- Thresholds
  Amounts = {1, 2}
  People = {owner, buyer, cfo}
  Admins = {cfo}
  Requester = buyer
  Owner = owner
  Director = owner
  Buyers = {buyer}
  Finance = {cfo}
  Requests = {r1, r2}
  Converters = {r1}
  AmendOverlaps = FALSE
  NoOne = NoOne
INVARIANTS TypeOK  OneOrder 
CHECK_DEADLOCK FALSE
