SPECIFICATION Spec
CONSTANTS
  r1 = r1
  r2 = r2
  Requests = {r1, r2}
  Tasks <- PageAndClerk
  Entries <- SomeEntries
  Separate = TRUE
  AutoReverse = TRUE
  Amounts = {1}
  CloseDates = {0, 1}
  Total = 2
  Horizon = 2
  MaxJournals = 3
  MaxStops = 1
INVARIANTS TypeOK BalanceFollowsJournals ReversedOnce  PaidInFull
PROPERTIES ClosedBooksStay
CHECK_DEADLOCK FALSE
