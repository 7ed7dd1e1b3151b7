SPECIFICATION FairSpec
CONSTANTS
  r1 = r1  r2 = r2  r3 = r3
  k1 = k1  k2 = k2
  p1 = p1  p2 = p2
  x1 = x1
  None = None
  Requests = {r1, r2, r3}
  Keys = {k1, k2}
  Prints = {p1, p2}
  Rows = {x1}
  RowOf <- SharedRow
  MaxRequests = 3
  MaxFaults = 2
INVARIANTS DurableIfCommitFirst
PROPERTIES ImplementsExactlyOnce EveryRequestEnds
CHECK_DEADLOCK FALSE
