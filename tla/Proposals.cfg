SPECIFICATION Spec
CONSTANTS
  t1 = t1  t2 = t2
  o1 = o1  rumour = rumour  secret = secret
  p1 = p1
  None = None
  Txs = {t1, t2}
  Objectives = {o1}
  Items = {rumour, secret}
  Public = {rumour}
  Proposals = {p1}
INVARIANTS DecidedOnce KnownOnce DeadlockNeedsDiscovery
PROPERTIES AppliedWhileEligible
SYMMETRY Transactions
CHECK_DEADLOCK FALSE
