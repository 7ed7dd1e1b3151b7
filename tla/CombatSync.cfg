SPECIFICATION Spec
CONSTANTS
  c1 = c1  c2 = c2
  o1 = o1  o2 = o2
  p1 = p1  p2 = p2
  t1 = t1
  e1 = e1
  k1 = k1  k2 = k2
  s1 = s1  s2 = s2  s3 = s3  s4 = s4
  None = None
  Callers = {c1, c2}
  Ops = {o1, o2}
  Payloads = {p1, p2}
  Slots = {t1}
  Encounters = {e1}
  Keys = {k1, k2}
  Sessions = {s1, s2, s3}
  LockKey <- DistinctKeys
  SlotOf <- SharedSlot
  EncounterOf <- SingleEncounter
  PoolSize = 2
  MaxCalls = 3
  MaxFaults = 2
INVARIANTS PoolIsClean AppliedOnceWithBookkeeping
PROPERTIES ImplementsExactlyOnce
SYMMETRY CallersAndSessions
CHECK_DEADLOCK FALSE
