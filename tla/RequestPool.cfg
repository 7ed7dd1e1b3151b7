SPECIFICATION FairPoolSpec
CONSTANTS
  r1 = r1  r2 = r2  r3 = r3  k1 = k1  k2 = k2
  Served = {r1, r2, r3}
  Threads = 2
  Capacity = 3
  Locks = {k1, k2}
  MaxQuarantined = 1
INVARIANTS DeadlockNeedsFullLoad
PROPERTIES EveryRequestIsAnsweredUnlessStuck
