SPECIFICATION Spec
CONSTANTS
  t1 = t1  t2 = t2
  disarm = disarm  trip = trip  pull = pull
  r1 = r1  r2 = r2  r3 = r3  r4 = r4
  hazard = hazard  lever = lever  p = p
  None = None
  Txs = {t1, t2}
  Interactions = {disarm, trip, pull}
  Requests = {r1, r2, r3, r4}
  Targets = {hazard, lever}
  Parties = {p}
  InteractionOf <- MCInteractionOf
  TargetOf <- MCTargetOf
  TypeOf <- MCTypeOf
  KindOf <- MCKindOf
  Discoverable = {hazard, lever}
INVARIANTS StatusCountsAnswers EffectsExplainState RevealedOnce DeadlockNeedsBystander
CHECK_DEADLOCK FALSE
