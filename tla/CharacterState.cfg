SPECIFICATION EncounterSpec
CONSTANTS
  t1 = t1  t2 = t2
  e1 = e1  e2 = e2
  s1 = s1  s2 = s2
  c1 = c1  c2 = c2
  hp = hp  ki = ki
  None = None
  Txs = {t1, t2}
  Encounters = {e1, e2}
  Slots = {s1, s2}
  Campaigns = {c1, c2}
  HitPoints = {hp}
  Resources = {ki}
  Maximum <- TwoAndOne
  Calls <- OneTarget
  MaxTransactions = 3
  session = session
  T1 = T1  T2 = T2
  ScopedEncounters = {encounter}
  Timelines = {T1, T2}
  Sessions = {session}
  TimelineOf <- MCTimelineOf
  CampaignOf <- MCCampaignOf
  Scopes <- MCScopes
  MaxStamps = 2
INVARIANTS InstalledMeansScoped
PROPERTIES ImplementsLedger EveryTransactionEnds
CHECK_DEADLOCK FALSE
