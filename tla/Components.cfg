SPECIFICATION ComponentSpec
CONSTANTS
  t1 = t1  t2 = t2  t3 = t3
  k1 = k1  k2 = k2
  None = None
  Txs = {t1, t2, t3}
  Keys = {k1, k2}
  MaxCalls = 5
  Characters = {hero}
  Locations = {here1, here2}
  MaxTime = 3
  MaxMoves = 4
  Things = {ring}
  Aspects = {place, level}
  Values = {low, high}
  Lifespan = 4
  ForcedCooldown = 2
  RetryCooldown = 3
  Timeout = 1
  g1 = g1
  Contents = {g1, g2}
  Absent = Absent  Blank = Blank  Schema = Schema  Partial = Partial
  Truncated = Truncated
  Administrators = {a1, a2}
  campaign = campaign  m1 = m1  m2 = m2  b1 = b1  b2 = b2
  template = template  own = own  Capability = Capability  ActiveStatus = ActiveStatus
  Campaigns = {campaign}
  Members = {m1, m2}
  Grants = {b1, b2}
  RoleIds = {template, own}
  CampaignOf <- MCCampaignOf
  MemberOf <- MCMemberOf
  RoleOf <- MCRoleOf
  ScopeOf <- MCScopeOf
  Switched <- MCSwitched
  MaxChanges = 2
INVARIANTS
  ChangesAlternate PathIsWhole PreviousStillHolds
  WithdrawnKeyIsForgotten PublishedKeyIsAccepted
  SomeCopySurvives RestoreEndsWell ManagedUnlessMissed
PROPERTIES BootstrapSparesTheData
SYMMETRY Symmetry
CHECK_DEADLOCK FALSE
