SPECIFICATION Spec
CONSTANTS
  t1 = t1  t2 = t2
  u1 = u1  u2 = u2
  c1 = c1  c2 = c2
  i1 = i1  i2 = i2
  None = None
  Txs = {t1, t2}
  Users = {u1, u2}
  Campaigns = {c1, c2}
  Invitations = {i1, i2}
  Tenures = {1, 2}
  MaxGranted = 1
  MaxRequests = 5
INVARIANTS ManagerRemains InvitationAdmitsOne TimelineClaimedOnce
PROPERTIES ReturnNeedsInvitation
SYMMETRY Symmetry
CHECK_DEADLOCK FALSE
