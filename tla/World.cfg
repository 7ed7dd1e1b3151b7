SPECIFICATION WorldSpec
CONSTANTS
  t1 = t1  t2 = t2
  d1 = d1  d2 = d2
  l1 = l1  l2 = l2
  None = None
  Txs = {t1, t2}
  Locations = {d1, d2, l1, l2}
  TypesOf <- MCTypesOf
  MaxDepth = 3
  s1 = s1  s2 = s2
  default = default  build = build  item = item
  Rulesets = {s1, s2}
  Rows = {default, build, item}
  KindOf <- MCKindOf
INVARIANTS Contained SubtypesFit DeadlockNeedsMovingDungeon UsedIsAllowed
SYMMETRY Symmetry
CHECK_DEADLOCK FALSE
