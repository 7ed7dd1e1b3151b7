SPECIFICATION Spec
CONSTANTS
  t1 = t1  t2 = t2
  s1 = s1  s2 = s2
  item = item
  None = None
  Txs = {t1, t2}
  Rulesets = {s1, s2}
  Rows = {item}
  KindOf <- MCKindOf
INVARIANTS ItemIsAllowed
CHECK_DEADLOCK FALSE
