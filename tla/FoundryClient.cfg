SPECIFICATION ClientSpec
CONSTANTS
  Null = Null
  MaxHp = 2
  MaxTries = 2
  MaxTime = 1
  MaxSubmissions = 2
  MaxReloads = 1
INVARIANTS AppliedOnce Converges
PROPERTIES NoEcho
CHECK_DEADLOCK FALSE
