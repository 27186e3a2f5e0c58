SPECIFICATION Spec
CONSTANTS
  t1 = t1
  t2 = t2
  Turns <- TwoTurns
  Kinds <- BothUsers
  KeepLast = 2
  Threshold = 2
  Batch = 2
  MaxRetries = 1
  MaxRounds = 1
  MaxCalls = 2
  MaxFaults = 0
INVARIANTS
  ClearForgets
CHECK_DEADLOCK FALSE
