SPECIFICATION SessionSpec
CONSTANTS
  t1 = t1
  t2 = t2
  t3 = t3
  Turns <- ThreeTurns
  Kinds <- UserFirst
  KeepLast = 2
  Threshold = 2
  Batch = 2
  MaxRetries = 1
  MaxRounds = 1
  MaxCalls = 2
  MaxFaults = 1
  MaxMessages = 6
  KeepCounts <- NoneAndTwo
  MaxTears = 2
  MaxCuts = 2
INVARIANTS
  Consistent
  PromptIsSound
  NothingForgotten
  DamageIsBounded
PROPERTIES
  RepliedOnce
  ImplementsSessionStore
CHECK_DEADLOCK FALSE
