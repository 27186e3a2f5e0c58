SPECIFICATION FairSpec
CONSTANTS
  c1 = c1
  r1 = r1
  None = None
  Calls <- OneCall
  Recoveries <- OneRecovery
  Threshold = 2
  MaxCalls = 2
  MaxFaults = 1
  MaxOutages = 1
INVARIANTS
  Consistent
PROPERTIES
  ComesBack
CHECK_DEADLOCK FALSE
