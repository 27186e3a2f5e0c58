SPECIFICATION Spec
CONSTANTS
  at1 = at1
  every1 = every1
  None = None
  Jobs <- OneOfEach
  OneShot <- OnlyAt
  MaxServices = 2
  MaxFaults = 2
  Commands = TRUE
INVARIANTS
  OneShotRunsOnce
  RecurringKeepsNextRun
  FileIsCurrent
PROPERTIES
  GoneStaysGone
CHECK_DEADLOCK FALSE
