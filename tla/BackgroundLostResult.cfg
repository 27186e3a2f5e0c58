SPECIFICATION Spec
CONSTANTS
  t1 = t1
  t2 = t2
  w1 = w1
  d1 = d1
  Tasks <- TwoTasks
  Workers <- OneWorker
  Turns <- OneTurn
  MarkChoices <- OnlyMark
  QueueCap = 1
  MaxCrashes = 0
  MaxFaults = 0
  MaxFailedTurns = 1
SYMMETRY Symmetry
INVARIANTS
  DeliveredIsTold
CHECK_DEADLOCK FALSE
