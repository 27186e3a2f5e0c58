SPECIFICATION DelegationSpec
CONSTANTS
  t1 = t1
  t2 = t2
  w1 = w1
  w2 = w2
  d1 = d1
  d2 = d2
  a1 = a1
  q1 = q1
  q2 = q2
  q3 = q3
  Tasks <- TwoTasks
  Workers <- TwoWorkers
  Turns <- TwoTurns
  MarkChoices = {TRUE, FALSE}
  QueueCap = 1
  MaxCrashes = 1
  MaxFaults = 1
  MaxFailedTurns = 1
  Agents <- OneAgent
  QueuedTasks <- ThreeTasks
  AgentOf <- AgentOfThree
  Cap = 2
  MaxClears = 1
INVARIANTS
  Consistent
  ToldAgainOnlyIfShared
  ExactlyOnePlace
PROPERTIES
  StatusForward
  AcceptedFinishes
  ImplementsSerialExecutor
  RunningQueueDrains
CHECK_DEADLOCK FALSE
