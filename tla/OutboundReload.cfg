SPECIFICATION FairSpec
CONSTANTS
  c1 = c1
  Channels <- OneChannel
  Target <- AllToOne
  MaxMessages = 3
  BusSize = 1
  QueueSize = 2
  MaxRetries = 1
  MaxReloads = 1
PROPERTIES
  ReloadedDelivers
CHECK_DEADLOCK FALSE
