SPECIFICATION DiscoverySpec
CONSTANTS
  inbox = inbox
  beside = beside
  h1 = h1
  h2 = h2
  Search = Search
  Loops <- TwoLoops
  Hidden <- TwoHidden
  TTL = 2
  MaxRounds = 2
  MaxWidth = 2
INVARIANTS
  OfferedIsCallable
CHECK_DEADLOCK FALSE
