SPECIFICATION ServicesSpec
CONSTANTS
  c1 = c1
  c2 = c2
  m1 = m1
  m2 = m2
  m3 = m3
  p1 = p1
  p2 = p2
  t1 = t1
  t2 = t2
  x1 = x1
  x2 = x2
  s1 = s1
  s2 = s2
  f1 = f1
  d1 = d1
  d2 = d2
  r1 = r1
  a1 = a1
  a2 = a2
  l1 = l1
  l2 = l2
  h1 = h1
  Search = Search
  Calls <- TwoCalls
  Models <- ThreeModels
  Providers <- TwoProviders
  ProviderOf <- ByProvider
  Candidates <- Chain
  Healthy <- OnlyLast
  StandardBase = 1
  StandardMax = 4
  BillingBase = 2
  BillingMax = 3
  FailureWindow = 4
  MaxRetries = 2
  MaxTime = 9
  MaxChildren = 2
  StatusRequests <- OneRequest
  MaxStatus = 2
  MaxQuestions = 3
  MaxSends = 4
  Downloads <- TwoDownloads
  OwnFiles <- OneFile
  Scopes <- TwoScopes
  MaxRefs = 4
  Messages <- TwoMessages
  Senders <- TwoSenders
  MaxReplies = 2
  Turns <- TwoTurns
  MaxClients = 3
  MaxEvents = 3
  SendQueue = 1
  Servers <- TwoServers
  ToolCalls <- TwoTurns
  MaxToolCalls = 3
  Agents <- TwoAgents
  Callers <- TwoCallers
  MaxActive = 1
  DismissAfter = 1
  SuspendCalls = 1
  MaxTasks = 2
  MaxFaults = 1
  Loops <- TwoTurns
  Hidden <- OneHidden
  TTL = 2
  MaxRounds = 3
  MaxWidth = 2
INVARIANTS
  CooldownIsEarned
  SoundProviderIsAsked
  GatewayIsKnown
  SendIsWoken
  OneAnswerEach
  FilesFollowRefs
  MarksAreTakenOnce
  BroadcastIsReleased
  CloseIsOrderly
  ExactUnlessRaced
  UnlockedIsUsable
PROPERTIES
  CooldownOnlyExtends
  DismissedIsFinal
CHECK_DEADLOCK FALSE
