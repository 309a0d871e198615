CONSTANTS
  u1 = u1
  u2 = u2
  Urls <- TwoUrls
  MaxSubscribers = 2
  MaxFailures = 2
  Concurrency = 1
  MaxTokens = 2
  MaxBroadcasts = 2
  MaxAnnouncements = 1
  MaxTime = 2
  Windows <- ThreeWindows
SPECIFICATION Spec
INVARIANTS
  TypeOK
PROPERTIES
  PrunedOnEvidence
  ResolvedIsFinal
  WindowsEnd
  BroadcastsEnd
CHECK_DEADLOCK FALSE
