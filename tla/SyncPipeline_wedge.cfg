SPECIFICATION FairSpec
CONSTANTS
  NumPages = 2
  NumChunks = 1
  NavHydrate = TRUE
  EmptyLast = FALSE
  Backlog = FALSE
  SkipCap = 2
  MaxChain = 0
  Freshness = 1
  Exhaust = FALSE
  MaxFaults = 1
  MaxOverlaps = 0
  MaxMishaps = 1
  NULL = NULL
PROPERTY SyncRecovers
CHECK_DEADLOCK FALSE
