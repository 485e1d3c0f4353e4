SPECIFICATION Spec
CONSTANTS
  NumPages = 2
  NumChunks = 2
  NavHydrate = TRUE
  EmptyLast = TRUE
  Backlog = FALSE
  SkipCap = 2
  MaxChain = 0
  Freshness = 1
  Exhaust = TRUE
  MaxFaults = 1
  MaxOverlaps = 1
  MaxMishaps = 1
  NULL = NULL
INVARIANTS
  TypeOK
  CursorCovers
  FinishedMeansMirrored
  ChunkHasPage
  ChainAlive
PROPERTY
  InitialSyncCompletes
CHECK_DEADLOCK FALSE
