SPECIFICATION FairSpec
CONSTANTS
  c1 = c1
  c2 = c2
  Clients <- OneClient
  Kinds <- RequestKinds
  Target = 1
  Timeout = 2
  PostDelay = 1
  SkipActive = FALSE
  Others = 1
  Removable = TRUE
  ReadOnly = FALSE
INVARIANTS QuiesceRecoverable ExpirySparesPlayback IdleHoldsNothing
PROPERTIES DroppedInTheEnd
CHECK_DEADLOCK FALSE
