SPECIFICATION Spec
CONSTANTS
  c1 = c1
  c2 = c2
  Clients <- TwoClients
  Kinds <- Pollers
  Target = 1
  Timeout = 2
  PostDelay = 1
  SkipActive = FALSE
  Others = 0
  Removable = FALSE
  ReadOnly = FALSE
PROPERTY IntentNotQuiesced
CHECK_DEADLOCK FALSE
