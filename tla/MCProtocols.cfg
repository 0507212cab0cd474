\* A component comes to its end: a release is made, a command is over, a bound is reached.
SPECIFICATION Spec
CONSTANTS
  Searches = {g1, g2}
  BreakerConfigs <- MCBreakerConfigs
  FailuresToTrip = 2
  MaxAttempts = 2
  Handlers = {h1, h2}
  MaxGenerations = 1
  MaxWrappers = 2
  PriorityReaders = {r1}
  LastPiece = 1
  Backward = 0
  Forward = 1
  ReadaheadPieces = 1
  ConnectionsLimit = 2
  FileEnd = 2
  HighTailPieces = 1
  RangeLists = {}
  CapacityInputs = {}
  BudgetInputs = {}
  LastRangePiece = 2
  Ctls = {p1}
  CtlTorrents <- MCCtlTorrents
  NewTorrent = 3
  CtlTitles <- MCCtlTitles
  CtlIdentifiers <- MCCtlIdentifiers
  CtlContexts <- MCCtlContexts
  ContextNames = {"local", "away", "broken"}
  VersionDocs <- MCVersionDocs
  FileParts = 1
  MaxCtlCommands = 3
PROPERTIES
  OpenIsTried StaleEntryHeals PrioritiesFall CommandsEnd
CHECK_DEADLOCK FALSE
