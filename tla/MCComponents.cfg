\* A component comes to its end: a release is made, a command is over, a bound is reached.
SPECIFICATION Spec
CONSTANTS
  s1 = s1
  s2 = s2
  Flows = {s1, s2}
  FlowTorrents <- MCFlowTorrents
  FairnessMinAge = 1
  FairnessMinBytes = 2
  FairnessFastBPS = 1
  FairnessCooldown = 1
  ProtectionWindow = 2
  ProtectionMinGap = 1
  PressureWindow = 1
  WriteSizes = {3}
  MaxFlowBytes = 6
  MaxReadWaits = 1
  MaxClock = 3
  ConnectionInputs <- MCConnectionInputs
  ReadaheadInputs <- MCReadaheadInputs
  BoostInputs <- MCBoostInputs
  BoostIds = {1, 2}
  BoostCooldown = 4
  BoostDuration = 2
  BoostStopWait = 1
  MaxBoostClock = 10
  long = long
  empty = empty
  UserNames = {alice, bob, nobody}
  Passwords = {good, other, long, empty}
  EmptyName = nobody
  EmptyPassword = empty
  LongPasswords = {long}
  LegacyAccounts <- MCLegacyAccounts
  Tokens = {t1, short}
  ShortTokens = {short}
  MaxAuthStarts = 3
  NoUser = NoUser
  NoToken = NoToken
  NoFile = NoFile
  Unparsable = Unparsable
  IPLines <- MCIPLines
  ClientIPs <- MCClientIPs
  MaxBlackLines = 3
  MaxWhiteLines = 1
  Handlers = {h1, h2}
  MaxGenerations = 2
  MaxWrappers = 2
  PriorityReaders = {r1}
  LastPiece = 1
  Backward = 0
  Forward = 2
  ReadaheadPieces = 1
  ConnectionsLimit = 2
  FileEnd = 2
  HighTailPieces = 1
  RangeLists <- MCRangeLists
  CapacityInputs <- MCCapacityInputs
  BudgetInputs <- MCBudgetInputs
  LastRangePiece = 2
  ConfigFiles <- MCConfigFiles
  Patches <- MCPatches
  Lowered <- MCLowered
  CPUs = 3
  SettingsClients = {c1, c2}
  MaxSettingsRequests = 3
  MaxSettingsStarts = 2
  MeteredCaches = {c1, c2}
  MeterWorkers = {w1, w2}
  Counters = {"hits"}
  Capacities = {1, 2}
  TrackedCounts = {1}
  PoolLimit = 1
  MaxMetricOps = 4
  ReleaseTargets <- MCReleaseTargets
  ValidVersions = {"1.2.3", "1.2.3-rc.1"}
  ReleaseVersion = "1.2.3"
  ReleaseCommit = "this commit"
  BuiltVersions = {"1.2.3", "1.2.3-rc.1"}
  BuiltCommits = {"this commit", "another commit"}
  LongerVersions = {"1.2.3", "1.2.3-rc.1"}
  LongerCommits = {"this commit"}
  MaxMembers = 8
  MaxReleaseChanges = 2
  Ctls = {p1, p2}
  CtlTorrents <- MCCtlTorrents
  NewTorrent = 3
  CtlTitles <- MCCtlTitles
  CtlIdentifiers <- MCCtlIdentifiers
  CtlContexts <- MCCtlContexts
  ContextNames = {"local", "away", "broken"}
  VersionDocs <- MCVersionDocs
  FileParts = 1
  MaxCtlCommands = 2
  alice = alice
  bob = bob
  nobody = nobody
  good = good
  other = other
INVARIANTS
  SomeTorrentUndelayed LimitsFit OneBoost FileOutlivesImport LookupExact
  SavedAtRest DebugOnlyFromConfig MetricsExact ReleaseExact AddersAgree
  RaisedTracked CommandsHonest
CHECK_DEADLOCK FALSE
