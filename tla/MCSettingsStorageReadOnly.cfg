SPECIFICATION Spec
CONSTANTS
  a1 = a1
  a2 = a2
  h1 = h1
  h2 = h2
  t1 = t1
  t2 = t2
  Actors <- OneActor
  Hashes <- TwoHashes
  Indexes = {1, 2}
  Rest = {0, 1}
  DefaultRest = 0
  OldTorrents = {t1, t2}
  Complete = {t1, t2}
  Parses = {t1}
  NoConfig = NoConfig
  EnvPrefs <- FirstStart
  Setups <- OnlyWithRDB
  MaxCrashes = 2
  MaxSessions = 3
  NoData = NoData
  Uncached = Uncached
  NoActor = NoActor
  NoJob = NoJob
INVARIANTS ImportVerified
