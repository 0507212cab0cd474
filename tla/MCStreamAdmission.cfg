SPECIFICATION FairSpec
CONSTANTS
  Requests = {r1, r2, r3}
  Keys = {k1, k2}
  NoTorrent = NoTorrent
  StreamConfigs <- TwoConfigs
  GOMAXPROCS = 1
INVARIANTS CountersAgree LimitsKept
PROPERTIES ImplementsStreamSlots EveryRequestAnswered
