\* Two searches at a time.
SPECIFICATION Spec
CONSTANTS
  Searches = {g1, g2}
  BreakerConfigs <- MCTorznabBreaker
  FailuresToTrip = 2
  MaxAttempts = 2
PROPERTIES SearchesAreMade
