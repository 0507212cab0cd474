\* One cache over a file.
SPECIFICATION MetricsSpec
CONSTANTS
  MeteredCaches = {c1}
  MeterWorkers = {w1, w2}
  Counters = {"hits"}
  Capacities = {1, 2}
  TrackedCounts = {1}
  PoolLimit = 1
  MaxMetricOps = 3
INVARIANTS NothingFilledClosed
CHECK_DEADLOCK FALSE
