----------------------------- MODULE CacheMetrics -----------------------------
(***************************************************************************)
(* The numbers the server reports about its piece caches (torrstor:         *)
(* cache_metrics.go, mempiece.go, capacity_diagnostics.go).  Every gauge is *)
(* kept twice: an atomic of the cache and a process wide atomic that is to  *)
(* be the sum over the registered caches.  No lock spans the two, so the    *)
(* model runs every operation as the sequence of its atomic steps.  A       *)
(* compare-and-swap loop is the one step in which it succeeds.  A cache is  *)
(* one piece of one chunk, in memory or in a file; a file may be there from *)
(* an earlier cache or run.                                                 *)
(***************************************************************************)
EXTENDS Integers, Sequences, FiniteSetsExt

CONSTANTS
  MeteredCaches,    \* the caches OpenTorrent creates
  MeterWorkers,     \* goroutines that work on caches
  Capacities,       \* capacities a cache is given; a new one has the smallest
  TrackedCounts,    \* numbers of tracked pieces a priority update reports
  Counters,         \* names of counters that only grow: hits, misses, cleanup runs...
  PoolLimit,        \* memPieceChunkPoolLimit
  MaxMetricOps      \* bound: operations started

ASSUME MetricsAssumption ==
  /\ IsFiniteSet(MeteredCaches) /\ IsFiniteSet(MeterWorkers)
  /\ Capacities \subseteq Nat /\ Capacities # {}
  /\ TrackedCounts \subseteq Int
  /\ PoolLimit \in Nat

Gauges == {"caches", "capacity", "filled", "chunks", "readers", "resident", "trackedPieces"}

VARIABLES
  meter,          \* [cache -> its state, gauges and counters]
  total,          \* globalCacheStats: [gauge -> sum]
  totalCount,     \* globalCacheStats: [counter -> number]
  idleMax,        \* readerDemotionIdleMSMax
  idleSeen,       \* ghost: the longest idle time a demotion has measured
  diagnosed,      \* requestStrategyCapacityRegistry.caches
  pool,           \* chunks in memPieceChunkPool
  pooled,         \* memPiecePooledChunks
  worker,         \* [worker -> the rest of its operation]
  straddled,      \* ghost: gauges an update of which fell into an unregistration
  foundBytes,          \* ghost: bytes that caches found in files when they were opened
  metricOps

meterVars == <<meter, total, totalCount, idleMax, idleSeen, diagnosed, pool, pooled, worker,
               straddled, foundBytes, metricOps>>

\* NewCache: nothing is counted yet.
NewCache ==
  [open |-> FALSE, closed |-> FALSE, registered |-> FALSE,
   disk |-> FALSE,           \* its piece is a file
   held |-> FALSE,           \* its piece holds a chunk
   marked |-> "no",          \* the piece is in resident.items; "nil": no map any more
   gauge |-> [g \in Gauges |-> 0], count |-> [k \in Counters |-> 0],
   gone |-> {}]              \* ghost: gauges that unregisterMetrics has taken

AtRest == [cache |-> "none", steps |-> <<>>, change |-> 0, late |-> FALSE, locks |-> FALSE,
           taken |-> [g \in Gauges |-> 0]]

MetricsInit ==
  /\ meter = [c \in MeteredCaches |-> NewCache]
  /\ total = [g \in Gauges |-> 0] /\ totalCount = [k \in Counters |-> 0]
  /\ idleMax = 0 /\ idleSeen = 0
  /\ diagnosed = {} /\ pool = 0 /\ pooled = 0
  /\ worker = [w \in MeterWorkers |-> AtRest]
  /\ straddled = {} /\ foundBytes = 0 /\ metricOps = 0

-----------------------------------------------------------------------------
(* Operations, as the sequence of their atomic steps.                       *)
-----------------------------------------------------------------------------
step(do, on, by) == [do |-> do, on |-> on, by |-> by]

\* addFilled, addInMemoryChunks, addResidentPieces, addActiveReaders.
add(g, by) == <<step("change", g, by), step("tell", g, 0)>>
addFilled(by) == add("filled", by)
addInMemoryChunks(by) == add("chunks", by)
addResidentPieces(by) == add("resident", by)
addActiveReaders(by) == add("readers", by)
\* setTrackedPriorityPieces.
setTrackedPriorityPieces(n) == <<step("set", "trackedPieces", n), step("tell", "trackedPieces", 0)>>
\* recordHit, recordMiss and the like: the cache's counter, then the global one.
record(k) == <<step("count", k, 1), step("countAll", k, 1)>>
recordPriorityUpdate(k, n) == record(k) \o setTrackedPriorityPieces(n)
recordReaderIdleDemotion(idle) == <<step("max", "idle", idle)>>

\* DiskPiece.WriteAt of the first bytes of a piece, and DiskPiece.Release, both under the
\* piece's lock; MemPiece.WriteAt and MemPiece.Release move a chunk first.
writeDisk ==
  addFilled(1) \o <<step("mark", "resident", 0)>> \o addResidentPieces(1)
  \o <<step("unlock", "held", 1)>>
releaseDisk ==
  addFilled(-1) \o <<step("unmark", "resident", 0)>> \o addResidentPieces(-1)
  \o <<step("unlock", "held", 0)>>
writeChunk == <<step("get", "pool", 0)>> \o addInMemoryChunks(1) \o writeDisk
releaseChunk == <<step("put", "pool", 0)>> \o addInMemoryChunks(-1) \o releaseDisk

\* SetCapacity and AdjustRA: the field under the cache's lock, then addConfiguredCapacity.
setCapacity(n) == <<step("set", "capacity", n), step("tell", "capacity", 0)>>

\* unregisterMetrics: the flag, the gauges one after the other, then the global sums
\* (additions that commute with every other step, taken as one).
unregisterMetrics ==
  <<step("unset", "registered", 0), step("take", "filled", 0), step("take", "chunks", 0),
    step("take", "readers", 0), step("take", "resident", 0), step("take", "trackedPieces", 0),
    step("subtract", "all", 0), step("trim", "pool", 0)>>

\* Close after isClosed.Swap: the pieces in memory, the diagnostics, the metrics, the maps.
closeCache ==
  <<step("release", "held", 0), step("undiagnose", "cache", 0)>>
  \o unregisterMetrics \o <<step("forget", "resident", 0)>>

-----------------------------------------------------------------------------
Busy(c) == {w \in MeterWorkers : worker[w].steps # <<>> /\ worker[w].cache = c}
\* The piece's lock is taken.
pieceLocked(c) == \E w \in Busy(c) : worker[w].locks

Start(w, c, steps, locks) ==
  /\ metricOps < MaxMetricOps /\ metricOps' = metricOps + 1
  /\ worker[w].steps = <<>>
  /\ worker' = [worker EXCEPT ![w] = [AtRest EXCEPT !.cache = c, !.steps = steps, !.locks = locks]]
  /\ UNCHANGED <<total, totalCount, idleMax, idleSeen, diagnosed, pool, pooled, straddled, foundBytes>>

\* OpenTorrent: Init makes the pieces, which find what is on disk, and registers the cache
\* before any one else can see it; registerMetrics tells the resident pieces and not the
\* filled bytes.  With debug on the cache is entered in the capacity diagnostics after the
\* registry of caches has it.
OpenCache(w, c) ==
  /\ ~meter[c].open
  /\ metricOps < MaxMetricOps /\ metricOps' = metricOps + 1
  /\ worker[w].steps = <<>>
  /\ \E disk, full \in BOOLEAN :
       /\ full => disk
       /\ LET size == IF full THEN 1 ELSE 0
          IN  /\ meter' = [meter EXCEPT ![c] =
                    [meter[c] EXCEPT
                       !.open = TRUE, !.registered = TRUE, !.disk = disk, !.held = full,
                       !.marked = IF full THEN "yes" ELSE "no",
                       !.gauge = [meter[c].gauge EXCEPT !.caches = 1, !.capacity = Min(Capacities),
                                                        !.filled = size, !.resident = size]]]
              /\ total' = [total EXCEPT !.caches = @ + 1, !.capacity = @ + Min(Capacities),
                                        !.resident = @ + size]
              /\ foundBytes' = foundBytes + size
  /\ worker' = [worker EXCEPT ![w] =
                  [AtRest EXCEPT !.cache = c, !.steps = <<step("diagnose", "cache", 0)>>]]
  /\ UNCHANGED <<totalCount, idleMax, idleSeen, diagnosed, pool, pooled, straddled>>

\* Cache.Piece, CleanPieces, UpdatePriorities, and a chunk that arrives.
UseCache(w, c) ==
  /\ meter[c].open
  /\ \/ \E k \in Counters : Start(w, c, record(k), FALSE)
     \/ \E k \in Counters, n \in TrackedCounts : Start(w, c, recordPriorityUpdate(k, n), FALSE)
     \/ ~meter[c].held /\ ~pieceLocked(c)
        /\ Start(w, c, IF meter[c].disk THEN writeDisk ELSE writeChunk, TRUE)
     \/ meter[c].held /\ ~pieceLocked(c) /\ ~meter[c].closed
        /\ Start(w, c, IF meter[c].disk THEN releaseDisk ELSE releaseChunk, TRUE)
     \/ \E n \in Capacities : ~meter[c].closed /\ Start(w, c, setCapacity(n), FALSE)
  /\ UNCHANGED meter

\* Readers that are counted and that no one is closing or demoting.
countedReaders(c) ==
  meter[c].gauge["readers"]
    - Cardinality({w \in Busy(c) : Head(worker[w].steps) = step("change", "readers", -1)})

\* newReader; Reader.Close; the demotion of an idle reader, which keeps statistics.
UseReaders(w, c) ==
  /\ meter[c].open
  /\ \/ ~meter[c].closed /\ Start(w, c, addActiveReaders(1), FALSE)
     \/ countedReaders(c) > 0 /\ Start(w, c, addActiveReaders(-1), FALSE)
     \/ /\ countedReaders(c) > 0
        /\ \E idle \in 1..2 :
             Start(w, c, addActiveReaders(-1) \o recordReaderIdleDemotion(idle), FALSE)
  /\ UNCHANGED meter

CloseMetered(w, c) ==
  /\ meter[c].open /\ ~meter[c].closed
  /\ meter' = [meter EXCEPT ![c].closed = TRUE]
  /\ Start(w, c, closeCache, FALSE)

-----------------------------------------------------------------------------
(* The steps.                                                               *)
-----------------------------------------------------------------------------
\* What a worker has left after its first n steps.
skip(w, n) == [worker[w] EXCEPT !.steps = SubSeq(@, n + 1, Len(@))]
Doing(w, do) == worker[w].steps # <<>> /\ Head(worker[w].steps).do = do
gaugeOf(w) == Head(worker[w].steps).on
amountOf(w) == Head(worker[w].steps).by
cacheOf(w) == worker[w].cache
Does(w, rest) == worker' = [worker EXCEPT ![w] = rest]

\* The new value of a gauge: the sums stop at zero, the number of readers does not.
newValue(w) ==
  LET v == meter[cacheOf(w)].gauge[gaugeOf(w)] + amountOf(w)
  IN  IF Doing(w, "set") THEN amountOf(w)
      ELSE IF gaugeOf(w) # "readers" /\ v < 0 THEN 0 ELSE v

ChangeGauge(w) ==
  /\ Doing(w, "change") \/ Doing(w, "set")
  /\ meter' = [meter EXCEPT ![cacheOf(w)].gauge[gaugeOf(w)] = newValue(w)]
  /\ Does(w, [skip(w, 1) EXCEPT
                !.change = newValue(w) - meter[cacheOf(w)].gauge[gaugeOf(w)],
                !.late = gaugeOf(w) \in meter[cacheOf(w)].gone])
  /\ UNCHANGED <<total, totalCount, idleMax, idleSeen, diagnosed, pool, pooled, straddled>>

\* A mutant: the global sum changes whether or not the cache is registered.
TellGauge_always(w) ==
  /\ Doing(w, "tell")
  /\ total' = [total EXCEPT ![gaugeOf(w)] = @ + worker[w].change]
  /\ Does(w, skip(w, 1))
  /\ UNCHANGED <<meter, totalCount, idleMax, idleSeen, diagnosed, pool, pooled, straddled>>

\* Only a registered cache changes the global sum.  The ghost remembers an update of the
\* gauge that came before unregisterMetrics took it and is told after the flag is gone.
TellGauge(w) ==
  /\ Doing(w, "tell")
  /\ IF meter[cacheOf(w)].registered
     THEN /\ total' = [total EXCEPT ![gaugeOf(w)] = @ + worker[w].change]
          /\ UNCHANGED straddled
     ELSE /\ straddled' = IF worker[w].late \/ worker[w].change = 0 THEN straddled ELSE straddled \cup {gaugeOf(w)}
          /\ UNCHANGED total
  /\ Does(w, skip(w, 1))
  /\ UNCHANGED <<meter, totalCount, idleMax, idleSeen, diagnosed, pool, pooled>>

Count(w) ==
  /\ \/ /\ Doing(w, "count")
        /\ meter' = [meter EXCEPT ![cacheOf(w)].count[gaugeOf(w)] = @ + 1]
        /\ UNCHANGED totalCount
     \/ /\ Doing(w, "countAll")
        /\ totalCount' = [totalCount EXCEPT ![gaugeOf(w)] = @ + 1]
        /\ UNCHANGED meter
  /\ Does(w, skip(w, 1))
  /\ UNCHANGED <<total, idleMax, idleSeen, diagnosed, pool, pooled, straddled>>

\* updateAtomicMax.
UpdateAtomicMax(w) ==
  /\ Doing(w, "max")
  /\ idleMax' = Max({idleMax, amountOf(w)})
  /\ idleSeen' = Max({idleSeen, amountOf(w)})
  /\ Does(w, skip(w, 1))
  /\ UNCHANGED <<meter, total, totalCount, diagnosed, pool, pooled, straddled>>

\* getMemPieceChunk and putMemPieceChunk: the channel, then its counter.
PoolChunk(w) ==
  /\ \/ Doing(w, "get") /\ pool' = Max({pool - 1, 0})
     \/ Doing(w, "put") /\ pool' = Min({pool + 1, PoolLimit})
  /\ Does(w, IF pool' = pool THEN skip(w, 1)
             ELSE [skip(w, 1) EXCEPT !.steps = <<step("pooled", "pool", pool' - pool)>> \o @])
  /\ UNCHANGED <<meter, total, totalCount, idleMax, idleSeen, diagnosed, pooled, straddled>>

CountPooled(w) ==
  /\ Doing(w, "pooled")
  /\ pooled' = pooled + amountOf(w)
  /\ Does(w, skip(w, 1))
  /\ UNCHANGED <<meter, total, totalCount, idleMax, idleSeen, diagnosed, pool, straddled>>

\* trimReusableMemPieceChunks(0): one chunk at a time, while the counter says there are any.
TrimPool(w) ==
  /\ Doing(w, "trim")
  /\ IF pooled > 0 /\ pool > 0
     THEN /\ pool' = pool - 1
          /\ Does(w, [worker[w] EXCEPT !.steps = <<step("pooled", "pool", -1)>> \o @])
     ELSE Does(w, skip(w, 1)) /\ UNCHANGED pool
  /\ UNCHANGED <<meter, total, totalCount, idleMax, idleSeen, diagnosed, pooled, straddled>>

\* markResidentPiece and unmarkResidentPiece: without a change to the map no gauge changes.
MarkResident(w) ==
  /\ \/ Doing(w, "mark") /\ meter[cacheOf(w)].marked = "no"
        /\ meter' = [meter EXCEPT ![cacheOf(w)].marked = "yes"] /\ Does(w, skip(w, 1))
     \/ Doing(w, "unmark") /\ meter[cacheOf(w)].marked = "yes"
        /\ meter' = [meter EXCEPT ![cacheOf(w)].marked = "no"] /\ Does(w, skip(w, 1))
     \/ /\ \/ Doing(w, "mark") /\ meter[cacheOf(w)].marked # "no"
           \/ Doing(w, "unmark") /\ meter[cacheOf(w)].marked # "yes"
        /\ Does(w, skip(w, 3)) /\ UNCHANGED meter
  /\ UNCHANGED <<total, totalCount, idleMax, idleSeen, diagnosed, pool, pooled, straddled>>

UnlockPiece(w) ==
  /\ Doing(w, "unlock")
  /\ meter' = [meter EXCEPT ![cacheOf(w)].held = (amountOf(w) = 1)]
  /\ Does(w, [skip(w, 1) EXCEPT !.locks = FALSE])
  /\ UNCHANGED <<total, totalCount, idleMax, idleSeen, diagnosed, pool, pooled, straddled>>

\* releaseInMemoryPieces waits for the piece's lock; a file keeps its bytes.
ReleaseInMemory(w) ==
  /\ Doing(w, "release") /\ (meter[cacheOf(w)].disk \/ ~pieceLocked(cacheOf(w)))
  /\ Does(w, IF meter[cacheOf(w)].held /\ ~meter[cacheOf(w)].disk
             THEN [skip(w, 1) EXCEPT !.steps = releaseChunk \o @, !.locks = TRUE]
             ELSE skip(w, 1))
  /\ UNCHANGED <<meter, total, totalCount, idleMax, idleSeen, diagnosed, pool, pooled, straddled>>

\* registerRequestStrategyCapacityDiagnostics and its counterpart.
Diagnose(w) ==
  /\ \/ Doing(w, "diagnose") /\ diagnosed' = diagnosed \cup {cacheOf(w)}
     \/ Doing(w, "undiagnose") /\ diagnosed' = diagnosed \ {cacheOf(w)}
  /\ Does(w, skip(w, 1))
  /\ UNCHANGED <<meter, total, totalCount, idleMax, idleSeen, pool, pooled, straddled>>

\* unregisterMetrics.  The number of readers is loaded and stays, the others are swapped
\* with zero; the capacity and the number of caches are read when they are subtracted.
Unregister(w) ==
  LET c == cacheOf(w)
      taken == [worker[w].taken EXCEPT !["caches"] = meter[c].gauge["caches"],
                                       !["capacity"] = meter[c].gauge["capacity"]]
  IN  /\ \/ /\ Doing(w, "unset")
            /\ meter' = [meter EXCEPT ![c].registered = FALSE]
            /\ Does(w, skip(w, 1)) /\ UNCHANGED total
         \/ /\ Doing(w, "take")
            /\ meter' = [meter EXCEPT ![c].gauge[gaugeOf(w)] = IF gaugeOf(w) = "readers" THEN @ ELSE 0,
                                      ![c].gone = @ \cup {gaugeOf(w)}]
            /\ Does(w, [skip(w, 1) EXCEPT !.taken[gaugeOf(w)] = meter[c].gauge[gaugeOf(w)]])
            /\ UNCHANGED total
         \/ /\ Doing(w, "subtract")
            /\ total' = [g \in Gauges |-> total[g] - taken[g]]
            /\ meter' = [meter EXCEPT ![c].gone = @ \cup {"caches", "capacity"}]
            /\ Does(w, skip(w, 1))
      /\ UNCHANGED <<totalCount, idleMax, idleSeen, diagnosed, pool, pooled, straddled>>

\* The end of Close: resident.items = nil.
ForgetPieces(w) ==
  /\ Doing(w, "forget")
  /\ meter' = [meter EXCEPT ![cacheOf(w)].marked = "nil"]
  /\ Does(w, skip(w, 1))
  /\ UNCHANGED <<total, totalCount, idleMax, idleSeen, diagnosed, pool, pooled, straddled>>

MeterStep(w) ==
  /\ \/ ChangeGauge(w) \/ TellGauge(w) \/ Count(w) \/ UpdateAtomicMax(w)
     \/ PoolChunk(w) \/ CountPooled(w) \/ TrimPool(w)
     \/ MarkResident(w) \/ UnlockPiece(w) \/ ReleaseInMemory(w)
     \/ Diagnose(w) \/ Unregister(w) \/ ForgetPieces(w)
  /\ UNCHANGED <<foundBytes, metricOps>>

MetricsNext ==
  \E w \in MeterWorkers :
    \/ \E c \in MeteredCaches : OpenCache(w, c) \/ UseCache(w, c) \/ UseReaders(w, c) \/ CloseMetered(w, c)
    \/ MeterStep(w)

MetricsSpec == MetricsInit /\ [][MetricsNext]_meterVars

-----------------------------------------------------------------------------
\* SnapshotCacheStats: what the debug endpoint shows of the sums.
SnapshotCacheStats ==
  [stats |-> total, overhead |-> Max({total["filled"] - total["capacity"], 0}), reusable |-> pooled]
\* SnapshotRequestStrategyCapacityDiagnostics leaves out the closed caches.
SnapshotDiagnosed == {c \in diagnosed : ~meter[c].closed}

Live == {c \in MeteredCaches : meter[c].registered}

\* No operation is under way.
NoOperation == \A w \in MeterWorkers : worker[w].steps = <<>>

\* When no operation is under way, every sum the server reports is the sum over the open
\* caches, every counter the sum over all caches there ever were, the longest idle time is
\* the longest one measured, the pool's counter is the number of pooled chunks, and the
\* diagnostics show the open caches; whatever the order in which writes, evictions,
\* readers, priority updates and closings met.  The filled bytes are short by exactly what
\* caches, closed ones too, have found on disk when they were opened (cache_metrics.go:151).
\* A sum may be off otherwise only if an update of that gauge fell into an unregistration:
\* the code gives up exactness there (cache_metrics.go, between the compare-and-swap of a
\* cache's gauge and the test of its flag).
MetricsExact ==
  NoOperation =>
    LET shown == SnapshotCacheStats
        unsaid(g) == IF g = "filled" THEN foundBytes ELSE 0
    IN  /\ \A g \in Gauges \ straddled :
             shown.stats[g] + unsaid(g)
               = SumFunctionOnSet([c \in MeteredCaches |-> meter[c].gauge[g]], Live)
        /\ \A k \in Counters :
             totalCount[k] = SumFunctionOnSet([c \in MeteredCaches |-> meter[c].count[k]], MeteredCaches)
        /\ idleMax = idleSeen
        /\ shown.reusable = pool /\ pool \in 0..PoolLimit
        /\ SnapshotDiagnosed = Live

\* A cache that was closed leaves nothing in the sum of filled bytes (cache_test.go:717,
\* "logical filled delta after Close"): with every cache closed and no update in an
\* unregistration it is zero again.
NothingFilledClosed ==
  NoOperation /\ Live = {} /\ "filled" \notin straddled => SnapshotCacheStats.stats["filled"] = 0
=============================================================================
