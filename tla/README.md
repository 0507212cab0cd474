# TLA+ models of torServerV2

TorrServer loads torrents and streams their files over HTTP while they
download. This directory models the parts of it where goroutines, timeouts,
crashes and settings changes meet, checks them with TLC on small instances, and
proves the most important properties with TLAPS for every instance.

`PROJECT.json` lists the components, the runs, the mutants that show each
property can fail, the source lines behind each definition, the hazards and the
theorems.

## 1. The system

| component | state it keeps | operations | interacts with |
|---|---|---|---|
| stream admission (`torr/stream_admission.go`) | active streams, readers per torrent, wait queue | check, acquire, wait, time out, release | every playback request; limits come from the settings |
| stream reading (`torr/stream*.go`, `torrstor/reader.go`) | a reader per request: offset, library position, context, in use or demoted | warm-up, `ServeContent`, demotion of idle readers, close | piece cache, torrent library, `net/http` |
| piece cache (`torr/storage/torrstor`) | pieces, fill counter, resident index, capacity, cleanup flags | write, read, evict, resize, close | torrent library writes, readers protect windows |
| torrent playback and lifecycle (`torr/torrent_*.go`, `preload.go`) | `Stat`, cache and library references, quiesce flag, connection limit, expiry, registry entry | stream, poll, preload, watch, remove | admission, cache, registry |
| settings storage (`settings/`) | `config.db` (bbolt), JSON files, read cache, routing | start with migrations, switch stores, viewed history, import of `torrserver.db` | process lifecycle, API |
| process lifecycle (`internal/daemon`, `bootstrap`, `internal/app`, `web/server.go`, `web/api/shutdown*.go`) | listeners, `waitChan`, `stopOnce`, cleanup worker | start, supervise, signal, shutdown request, stop | all of the above |
| stream delivery, fairness, health (`torr/stream_fairness.go`, `stream_delivery.go`, `stream_startup.go`) | flows and deliveries with their counters | register, count, delay a write | stream reading |
| peer acquisition, connection policy (`torr/peer_acquisition.go`, `connection_policy.go`) | time of the last boost, running boosts, limits | claim, run and stop a boost, share out | playback, torrent library |
| torrent registry, torrent records (`torr/btserver*_registry.go`, `torrent.go`, `service_adapter.go`) | map of loaded torrents, wrappers, `Torrents` bucket | add, get, promote, play, drop, remove | API, playback, cache registry, storage |
| cache priorities, state, metrics (`torrstor/cache_priority.go`, `ranges.go`, `cache_metrics.go`, `capacity_diagnostics.go`) | tracked priorities, process-wide sums, diagnosed caches | update, clear, register, count, close | piece cache, torrent library |
| settings values (`settings/btsets*.go`, `config/`, settings API) | the settings in memory and saved | start, patch, reset, normalise, save | all components read them |
| accounts (`auth/`, `web/auth`, `web/api/auth`) | user and token buckets, `accs.db` | import, verify, change | API |
| request blocker (`web/blocker`) | two sorted lists of ranges | read, look up | every request |
| Torznab search, circuit breaker, retry | breaker state, counters | call, trip, probe, close | external indexers |
| command line client (`internal/cliapp`, `internal/apiclient`) | contexts file | resolve, request, upload, change contexts | management API |
| release bundle (`internal/releasebundle`) | release directory | create, verify | build machine |
| DLNA, FUSE, WebDAV, API handlers, metrics, log, formats | little or none | — | — |

What is hard in it, and therefore what the properties are about:

* *Counters kept by hand in several places*: active streams, queue places,
  active readers, bytes in the cache. Each is adjusted on many ways out.
* *Check, then act*: expiry, quiesce, drop, settings change and preload read
  several values one after the other and act on them later.
* *Locks held while waiting*: `Reader.mu` during a read that waits for data, the
  piece mutex during a first write, the condition variable of `CleanPieces`.
* *Crashes between two writes* of a start that moves data between two databases,
  one of which truncates its file before writing it.
* *Two counters for one thing*: a cache's gauge and the process-wide sum, the
  library's priorities and the cache's own map, the registry, the client and the
  storage that each know the same torrent.
* *Values that are normalised again and again* on their way between
  configuration, memory, database and API.
* *Two ways to stop* the process, and a stop that waits for what may hang.

## 2. Modules and their code

Every action is one section under a mutex, or one access to shared state, of
the code named by the map. Between two actions any other goroutine may run.
Definitions ending in `_<something>` and marked "Mutant" are wrong variants of
the definition that follows them; no specification uses them.

**StreamAdmission** (proved) — requests as goroutines; `tryAcquireOk`,
`tryAcquireFails`, `tryAcquireQueueSlot`, `Tick`, `GiveUp`, `LeaveQueue`,
`Release` are the critical sections of `streamAdmissionRegistry`. Limits are read
once per request, so requests admitted under different settings coexist.
**StreamSlots** is the abstract specification: who streams what and who is in
the queue, without a counter. `ImplementsStreamSlots` is the refinement
(`holds` is the torrent of each request that has a slot, `queue` the requests
that have a queue place).

**StreamReader** (proved) — what an admitted request reads. `Reader.offset` and
the position of the library's reader are separate; a demoted reader stands at 0.
The seeker given to `http.ServeContent` has a position of its own and a "virtual"
state after the size probe. `ServeContent` is external: sniff, probe, one part
after the other. `parseRange` is a constant, external too. A second reader
(`Mounts`, a file system handle) makes demotion possible.

**CacheCleanup** (proved) — one torrent's cache: `MemWriteAt`/`DiskWriteAt`, the pass of
`CleanPieces` step by step (`lockCleanup` … `finishPass`), `Close`, changes of
the capacity and of the readers' windows, a Read that waits for data with its
mutex held. Sizes are chunks; windows are sets of protected pieces.

**TorrentPlayback** (proved) — one loaded torrent: requests of four kinds
(stream, poll, preload, file system), the `watch` goroutine's expiry decision at
each of its reads, quiesce and resume without a lock, `Close` in its steps, the
API's remove and drop. Admission is "granted or refused" here.

**SettingsStorage** (proved) — both databases, every write of `InitSets`, the switches of
storage preference, `SetViewed`/`RemViewed` through `DBReadCache`, the import of
`torrserver.db`. Any number of requests run at a time, each split at its accesses to
cache, database and lock. `Crash` may follow any write; a crash in a JSON write may leave
an empty file; writes may fail silently; a server started with `--rdb` writes nothing. A
behaviour begins with one of the installations in `Setups` (which store was preferred,
what is where, which operations happen, whether the disk is bad; `setup` keeps it). The
history variables say which marks users have set and not removed (`marks`), what a start
found (`found`), and what overlapping requests leave open (`touched`, `raced`). Reading,
writing and verifying one entry of a migration is one step, so a request for this entry
comes before or after it, never between.

**ServerLifecycle** (proved) — the stages of Start, the goroutine of each listener,
`waitChan`, `supervise`, the two ways to stop through `stopOnce`, the grace
period, the deadline, the reconnect in `ApplySettings`, the cleanup worker.

**TorrentRegistry** (proved) — one hash between the registry, the torrent client, the
storage's caches and the database; wrappers (`*Torrent`) and generations of the
library's torrent are numbered. Handlers add, play, drop and remove, one call into
a locked structure per step. `NewTorrent`, `LoadOrStore`, `Close` with both its
deletions by hash, its refusal by a read-only server while there are readers
(`CloseRefused`), and the wait for metadata that a closed torrent interrupts.

**CachePriority** (proved), **CacheNumbers**, **CacheMetrics** (proved) — the priorities the library
was told and the map of those the cache tracks, an update and a delayed clearing
that work on snapshots, and releases that untrack without their lock; ranges,
budgets and reported capacities as operators beside a declarative definition;
every operation on the gauges as the sequence of its atomic steps, for caches in memory
and on disk, which may be opened over files that exist.

**StreamFairness** (proved) — flows and deliveries; `fairnessDelays` is the
decision of `fairnessDelay` as a function of the aggregates per torrent and the
time. **PlaybackPolicy** (proved) — connection limits and readahead as functions,
and the boost protocol around the compare-and-swap of `claimPeerAcquisitionBoost`.

**SettingsValues** (proved) — defaults, profiles, validation and both mappers as functions
on field names; starts, patches that read and later write, resets and saves as
actions. **AuthStore** (proved) — one transaction per `AddUser`, the death of the process
between any two, the middleware in front of the handlers. **Blocker** (proved) — both
files, parsing with its cut at the last colon, sorting and the binary search, against
what the files say. An address as written is a record of what it parses to whole and
what its part after the last colon parses to.

**CircuitBreaker** — a search through retry and breaker, one atomic access per
step; `openTime` is not atomic, so a read beside a write may go either way.

**ManagementClient** (proved) — `torrctl`: the contexts file (truncated, then written),
the resolution of a name in a list that may be old when the request arrives, the
upload with its goroutine and pipe. The server behind the address performs or
refuses, its answer may be lost, and it may be another service; started with `--rdb` it
answers a removal and ignores it (`outcomes`). A wipe is one step of the server.
**ReleaseBundle** (proved) — `CreateAll` file by file with a rename that may fail and a
death between any two steps, `VerifyAll` over directories that others have changed. That
the linker flags contain a version or commit means that the stamped one starts with it
(`LongerVersions`, `LongerCommits` say which do).

`TorrentPlayback` uses of admission what `StreamSlots` promises (a slot is granted
or refused, and kept until released); `StreamReader` starts where admission ends;
`CachePriority` builds on `CacheNumbers`. The other modules share no state, as the
packages they model share none but the settings, which they read as constants or
free inputs. **MCComponents** and **MCProtocols** put those together in one
instance each: a behaviour picks one component (`part`), so the instance has the
sum of their states and not the product. The other MC modules instantiate one component.

## 3. Runs

| run | instance | shows |
|---|---|---|
| `admission` | 3 requests, 2 torrents, 2 configurations (one defaulted) | counters exact, limits kept, refinement of `StreamSlots`, everybody answered |
| `stream_reader` | 1 request, 5 kinds of Range header, file of 3 blocks, 1 mount | the bytes sent are those asked for, under the request's context; count of active readers exact; departed clients and warm-ups end |
| `cache` | memory and disk cache, 3 pieces, 2 writers, cleaner, closer, 2 capacities | fill and index exact, one pass at a time, no eviction below capacity, calls return |
| `cache_disk_deadlock` | disk cache, 1 writer, 1 waiting reader | **violated** (finding 1) |
| `playback` | 1 client with all kinds of request, API removal, another active torrent | quiesced torrents can be resumed, expiry spares players, nothing is kept between requests, unregistered and unused torrents are dropped |
| `playback_intent` | 2 clients that poll and stream | **violated** (finding 2) |
| `storage` | 2 torrents × 2 files, 2 requests at a time, 2 crashes, 3 starts; seven installations, see below | what a start finds in its source arrives, the read cache agrees, the import loses only what `AddTorrent` did not store, no source is cleared before the target has its entries |
| `storage_interrupted_migration` | 1 crash, 3 starts | **violated** (finding 3) |
| `lifecycle` | HTTPS and HTTP, any two of a stream, a settings change, a shutdown request, and a signal | order of the stop, caches kept, the process ends whatever hangs |
| `graceful_exit` | one request | **violated** (finding 4) |
| `components` | one of twelve parts, see below | twelve invariants, one or two per part |
| `protocols` | one of four parts | an open breaker is tried again, a closed torrent's hash becomes usable, priorities fall, commands end |

The installations of `storage`: one upgraded from an older version under the shipped
`config.yml`, with the import of `torrserver.db` killed twice (`Upgraded`); two requests
at a time that set, remove and forget (`Shared`); settings and history in either
database and preferred in either, with two kills (`Relocated`); marks during a switch of
the history, and a kill (`Switching`); failing writes with a kill (`OnBadDisk`) and with
marks (`MarkedOnBadDisk`); and a server started with `--rdb` (`WithRDB`).

The parts of `components`, each with its invariant:

| part | instance | invariant |
|---|---|---|
| fairness | 2 streams, one of two torrents, 3 ticks | `SomeTorrentUndelayed`: delays are never mutual |
| limits, numbers | settings on both sides of every threshold; all lists of up to 3 ranges, caches and budgets at their edges | `LimitsFit`: the numbers are positive and fit each other, merged ranges cover the same pieces, a status "ok" is true |
| boosts | 2 goroutines, cooldown above run and wait, 10 ticks | `OneBoost` |
| accounts | 3 names, 4 passwords (empty, too long), 3 starts | `FileOutlivesImport`: `accs.db` goes only when the import has come to everybody in it |
| blocker | up to 3 deny lines and 1 allow line of both address lengths | `LookupExact`: refused exactly by what the parsed lines say |
| settings | 2 concurrent requests, 2 starts | `SavedAtRest`: what is saved is in range and saving it again changes nothing; `DebugOnlyFromConfig` |
| metrics | 2 caches, 2 goroutines, 4 operations | `MetricsExact`: the sums are right whenever nobody works, but for what finding 11 takes from the filled bytes |
| release | 2 targets, one death, 2 changes by others | `ReleaseExact`: what is verified is complete and stamped as the check demands, what was made is verified |
| registry | 2 handlers, 2 wrappers, 2 generations | `AddersAgree`: who adds ends with the registered wrapper |
| priorities | 1 reader, 2 pieces | `RaisedTracked`: no raised piece is forgotten |
| client | 2 processes, 2 commands, 2 torrents and a new one | `CommandsHonest`: success means the effect asked for, on the torrent that was meant, and no command does more |

Nine more promises of the repository are false of the code. Each is a property of its
module whose comment has the promise (section 5 has the line), and a configuration beside the runs
makes TLC show the counterexample: `tlc -config <configuration> <module>`.

| configuration | module | violated | finding |
|---|---|---|---|
| `MCSettingsStorageSwitched.cfg` | `MCSettingsStorage` | `SourceKept`: a mark after a switch of the history, no crash | 5 |
| `MCSettingsStorageAgain.cfg` with `OnlySwitched` for `OnlyMovedBack` | `MCSettingsStorage` | `ViewedKept`: a mark during a switch, no kill | 6 |
| `MCSettingsStorageReadOnly.cfg` | `MCSettingsStorage` | `ImportVerified`: `torrserver.db` and `--rdb` | 7 |
| `MCAuthStore.cfg` (with `-continue`, to see both) | `MCAuthStore` | `DeletedWhenMigrated`, `MigratedWhenServing` | 8, 9 |
| `MCBlocker.cfg` | `MCBlocker` | `WrittenRefused`: one line of `bip.txt` | 10 |
| `MCCacheMetrics.cfg` | `CacheMetrics` | `NothingFilledClosed`: one disk cache over a file | 11 |
| `MCReleaseBundle.cfg` | `MCReleaseBundle` | `OneBuild`: binaries of a release and of its pre-release | 12 |
| `MCCircuitBreaker.cfg` | `MCCircuitBreaker` | `SearchesAreMade`: the deployed breaker, 2 searches | 13 |

**Bounds.** Three requests are the least with one streaming, one queued and one
refused, and two torrents the least for the unique-torrent limit; both limits and
queue sizes differ between the configurations. Three blocks separate the start,
the middle and the end of a range, and one mount is enough to demote a reader.
Two writers and the cleaner are the least for a waiter, a runner and a third call
that overtakes; three pieces allow one to be protected, one evicted, one written.
One client, the watch goroutine and the API are the least actors of which each can
interrupt the others; the invariants of playback are proved for any number of
clients, and `playback_intent` has two. Timeouts of two ticks let an expiry be
extended once. In the storage runs the interesting cases
need a migration cut short (two entries, one crash), two later starts
(`MaxCrashes`, `MaxSessions`), and two requests that overlap. In `lifecycle` the cases are pairs of requests
(`MaxRequests`). In `components` two of each actor meet, except for the readers of
`CachePriority`, whose own update, clearing and release already run beside each
other; the numbers include zero, both sides of each threshold and one value far
off. `protocols` has its parts with one generation, one process and three
commands, because liveness needs the whole graph of states. The proofs remove these bounds where they exist.

Symmetry is used only in runs without liveness properties (`storage`: two torrents
and two requests that every action treats alike). `CHECK_DEADLOCK
FALSE` stands where the modelled thing ends: a dropped torrent, an exited
process.

**Fairness.** Weak fairness stands for the Go scheduler: a goroutine that can run
runs. Deadlines pass (`Timeout`, `ReadTimesOut`, `StopTimesOut`, `CutServer`,
`Elapse`). In `protocols` the goroutines of
a search, of an update and of a clearing, the clearing's timer, the breaker's
timeout and the steps of a command (its deadline included) are weakly fair.
Strong fairness is used five times. Three are in `protocols`, each for some handler:
players that keep asking for the torrent (`StartPlay`), the closed channel in the
`select` of a wait for metadata (`WaitInfoClosed`), and a removal that a read-only server
may refuse while there are readers (`CloseEntry`), all needed by `StaleEntryHeals`. The others are the expired wait
timer in the `select` of a queued request, whose channel stays readable while Go's
`select` chooses uniformly, and a writer waiting for a piece mutex, which Go does not
starve. In `MCCircuitBreaker.cfg` users keep searching and the goroutines of their searches
run; the indexer owes no answer until it has recovered.
Nothing is assumed of clients, peers or data: streams may never end, blocks may
never arrive, and during a stop modules, torrent client and cleanup worker may
hang.

## 4. Proofs

`tlapm` checks eight modules, for every value of the constants that satisfies the
assumptions of the modules: `StreamAdmission_proofs`, `StreamReader_proofs`,
`TorrentPlayback_proofs`, `CacheCleanup_proofs`, `ServerLifecycle_proofs`,
`SettingsStorage_proofs`, `Values_proofs` (about `StreamFairness`, `PlaybackPolicy`,
`Blocker`, `SettingsValues` and `CacheMetrics`) and `Components_proofs` (about `AuthStore`,
`CachePriority`, `TorrentRegistry`, `ManagementClient` and `ReleaseBundle`).

The library's induction theorems take an operator as a parameter, which the provers
cannot instantiate. Where a proof needs induction over data (sums over finite sets, the
binary search), it argues by a smallest counterexample instead: the set of arguments for
which the claim fails is a set like any other, a non-empty set of naturals has a least
element (`SmallestNat`), and one of finite sets a member without a proper subset among
them (`SmallestSubset`).

* **StreamAdmission**: `TypeCorrect`, `CountersExact`, `LimitsHold`,
  `Refinement`. The limits are not inductive: a request is admitted by comparing a
  *counter* with its limit. The invariant therefore adds that each counter is the
  cardinality of the set of requests it stands for, which in turn needs the types.
  Every step is one of five kinds (outside, acquire, release, enqueue, dequeue,
  `NextCases`), and each fact is shown once per kind. `LimitsKept` is stated per
  limit: at most *k* of the running streams were admitted under a limit of *k* or
  less, which survives changes of the settings; the bare "at most the current
  limit" does not. Assumption: finitely many requests and torrents.
* **StreamReader**: `TypeCorrect`, `ServesRange` (with the context the reads are
  under), `ActiveCount`. The invariant says of each reader where the library's position is
  (`Placed`: at the offset while in use, at 0 while demoted), what the seeker's
  position means (`Cursor`), and whose context is set (`Bound`). That `active` is
  never negative is not inductive alone: it follows from its being the number of
  readers in use, preserved because every step adds or removes at most one reader
  from that set and adjusts the count by as much (`UseChanges`).
* **TorrentPlayback**: `TypeCorrect`, `QuiescedResumable`, `ExpirySpares`,
  `NothingLeaks`. Quiesce and resume take no lock; the invariant is that downloads
  are off only while the flag is set or some goroutine is between the steps that
  set it or allow downloads. Expiry needs `Located` (what a client holds says where
  in its request it is), `ClosedInOrder` (the order in which `Close` takes the
  torrent apart) and `Spared` (what each read of the decision has established).
* **CacheCleanup**: `TypeCorrect`, `EvictionSeesTrueNumbers`, `CleanupsAreSerial`,
  `EvictsNoMoreThanNeeded`. The fill counter is proved equal to the number of chunks
  held (`Held`, a finite set, so that a write or a release changes both by the same
  amount, `SizeChange`). `NoOverEviction` rests on `Enough`: while a pass has *k*
  pieces left to remove, the cache is at least *k* - 1 pieces above the capacity the
  pass started from. That is preserved only because nobody else evicts (`Serial`)
  and the counter is exact, and `Placed` says which goroutine may be at which step.
* **ServerLifecycle**: `TypeCorrect`, `StopIsClean`, `ClosesAfterDraining`,
  `KeepsCaches`, for one or two listeners and any requests. None of the properties is
  inductive: they speak of the end of a stop. The invariant says what is down at each
  phase of `serverRuntime.Stop` (`InPhase`), which listeners have no request in
  progress by then (`Drained`), that only a request which was not waited for connects
  the client again (`StaysDown`), and who began the stop, with or without cancelling the
  cleanup worker (`Started`). `Reported` counts the outcomes in `waitChan` against the
  listeners that ended: the channel has room for both, so no listener blocks on it.
* **SettingsStorage**: five theorems for any number of requests at a time, any
  installations, kills and switches, without a hypothesis on the behaviour.
  `TypeCorrect`. `ImportLosesOnlyRefused`, in read-only mode and on a bad disk too: an old
  torrent that has been taken from the list is stored or refused, and the file goes when
  the list is empty. `SourcesKept`: a migration that has counted as many entries as its
  source had has copied all of them, because every entry is counted at most once
  (`AllCounted`); entries that a request has changed meanwhile (`touched`) are excepted,
  and finding 6 is what happens to them. `CacheFollowsDatabase`: between two accesses of a
  request the cache may be ahead of the database by the one entry about to be written,
  or the request holds what the database has (`InStep`); entries that two requests use at
  a time, or that were switched, are excepted (`raced`, section 5). `HistoryArrives`:
  until the source is cleared it is what the start has found, whatever kills came between
  (`Underway`), and once it is cleared the target has all of it (`Arrived`), because the
  counts agree; what the target held of other entries is still there (`Kept`).
  Assumptions: finitely many torrents in the history, and no set of indexes is the absent
  entry (`NoData`).
* **StreamFairness**: `DelaysSpareOne`. If every torrent had to give way, all were
  mature, so none is protected as a starter, and each would have to be faster than
  the slowest of the others; the slowest of all is not. This is stated of any
  aggregates; `SomeTorrentAlwaysUndelayed` is about those of the model, in every
  reachable state: the bytes of a torrent are a sum over its streams, and a sum of
  integers over a finite set is an integer (`SumInt`). Assumption: finitely many streams.
* **PlaybackPolicy**: `ConnectionLimitsFit` and `InitialReadaheadFits` are
  arithmetic, for any settings; `BoostsAlternate` is an invariant of the protocol:
  whoever is at work began at `lastBoost` and ends before the cooldown does
  (`BoostInTime`), so a claim that succeeds finds nobody. Assumption: the cooldown is
  longer than a run and its wait, as the constants of `peer_acquisition.go` are.
* **AuthStore**: `FileGoesLast`. `Imports`: until `accs.db` goes it is
  unchanged, and what the running import has passed is in the store, or its `AddUser`
  failed, or an administrator removed it. Findings 8 and 9 are what it does not say.
* **CachePriority**: `RaisedStayTracked`, with the types of the snapshots that updates
  and clearings work on.
* **TorrentRegistry**: `AddersShareOne`. The invariant is about all wrappers in
  anybody's hands: the live ones are the registered one and those being closed, unless
  a `Close` has displaced another wrapper's entry, or was refused by a read-only server
  after `RemoveTorrent` had deleted the entry (`displaced`, `Findable`). It needs that a wrapper
  not yet stored is known to its maker only (`Unshared`) and that no step revives a
  wrapper (`WrappersStep`).
* **Blocker**: `LookupIsExact`, for any lines and any order that sorting may leave them
  in. The search is a recursion on a pair of bounds. That the recursion has a solution
  is shown by writing one down, and of a smallest interval whose answer is wrong the
  half that the search goes on with is smaller and right. Hypothesis, as in the
  property: no two parsed ranges of a file meet (section 5 says what happens when they
  do). It is about what `parseLine` makes of the lines; finding 10 is about `parseLine`.
* **SettingsValues**: `DebugIsConfigured`. Profiles, defaults, both mappers and the
  normalisation leave `EnableDebug` alone or switch it off; the invariant carries this
  through the values that concurrent requests have read and not yet written.
  `SavedStaysAtRest`: whatever reaches the database has been through the profile and the
  normalisation (`Resting`). Both look at the one field they change, but for the two
  bounds of the adaptive readahead and the profile's name, so that a second pass finds
  every field in its range, or as the profile has it, and keeps it. Assumptions: the values
  in configuration files and patches have the types of their fields, and lower case of a
  lower case string is the string itself.
* **CacheMetrics**: `MetricsAreExact`, for any number of caches and goroutines and any
  order of their atomic steps. Between the atomic of a cache and the one of the process
  a sum is wrong, and the invariant says by how much: it is what the caches have of the
  gauge and nobody has taken yet (`part`), plus what the workers owe (`owes`): taken by an
  unregistration and not subtracted, less what was changed and not told (`Balance`). The
  same holds for the counters and the pool. `Structure` is what makes every step balance:
  what a worker has left is shaped like the operations (`Shape`, `Ordered`), and how much
  of a cache is gone can be read off the steps its unregistration has left (`Closes`),
  which only one worker has. An update that falls into an unregistration is excepted
  for its gauge, as the code gives up exactness there. What caches have found on disk and
  the sum was never told (`foundBytes`, finding 11) is a term of the balance.
  Assumptions: finitely many caches and goroutines, capacities not negative, a pool limit.
* **ManagementClient**: `CommandsAreHonest`. The invariant `Good` says of each command
  what it has decided at each step (`Decided`), that the server does nothing before it
  is asked and has done what it answers, or, read-only, ignored a removal (`Requested`),
  and for an upload that the boundary is written last and only a form with its boundary
  is taken (`Uploaded`).
* **ReleaseBundle**: `ReleasesAreExact`. An archive that is accepted has four members
  because its names are pairwise different and are all the expected ones; that each
  member is the right one also needs to know what others may have put there (`DirMade`:
  an entry called the directory or the configuration is one). "The right one" is what the
  check tests, a version and commit that start as asked; finding 12 is the difference.
  That a creation is accepted needs what `CreateAll` has at hand at each step (`CreatorMade`) and, as long as nobody
  else has changed the directory, what it has packed so far (`Undisturbed`). Assumption:
  at least one target, and room for four members in an archive.

Only model-checked: all liveness properties and the negative results, which the
prover cannot state or which are counterexamples; the parts of `LimitsFit` about merged ranges (`SortSeq` and
`FoldLeft` take an operator as a parameter), priorities, budgets and reported
capacities. Liveness under fairness and statements with `ENABLED` are out of the
prover's reach.

## 5. Findings

The first four have runs, the others a configuration beside them (section 3).

1. *Disk cache deadlock* (`diskpiece.go:88`): the first write of a piece cleans up
   synchronously with the piece mutex held; the pass locks every reader, and the
   reader that waits for this piece keeps its mutex until the piece is complete.
2. *A poll does not keep a torrent ready* (`torrent_playback.go:98`): another
   client's last close switches downloads off between the poll and the stream,
   against the comment of `TouchPlaybackIntent`.
3. *An interrupted viewed migration is never finished* (`settings.go:209`):
   identical entries count as skipped, the source is not cleared, and a later start
   copies its stale entries over newer marks.
4. *The shutdown request is not graceful* (`runner.go:151`): `Wait` returns when the
   first listener closes, which is the first step of the stop; the process exits
   with code 0 before the requests are drained and the database is closed.
5. *A switch of the history loses older marks* (`settings_storage_preferences.go:97`):
   `SwitchViewedStorage` moves the history and leaves the routing until the restart. A
   mark set in between starts a new entry in the emptied store, and the next start
   migrates it over the full one.
6. *A switch clears marks that arrive while it runs*
   (`settings_storage_preferences.go:75`): `SetViewed` does not take `dbMigrationLock`,
   and the whole source is cleared.
7. *A read-only start removes `torrserver.db`* (`migrate_torrents.go:104`): with `--rdb`,
   `AddTorrent` stores nothing, nobody checks, and the old database is deleted. A failed
   transaction, which is only logged (`db.go:142-144`), loses its torrent in the same way.
8. *`accs.db` is deleted with accounts that were not added* (`auth/migrate.go:69`): a
   failing `AddUser` is only counted.
9. *An interrupted import of accounts is taken for a finished one*
   (`auth/migrate.go:33`): after a kill between two accounts the store is not empty, and
   the rest stays in `accs.db` for good.
10. *Lines with IPv6 addresses do not work* (`blocker.go:143`): everything up to the last
    colon is cut off as a description, so the line has no address left and the file is
    refused, or a range becomes the single address after its last colon.
11. *The sum of filled bytes goes below zero* (`cache_metrics.go:151`): what a disk cache
    finds when it is opened is subtracted at its end and never added.
12. *A pre-release passes for the release* (`verify.go:371`): the linker flags are
    searched for `v1.2.3`, which `v1.2.3-rc.1` contains.
13. *The Torznab breaker sticks* (`torznab.go:73`): `HalfOpenMaxCalls` is 0 and two
    successes are needed; after one in the half-open state every call is refused until
    the server restarts.

Observed while modelling, by reading or with a variant of a run, without a
configuration of their own:

* A pass of the disk cache can also pick the piece whose first write started it
  (`diskpiece.go:85-88`, `128-130`): the goroutine waits for its own mutex.
* `ActivePlaybackTorrents` is at least 1 (`btserver_registry.go:65-67`) and the
  policy skip-active skips above 0: every startup preload is skipped.
* `updateRA` tests `t.Torrent` and calls it later without the mutex, while `drop`
  clears it (`torrent_playback.go:33-41`).
* `SetStoragePreferences` compares with preferences that `config.yml` has
  overridden (`runtime_server.go:182`, `config.go:459-462`).
* A read miss of `DBReadCache` fills the cache after its lock was released
  (`dbreadcache.go:86`): with two requests at a time for one entry it can put an old value over the
  one that a `Set` has just written, and the cache stays stale until the next write. Two
  `SetViewed` for one torrent may lose a mark, and a switch of the history leaves the
  cache with the entries of the emptied database. No document promises otherwise;
  `CacheAgrees` excepts these entries by name (`raced`).
* `CloseReader` returns early when `t.cache` is nil: readers open at `Torrent.Close`
  are never closed (`torrent_playback.go:91-96`).
* The cleanup worker of the start is not cancelled by a shutdown request, and a
  closed `DBReadCache` lists nothing: the caches of known torrents may be removed
  (the exception in `CachesKept`).
* When an administrator removes every account while a skipped `accs.db` is still there,
  the next start finds an empty store and imports the file: the accounts come back.
* Overlapping ranges in the blocker's files may be missed by the search
  (`iplist.go:71`).
* The second `registry.Delete(hash)` of `Close` can remove the entry of a newer
  wrapper, and with `--rdb` `RemoveTorrent` deletes the entry before `Close` refuses
  because of a reader: a live wrapper is left that nobody finds
  (`torrent_lifecycle.go:247-249`, `displaced` in `TorrentRegistry`). `POST /torrents`
  with `rem` or `wipe` answers 200 all the same. `SetTorrent` beside `RemoveTorrent`
  stores a removed record again, an empty title can erase the stored one, and
  `LoadTorrent` forgets the category.
* Two concurrent settings requests lose an update; `ApplySettings` from the API
  changes memory only, and the values reach the database with the next change of the
  storage preferences. A negative `PreloadCache` is saved as 0, a 0 as 50 by the next
  save; a `WarmDiskCacheTTLMin` of 0 is 180 after a restart. The defaults of
  `config.yml` count as explicit values, so a profile named there changes nothing
  else. A request through the API resets `DebugMaxUnverifiedBytesMB`, and a reset
  switches debug mode off.
  Going from `low-cpu` or `tcp-only-balanced` to `balanced` keeps `DisableUTP`.
* An update of a gauge that falls between the compare-and-swap of a cache and the
  test of its flag while the cache is unregistered leaves the process-wide sum off
  (`straddled` in `CacheMetrics`).
* A crash between two published bundles makes the next `CreateAll` refuse the
  directory, and `VerifyAll` does not compare the binaries beside the bundles with
  those inside.
* The contexts of `torrctl` are written in place: a process killed between
  truncation and write leaves an empty file that every command refuses, and two
  `context` commands at a time may mix their contents or lose one
  (`context_store.go:86`). An empty answer under status 200, or for a wipe any,
  counts as success, whatever service gave it. A title made of digits is always an
  index.

## 6. Not modelled

Bytes, formats, parsers, headers, logs, metrics and generated code are left out
for good: they hold no state that the properties tell apart. In the modules above,
`SmartMigrate`, read-only mode beyond the storage, the registry and `torrctl`, the authorisation of the
shutdown request, the order of eviction candidates, the titles and categories of
torrent records, the settings, search and account commands of `torrctl` (one
request each), DLNA, FUSE and WebDAV (library interfaces over readers and the list
of torrents) are abstracted or absent, as the notes in `PROJECT.json` say.

What would come next:

1. Composition of `TorrentRegistry` with `TorrentPlayback` through the registry
   entry: a wrapper that is closed while another handler plays it. Each has the
   other's effect as a free choice so far.
2. Theorems: the numbers of `CacheNumbers`, where they can be stated without sorting.
3. Abstract specifications of the piece cache (contents and capacity) and of the
   registry (at most one live torrent per hash), with refinements.
