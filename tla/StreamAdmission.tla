--------------------------- MODULE StreamAdmission ---------------------------
(***************************************************************************)
(* Admission of playback streams: server/torr/stream_admission.go, as it   *)
(* is used by Torrent.Stream (server/torr/stream.go) and by the            *)
(* CheckPlaybackAdmission gate of the HTTP handlers.                       *)
(*                                                                         *)
(* A request is a goroutine.  Every section under streamAdmissionRegistry  *)
(* .mu is one action; everything between two such sections may interleave  *)
(* with the other requests.  The limits are read from the settings once    *)
(* per request, so requests that stream at the same time may have been     *)
(* admitted under different limits.                                        *)
(*                                                                         *)
(* The key of a stream is Torrent.Hash().HexString(), never empty.  The    *)
(* runtime id kept beside the reader count and the monotone debug counters *)
(* are diagnostics that no control flow reads, and are left out.           *)
(***************************************************************************)
EXTENDS Integers, FiniteSets

CONSTANTS
  Requests,      \* concurrent HTTP playback requests (goroutines)
  Keys,          \* torrent hashes
  NoTorrent,     \* "no key yet"
  StreamConfigs, \* the stream settings that may be in force
  GOMAXPROCS     \* runtime.GOMAXPROCS(0)

ASSUME RequestsFinite == IsFiniteSet(Requests)
ASSUME KeysAssumption == IsFiniteSet(Keys) /\ NoTorrent \notin Keys
ASSUME ConfigAssumption ==
  /\ GOMAXPROCS \in Nat \ {0}
  /\ StreamConfigs \subseteq
       [MaxConcurrentStreams : Int, MaxUniquePlaybackTorrents : Int,
        StreamQueueSize : Int, EnableDebug : BOOLEAN]

VARIABLES
  activeStreams,  \* the global atomic counter
  active,         \* active[k]: readers of torrent k (0: k is not in the map)
  waiters,        \* queue slots taken
  uniqueWaiters,  \* of them, blocked by the unique-torrent limit (debug only)
  pc,             \* where the goroutine of a request is
  key,            \* the torrent a request wants
  adm,            \* the limits it read from the settings
  unique          \* queuedUnique: its first failure was the unique limit

shared == <<activeStreams, active, waiters, uniqueWaiters>>
vars == <<activeStreams, active, waiters, uniqueWaiters, pc, key, adm, unique>>

-----------------------------------------------------------------------------
(* Settings. *)

maxInt(a, b) == IF a > b THEN a ELSE b

\* currentAdmission: unset limits get a default, a negative one means none.
currentAdmission(cfg) ==
  LET maxStreams == IF cfg.MaxConcurrentStreams <= 0
                      THEN maxInt(1, 2 * GOMAXPROCS)
                      ELSE cfg.MaxConcurrentStreams
  IN  [maxStreams        |-> maxStreams,
       maxUniqueTorrents |-> maxInt(cfg.MaxUniquePlaybackTorrents, 0),
       queueSize         |-> IF cfg.StreamQueueSize <= 0
                               THEN maxInt(1, 2 * maxStreams)
                               ELSE cfg.StreamQueueSize,
       debugEnabled      |-> cfg.EnableDebug]

Admissions == {currentAdmission(cfg) : cfg \in StreamConfigs}

AdmissionType ==
  [maxStreams : Nat \ {0}, maxUniqueTorrents : Nat, queueSize : Nat \ {0},
   debugEnabled : BOOLEAN]

-----------------------------------------------------------------------------
(* The registry. *)

ActiveTorrents == {k \in Keys : active[k] > 0}

\* Mutant: one torrent more than the limit.
canAcquireUniqueTorrent_offByOne(maxUnique, k) ==
  \/ maxUnique <= 0
  \/ active[k] > 0
  \/ Cardinality(ActiveTorrents) <= maxUnique

canAcquireUniqueTorrent(maxUnique, k) ==
  \/ maxUnique <= 0
  \/ active[k] > 0
  \/ Cardinality(ActiveTorrents) < maxUnique

\* Mutant: one stream more than the limit.
canAcquireNow_offByOne(a, k) ==
  /\ activeStreams <= a.maxStreams
  /\ canAcquireUniqueTorrent(a.maxUniqueTorrents, k)

canAcquireNow(a, k) ==
  /\ activeStreams < a.maxStreams
  /\ canAcquireUniqueTorrent(a.maxUniqueTorrents, k)

\* The two registry updates made under mu by tryAcquire and release.
acquireSlot(k) ==
  /\ activeStreams' = activeStreams + 1
  /\ active' = [active EXCEPT ![k] = @ + 1]

\* Mutant: the global counter goes down only with the last reader of a torrent.
releaseSlot_lastReaderOnly(k) ==
  /\ active' = [active EXCEPT ![k] = IF @ <= 1 THEN 0 ELSE @ - 1]
  /\ activeStreams' = IF active[k] > 1 THEN activeStreams ELSE activeStreams - 1

releaseSlot(k) ==
  /\ active' = [active EXCEPT ![k] = IF @ <= 1 THEN 0 ELSE @ - 1]
  /\ activeStreams' = IF activeStreams - 1 < 0 THEN 0 ELSE activeStreams - 1

takeQueueSlot(uniqueBlocked, debugEnabled) ==
  /\ waiters' = waiters + 1
  /\ uniqueWaiters' = IF debugEnabled /\ uniqueBlocked
                        THEN uniqueWaiters + 1 ELSE uniqueWaiters

\* Mutant: the debug counter goes down for requests that never raised it.
releaseQueueSlot_always(uniqueWaiter, debugEnabled) ==
  /\ waiters' = IF waiters > 0 THEN waiters - 1 ELSE waiters
  /\ uniqueWaiters' = IF uniqueWaiter THEN uniqueWaiters - 1 ELSE uniqueWaiters

releaseQueueSlot(uniqueWaiter, debugEnabled) ==
  /\ waiters' = IF waiters > 0 THEN waiters - 1 ELSE waiters
  /\ uniqueWaiters' = IF debugEnabled /\ uniqueWaiter /\ uniqueWaiters > 0
                        THEN uniqueWaiters - 1 ELSE uniqueWaiters

-----------------------------------------------------------------------------
(* One request.  "idle": not in the server; "checked": past the gate of    *)
(* the handler; "trying" / "retrying": about to call tryAcquire without /  *)
(* with a queue slot; "blocked": tryAcquire failed, no queue slot yet;     *)
(* "waiting": in the select; "admitted": has a stream slot and still its   *)
(* queue slot; "streaming": has a stream slot only.                        *)

PC == {"idle", "checked", "trying", "blocked", "waiting", "retrying",
       "admitted", "streaming"}

Holders == {r \in Requests : pc[r] \in {"admitted", "streaming"}}
HoldersOf(k) == {r \in Holders : key[r] = k}
Queued == {r \in Requests : pc[r] \in {"waiting", "retrying", "admitted"}}
UniqueQueued == {r \in Queued : unique[r] /\ adm[r].debugEnabled}

Init ==
  /\ activeStreams = 0
  /\ active = [k \in Keys |-> 0]
  /\ waiters = 0
  /\ uniqueWaiters = 0
  /\ pc = [r \in Requests |-> "idle"]
  /\ key = [r \in Requests |-> NoTorrent]
  /\ adm \in [Requests -> Admissions]
  /\ unique = [r \in Requests |-> FALSE]

\* The gate of streamPlay and of the legacy route: it reads the settings and
\* looks, but takes nothing.  A refused request is answered 503.
CheckStreamAdmission(r, k, a) ==
  /\ pc[r] = "idle"
  /\ canAcquireNow(a, k)
  /\ pc' = [pc EXCEPT ![r] = "checked"]
  /\ key' = [key EXCEPT ![r] = k]
  /\ UNCHANGED <<shared, adm, unique>>

\* Torrent.Stream reads the settings again and enters tryAcquireStream.  The
\* gate is not on every route, so a request may come here without it.
Stream(r, k, a) ==
  /\ \/ pc[r] = "idle"
     \/ pc[r] = "checked" /\ key[r] = k
  /\ pc' = [pc EXCEPT ![r] = "trying"]
  /\ key' = [key EXCEPT ![r] = k]
  /\ adm' = [adm EXCEPT ![r] = a]
  /\ unique' = [unique EXCEPT ![r] = FALSE]
  /\ UNCHANGED shared

\* A handler may fail between the gate and Torrent.Stream.
Abandon(r) ==
  /\ pc[r] = "checked"
  /\ pc' = [pc EXCEPT ![r] = "idle"]
  /\ UNCHANGED <<shared, key, adm, unique>>

\* Mutant: a request that comes back from the queue is let in unchecked.
tryAcquireOk_uncheckedRetry(r) ==
  /\ pc[r] \in {"trying", "retrying"}
  /\ pc[r] = "retrying" \/ canAcquireNow(adm[r], key[r])
  /\ acquireSlot(key[r])
  /\ pc' = [pc EXCEPT ![r] = IF @ = "retrying" THEN "admitted" ELSE "streaming"]
  /\ UNCHANGED <<waiters, uniqueWaiters, key, adm, unique>>

tryAcquireOk(r) ==
  /\ pc[r] \in {"trying", "retrying"}
  /\ canAcquireNow(adm[r], key[r])
  /\ acquireSlot(key[r])
  /\ pc' = [pc EXCEPT ![r] = IF @ = "retrying" THEN "admitted" ELSE "streaming"]
  /\ UNCHANGED <<waiters, uniqueWaiters, key, adm, unique>>

\* The reason is kept only for the first failure.
tryAcquireFails(r) ==
  /\ pc[r] \in {"trying", "retrying"}
  /\ ~canAcquireNow(adm[r], key[r])
  /\ \/ /\ pc[r] = "trying"
        /\ pc' = [pc EXCEPT ![r] = "blocked"]
        /\ unique' = [unique EXCEPT ![r] = activeStreams < adm[r].maxStreams]
     \/ /\ pc[r] = "retrying"
        /\ pc' = [pc EXCEPT ![r] = "waiting"]
        /\ UNCHANGED unique
  /\ UNCHANGED <<shared, key, adm>>

\* Mutant: the queue holds one request more than its size.
tryAcquireQueueSlot_offByOne(r) ==
  /\ pc[r] = "blocked"
  /\ IF waiters > adm[r].queueSize
       THEN /\ pc' = [pc EXCEPT ![r] = "idle"]
            /\ UNCHANGED shared
       ELSE /\ pc' = [pc EXCEPT ![r] = "waiting"]
            /\ takeQueueSlot(unique[r], adm[r].debugEnabled)
            /\ UNCHANGED <<activeStreams, active>>
  /\ UNCHANGED <<key, adm, unique>>

\* Mutant: a request that finds the queue full tries again instead of failing.
tryAcquireQueueSlot_spins(r) ==
  /\ pc[r] = "blocked"
  /\ IF waiters >= adm[r].queueSize
       THEN /\ pc' = [pc EXCEPT ![r] = "trying"]
            /\ UNCHANGED shared
       ELSE /\ pc' = [pc EXCEPT ![r] = "waiting"]
            /\ takeQueueSlot(unique[r], adm[r].debugEnabled)
            /\ UNCHANGED <<activeStreams, active>>
  /\ UNCHANGED <<key, adm, unique>>

\* tryAcquireQueueSlot, and the 503 when the queue is full.
tryAcquireQueueSlot(r) ==
  /\ pc[r] = "blocked"
  /\ IF waiters >= adm[r].queueSize
       THEN /\ pc' = [pc EXCEPT ![r] = "idle"]
            /\ UNCHANGED shared
       ELSE /\ pc' = [pc EXCEPT ![r] = "waiting"]
            /\ takeQueueSlot(unique[r], adm[r].debugEnabled)
            /\ UNCHANGED <<activeStreams, active>>
  /\ UNCHANGED <<key, adm, unique>>

\* The select of tryAcquireStream: the ticker, the wait timer, the client.
Tick(r) ==
  /\ pc[r] = "waiting"
  /\ pc' = [pc EXCEPT ![r] = "retrying"]
  /\ UNCHANGED <<shared, key, adm, unique>>

GiveUp(r) ==
  /\ pc[r] = "waiting"
  /\ pc' = [pc EXCEPT ![r] = "idle"]
  /\ releaseQueueSlot(unique[r], adm[r].debugEnabled)
  /\ UNCHANGED <<activeStreams, active, key, adm, unique>>

Timeout(r) == GiveUp(r)
Cancel(r) == GiveUp(r)

\* Mutant: the queue slot is not given back on success.
LeaveQueue_keepsSlot(r) ==
  /\ pc[r] = "admitted"
  /\ pc' = [pc EXCEPT ![r] = "streaming"]
  /\ UNCHANGED <<shared, key, adm, unique>>

\* A queued request that got its stream slot gives the queue slot back in a
\* critical section of its own.
LeaveQueue(r) ==
  /\ pc[r] = "admitted"
  /\ pc' = [pc EXCEPT ![r] = "streaming"]
  /\ releaseQueueSlot(unique[r], adm[r].debugEnabled)
  /\ UNCHANGED <<activeStreams, active, key, adm, unique>>

\* The deferred release of Torrent.Stream.
Release(r) ==
  /\ pc[r] = "streaming"
  /\ pc' = [pc EXCEPT ![r] = "idle"]
  /\ releaseSlot(key[r])
  /\ UNCHANGED <<waiters, uniqueWaiters, key, adm, unique>>

Next ==
  \E r \in Requests :
    \/ \E k \in Keys, a \in Admissions :
         CheckStreamAdmission(r, k, a) \/ Stream(r, k, a)
    \/ Abandon(r)
    \/ tryAcquireOk(r)
    \/ tryAcquireFails(r)
    \/ tryAcquireQueueSlot(r)
    \/ Tick(r)
    \/ Timeout(r)
    \/ Cancel(r)
    \/ LeaveQueue(r)
    \/ Release(r)

Spec == Init /\ [][Next]_vars

\* A goroutine that is not in the select keeps running.  The wait timer fires
\* once and its channel stays readable, so of a request that comes back to the
\* select again and again the select eventually picks it: strong fairness.  A
\* client may stream for ever: nothing is assumed of Release or Cancel.
Fairness ==
  \A r \in Requests :
    /\ WF_vars(tryAcquireOk(r) \/ tryAcquireFails(r))
    /\ WF_vars(tryAcquireQueueSlot(r))
    /\ WF_vars(LeaveQueue(r))
    /\ SF_vars(Timeout(r))

FairSpec == Spec /\ Fairness

-----------------------------------------------------------------------------
(* Properties. *)

\* Every variable has its type; the counters are never negative.
TypeOK ==
  /\ activeStreams \in Nat
  /\ active \in [Keys -> Nat]
  /\ waiters \in Nat
  /\ uniqueWaiters \in Nat
  /\ pc \in [Requests -> PC]
  /\ key \in [Requests -> Keys \cup {NoTorrent}]
  /\ adm \in [Requests -> Admissions]
  /\ unique \in [Requests -> BOOLEAN]
  /\ \A r \in Requests : pc[r] # "idle" => key[r] \in Keys

\* The counters say exactly which requests stream, in total and per torrent:
\* no slot leaks on a timeout, a cancel or a retry, none is given back twice,
\* and the clamp at zero in release() is never what makes the count right.
SlotAccounting ==
  /\ activeStreams = Cardinality(Holders)
  /\ \A k \in Keys : active[k] = Cardinality(HoldersOf(k))

\* The queue counters say exactly which requests hold a queue slot, through
\* every way out of the queue (admitted, timed out, cancelled).
QueueAccounting ==
  /\ waiters = Cardinality(Queued)
  /\ uniqueWaiters = Cardinality(UniqueQueued)

\* Both kinds of counters are exact.
CountersAgree == SlotAccounting /\ QueueAccounting

\* However the settings change while streams run, at most k of the running
\* streams were admitted under a limit of k or less.
StreamLimit ==
  \A a \in Admissions :
    Cardinality({r \in Holders : adm[r].maxStreams <= a.maxStreams})
      <= a.maxStreams

\* The same for the wait queue and the queue size a request read.
QueueLimit ==
  \A a \in Admissions :
    Cardinality({r \in Queued : adm[r].queueSize <= a.queueSize})
      <= a.queueSize

\* While every setting in force bounds the unique torrents, no more torrents
\* are played at once than the largest of the bounds, although the reader that
\* opened a torrent may leave before the ones that joined it for free.
UniqueTorrentLimit ==
  \A c \in Admissions :
    (\A a \in Admissions : a.maxUniqueTorrents \in 1 .. c.maxUniqueTorrents)
      => Cardinality(ActiveTorrents) <= c.maxUniqueTorrents

\* No limit of the settings is exceeded: streams, queue, unique torrents.
LimitsKept == StreamLimit /\ QueueLimit /\ UniqueTorrentLimit

\* Nobody waits for ever: a request that entered tryAcquireStream is
\* eventually streaming or answered, even if no stream ever ends.
EveryRequestAnswered ==
  \A r \in Requests :
    pc[r] \in {"trying", "retrying", "blocked", "waiting", "admitted"}
      ~> pc[r] \in {"idle", "streaming"}

\* The counters implement the abstract slot allocator.
Slots == INSTANCE StreamSlots WITH
  holds <- [r \in Requests |-> IF r \in Holders THEN key[r] ELSE NoTorrent],
  queue <- Queued

\* Every step of the code is a step of StreamSlots or changes nothing there.
ImplementsStreamSlots == Slots!Spec
=============================================================================
