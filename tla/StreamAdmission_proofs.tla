------------------------ MODULE StreamAdmission_proofs ------------------------
(***************************************************************************)
(* For every number of requests, torrents and settings: the counters of    *)
(* stream admission are exact, its limits hold, and it implements          *)
(* StreamSlots.                                                            *)
(***************************************************************************)
EXTENDS StreamAdmission, FiniteSetTheorems, TLAPS

(* The limits a request can have read are positive where the code makes    *)
(* them so (currentAdmission).                                             *)
LEMMA AdmissionsTyped == Admissions \subseteq AdmissionType
  <1> SUFFICES ASSUME NEW cfg \in StreamConfigs
               PROVE  currentAdmission(cfg) \in AdmissionType
    BY DEF Admissions
  <1>1. cfg \in [MaxConcurrentStreams : Int, MaxUniquePlaybackTorrents : Int,
                 StreamQueueSize : Int, EnableDebug : BOOLEAN]
    BY ConfigAssumption
  <1> DEFINE m == IF cfg.MaxConcurrentStreams <= 0
                    THEN maxInt(1, 2 * GOMAXPROCS)
                    ELSE cfg.MaxConcurrentStreams
  <1>2. m \in Nat \ {0}
    BY <1>1, ConfigAssumption DEF maxInt
  <1>3. maxInt(cfg.MaxUniquePlaybackTorrents, 0) \in Nat
    BY <1>1 DEF maxInt
  <1>4. (IF cfg.StreamQueueSize <= 0 THEN maxInt(1, 2 * m)
                                     ELSE cfg.StreamQueueSize) \in Nat \ {0}
    BY <1>1, <1>2 DEF maxInt
  <1> HIDE DEF m
  <1>5. currentAdmission(cfg) =
          [maxStreams |-> m,
           maxUniqueTorrents |-> maxInt(cfg.MaxUniquePlaybackTorrents, 0),
           queueSize |-> IF cfg.StreamQueueSize <= 0 THEN maxInt(1, 2 * m)
                                                     ELSE cfg.StreamQueueSize,
           debugEnabled |-> cfg.EnableDebug]
    BY DEF currentAdmission, m
  <1> QED
    BY <1>1, <1>2, <1>3, <1>4, <1>5 DEF AdmissionType

(* Every set of requests the invariants count is finite. *)
LEMMA FiniteParts ==
  ASSUME NEW S, S \subseteq Requests
  PROVE  IsFiniteSet(S) /\ Cardinality(S) \in Nat
  BY RequestsFinite, FS_Subset, FS_CardinalityType

(* Counting after one request joins or leaves a counted set. *)
LEMMA CountJoin ==
  ASSUME NEW S, S \subseteq Requests, NEW r \in Requests, r \notin S
  PROVE  Cardinality(S \cup {r}) = Cardinality(S) + 1
  BY FiniteParts, FS_AddElement

\* Counting after one request leaves a counted set.
LEMMA CountLeave ==
  ASSUME NEW S, S \subseteq Requests, NEW r \in S
  PROVE  /\ Cardinality(S \ {r}) = Cardinality(S) - 1
         /\ Cardinality(S) > 0
  <1>1. IsFiniteSet(S) /\ Cardinality(S) \in Nat /\ Cardinality(S \ {r}) \in Nat
    BY FiniteParts
  <1>2. Cardinality(S \ {r}) = Cardinality(S) - 1
    BY <1>1, FS_RemoveElement
  <1> QED
    BY <1>1, <1>2

\* A part of a finite set of requests counts no more than the whole.
LEMMA CountMonotone ==
  ASSUME NEW T, T \subseteq Requests, NEW S, S \subseteq T
  PROVE  Cardinality(S) <= Cardinality(T)
  BY FiniteParts, FS_Subset

-----------------------------------------------------------------------------
(* Type correctness. *)

\* A server that starts has every counter at zero.
LEMMA InitType == Init => TypeOK
  BY DEF Init, TypeOK, PC

\* No step of a request takes a counter out of the naturals.
LEMMA NextType == TypeOK /\ [Next]_vars => TypeOK'
  <1> SUFFICES ASSUME TypeOK, [Next]_vars PROVE TypeOK'
    OBVIOUS
  <1> USE DEF TypeOK, PC, shared
  <1>1. CASE UNCHANGED vars
    BY <1>1 DEF vars
  <1>2. ASSUME NEW r \in Requests, NEW k \in Keys, NEW a \in Admissions,
               CheckStreamAdmission(r, k, a)
        PROVE  TypeOK'
    BY <1>2 DEF CheckStreamAdmission
  <1>3. ASSUME NEW r \in Requests, NEW k \in Keys, NEW a \in Admissions,
               Stream(r, k, a)
        PROVE  TypeOK'
    BY <1>3 DEF Stream
  <1>4. ASSUME NEW r \in Requests, Abandon(r) PROVE TypeOK'
    BY <1>4 DEF Abandon
  <1>5. ASSUME NEW r \in Requests, tryAcquireOk(r) PROVE TypeOK'
    BY <1>5 DEF tryAcquireOk, acquireSlot
  <1>6. ASSUME NEW r \in Requests, tryAcquireFails(r) PROVE TypeOK'
    <2>1. /\ UNCHANGED <<activeStreams, active, waiters, uniqueWaiters, key, adm>>
          /\ pc[r] # "idle"
          /\ \/ pc' = [pc EXCEPT ![r] = "blocked"]
             \/ pc' = [pc EXCEPT ![r] = "waiting"]
      BY <1>6 DEF tryAcquireFails
    <2>2. unique' \in [Requests -> BOOLEAN]
      <3>1. (activeStreams < adm[r].maxStreams) \in BOOLEAN
        OBVIOUS
      <3> QED
        BY <1>6, <3>1, Zenon DEF tryAcquireFails
    <2> QED
      BY <2>1, <2>2
  <1>7. ASSUME NEW r \in Requests, tryAcquireQueueSlot(r) PROVE TypeOK'
    BY <1>7 DEF tryAcquireQueueSlot, takeQueueSlot
  <1>8. ASSUME NEW r \in Requests, Tick(r) PROVE TypeOK'
    BY <1>8 DEF Tick
  <1>9. ASSUME NEW r \in Requests, GiveUp(r) PROVE TypeOK'
    BY <1>9 DEF GiveUp, releaseQueueSlot
  <1>10. ASSUME NEW r \in Requests, LeaveQueue(r) PROVE TypeOK'
    BY <1>10 DEF LeaveQueue, releaseQueueSlot
  <1>11. ASSUME NEW r \in Requests, Release(r) PROVE TypeOK'
    BY <1>11 DEF Release, releaseSlot
  <1> QED
    BY <1>1, <1>2, <1>3, <1>4, <1>5, <1>6, <1>7, <1>8, <1>9, <1>10, <1>11
    DEF Next, Timeout, Cancel

(* Every reachable state of stream admission is well typed: in particular  *)
(* no counter of stream_admission.go ever becomes negative.                *)
THEOREM TypeCorrect == Spec => []TypeOK
  BY InitType, NextType, PTL DEF Spec

-----------------------------------------------------------------------------
(* What a step does to the sets the counters count. *)

\* The steps that neither take nor give back a stream slot.
Outside(r) ==
  \/ \E k \in Keys, a \in Admissions : CheckStreamAdmission(r, k, a)
  \/ \E k \in Keys, a \in Admissions : Stream(r, k, a)
  \/ Abandon(r)
  \/ tryAcquireFails(r)
  \/ Tick(r)

\* Every step is a stutter or one handler step of one request.
LEMMA NextCases ==
  ASSUME [Next]_vars
  PROVE  \/ UNCHANGED vars
         \/ \E r \in Requests :
              \/ Outside(r)
              \/ tryAcquireOk(r)
              \/ tryAcquireQueueSlot(r)
              \/ GiveUp(r)
              \/ LeaveQueue(r)
              \/ Release(r)
  BY DEF Next, Timeout, Cancel, Outside

(* A request that neither holds nor waits leaves every counted set alone.  *)
LEMMA OutsideStep ==
  ASSUME TypeOK, NEW r \in Requests, Outside(r)
  PROVE  /\ UNCHANGED shared
         /\ Holders' = Holders /\ Queued' = Queued
         /\ UniqueQueued' = UniqueQueued
         /\ \A q \in Holders \cup Queued :
              key'[q] = key[q] /\ adm'[q] = adm[q] /\ unique'[q] = unique[q]
  <1> USE DEF TypeOK, Holders, Queued, UniqueQueued, shared, PC
  <1>1. ASSUME NEW k \in Keys, NEW a \in Admissions, CheckStreamAdmission(r, k, a)
        PROVE  /\ UNCHANGED <<shared, adm, unique>>
               /\ pc[r] = "idle" /\ pc' = [pc EXCEPT ![r] = "checked"]
               /\ key' = [key EXCEPT ![r] = k]
    BY <1>1 DEF CheckStreamAdmission
  <1>2. ASSUME NEW k \in Keys, NEW a \in Admissions, Stream(r, k, a)
        PROVE  /\ UNCHANGED shared
               /\ pc[r] \in {"idle", "checked"} /\ pc' = [pc EXCEPT ![r] = "trying"]
               /\ key' = [key EXCEPT ![r] = k] /\ adm' = [adm EXCEPT ![r] = a]
               /\ unique' = [unique EXCEPT ![r] = FALSE]
    BY <1>2 DEF Stream
  <1>3. ASSUME Abandon(r)
        PROVE  /\ UNCHANGED <<shared, key, adm, unique>>
               /\ pc[r] = "checked" /\ pc' = [pc EXCEPT ![r] = "idle"]
    BY <1>3 DEF Abandon
  <1>4. ASSUME tryAcquireFails(r)
        PROVE  /\ UNCHANGED <<shared, key, adm>>
               /\ \/ /\ pc[r] = "trying" /\ pc' = [pc EXCEPT ![r] = "blocked"]
                     /\ \A q \in Requests : q # r => unique'[q] = unique[q]
                  \/ /\ pc[r] = "retrying" /\ pc' = [pc EXCEPT ![r] = "waiting"]
                     /\ UNCHANGED unique
    BY <1>4 DEF tryAcquireFails
  <1>5. ASSUME Tick(r)
        PROVE  /\ UNCHANGED <<shared, key, adm, unique>>
               /\ pc[r] = "waiting" /\ pc' = [pc EXCEPT ![r] = "retrying"]
    BY <1>5 DEF Tick
  <1>6. CASE \E k \in Keys, a \in Admissions : CheckStreamAdmission(r, k, a)
    BY <1>1, <1>6
  <1>7. CASE \E k \in Keys, a \in Admissions : Stream(r, k, a)
    BY <1>2, <1>7
  <1>8. CASE Abandon(r)
    BY <1>3, <1>8
  <1>9. CASE tryAcquireFails(r)
    BY <1>4, <1>9
  <1>10. CASE Tick(r)
    BY <1>5, <1>10
  <1> QED
    BY <1>6, <1>7, <1>8, <1>9, <1>10 DEF Outside

(* tryAcquire lets r in: r joins the holders and nothing else moves. *)
LEMMA AcquireStep ==
  ASSUME TypeOK, NEW r \in Requests, tryAcquireOk(r)
  PROVE  /\ r \notin Holders /\ Holders' = Holders \cup {r}
         /\ Queued' = Queued /\ UniqueQueued' = UniqueQueued
         /\ UNCHANGED <<key, adm, waiters, uniqueWaiters>>
         /\ key[r] \in Keys
         /\ canAcquireNow(adm[r], key[r]) /\ acquireSlot(key[r])
  BY DEF TypeOK, PC, tryAcquireOk, Holders, Queued, UniqueQueued

(* The deferred release: r leaves the holders. *)
LEMMA ReleaseStep ==
  ASSUME TypeOK, NEW r \in Requests, Release(r)
  PROVE  /\ r \in Holders /\ Holders' = Holders \ {r}
         /\ Queued' = Queued /\ UniqueQueued' = UniqueQueued
         /\ UNCHANGED <<key, adm, waiters, uniqueWaiters>>
         /\ key[r] \in Keys
         /\ releaseSlot(key[r])
  BY DEF TypeOK, PC, Release, Holders, Queued, UniqueQueued

(* A blocked request takes a queue slot, or is turned away. *)
LEMMA EnqueueStep ==
  ASSUME TypeOK, NEW r \in Requests, tryAcquireQueueSlot(r)
  PROVE  /\ Holders' = Holders /\ UNCHANGED <<key, adm, unique, activeStreams, active>>
         /\ r \notin Queued /\ r \notin Holders
         /\ \/ /\ waiters >= adm[r].queueSize
               /\ UNCHANGED <<waiters, uniqueWaiters>>
               /\ Queued' = Queued
            \/ /\ ~(waiters >= adm[r].queueSize)
               /\ takeQueueSlot(unique[r], adm[r].debugEnabled)
               /\ Queued' = Queued \cup {r}
  BY DEF TypeOK, PC, tryAcquireQueueSlot, Holders, Queued, shared

(* A queued request leaves the queue, admitted or not. *)
LEMMA DequeueStep ==
  ASSUME TypeOK, NEW r \in Requests, GiveUp(r) \/ LeaveQueue(r)
  PROVE  /\ Holders' = Holders /\ UNCHANGED <<key, adm, unique, activeStreams, active>>
         /\ r \in Queued /\ Queued' = Queued \ {r}
         /\ releaseQueueSlot(unique[r], adm[r].debugEnabled)
  BY DEF TypeOK, PC, GiveUp, LeaveQueue, Holders, Queued

-----------------------------------------------------------------------------
(* The stream slots are counted exactly. *)

\* At the start nobody holds a slot and the counters are zero.
LEMMA SlotsInit == Init => SlotAccounting
  <1> SUFFICES ASSUME Init PROVE SlotAccounting
    OBVIOUS
  <1>1. Holders = {} /\ \A k \in Keys : HoldersOf(k) = {}
    BY DEF Init, Holders, HoldersOf
  <1> QED
    BY <1>1, FS_EmptySet DEF Init, SlotAccounting

\* No holder comes or goes, and the counters stay.
LEMMA SlotsSame ==
  ASSUME TypeOK, SlotAccounting, Holders' = Holders,
         UNCHANGED <<activeStreams, active>>,
         \A q \in Holders : key'[q] = key[q]
  PROVE  SlotAccounting'
  <1>1. \A k \in Keys : HoldersOf(k)' = HoldersOf(k)
    BY DEF HoldersOf
  <1> QED
    BY <1>1 DEF SlotAccounting

\* tryAcquire and release keep the slot counters equal to the holders.
LEMMA SlotsNext == TypeOK /\ SlotAccounting /\ [Next]_vars => SlotAccounting'
  <1> SUFFICES ASSUME TypeOK, SlotAccounting, [Next]_vars PROVE SlotAccounting'
    OBVIOUS
  <1>1. CASE UNCHANGED vars
    BY <1>1, SlotsSame DEF vars, Holders
  <1>2. ASSUME NEW r \in Requests, Outside(r) PROVE SlotAccounting'
    BY <1>2, OutsideStep, SlotsSame DEF shared
  <1>3. ASSUME NEW r \in Requests, tryAcquireOk(r) PROVE SlotAccounting'
    <2>1. /\ r \notin Holders /\ Holders' = Holders \cup {r} /\ key' = key
          /\ key[r] \in Keys /\ acquireSlot(key[r])
      BY <1>3, AcquireStep
    <2>2. Holders \subseteq Requests /\ \A k \in Keys : HoldersOf(k) \subseteq Requests
      BY DEF Holders, HoldersOf
    <2>3. (activeStreams = Cardinality(Holders))'
      BY <2>1, <2>2, CountJoin DEF SlotAccounting, acquireSlot
    <2>4. ASSUME NEW k \in Keys PROVE (active[k] = Cardinality(HoldersOf(k)))'
      <3>1. CASE k = key[r]
        <4>1. r \notin HoldersOf(k) /\ HoldersOf(k)' = HoldersOf(k) \cup {r}
          BY <2>1, <3>1 DEF HoldersOf
        <4>2. active'[k] = active[k] + 1
          BY <2>1, <3>1 DEF acquireSlot, TypeOK
        <4> QED
          BY <4>1, <4>2, <2>2, CountJoin DEF SlotAccounting
      <3>2. CASE k # key[r]
        <4>1. HoldersOf(k)' = HoldersOf(k)
          BY <2>1, <3>2 DEF HoldersOf
        <4>2. active'[k] = active[k]
          BY <2>1, <3>2 DEF acquireSlot, TypeOK
        <4> QED
          BY <4>1, <4>2 DEF SlotAccounting
      <3> QED
        BY <3>1, <3>2
    <2> QED
      BY <2>3, <2>4 DEF SlotAccounting
  <1>4. ASSUME NEW r \in Requests, tryAcquireQueueSlot(r) PROVE SlotAccounting'
    BY <1>4, EnqueueStep, SlotsSame
  <1>5. ASSUME NEW r \in Requests, GiveUp(r) \/ LeaveQueue(r) PROVE SlotAccounting'
    BY <1>5, DequeueStep, SlotsSame
  <1>6. ASSUME NEW r \in Requests, Release(r) PROVE SlotAccounting'
    <2>1. /\ r \in Holders /\ Holders' = Holders \ {r} /\ key' = key
          /\ key[r] \in Keys /\ releaseSlot(key[r])
      BY <1>6, ReleaseStep
    <2>2. Holders \subseteq Requests /\ \A k \in Keys : HoldersOf(k) \subseteq Requests
      BY DEF Holders, HoldersOf
    <2>3. (activeStreams = Cardinality(Holders))'
      <3>1. /\ Cardinality(Holders \ {r}) = Cardinality(Holders) - 1
            /\ Cardinality(Holders) > 0
        BY <2>1, <2>2, CountLeave
      <3> QED
        BY <2>1, <3>1 DEF SlotAccounting, releaseSlot, TypeOK
    <2>4. ASSUME NEW k \in Keys PROVE (active[k] = Cardinality(HoldersOf(k)))'
      <3>1. CASE k = key[r]
        <4>1. r \in HoldersOf(k) /\ HoldersOf(k)' = HoldersOf(k) \ {r}
          BY <2>1, <3>1 DEF HoldersOf
        <4>2. active'[k] = IF active[k] <= 1 THEN 0 ELSE active[k] - 1
          BY <2>1, <3>1 DEF releaseSlot, TypeOK
        <4>3. /\ Cardinality(HoldersOf(k) \ {r}) = Cardinality(HoldersOf(k)) - 1
              /\ Cardinality(HoldersOf(k)) > 0
          BY <4>1, <2>2, CountLeave
        <4>4. active[k] = Cardinality(HoldersOf(k)) /\ active[k] \in Nat
          BY DEF SlotAccounting, TypeOK
        <4> QED
          BY <4>1, <4>2, <4>3, <4>4
      <3>2. CASE k # key[r]
        <4>1. HoldersOf(k)' = HoldersOf(k)
          BY <2>1, <3>2 DEF HoldersOf
        <4>2. active'[k] = active[k]
          BY <2>1, <3>2 DEF releaseSlot, TypeOK
        <4> QED
          BY <4>1, <4>2 DEF SlotAccounting
      <3> QED
        BY <3>1, <3>2
    <2> QED
      BY <2>3, <2>4 DEF SlotAccounting
  <1> QED
    BY <1>1, <1>2, <1>3, <1>4, <1>5, <1>6, NextCases

-----------------------------------------------------------------------------
(* The queue slots are counted exactly. *)

\* At the start the queue and its counters are empty.
LEMMA QueueInit == Init => QueueAccounting
  <1> SUFFICES ASSUME Init PROVE QueueAccounting
    OBVIOUS
  <1>1. Queued = {} /\ UniqueQueued = {}
    BY DEF Init, Queued, UniqueQueued
  <1> QED
    BY <1>1, FS_EmptySet DEF Init, QueueAccounting

\* Every way into and out of the queue keeps the queue counters exact.
LEMMA QueueNext == TypeOK /\ QueueAccounting /\ [Next]_vars => QueueAccounting'
  <1> SUFFICES ASSUME TypeOK, QueueAccounting, [Next]_vars PROVE QueueAccounting'
    OBVIOUS
  <1>0. Queued \subseteq Requests /\ UniqueQueued \subseteq Requests
    BY DEF Queued, UniqueQueued
  <1>1. CASE UNCHANGED vars
    BY <1>1 DEF vars, Queued, UniqueQueued, QueueAccounting
  <1>2. ASSUME NEW r \in Requests, Outside(r) PROVE QueueAccounting'
    BY <1>2, OutsideStep DEF shared, QueueAccounting
  <1>3. ASSUME NEW r \in Requests, tryAcquireOk(r) PROVE QueueAccounting'
    BY <1>3, AcquireStep DEF QueueAccounting
  <1>4. ASSUME NEW r \in Requests, tryAcquireQueueSlot(r) PROVE QueueAccounting'
    <2>1. /\ UNCHANGED <<adm, unique>> /\ r \notin Queued
          /\ \/ UNCHANGED <<waiters, uniqueWaiters>> /\ Queued' = Queued
             \/ /\ takeQueueSlot(unique[r], adm[r].debugEnabled)
                /\ Queued' = Queued \cup {r}
      BY <1>4, EnqueueStep
    <2>2. CASE UNCHANGED <<waiters, uniqueWaiters>> /\ Queued' = Queued
      BY <2>1, <2>2 DEF QueueAccounting, UniqueQueued
    <2>3. CASE takeQueueSlot(unique[r], adm[r].debugEnabled) /\ Queued' = Queued \cup {r}
      <3>1. (waiters = Cardinality(Queued))'
        BY <1>0, <2>1, <2>3, CountJoin DEF takeQueueSlot, QueueAccounting
      <3>2. CASE unique[r] /\ adm[r].debugEnabled
        <4>1. r \notin UniqueQueued /\ UniqueQueued' = UniqueQueued \cup {r}
          BY <2>1, <2>3, <3>2 DEF UniqueQueued
        <4> QED
          BY <1>0, <2>3, <3>1, <3>2, <4>1, CountJoin DEF takeQueueSlot, QueueAccounting
      <3>3. CASE ~(unique[r] /\ adm[r].debugEnabled)
        <4>1. UniqueQueued' = UniqueQueued
          BY <2>1, <2>3, <3>3 DEF UniqueQueued
        <4> QED
          BY <2>3, <3>1, <3>3, <4>1 DEF takeQueueSlot, QueueAccounting
      <3> QED
        BY <3>2, <3>3
    <2> QED
      BY <2>1, <2>2, <2>3
  <1>5. ASSUME NEW r \in Requests, GiveUp(r) \/ LeaveQueue(r) PROVE QueueAccounting'
    <2>1. /\ UNCHANGED <<adm, unique>> /\ r \in Queued /\ Queued' = Queued \ {r}
          /\ releaseQueueSlot(unique[r], adm[r].debugEnabled)
      BY <1>5, DequeueStep
    <2>2. (waiters = Cardinality(Queued))'
      <3>1. /\ Cardinality(Queued \ {r}) = Cardinality(Queued) - 1
            /\ Cardinality(Queued) > 0
        BY <1>0, <2>1, CountLeave
      <3> QED
        BY <2>1, <3>1 DEF releaseQueueSlot, QueueAccounting
    <2>3. CASE unique[r] /\ adm[r].debugEnabled
      <3>1. r \in UniqueQueued /\ UniqueQueued' = UniqueQueued \ {r}
        BY <2>1, <2>3 DEF UniqueQueued
      <3>2. /\ Cardinality(UniqueQueued \ {r}) = Cardinality(UniqueQueued) - 1
            /\ Cardinality(UniqueQueued) > 0
        BY <1>0, <3>1, CountLeave
      <3> QED
        BY <2>1, <2>2, <2>3, <3>1, <3>2 DEF releaseQueueSlot, QueueAccounting
    <2>4. CASE ~(unique[r] /\ adm[r].debugEnabled)
      <3>1. UniqueQueued' = UniqueQueued
        BY <2>1, <2>4 DEF UniqueQueued
      <3> QED
        BY <2>1, <2>2, <2>4, <3>1 DEF releaseQueueSlot, QueueAccounting
    <2> QED
      BY <2>3, <2>4
  <1>6. ASSUME NEW r \in Requests, Release(r) PROVE QueueAccounting'
    BY <1>6, ReleaseStep DEF QueueAccounting
  <1> QED
    BY <1>1, <1>2, <1>3, <1>4, <1>5, <1>6, NextCases

(* Through every interleaving of admissions, retries, timeouts, cancels and *)
(* releases, the four counters of stream_admission.go equal the number of   *)
(* requests they stand for.                                                 *)
THEOREM CountersExact == Spec => []CountersAgree
  <1>1. Init => TypeOK /\ SlotAccounting /\ QueueAccounting
    BY InitType, SlotsInit, QueueInit
  <1>2. (TypeOK /\ SlotAccounting /\ QueueAccounting) /\ [Next]_vars
          => (TypeOK /\ SlotAccounting /\ QueueAccounting)'
    BY NextType, SlotsNext, QueueNext
  <1> QED
    BY <1>1, <1>2, PTL DEF Spec, CountersAgree

-----------------------------------------------------------------------------
(* The limits. *)

\* At the start no limit is exceeded.
LEMMA LimitsInit == Init => StreamLimit /\ QueueLimit /\ UniqueTorrentLimit
  <1> SUFFICES ASSUME Init PROVE StreamLimit /\ QueueLimit /\ UniqueTorrentLimit
    OBVIOUS
  <1>1. Holders = {} /\ Queued = {} /\ ActiveTorrents = {}
    BY DEF Init, Holders, Queued, ActiveTorrents
  <1>2. \A a \in Admissions : a.maxStreams \in Nat /\ a.queueSize \in Nat
                              /\ a.maxUniqueTorrents \in Nat
    BY AdmissionsTyped DEF AdmissionType
  <1>3. Cardinality({}) = 0
    BY FS_EmptySet
  <1>4. \A a \in Admissions :
          /\ {r \in Holders : adm[r].maxStreams <= a.maxStreams} = {}
          /\ {r \in Queued : adm[r].queueSize <= a.queueSize} = {}
    BY <1>1
  <1> QED
    BY <1>1, <1>2, <1>3, <1>4 DEF StreamLimit, QueueLimit, UniqueTorrentLimit

\* The holders admitted under a limit of at most m.
Under(m) == {r \in Holders : adm[r].maxStreams <= m}
\* The queued requests that read a queue size of at most m.
QueuedUnder(m) == {r \in Queued : adm[r].queueSize <= m}

\* A request is let in only below the stream limit it read.
LEMMA StreamLimitNext ==
  TypeOK /\ SlotAccounting /\ StreamLimit /\ [Next]_vars => StreamLimit'
  <1> SUFFICES ASSUME TypeOK, SlotAccounting, StreamLimit, [Next]_vars,
                      NEW a \in Admissions
               PROVE  Cardinality(Under(a.maxStreams)') <= a.maxStreams
    BY DEF StreamLimit, Under
  <1> DEFINE m == a.maxStreams
  <1>0. /\ m \in Nat /\ Cardinality(Under(m)) <= m
        /\ Under(m) \subseteq Requests /\ Holders \subseteq Requests
    BY AdmissionsTyped DEF AdmissionType, StreamLimit, Under, Holders
  <1> HIDE DEF m
  <1>1. ASSUME Holders' \subseteq Holders, \A q \in Holders : adm'[q] = adm[q]
        PROVE  Cardinality(Under(m)') <= m
    <2>1. Under(m)' \subseteq Under(m)
      BY <1>1 DEF Under
    <2>2. Cardinality(Under(m)') <= Cardinality(Under(m))
      BY <2>1, <1>0, CountMonotone
    <2>3. Cardinality(Under(m)') \in Nat /\ Cardinality(Under(m)) \in Nat
      BY <1>0, <2>1, FiniteParts
    <2> QED
      BY <1>0, <2>2, <2>3
  <1>2. CASE UNCHANGED vars
    BY <1>1, <1>2 DEF vars, Holders, m
  <1>3. ASSUME NEW r \in Requests, Outside(r) PROVE Cardinality(Under(m)') <= m
    BY <1>1, <1>3, OutsideStep
  <1>4. ASSUME NEW r \in Requests, tryAcquireOk(r) PROVE Cardinality(Under(m)') <= m
    <2>1. /\ r \notin Holders /\ Holders' = Holders \cup {r} /\ adm' = adm
          /\ activeStreams < adm[r].maxStreams
      BY <1>4, AcquireStep DEF canAcquireNow
    <2>2. adm[r] \in AdmissionType
      BY AdmissionsTyped DEF TypeOK
    <2>3. CASE adm[r].maxStreams <= m
      <3>1. Under(m)' \subseteq Holders \cup {r} /\ Holders \cup {r} \subseteq Requests
        BY <1>0, <2>1 DEF Under
      <3>2. Cardinality(Under(m)') <= Cardinality(Holders \cup {r})
        BY <3>1, CountMonotone
      <3>3. Cardinality(Holders \cup {r}) = activeStreams + 1
        BY <1>0, <2>1, CountJoin DEF SlotAccounting
      <3>4. Cardinality(Under(m)') \in Nat
        BY <3>1, FiniteParts
      <3>5. activeStreams + 1 <= m
        BY <1>0, <2>1, <2>2, <2>3 DEF AdmissionType, TypeOK
      <3> QED
        BY <1>0, <3>2, <3>3, <3>4, <3>5 DEF TypeOK
    <2>4. CASE ~(adm[r].maxStreams <= m)
      <3>1. Under(m)' = Under(m)
        BY <2>1, <2>4 DEF Under
      <3> QED
        BY <1>0, <3>1
    <2> QED
      BY <2>3, <2>4
  <1>5. ASSUME NEW r \in Requests, tryAcquireQueueSlot(r)
        PROVE  Cardinality(Under(m)') <= m
    BY <1>1, <1>5, EnqueueStep
  <1>6. ASSUME NEW r \in Requests, GiveUp(r) \/ LeaveQueue(r)
        PROVE  Cardinality(Under(m)') <= m
    BY <1>1, <1>6, DequeueStep
  <1>7. ASSUME NEW r \in Requests, Release(r) PROVE Cardinality(Under(m)') <= m
    BY <1>1, <1>7, ReleaseStep
  <1> QED
    BY <1>2, <1>3, <1>4, <1>5, <1>6, <1>7, NextCases DEF m

\* A request is queued only below the queue size it read.
LEMMA QueueLimitNext ==
  TypeOK /\ QueueAccounting /\ QueueLimit /\ [Next]_vars => QueueLimit'
  <1> SUFFICES ASSUME TypeOK, QueueAccounting, QueueLimit, [Next]_vars,
                      NEW a \in Admissions
               PROVE  Cardinality(QueuedUnder(a.queueSize)') <= a.queueSize
    BY DEF QueueLimit, QueuedUnder
  <1> DEFINE m == a.queueSize
  <1>0. /\ m \in Nat /\ Cardinality(QueuedUnder(m)) <= m
        /\ QueuedUnder(m) \subseteq Requests /\ Queued \subseteq Requests
    BY AdmissionsTyped DEF AdmissionType, QueueLimit, QueuedUnder, Queued
  <1> HIDE DEF m
  <1>1. ASSUME Queued' \subseteq Queued, \A q \in Queued : adm'[q] = adm[q]
        PROVE  Cardinality(QueuedUnder(m)') <= m
    <2>1. QueuedUnder(m)' \subseteq QueuedUnder(m)
      BY <1>1 DEF QueuedUnder
    <2>2. Cardinality(QueuedUnder(m)') <= Cardinality(QueuedUnder(m))
      BY <2>1, <1>0, CountMonotone
    <2>3. Cardinality(QueuedUnder(m)') \in Nat /\ Cardinality(QueuedUnder(m)) \in Nat
      BY <1>0, <2>1, FiniteParts
    <2> QED
      BY <1>0, <2>2, <2>3
  <1>2. CASE UNCHANGED vars
    BY <1>1, <1>2 DEF vars, Queued, m
  <1>3. ASSUME NEW r \in Requests, Outside(r) PROVE Cardinality(QueuedUnder(m)') <= m
    BY <1>1, <1>3, OutsideStep
  <1>4. ASSUME NEW r \in Requests, tryAcquireOk(r)
        PROVE  Cardinality(QueuedUnder(m)') <= m
    BY <1>1, <1>4, AcquireStep
  <1>5. ASSUME NEW r \in Requests, tryAcquireQueueSlot(r)
        PROVE  Cardinality(QueuedUnder(m)') <= m
    <2>1. /\ adm' = adm /\ r \notin Queued
          /\ \/ Queued' = Queued
             \/ ~(waiters >= adm[r].queueSize) /\ Queued' = Queued \cup {r}
      BY <1>5, EnqueueStep
    <2>2. adm[r] \in AdmissionType
      BY AdmissionsTyped DEF TypeOK
    <2>3. CASE ~(waiters >= adm[r].queueSize) /\ Queued' = Queued \cup {r}
               /\ adm[r].queueSize <= m
      <3>1. QueuedUnder(m)' \subseteq Queued \cup {r} /\ Queued \cup {r} \subseteq Requests
        BY <1>0, <2>1, <2>3 DEF QueuedUnder
      <3>2. Cardinality(QueuedUnder(m)') <= Cardinality(Queued \cup {r})
        BY <3>1, CountMonotone
      <3>3. Cardinality(Queued \cup {r}) = waiters + 1
        BY <1>0, <2>1, CountJoin DEF QueueAccounting
      <3>4. Cardinality(QueuedUnder(m)') \in Nat
        BY <3>1, FiniteParts
      <3>5. waiters + 1 <= m
        BY <1>0, <2>2, <2>3 DEF AdmissionType, TypeOK
      <3> QED
        BY <1>0, <3>2, <3>3, <3>4, <3>5 DEF TypeOK
    <2>4. CASE ~(adm[r].queueSize <= m)
      <3>1. QueuedUnder(m)' = QueuedUnder(m)
        BY <2>1, <2>4 DEF QueuedUnder
      <3> QED
        BY <1>0, <3>1
    <2>5. CASE Queued' = Queued
      BY <1>1, <2>1, <2>5
    <2> QED
      BY <2>1, <2>3, <2>4, <2>5
  <1>6. ASSUME NEW r \in Requests, GiveUp(r) \/ LeaveQueue(r)
        PROVE  Cardinality(QueuedUnder(m)') <= m
    BY <1>1, <1>6, DequeueStep
  <1>7. ASSUME NEW r \in Requests, Release(r)
        PROVE  Cardinality(QueuedUnder(m)') <= m
    BY <1>1, <1>7, ReleaseStep
  <1> QED
    BY <1>2, <1>3, <1>4, <1>5, <1>6, <1>7, NextCases DEF m

\* A new torrent is opened only below the unique-torrent limit.
LEMMA UniqueLimitNext ==
  TypeOK /\ UniqueTorrentLimit /\ [Next]_vars => UniqueTorrentLimit'
  <1> SUFFICES ASSUME TypeOK, UniqueTorrentLimit, [Next]_vars, NEW c \in Admissions,
                      \A a \in Admissions :
                        a.maxUniqueTorrents \in 1 .. c.maxUniqueTorrents
               PROVE  Cardinality(ActiveTorrents') <= c.maxUniqueTorrents
    BY DEF UniqueTorrentLimit
  <1>0. /\ c.maxUniqueTorrents \in Nat
        /\ IsFiniteSet(ActiveTorrents) /\ Cardinality(ActiveTorrents) \in Nat
        /\ Cardinality(ActiveTorrents) <= c.maxUniqueTorrents
    <2>1. ActiveTorrents \in SUBSET Keys
      BY DEF ActiveTorrents
    <2> QED
      BY <2>1, KeysAssumption, FS_Subset, FS_CardinalityType, AdmissionsTyped
      DEF AdmissionType, UniqueTorrentLimit
  <1>1. ASSUME ActiveTorrents' \subseteq ActiveTorrents
        PROVE  Cardinality(ActiveTorrents') <= c.maxUniqueTorrents
    <2>1. /\ IsFiniteSet(ActiveTorrents')
          /\ Cardinality(ActiveTorrents') <= Cardinality(ActiveTorrents)
      BY <1>0, <1>1, FS_Subset
    <2>2. Cardinality(ActiveTorrents') \in Nat
      BY <2>1, FS_CardinalityType
    <2> QED
      BY <1>0, <2>1, <2>2
  <1>2. ASSUME UNCHANGED active
        PROVE  Cardinality(ActiveTorrents') <= c.maxUniqueTorrents
    BY <1>1, <1>2 DEF ActiveTorrents
  <1>3. ASSUME NEW r \in Requests, tryAcquireOk(r)
        PROVE  Cardinality(ActiveTorrents') <= c.maxUniqueTorrents
    <2>1. /\ key[r] \in Keys
          /\ canAcquireUniqueTorrent(adm[r].maxUniqueTorrents, key[r])
          /\ active' = [active EXCEPT ![key[r]] = @ + 1]
      BY <1>3, AcquireStep DEF canAcquireNow, acquireSlot
    <2>2. ActiveTorrents' = ActiveTorrents \cup {key[r]}
      BY <2>1 DEF ActiveTorrents, TypeOK
    <2>3. adm[r].maxUniqueTorrents \in 1 .. c.maxUniqueTorrents
      BY DEF TypeOK
    <2>4. CASE active[key[r]] > 0
      BY <1>1, <2>1, <2>2, <2>4 DEF ActiveTorrents
    <2>5. CASE Cardinality(ActiveTorrents) < adm[r].maxUniqueTorrents
      <3>1. \/ Cardinality(ActiveTorrents') = Cardinality(ActiveTorrents)
            \/ Cardinality(ActiveTorrents') = Cardinality(ActiveTorrents) + 1
        BY <1>0, <2>2, FS_AddElement
      <3> QED
        BY <1>0, <2>3, <2>5, <3>1
    <2> QED
      BY <1>0, <2>1, <2>3, <2>4, <2>5 DEF canAcquireUniqueTorrent
  <1>4. ASSUME NEW r \in Requests, Release(r)
        PROVE  Cardinality(ActiveTorrents') <= c.maxUniqueTorrents
    <2>1. /\ key[r] \in Keys
          /\ active' = [active EXCEPT ![key[r]] = IF @ <= 1 THEN 0 ELSE @ - 1]
      BY <1>4, ReleaseStep DEF releaseSlot
    <2>2. ActiveTorrents' \subseteq ActiveTorrents
      BY <2>1 DEF ActiveTorrents, TypeOK
    <2> QED
      BY <1>1, <2>2
  <1>5. ASSUME NEW r \in Requests,
               Outside(r) \/ tryAcquireQueueSlot(r) \/ GiveUp(r) \/ LeaveQueue(r)
        PROVE  Cardinality(ActiveTorrents') <= c.maxUniqueTorrents
    <2>1. UNCHANGED active
      BY <1>5, OutsideStep, EnqueueStep, DequeueStep DEF shared
    <2> QED
      BY <1>2, <2>1
  <1>6. CASE UNCHANGED vars
    BY <1>2, <1>6 DEF vars
  <1> QED
    BY <1>3, <1>4, <1>5, <1>6, NextCases

\* The inductive invariant: the limits need the exact counters, the counters
\* the types.
IInv ==
  TypeOK /\ SlotAccounting /\ QueueAccounting
    /\ StreamLimit /\ QueueLimit /\ UniqueTorrentLimit

(* For any settings, changing at any time: the stream limit, the queue     *)
(* limit and the limit on unique torrents of stream_admission.go hold.     *)
THEOREM LimitsHold == Spec => []LimitsKept
  <1>1. Init => IInv
    BY InitType, SlotsInit, QueueInit, LimitsInit DEF IInv
  <1>2. IInv /\ [Next]_vars => IInv'
    BY NextType, SlotsNext, QueueNext, StreamLimitNext, QueueLimitNext,
       UniqueLimitNext DEF IInv
  <1>3. IInv => LimitsKept
    BY DEF IInv, LimitsKept
  <1> QED
    BY <1>1, <1>2, <1>3, PTL DEF Spec

-----------------------------------------------------------------------------
(* Refinement of StreamSlots. *)

held == [r \in Requests |-> IF r \in Holders THEN key[r] ELSE NoTorrent]

\* The instance brings its own copy of the cardinality operator.
LEMMA SameCardinality ==
  ASSUME NEW S PROVE Slots!Cardinality(S) = Cardinality(S)
  BY DEF Slots!Cardinality, Cardinality, Slots!IsFiniteSet, IsFiniteSet

\* What the refinement mapping makes of the holders and the queue.
LEMMA AbstractSets ==
  ASSUME TypeOK, SlotAccounting
  PROVE  /\ Slots!StreamingNow = Holders
         /\ Slots!TorrentsNow = ActiveTorrents
  <1>1. \A r \in Holders : key[r] \in Keys /\ key[r] # NoTorrent
    BY KeysAssumption DEF Holders, TypeOK
  <1>2. Slots!StreamingNow = Holders
    BY <1>1 DEF Slots!StreamingNow, Holders
  <1>3. \A k \in Keys : active[k] > 0 <=> HoldersOf(k) # {}
    <2> SUFFICES ASSUME NEW k \in Keys PROVE active[k] > 0 <=> HoldersOf(k) # {}
      OBVIOUS
    <2>1. HoldersOf(k) \subseteq Requests
      BY DEF HoldersOf, Holders
    <2>2. IsFiniteSet(HoldersOf(k)) /\ Cardinality(HoldersOf(k)) \in Nat
      BY <2>1, FiniteParts
    <2>3. Cardinality(HoldersOf(k)) = 0 <=> HoldersOf(k) = {}
      BY <2>2, FS_EmptySet
    <2> QED
      BY <2>2, <2>3 DEF SlotAccounting
  <1>4. \A r \in Holders :
          [q \in Requests |-> IF q \in Holders THEN key[q] ELSE NoTorrent][r] = key[r]
    BY DEF Holders
  <1>5. Slots!TorrentsNow = {key[r] : r \in Holders}
    BY <1>2, <1>4 DEF Slots!TorrentsNow
  <1>6. {key[r] : r \in Holders} = ActiveTorrents
    BY <1>1, <1>3 DEF ActiveTorrents, HoldersOf
  <1> QED
    BY <1>2, <1>5, <1>6

\* The initial states map to initial states of StreamSlots.
LEMMA RefineInit == Init => Slots!Init
  BY DEF Init, Slots!Init, Holders, Queued

\* Every step maps to a step of StreamSlots or to a stutter.
LEMMA RefineNext ==
  TypeOK /\ SlotAccounting /\ QueueAccounting /\ [Next]_vars
    => [Slots!Next]_(Slots!vars)
  <1> SUFFICES ASSUME TypeOK, SlotAccounting, QueueAccounting, [Next]_vars
               PROVE  [Slots!Next]_(Slots!vars)
    OBVIOUS
  <1> USE DEF held
  <1>1. ASSUME Holders' = Holders, Queued' = Queued, \A q \in Holders : key'[q] = key[q]
        PROVE  UNCHANGED Slots!vars
    <2>1. held' = held
      BY <1>1
    <2> QED
      BY <1>1, <2>1 DEF Slots!vars
  <1>2. CASE UNCHANGED vars
    BY <1>1, <1>2 DEF vars, Holders, Queued
  <1>3. ASSUME NEW r \in Requests, Outside(r) PROVE UNCHANGED Slots!vars
    BY <1>1, <1>3, OutsideStep
  <1>4. ASSUME NEW r \in Requests, tryAcquireOk(r),
               NEW k \in Keys, NEW a \in Admissions, k = key[r], a = adm[r]
        PROVE  Slots!Admit(r, k, a)
    <2>1. /\ r \notin Holders /\ Holders' = Holders \cup {r} /\ key' = key
          /\ Queued' = Queued
          /\ canAcquireNow(adm[r], key[r])
      BY <1>4, AcquireStep
    <2>2. held[r] = NoTorrent /\ held' = [held EXCEPT ![r] = key[r]]
      BY <2>1
    <2>3. adm[r].maxUniqueTorrents \in Nat
      BY AdmissionsTyped DEF TypeOK, AdmissionType
    <2>4. /\ Cardinality(Slots!StreamingNow) < adm[r].maxStreams
          /\ \/ adm[r].maxUniqueTorrents = 0
             \/ key[r] \in Slots!TorrentsNow
             \/ Cardinality(Slots!TorrentsNow) < adm[r].maxUniqueTorrents
      <3>1. key[r] \in Keys
        BY <1>4, AcquireStep
      <3> QED
        BY <2>1, <2>3, <3>1, AbstractSets
        DEF canAcquireNow, canAcquireUniqueTorrent, SlotAccounting, ActiveTorrents
    <2> QED
      BY <1>4, <2>1, <2>2, <2>4, SameCardinality DEF Slots!Admit
  <1>5. ASSUME NEW r \in Requests, tryAcquireQueueSlot(r)
        PROVE  Slots!Enqueue(r, adm[r]) \/ UNCHANGED Slots!vars
    <2>1. /\ Holders' = Holders /\ key' = key /\ r \notin Queued /\ r \notin Holders
          /\ \/ Queued' = Queued
             \/ ~(waiters >= adm[r].queueSize) /\ Queued' = Queued \cup {r}
      BY <1>5, EnqueueStep
    <2>2. CASE Queued' = Queued
      BY <1>1, <2>1, <2>2
    <2>3. CASE ~(waiters >= adm[r].queueSize) /\ Queued' = Queued \cup {r}
      <3>1. adm[r].queueSize \in Nat /\ waiters \in Nat
        BY AdmissionsTyped DEF TypeOK, AdmissionType
      <3>2. Cardinality(Queued) < adm[r].queueSize
        BY <2>3, <3>1 DEF QueueAccounting
      <3>3. held' = held /\ held[r] = NoTorrent
        BY <2>1
      <3> QED
        BY <2>1, <2>3, <3>2, <3>3, SameCardinality DEF Slots!Enqueue
    <2> QED
      BY <2>1, <2>2, <2>3
  <1>6. ASSUME NEW r \in Requests, GiveUp(r) \/ LeaveQueue(r)
        PROVE  Slots!Dequeue(r)
    <2>1. /\ Holders' = Holders /\ key' = key
          /\ r \in Queued /\ Queued' = Queued \ {r}
      BY <1>6, DequeueStep
    <2>2. held' = held
      BY <2>1
    <2> QED
      BY <2>1, <2>2 DEF Slots!Dequeue
  <1>7. ASSUME NEW r \in Requests, Release(r) PROVE Slots!Leave(r)
    <2>1. /\ r \in Holders /\ Holders' = Holders \ {r} /\ key' = key
          /\ Queued' = Queued /\ key[r] # NoTorrent
      BY <1>7, ReleaseStep, KeysAssumption
    <2>2. held[r] # NoTorrent /\ held' = [held EXCEPT ![r] = NoTorrent]
      BY <2>1
    <2> QED
      BY <2>1, <2>2 DEF Slots!Leave
  <1>8. \A r \in Requests : key[r] \in Keys \/ key[r] = NoTorrent
    BY DEF TypeOK
  <1>9. ASSUME NEW r \in Requests, tryAcquireOk(r) PROVE Slots!Next
    <2>1. key[r] \in Keys /\ adm[r] \in Admissions
      BY <1>9, AcquireStep DEF TypeOK
    <2>2. PICK k \in Keys, a \in Admissions : k = key[r] /\ a = adm[r]
      BY <2>1
    <2>3. Slots!Admit(r, k, a)
      BY <1>4, <1>9, <2>2
    <2> QED
      BY <2>3 DEF Slots!Next
  <1>10. ASSUME NEW r \in Requests, tryAcquireQueueSlot(r)
         PROVE  Slots!Next \/ UNCHANGED Slots!vars
    <2>1. adm[r] \in Admissions
      BY DEF TypeOK
    <2> QED
      BY <1>5, <1>10, <2>1 DEF Slots!Next
  <1> QED
    BY <1>2, <1>3, <1>6, <1>7, <1>9, <1>10, NextCases DEF Slots!Next

(* Stream admission is the slot allocator of StreamSlots: nobody streams   *)
(* or queues beyond the limits of the settings it arrived with.            *)
THEOREM Refinement == Spec => ImplementsStreamSlots
  <1>1. Init => TypeOK /\ SlotAccounting /\ QueueAccounting
    BY InitType, SlotsInit, QueueInit
  <1>2. (TypeOK /\ SlotAccounting /\ QueueAccounting) /\ [Next]_vars
          => (TypeOK /\ SlotAccounting /\ QueueAccounting)'
    BY NextType, SlotsNext, QueueNext
  <1> QED
    BY <1>1, <1>2, RefineInit, RefineNext, PTL
    DEF Spec, ImplementsStreamSlots, Slots!Spec
=============================================================================
