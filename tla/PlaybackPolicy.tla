--------------------------- MODULE PlaybackPolicy ---------------------------
(***************************************************************************)
(* The numbers a playing torrent is run with: connections, watermarks and  *)
(* tracker budget from the settings (server/torr/connection_policy.go,     *)
(* btserver_config.go), readahead from the cache and the number of players *)
(* (torrent.go, stream_http.go), and the extra DHT announces of a torrent  *)
(* that is short of peers (peer_acquisition.go).                           *)
(*                                                                         *)
(* The first two are functions of their inputs.  The announces are a       *)
(* protocol: the watch goroutine of a torrent claims a boost, a goroutine  *)
(* of its own runs it for a while and stops it.  Sizes are in MiB, time in *)
(* ticks.                                                                  *)
(***************************************************************************)
EXTENDS Integers, FiniteSets

CONSTANTS
  ConnectionInputs, \* settings and library defaults the policy is asked for
  ReadaheadInputs,  \* caches and numbers of players readahead is asked for
  BoostInputs,      \* settings and peers of a torrent being watched
  BoostIds,         \* goroutines of runDHTPeerAcquisitionBoost
  BoostCooldown,    \* peerAcquisitionBoostCooldown
  BoostDuration,    \* peerAcquisitionBoostDuration
  BoostStopWait,    \* waitForDHTPeerBoostAnnounces, rounded up
  MaxBoostClock     \* bound: ticks

ASSUME BoostAssumption ==
  /\ BoostDuration \in Nat \ {0} /\ BoostStopWait \in Nat
  /\ BoostCooldown \in Nat /\ BoostCooldown > BoostDuration + BoostStopWait
  /\ MaxBoostClock \in Nat

atLeast(a, b) == IF a > b THEN a ELSE b   \* maxInt
atMost(a, b) == IF a < b THEN a ELSE b

-----------------------------------------------------------------------------
(* Connections.  sets has: profile, limit, debug and the debug overrides   *)
(* conns, halfOpen, trackers, stableCap, and noDHT, noPEX.                 *)

lowCPU(sets) == sets.profile = "low-cpu"

boundedPositiveInt(value, max) ==
  IF value <= 0 THEN 0 ELSE IF max > 0 /\ value > max THEN max ELSE value

debugOverride(sets, value) == IF sets.debug THEN value ELSE 0

effectiveEstablishedConns(sets, default) ==
  LET fallback == IF default <= 0 THEN 50 ELSE default
  IN  IF lowCPU(sets)
        THEN IF sets.limit <= 0 THEN 24 ELSE atLeast(sets.limit, 12)
        ELSE IF sets.limit <= 0 THEN fallback ELSE sets.limit

effectiveConns(sets, default) ==
  LET override == debugOverride(sets, atLeast(sets.conns, 0))
  IN  IF override > 0 THEN override ELSE effectiveEstablishedConns(sets, default)

peerLowWater(conns, low) ==
  IF low THEN atLeast(conns * 2, 24) ELSE atLeast(conns * 2, 50)

peerHighWater(conns, low) ==
  LET gap == IF low THEN 24 ELSE 50
      high == IF low THEN atLeast(conns * 6, 72) ELSE atLeast(conns * 10, 500)
  IN  atLeast(high, peerLowWater(conns, low) + gap)

\* Mutant: an override below the connections of one torrent stands.
totalHalfOpenConns_override(sets, conns) ==
  LET override == debugOverride(sets, boundedPositiveInt(sets.halfOpen, 2000))
  IN  IF override > 0 THEN override ELSE atLeast(conns * 8, 200)

totalHalfOpenConns(sets, conns) ==
  LET override == debugOverride(sets, boundedPositiveInt(sets.halfOpen, 2000))
  IN  IF override > 0 THEN atLeast(override, conns) ELSE atLeast(conns * 8, 200)

trackerBudget(sets) ==
  LET override == debugOverride(sets, boundedPositiveInt(sets.trackers, 256))
  IN  IF override > 0 THEN override
      ELSE IF sets.limit >= 80 THEN 24
      ELSE IF sets.limit \in 1 .. 16 THEN 8
      ELSE IF sets.noDHT /\ sets.noPEX THEN 24
      ELSE IF lowCPU(sets) THEN 8 ELSE 16

connectionPolicy(sets, default) ==
  LET conns == effectiveConns(sets, default)
  IN  [effectiveConns |-> conns,
       lowWater       |-> peerLowWater(conns, lowCPU(sets)),
       highWater      |-> peerHighWater(conns, lowCPU(sets)),
       totalHalfOpen  |-> totalHalfOpenConns(sets, conns),
       trackerBudget  |-> trackerBudget(sets)]

\* buildClientConfig: what the policy makes of the library's defaults.
clientConfig(sets, default, defaultHalfOpen) ==
  LET policy == connectionPolicy(sets, default)
  IN  [policy |-> policy,
       halfOpen |-> atLeast(policy.effectiveConns, defaultHalfOpen)]

stablePeerCap(sets, conns) ==
  IF ~sets.debug \/ sets.stableCap <= 0 \/ conns <= 0 THEN 0 ELSE atMost(sets.stableCap, conns)

\* adaptiveMaxEstablishedConnsForReaderAge: a torrent that has been played for a
\* while may be given fewer connections.
adaptiveMaxEstablishedConns(sets, torrents, readers, settled) ==
  LET conns == effectiveConns(sets, 50)
      cap == stablePeerCap(sets, conns)
  IN  IF cap > 0 /\ conns > cap /\ readers > 0 /\ settled /\ torrents >= 1
        THEN cap ELSE conns

-----------------------------------------------------------------------------
\* Readahead.

estimatePlaybackTorrents(streams, readers) ==
  IF streams <= 0 THEN 1 ELSE atLeast(streams - atLeast(readers, 0) + 1, 1)

readaheadBound(value, fallback) == IF value <= 0 THEN fallback ELSE value

adaptiveReadahead(capacity, torrents, minRA, maxRA) ==
  LET least == readaheadBound(minRA, 4)
      most == atLeast(readaheadBound(maxRA, 64), least)
      target == IF torrents > 2 THEN (most * 2) \div torrents ELSE most
  IN  IF capacity <= 0 THEN 0 ELSE atMost(atLeast(target, least), capacity)

\* boundedStreamReaderReadahead, for a piece length.
streamReaderReadahead(piece, capacity, readers) ==
  LET n == atLeast(readers, 1)
      least == atMost(atLeast(IF piece > 0 THEN piece * 2 ELSE 0, 4), 16)
      share == capacity \div n
      concurrent == atMost(atMost(atLeast(share \div 4, least), 16), share)
      ra == IF n > 1 /\ capacity > 0 THEN concurrent ELSE 16
  IN  IF n > 1 /\ capacity > 0 /\ share <= 0 THEN 0
      ELSE IF capacity > 0 THEN atMost(capacity, ra) ELSE ra

\* Mutant: the readers of one torrent do not share the cache.
initialReadahead_alone(capacity, readers, torrents, minRA, maxRA) ==
  adaptiveReadahead(capacity, torrents, minRA, maxRA)

\* What a stream's reader starts with.
initialReadahead(capacity, readers, torrents, minRA, maxRA) ==
  LET ra == adaptiveReadahead(capacity, torrents, minRA, maxRA)
      share == capacity \div atLeast(readers, 1)
  IN  IF capacity <= 0 \/ ra <= 0 THEN streamReaderReadahead(0, capacity, readers)
      ELSE atMost(ra, share)

-----------------------------------------------------------------------------
\* Peer acquisition.

\* shouldBoostPeerAcquisition; input has torrents, readers, peers and seeders.
isWeakTorrent(input) == input.peers < 8 \/ input.seeders < 8

shouldBoost(sets, input) ==
  /\ input.torrents >= 2
  /\ ~sets.noDHT
  /\ sets.profile = "tcp-only-balanced"
  /\ input.readers > 0
  /\ isWeakTorrent(input)

VARIABLES
  policyInput,    \* what the functions are asked for
  boostClock,     \* time.Now
  lastBoost,      \* lifecycle.lastPeerBoostNano; 0 when there was none
  boost,          \* goroutines of boosts: "none", "starting", "running", "stopping"
  boostSince,     \* when a goroutine came to where it is
  boostClosed,    \* lifecycle.closed
  activeBoosts    \* peerAcquisitionBoost.activeBoosts

policyVars == <<policyInput, boostClock, lastBoost, boost, boostSince, boostClosed, activeBoosts>>

PolicyInit ==
  /\ policyInput = [kind |-> "none"]
  /\ boostClock = 1
  /\ lastBoost = 0
  /\ boost = [b \in BoostIds |-> "none"]
  /\ boostSince = [b \in BoostIds |-> 0]
  /\ boostClosed = FALSE
  /\ activeBoosts = 0

\* Mutant: the cooldown is not asked.
claimBoost_always == TRUE

\* claimPeerAcquisitionBoost, from the watch goroutine of a torrent found weak.
claimBoost == lastBoost = 0 \/ boostClock - lastBoost >= BoostCooldown

MaybeBoost(b, sets, input) ==
  /\ ~boostClosed
  /\ shouldBoost(sets, input)
  /\ boost[b] = "none"
  /\ claimBoost
  /\ lastBoost' = boostClock
  /\ boost' = [boost EXCEPT ![b] = "starting"]
  /\ boostSince' = [boostSince EXCEPT ![b] = boostClock]
  /\ UNCHANGED <<boostClock, boostClosed, activeBoosts>>

\* startDHTPeerBoostAnnounces: announce to the first server, or fail.
StartAnnounces(b) ==
  /\ boost[b] = "starting"
  /\ \/ /\ boost' = [boost EXCEPT ![b] = "running"]
        /\ activeBoosts' = activeBoosts + 1
     \/ /\ boost' = [boost EXCEPT ![b] = "none"]
        /\ UNCHANGED activeBoosts
  /\ boostSince' = [boostSince EXCEPT ![b] = boostClock]
  /\ UNCHANGED <<boostClock, lastBoost, boostClosed>>

\* The torrent is closed or the time is over: the announces are stopped.
StopAnnounces(b) ==
  /\ boost[b] = "running"
  /\ boostClosed \/ boostClock - boostSince[b] >= BoostDuration
  /\ boost' = [boost EXCEPT ![b] = "stopping"]
  /\ boostSince' = [boostSince EXCEPT ![b] = boostClock]
  /\ UNCHANGED <<boostClock, lastBoost, boostClosed, activeBoosts>>

\* They are waited for, at most half a second.
EndBoost(b) ==
  /\ boost[b] = "stopping"
  /\ boost' = [boost EXCEPT ![b] = "none"]
  /\ activeBoosts' = activeBoosts - 1
  /\ UNCHANGED <<boostClock, lastBoost, boostSince, boostClosed>>

CloseBoosted ==
  /\ ~boostClosed
  /\ boostClosed' = TRUE
  /\ UNCHANGED <<boostClock, lastBoost, boost, boostSince, activeBoosts>>

\* Timers fire in time: a goroutine that is due runs before time goes on.
BoostTick ==
  /\ boostClock < MaxBoostClock
  /\ \A b \in BoostIds :
       /\ boost[b] # "starting"
       /\ boost[b] = "running" => ~boostClosed /\ boostClock - boostSince[b] < BoostDuration
       /\ boost[b] = "stopping" => boostClock - boostSince[b] < BoostStopWait
  /\ boostClock' = boostClock + 1
  /\ UNCHANGED <<lastBoost, boost, boostSince, boostClosed, activeBoosts>>

AskConnections ==
  /\ policyInput.kind = "none"
  /\ \E i \in ConnectionInputs : policyInput' = [kind |-> "connections", of |-> i]

AskReadahead ==
  /\ policyInput.kind = "none"
  /\ \E i \in ReadaheadInputs : policyInput' = [kind |-> "readahead", of |-> i]

boostState == <<boostClock, lastBoost, boost, boostSince, boostClosed, activeBoosts>>

BoostNext ==
  \/ \E b \in BoostIds :
       \/ \E i \in BoostInputs : MaybeBoost(b, i.sets, i.input)
       \/ StartAnnounces(b) \/ StopAnnounces(b) \/ EndBoost(b)
  \/ CloseBoosted
  \/ BoostTick
PolicyNext ==
  \/ (AskConnections \/ AskReadahead) /\ UNCHANGED boostState
  \/ BoostNext /\ UNCHANGED policyInput

PolicySpec == PolicyInit /\ [][PolicyNext]_policyVars

-----------------------------------------------------------------------------
\* The limits the library is given fit each other: a torrent may have
\* connections, wants peers before it has too many of them, may open as many
\* connections as it may hold, and asks some tracker (connectionPolicyForSettings);
\* relief lowers the connections of a settled torrent and never cuts it off.
ConnectionsFit(sets, default, torrents, readers, settled) ==
  LET policy == connectionPolicy(sets, default)
  IN  /\ policy.effectiveConns > 0
      /\ policy.effectiveConns <= policy.lowWater
      /\ policy.lowWater < policy.highWater
      /\ policy.effectiveConns <= policy.totalHalfOpen
      /\ policy.trackerBudget > 0
      /\ adaptiveMaxEstablishedConns(sets, torrents, readers, settled) > 0
      /\ adaptiveMaxEstablishedConns(sets, torrents, readers, settled)
           <= effectiveConns(sets, 50)

\* Together the readers of a torrent start with no more readahead than the cache
\* holds (initialPlaybackReaderReadahead).
ReadaheadFits(capacity, readers, torrents, minRA, maxRA) ==
  capacity > 0 =>
    atLeast(readers, 1) * initialReadahead(capacity, readers, torrents, minRA, maxRA)
      <= capacity

\* The numbers of the input chosen fit.
NumbersFit ==
  /\ policyInput.kind = "connections" =>
       LET i == policyInput.of
       IN  ConnectionsFit(i.sets, i.default, i.torrents, i.readers, i.settled)
  /\ policyInput.kind = "readahead" =>
       LET i == policyInput.of
       IN  ReadaheadFits(i.capacity, i.readers, i.torrents, i.minRA, i.maxRA)

\* A torrent has at most one boost at a time, and the number of boosts that is
\* reported is the number there are (claimPeerAcquisitionBoost,
\* runDHTPeerAcquisitionBoost).
OneBoost ==
  /\ \A b, c \in BoostIds : boost[b] # "none" /\ boost[c] # "none" => b = c
  /\ activeBoosts = IF \E b \in BoostIds : boost[b] \in {"running", "stopping"} THEN 1 ELSE 0
=============================================================================
