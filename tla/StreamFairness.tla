--------------------------- MODULE StreamFairness ---------------------------
(***************************************************************************)
(* What a stream records about its own delivery, and the short delays by   *)
(* which it gives way to the streams of other torrents                     *)
(* (server/torr/stream_fairness.go, stream_delivery.go, stream_health.go,  *)
(* stream_startup.go, and the writer of stream_content.go that feeds them).*)
(*                                                                         *)
(* Every write of a stream adds to the counters of its flow and then asks, *)
(* under the registry's lock, whether the stream has to sleep.  The answer *)
(* is about torrents: the flows of one torrent are added up.               *)
(*                                                                         *)
(* Time is counted in ticks and data in units.  Durations of reads and     *)
(* writes are free within the classes the code tells apart.                *)
(***************************************************************************)
EXTENDS Integers, FiniteSets, FiniteSetsExt, Functions

CONSTANTS
  Flows,               \* streams
  FlowTorrents,        \* runtime ids of the torrents each may play
  FairnessMinAge,      \* streamFairnessMinAge
  FairnessMinBytes,    \* streamFairnessMinBytes
  FairnessFastBPS,     \* streamFairnessFastBPS
  FairnessCooldown,    \* streamFairnessDelayCooldown
  ProtectionWindow,    \* streamStartupProtectionWindow
  ProtectionMinGap,    \* streamStartupProtectionMinGap
  PressureWindow,      \* streamFairnessPressureWindow
  WriteSizes,          \* units a write may deliver
  MaxFlowBytes,        \* bound: units of one flow
  MaxReadWaits,        \* bound: recorded read waits of one flow
  MaxClock             \* bound: ticks

ASSUME FairnessAssumption ==
  /\ IsFiniteSet(Flows) /\ FlowTorrents \in [Flows -> SUBSET Int]
  /\ FairnessMinAge \in Nat \ {0} /\ FairnessMinBytes \in Nat
  /\ FairnessFastBPS \in Nat \ {0} /\ FairnessCooldown \in Nat
  /\ ProtectionWindow \in Nat /\ ProtectionMinGap \in Nat \ {0}
  /\ PressureWindow \in Nat
  /\ WriteSizes \subseteq Nat

VARIABLES
  clock,        \* time.Now
  flowActive,   \* streamFairness.active, and streamDeliveries.active
  flow,         \* streamFairnessFlow of each stream
  delivery,     \* its streamDelivery; only a server in debug mode keeps one
  startup       \* streamStartupTimeline of the delivery

fairnessVars == <<clock, flowActive, flow, delivery, startup>>

Never == -1   \* a time stamp that is not set

NoFlow == [torrent |-> Never, started |-> 0, bytes |-> 0, lastDelay |-> Never]
NoDelivery == [kept |-> FALSE, written |-> FALSE, slow |-> FALSE,
               waits |-> 0, severe |-> FALSE, lastWait |-> Never]
NoStartup == [outcome |-> "unavailable", firstWait |-> FALSE]

FairnessInit ==
  /\ clock = 0
  /\ flowActive = {}
  /\ flow = [s \in Flows |-> NoFlow]
  /\ delivery = [s \in Flows |-> NoDelivery]
  /\ startup = [s \in Flows |-> NoStartup]

-----------------------------------------------------------------------------
\* A flow f, with its delivery d, as its torrent's aggregate sees it.

hasFirstByte(f, d) == f.bytes > 0 \/ d.written

hasRecentReadWait(d) ==
  d.kept /\ d.waits > 0 /\ d.lastWait # Never /\ clock - d.lastWait <= PressureWindow

hasRecentSevereReadWait(d) ==
  d.kept /\ d.severe /\ d.lastWait # Never /\ clock - d.lastWait <= PressureWindow

hasClientBackpressure(d) == d.kept /\ d.slow

\* streamFairnessTorrentState, for every torrent with an active flow.
torrentAggregates(flows, deliveries) ==
  LET of(t) == {s \in flowActive : flows[s].torrent = t}
  IN  [t \in {flows[s].torrent : s \in flowActive} |->
        [started      |-> Min({flows[s].started : s \in of(t)}),
         bytes        |-> SumFunctionOnSet([s \in Flows |-> flows[s].bytes], of(t)),
         firstByte    |-> \E s \in of(t) : hasFirstByte(flows[s], deliveries[s]),
         recentWait   |-> \E s \in of(t) : hasRecentReadWait(deliveries[s]),
         backpressure |-> \E s \in of(t) : hasClientBackpressure(deliveries[s]),
         severeWait   |-> \E s \in of(t) : hasRecentSevereReadWait(deliveries[s])]]

AggregateType ==
  [started : Nat, bytes : Nat, firstByte : BOOLEAN, recentWait : BOOLEAN,
   backpressure : BOOLEAN, severeWait : BOOLEAN]

-----------------------------------------------------------------------------
\* The decision.  It is a function of the aggregates and the time.

bytesPerSecond(bytes, elapsed) == IF elapsed <= 0 THEN 0 ELSE bytes \div elapsed

rate(agg, t, now) == bytesPerSecond(agg[t].bytes, now - agg[t].started)

isMature(agg, t, now) ==
  /\ now - agg[t].started >= FairnessMinAge
  /\ agg[t].bytes >= FairnessMinBytes

\* Mutant: without the tests of maturity and need.
needsStartupProtection_whileYoung(agg, t, now) ==
  /\ ~agg[t].backpressure
  /\ now - agg[t].started \in 0 .. ProtectionWindow

needsStartupProtection(agg, t, now) ==
  /\ ~agg[t].backpressure
  /\ now - agg[t].started \in 0 .. ProtectionWindow
  /\ ~isMature(agg, t, now)
  /\ ~agg[t].firstByte \/ agg[t].recentWait

\* t starts up, long enough after the torrent that would give way.
needsStartupProtectionAfter(agg, t, current, now) ==
  /\ needsStartupProtection(agg, t, now)
  /\ agg[t].started - agg[current].started >= ProtectionMinGap

startupProtectionCandidates(agg, current, now) ==
  {t \in DOMAIN agg \ {current} : needsStartupProtectionAfter(agg, t, current, now)}

\* The iteration over the map keeps the slowest; between equals, any of them.
weakestMatureCandidates(agg, current, now) ==
  LET mature == {t \in DOMAIN agg \ {current} : isMature(agg, t, now)}
  IN  {t \in mature : \A u \in mature : rate(agg, t, now) <= rate(agg, u, now)}

\* More than three halves of the slowest rate, and of a slowest that the network
\* holds back and not its client.
dominates(agg, current, t, now) ==
  /\ rate(agg, t, now) > 0
  /\ ~agg[t].backpressure
  /\ rate(agg, current, now) * 2 > rate(agg, t, now) * 3

mayGiveWay(agg, current, now) ==
  /\ Cardinality(DOMAIN agg) >= 2
  /\ isMature(agg, current, now)
  /\ rate(agg, current, now) >= FairnessFastBPS
  /\ ~agg[current].severeWait
  /\ ~agg[current].backpressure

\* The decisions fairnessDelay may come to before the cooldown is asked.
fairnessDelays(agg, current, now) ==
  IF ~mayGiveWay(agg, current, now) THEN {"none"}
  ELSE IF startupProtectionCandidates(agg, current, now) # {} THEN {"startup"}
  ELSE LET weakest == weakestMatureCandidates(agg, current, now)
           decision(t) ==
             IF ~dominates(agg, current, t, now) THEN "none"
             ELSE IF rate(agg, current, now) > rate(agg, t, now) * 2 THEN "max"
             ELSE "base"
       IN  IF weakest = {} THEN {"none"} ELSE {decision(t) : t \in weakest}

rateLimited(s) ==
  flow[s].lastDelay # Never /\ clock - flow[s].lastDelay < FairnessCooldown

-----------------------------------------------------------------------------
\* startStreamInstrumentation: the flow is registered for every stream, the
\* delivery in debug mode only.
OpenFlow(s, t, debug) ==
  /\ flow[s] = NoFlow
  /\ flowActive' = flowActive \cup {s}
  /\ flow' = [flow EXCEPT ![s].torrent = t, ![s].started = clock]
  /\ delivery' = [delivery EXCEPT ![s].kept = debug]
  /\ startup' = [startup EXCEPT ![s].outcome = IF debug THEN "pending" ELSE @]
  /\ UNCHANGED <<clock>>

\* The timeline of the warm-up: skipped, or run, before anything is sent.  How it
\* finished is not told apart.
SkipStartup(s) ==
  /\ s \in flowActive /\ startup[s].outcome = "pending"
  /\ startup' = [startup EXCEPT ![s].outcome = "finished"]
  /\ UNCHANGED <<clock, flowActive, flow, delivery>>

StartStartup(s) ==
  /\ s \in flowActive /\ startup[s].outcome = "pending"
  /\ startup' = [startup EXCEPT ![s].outcome = "running"]
  /\ UNCHANGED <<clock, flowActive, flow, delivery>>

CompleteStartup(s) ==
  /\ s \in flowActive /\ startup[s].outcome = "running"
  /\ startup' = [startup EXCEPT ![s].outcome = "finished"]
  /\ UNCHANGED <<clock, flowActive, flow, delivery>>

\* The stream serves: its warm-up is over, or it keeps no timeline.
serving(s) == s \in flowActive /\ startup[s].outcome \in {"unavailable", "finished"}

recordFirstReadWait(s) ==
  startup' = [startup EXCEPT ![s].firstWait = (startup[s].outcome = "finished")]

\* A read that took at least streamReadWaitThreshold; severe beyond three
\* seconds.  Both observers of the read record it, in debug mode only.
ReadWait(s, severe) ==
  /\ serving(s) /\ delivery[s].kept
  /\ delivery[s].waits < MaxReadWaits
  /\ delivery' = [delivery EXCEPT ![s].waits = @ + 1, ![s].severe = severe,
                                  ![s].lastWait = clock]
  /\ recordFirstReadWait(s)
  /\ UNCHANGED <<clock, flowActive, flow>>

\* The delivery after a write, slow at streamSlowWriteThreshold or more.
recordWrite(d, slow) ==
  IF d.kept THEN [d EXCEPT !.written = TRUE, !.slow = @ \/ slow] ELSE d

\* A write of n units: the delivery records it, the flow counts it, and then the
\* stream asks whether it has to sleep.
Write(s, n, slow) ==
  LET recorded == [delivery EXCEPT ![s] = recordWrite(@, slow)]
      counted == [flow EXCEPT ![s].bytes = @ + n]
  IN  /\ serving(s)
      /\ slow => delivery[s].kept
      /\ flow[s].bytes + n <= MaxFlowBytes
      /\ \E decision \in fairnessDelays(torrentAggregates(counted, recorded), flow[s].torrent, clock) :
           LET sleeps == decision # "none" /\ ~rateLimited(s)
           IN  flow' = [counted EXCEPT ![s].lastDelay = IF sleeps THEN clock ELSE @]
      /\ delivery' = recorded
      /\ UNCHANGED <<clock, flowActive, startup>>

\* The request ends, in whatever way: the stream leaves both registries, and what
\* it recorded goes with it.
CloseFlow(s) ==
  /\ s \in flowActive
  /\ flowActive' = flowActive \ {s}
  /\ flow' = [flow EXCEPT ![s] = NoFlow]
  /\ delivery' = [delivery EXCEPT ![s] = NoDelivery]
  /\ startup' = [startup EXCEPT ![s] = NoStartup]
  /\ UNCHANGED clock

Tick ==
  /\ clock < MaxClock
  /\ clock' = clock + 1
  /\ UNCHANGED <<flowActive, flow, delivery, startup>>

FairnessNext ==
  \/ \E s \in Flows :
       \/ \E t \in FlowTorrents[s], debug \in BOOLEAN : OpenFlow(s, t, debug)
       \/ SkipStartup(s) \/ StartStartup(s) \/ CompleteStartup(s)
       \/ \E severe \in BOOLEAN : ReadWait(s, severe)
       \/ \E n \in WriteSizes, slow \in BOOLEAN : Write(s, n, slow)
       \/ CloseFlow(s)
  \/ Tick

FairnessSpec == FairnessInit /\ [][FairnessNext]_fairnessVars

-----------------------------------------------------------------------------
FairnessTypeOK ==
  /\ clock \in 0 .. MaxClock
  /\ flowActive \subseteq Flows
  /\ torrentAggregates(flow, delivery) \in
       [{flow[s].torrent : s \in flowActive} -> AggregateType]
  /\ \A s \in Flows : startup[s].firstWait => startup[s].outcome = "finished"

\* Giving way is never mutual: for any torrents being streamed, at any time, there
\* is one whose writes are not delayed (fairnessDelay).  Otherwise the streams of
\* all torrents would sleep for each other and nobody would gain.
SparesOne(agg, now) ==
  DOMAIN agg # {} => \E t \in DOMAIN agg : fairnessDelays(agg, t, now) = {"none"}

\* SparesOne, of the streams there are now.
SomeTorrentUndelayed == SparesOne(torrentAggregates(flow, delivery), clock)

=============================================================================
