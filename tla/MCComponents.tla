-------------------- MODULE MCComponents --------------------
(***************************************************************************)
(* Safety of the smaller components of the server and of its tools. They   *)
(* share no state, so a behaviour picks the one it is about and takes only *)
(* its steps: the states of the instance are the sum of the components'    *)
(* states and not their product.                                           *)
(***************************************************************************)
EXTENDS StreamFairness, PlaybackPolicy, MCAuthStore, MCBlocker, TorrentRegistry,
        CachePriority, SettingsValues, CacheMetrics, MCReleaseBundle,
        ManagementClient, TLC

CONSTANTS s1, s2  \* streams

\* Two streams: of one torrent, and of that one and another.
MCFlowTorrents == (s1 :> {10}) @@ (s2 :> {10, 20})

\* Settings on both sides of every threshold of connection_policy.go.
MCConnectionInputs ==
  [sets : [profile : {"low-cpu", "tcp-only-balanced", "other"}, limit : {0, 1, 11, 25, 80},
           debug : BOOLEAN, conns : {0, 30}, halfOpen : {0, 5, 3000}, trackers : {0, 300},
           stableCap : {0, 10}, noDHT : {FALSE}, noPEX : {FALSE}],
   default : {0, 40}, torrents : {1}, readers : {0, 2}, settled : BOOLEAN]
MCReadaheadInputs ==
  [capacity : {-1, 0, 1, 10, 64, 300}, readers : 0..3, torrents : {0, 1, 3, 5},
   minRA : {0, 8}, maxRA : {0, 2, 96}]
MCBoostInputs ==
  [sets : [noDHT : BOOLEAN, profile : {"tcp-only-balanced", "other"}],
   input : [torrents : {1, 2}, readers : {0, 1}, peers : {7, 8}, seeders : {8}]]

span(start, end) == [start |-> start, end |-> end]
MCRangeLists ==
  UNION {[1..n -> {span(0, 1), span(0, 0), span(1, 1), span(1, 2), span(0, 2)}] : n \in 0..3}
MCCapacityInputs ==
  [closed : BOOLEAN, capacity : {-1, 0, 7}, pieceLength : {2}, pieceCount : {0, 3, 5}, contract : BOOLEAN]
MCBudgetInputs == [limit : {-1, 1, 25, 200}, readers : 0..3]

MCLowered == ("Always" :> "always") @@ ("NAS" :> "nas")
MCConfigFiles ==
  {[EnableDebug |-> FALSE],
   [EnableDebug |-> TRUE, CoreProfile |-> "tcp-only-balanced", DebugMaxUnverifiedBytesMB |-> 8],
   [CoreProfile |-> "low-end", AdaptiveRAMaxMB |-> 2, UseDisk |-> TRUE, TorrentsSavePath |-> "/cache"]}
MCPatches ==
  {[EnableDebug |-> TRUE],
   [CoreProfile |-> "high-throughput", CacheSize |-> 0, MaxConcurrentStreams |-> -1],
   [CoreProfile |-> "NAS", PreloadCache |-> 0, ConnectionsLimit |-> 0, StreamQueueSize |-> 0],
   [CoreProfile |-> "unknown", ReaderReadAHead |-> 200, PreloadCache |-> -1],
   [AdaptiveRAMinMB |-> 0, AdaptiveRAMaxMB |-> 2],
   [DiskSyncPolicy |-> "Always", WarmDiskCacheTTLMin |-> -1, MaxUniquePlaybackTorrents |-> -1],
   [UseDisk |-> TRUE, TorrentsSavePath |-> ""]}

MCCtlTorrents == <<1, 2>>
\* Torrents have the numbers 1 to 3, words in titles 11 and 12.  The title of the second
\* torrent is the hash of the third.
MCCtlTitles == (11 :> {1, 2}) @@ (12 :> {2, 3}) @@ (1 :> {}) @@ (3 :> {2})
MCCtlContexts == ("local" :> "torrserver") @@ ("away" :> "other") @@ ("broken" :> "bad")
MCCtlIdentifiers ==
  {[kind |-> "index", value |-> 2], [kind |-> "hash", value |-> 1], [kind |-> "hash", value |-> 3],
   [kind |-> "title", value |-> 11], [kind |-> "title", value |-> 12]}
MCVersionDocs ==
  [product : {"", "torrserver", "other"}, current : {"v1", "v2"}, application : {"", "1.0"},
   capable : BOOLEAN, legacy : BOOLEAN]

-----------------------------------------------------------------------------
VARIABLE part   \* the component a behaviour is about

vars == <<part, fairnessVars, policyInput, boostState, authVars, blockerVars,
          sample, settingsVars, meterVars, releaseVars, registryVars,
          priorityVars, clientVars>>

\* Nothing of the other components changes.
OnlyFairness == UNCHANGED <<part, policyInput, boostState, authVars, blockerVars, sample,
                          settingsVars, meterVars, releaseVars, registryVars, priorityVars,
                          clientVars>>
OnlyLimits == UNCHANGED <<part, fairnessVars, boostState, authVars, blockerVars, sample,
                        settingsVars, meterVars, releaseVars, registryVars, priorityVars,
                        clientVars>>
OnlyBoosts == UNCHANGED <<part, fairnessVars, policyInput, authVars, blockerVars, sample,
                        settingsVars, meterVars, releaseVars, registryVars, priorityVars,
                        clientVars>>
OnlyAccounts == UNCHANGED <<part, fairnessVars, policyInput, boostState, blockerVars, sample,
                          settingsVars, meterVars, releaseVars, registryVars, priorityVars,
                          clientVars>>
OnlyBlocker == UNCHANGED <<part, fairnessVars, policyInput, boostState, authVars, sample,
                         settingsVars, meterVars, releaseVars, registryVars, priorityVars,
                         clientVars>>
OnlyNumbers == UNCHANGED <<part, fairnessVars, policyInput, boostState, authVars, blockerVars,
                         settingsVars, meterVars, releaseVars, registryVars, priorityVars,
                         clientVars>>
OnlySettings == UNCHANGED <<part, fairnessVars, policyInput, boostState, authVars, blockerVars,
                          sample, meterVars, releaseVars, registryVars, priorityVars, clientVars>>
OnlyMetrics == UNCHANGED <<part, fairnessVars, policyInput, boostState, authVars, blockerVars,
                         sample, settingsVars, releaseVars, registryVars, priorityVars, clientVars>>
OnlyRelease == UNCHANGED <<part, fairnessVars, policyInput, boostState, authVars, blockerVars,
                         sample, settingsVars, meterVars, registryVars, priorityVars, clientVars>>
OnlyRegistry == UNCHANGED <<part, fairnessVars, policyInput, boostState, authVars, blockerVars,
                          sample, settingsVars, meterVars, releaseVars, priorityVars, clientVars>>
OnlyPriorities == UNCHANGED <<part, fairnessVars, policyInput, boostState, authVars, blockerVars,
                            sample, settingsVars, meterVars, releaseVars, registryVars, clientVars>>
OnlyClient == UNCHANGED <<part, fairnessVars, policyInput, boostState, authVars, blockerVars,
                        sample, settingsVars, meterVars, releaseVars, registryVars, priorityVars>>

Init ==
  /\ part \in {"fairness", "limits", "boosts", "accounts", "blocker",
               "numbers", "settings", "metrics", "release", "registry",
               "priorities", "client"}
  /\ FairnessInit /\ PolicyInit /\ AuthInit /\ BlockerInit /\ NumbersInit
  /\ SettingsInit /\ MetricsInit /\ ReleaseInit /\ RegistryInit /\ PriorityInit /\ ClientInit
  /\ part # "release" => releaseConfig = Config(FALSE)

Next ==
  \/ part = "fairness" /\ FairnessNext /\ OnlyFairness
  \/ part = "limits" /\ (AskConnections \/ AskReadahead) /\ OnlyLimits
  \/ part = "boosts" /\ BoostNext /\ OnlyBoosts
  \/ part = "accounts" /\ AuthNext /\ OnlyAccounts
  \/ part = "blocker" /\ BlockerNext /\ OnlyBlocker
  \/ part = "numbers" /\ DrawSample /\ OnlyNumbers
  \/ part = "settings" /\ SettingsNext /\ OnlySettings
  \/ part = "metrics" /\ MetricsNext /\ OnlyMetrics
  \/ part = "release" /\ ReleaseNext /\ OnlyRelease
  \/ part = "registry" /\ RegistryNext /\ OnlyRegistry
  \/ part = "priorities" /\ PrioritiesNext /\ OnlyPriorities
  \/ part = "client" /\ ClientNext /\ OnlyClient

Spec == Init /\ [][Next]_vars

-----------------------------------------------------------------------------
\* What the server computes from the settings keeps to them: connection limits,
\* readahead (connection_policy.go, stream_http.go), merged piece
\* ranges, cache capacity and priority budgets (torrstor).
LimitsFit == NumbersFit /\ CacheNumbersFit
=============================================================================
