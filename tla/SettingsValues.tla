--------------------------- MODULE SettingsValues ---------------------------
(***************************************************************************)
(* The values of the settings on their way between config.yml, the memory  *)
(* of the process, the database and the API (server/settings/btsets*.go,   *)
(* server/config/config.go, server/internal/app/apiservices/               *)
(* settings_service.go and settings_mapper.go, server/web/api/settings*.go)*)
(*                                                                         *)
(* A start loads what is stored, fills it with defaults and puts the       *)
(* configuration over it.  An API request reads the settings, merges its   *)
(* patch into the copy and later replaces the settings by it; only a       *)
(* change of the storage preferences, or a reset, normalises and saves     *)
(* what is in memory.  Where it is saved is SettingsStorage's matter.      *)
(*                                                                         *)
(* Settings are functions on field names.  Sizes are in MB.  Fields that   *)
(* are only copied are left out, and so is the read-only mode, in which    *)
(* nothing changes.                                                        *)
(***************************************************************************)
EXTENDS Integers, FiniteSets, TLC

CONSTANTS
  ConfigFiles,         \* contents of config.yml: what it says, field by field
  Patches,             \* bodies of settings requests, in the same form
  Lowered,             \* spellings that ToLower changes, and what it makes of them
  CPUs,                \* GOMAXPROCS
  SettingsClients,     \* concurrent API requests
  MaxSettingsRequests, \* bound: API requests
  MaxSettingsStarts    \* bound: starts of the process


-----------------------------------------------------------------------------
\* The fields of BTSets, in the groups config.go copies them in.
CacheFields == {"CacheSize", "PreloadCache", "UseDisk", "TorrentsSavePath"}
TorrentFields == {"TorrentDisconnectTimeout", "ConnectionsLimit"}
NetworkFields == {"DisableUTP"}
StreamFields == {"CoreProfile", "MaxConcurrentStreams", "StreamQueueSize", "StreamQueueWaitSec",
                 "MaxUniquePlaybackTorrents", "StartupPreloadPolicy", "AdaptiveRAMinMB",
                 "AdaptiveRAMaxMB", "ReaderReadAHead"}
DiskCacheFields == {"WarmDiskCacheSizeMB", "WarmDiskCacheTTLMin", "DiskSyncPolicy",
                    "DiskSyncIntervalMS", "DiskWriteBatchSize"}
WorkerFields == {"MetadataWorkers", "MetadataQueueSize", "PreloadWorkers", "PreloadQueueSize"}
DebugFields == {"EnableDebug", "DebugMaxUnverifiedBytesMB"}
ConfigFields == CacheFields \cup TorrentFields \cup NetworkFields \cup StreamFields
                  \cup DiskCacheFields \cup WorkerFields \cup DebugFields
FieldNames == ConfigFields \cup {"ResponsiveMode"}

Booleans == {"UseDisk", "DisableUTP", "EnableDebug", "ResponsiveMode"}
Strings == {"TorrentsSavePath", "CoreProfile", "StartupPreloadPolicy", "DiskSyncPolicy"}
Numbers == FieldNames \ (Booleans \cup Strings)

\* Whether x may be the value of field f; nothing is said of strings.
hasFieldType(f, x) == (f \in Booleans => x \in BOOLEAN) /\ (f \in Numbers => x \in Int)

\* What a file or a request gives has the type of its field.  What is in lower case
\* stays as it is.
ASSUME SettingsValuesAssumption ==
  /\ CPUs \in Nat \ {0}
  /\ \A given \in ConfigFiles \cup Patches :
       \A f \in DOMAIN given : hasFieldType(f, given[f])
  /\ \A str \in DOMAIN Lowered : Lowered[str] \notin DOMAIN Lowered
  /\ {"custom", "periodic", "legacy", "skip-active"} \cap DOMAIN Lowered = {}

\* Go's zero value of a field, and of the settings.
zero(f) == IF f \in Booleans THEN FALSE ELSE IF f \in Strings THEN "" ELSE 0
ZeroSets == [f \in FieldNames |-> zero(f)]

\* What has a value in given, over s.
over(given, s) == [f \in DOMAIN s |-> IF f \in DOMAIN given THEN given[f] ELSE s[f]]

lower(str) == IF str \in DOMAIN Lowered THEN Lowered[str] ELSE str

-----------------------------------------------------------------------------
\* Normalisation.

NormalizeStartupPreloadPolicy(policy) ==
  IF lower(policy) = "legacy" THEN "legacy" ELSE "skip-active"

normalizeDiskSyncPolicy(policy) ==
  IF lower(policy) \in {"none", "periodic", "always"} THEN lower(policy) ELSE "periodic"

atLeastZero(n) == IF n < 0 THEN 0 ELSE n       \* ensureNonNegative
orDefault(n, d) == IF n <= 0 THEN d ELSE n

\* Mutant: the bounds are compared before they have their defaults.
ensureAdaptiveRAMDefaults_early(s) ==
  LET min == IF s.AdaptiveRAMinMB > s.AdaptiveRAMaxMB /\ s.AdaptiveRAMaxMB > 0
               THEN s.AdaptiveRAMaxMB ELSE s.AdaptiveRAMinMB
  IN  [s EXCEPT !.AdaptiveRAMinMB = orDefault(min, 4),
                !.AdaptiveRAMaxMB = orDefault(@, 64)]

ensureAdaptiveRAMDefaults(s) ==
  LET min == orDefault(s.AdaptiveRAMinMB, 4)
      max == orDefault(s.AdaptiveRAMaxMB, 64)
  IN  [s EXCEPT !.AdaptiveRAMinMB = IF min > max THEN max ELSE min, !.AdaptiveRAMaxMB = max]

clamp(n, low, high) == IF n < low THEN low ELSE IF n > high THEN high ELSE n

NonNegativeFields == WorkerFields \cup
  {"MaxConcurrentStreams", "StreamQueueSize", "MaxUniquePlaybackTorrents", "WarmDiskCacheSizeMB"}

\* What validateAndNormalize and ensureDefaults have in common.
commonDefaults(s) ==
  LET filled == [f \in FieldNames |->
        CASE f \in NonNegativeFields -> atLeastZero(s[f])
          [] f = "ResponsiveMode" -> TRUE
          [] f = "CacheSize" -> IF s[f] = 0 THEN 64 ELSE s[f]
          [] f = "ConnectionsLimit" -> IF s[f] = 0 THEN 25 ELSE s[f]
          [] f = "TorrentDisconnectTimeout" -> IF s[f] = 0 THEN 30 ELSE s[f]
          [] f = "StreamQueueWaitSec" -> orDefault(s[f], 3)
          [] f = "DiskSyncIntervalMS" -> orDefault(s[f], 1000)
          [] f = "DiskWriteBatchSize" -> orDefault(s[f], 16)
          [] f = "StartupPreloadPolicy" -> NormalizeStartupPreloadPolicy(s[f])
          [] f = "DiskSyncPolicy" -> normalizeDiskSyncPolicy(s[f])
          [] OTHER -> s[f]]
  IN  ensureAdaptiveRAMDefaults(filled)

\* On the way to the database ...
validateAndNormalize(s) ==
  [commonDefaults(s) EXCEPT
     !.PreloadCache = clamp(IF @ = 0 THEN 50 ELSE @, 0, 100),
     !.ReaderReadAHead = clamp(@, 5, 100),
     !.WarmDiskCacheTTLMin = atLeastZero(@)]

Profiles == {"low-end", "low-cpu", "balanced", "tcp-only-balanced", "high-throughput", "nas"}

normalizeCoreProfile(profile) == IF lower(profile) \in Profiles THEN lower(profile) ELSE "custom"

\* ... and on the way back.
ensureDefaults(s) ==
  [commonDefaults(s) EXCEPT
     !.CoreProfile = normalizeCoreProfile(@),
     !.ReaderReadAHead = IF @ < 5 THEN 5 ELSE @,
     !.WarmDiskCacheTTLMin = orDefault(@, 180)]

-----------------------------------------------------------------------------
\* Profiles.

atLeastCPU(a, b) == IF a > b THEN a ELSE b   \* maxInt

balancedProfile ==
  [CacheSize |-> 64, PreloadCache |-> 50, ConnectionsLimit |-> 25, DisableUTP |-> FALSE,
   MaxConcurrentStreams |-> 0, StreamQueueSize |-> 0, StreamQueueWaitSec |-> 3,
   MaxUniquePlaybackTorrents |-> 0, AdaptiveRAMinMB |-> 4, AdaptiveRAMaxMB |-> 64,
   WarmDiskCacheSizeMB |-> 0, WarmDiskCacheTTLMin |-> 180, MetadataWorkers |-> 0,
   MetadataQueueSize |-> 0, PreloadWorkers |-> 0, PreloadQueueSize |-> 0,
   DiskSyncPolicy |-> "periodic", DiskSyncIntervalMS |-> 1000, DiskWriteBatchSize |-> 16]

tcpOnlyBalancedProfile ==
  [balancedProfile EXCEPT !.DisableUTP = TRUE, !.MaxUniquePlaybackTorrents = 2]

lowCPUProfile ==
  [tcpOnlyBalancedProfile EXCEPT !.ConnectionsLimit = 12, !.MaxConcurrentStreams = 2,
                                 !.StreamQueueSize = 2]

lowEndProfile ==
  over([CacheSize |-> 32, PreloadCache |-> 25, ConnectionsLimit |-> 12,
        MaxConcurrentStreams |-> 1, StreamQueueSize |-> 2, StreamQueueWaitSec |-> 2,
        MaxUniquePlaybackTorrents |-> 1, AdaptiveRAMinMB |-> 2, AdaptiveRAMaxMB |-> 16,
        WarmDiskCacheSizeMB |-> 256, WarmDiskCacheTTLMin |-> 60, MetadataWorkers |-> 1,
        MetadataQueueSize |-> 64, PreloadWorkers |-> 1, PreloadQueueSize |-> 8,
        DiskSyncIntervalMS |-> 800, DiskWriteBatchSize |-> 8], balancedProfile)

\* With what computeCPUFields puts in when the profile is applied.
highThroughputProfile ==
  over([CacheSize |-> 256, PreloadCache |-> 70, ConnectionsLimit |-> atLeastCPU(CPUs * 20, 80),
        MaxConcurrentStreams |-> atLeastCPU(CPUs * 2, 4),
        StreamQueueSize |-> atLeastCPU(CPUs * 4, 12), StreamQueueWaitSec |-> 4,
        AdaptiveRAMinMB |-> 8, AdaptiveRAMaxMB |-> 128, WarmDiskCacheSizeMB |-> 4096,
        WarmDiskCacheTTLMin |-> 360, MetadataWorkers |-> atLeastCPU(CPUs, 4),
        MetadataQueueSize |-> 512, PreloadWorkers |-> atLeastCPU(CPUs \div 2, 2),
        PreloadQueueSize |-> 64, DiskSyncIntervalMS |-> 1500, DiskWriteBatchSize |-> 32],
       balancedProfile)

nasProfile ==
  over([CacheSize |-> 128, PreloadCache |-> 55, ConnectionsLimit |-> atLeastCPU(CPUs * 12, 40),
        MaxConcurrentStreams |-> atLeastCPU(CPUs, 2),
        StreamQueueSize |-> atLeastCPU(CPUs * 3, 8), StreamQueueWaitSec |-> 4,
        WarmDiskCacheSizeMB |-> 8192, WarmDiskCacheTTLMin |-> 720,
        MetadataWorkers |-> atLeastCPU(CPUs \div 2, 2), MetadataQueueSize |-> 256,
        PreloadWorkers |-> 1, PreloadQueueSize |-> 32, DiskSyncIntervalMS |-> 2500,
        DiskWriteBatchSize |-> 24], balancedProfile)

preset(profile) ==
  CASE profile = "low-end" -> lowEndProfile
    [] profile = "low-cpu" -> lowCPUProfile
    [] profile = "tcp-only-balanced" -> tcpOnlyBalancedProfile
    [] profile = "high-throughput" -> highThroughputProfile
    [] profile = "nas" -> nasProfile
    [] OTHER -> balancedProfile

\* The fields a preset's zero is copied of, if the preset has the cache size of
\* the balanced profile.
ZeroCopied == {"MaxConcurrentStreams", "StreamQueueSize", "WarmDiskCacheSizeMB"} \cup WorkerFields

\* copyRules: what the preset says of field f is taken over.
shouldCopy(p, f) ==
  \/ p[f] # zero(f)
  \/ f \in ZeroCopied /\ p.CacheSize = 64

applyProfileFields(s, p) ==
  [f \in FieldNames |-> IF f \in DOMAIN p /\ shouldCopy(p, f) THEN p[f] ELSE s[f]]

\* The fields in which a value of the caller stands.
OverrideFields ==
  (Numbers \ {"DebugMaxUnverifiedBytesMB"}) \cup {"DiskSyncPolicy"}

applyCoreProfileOverrides(s, input) ==
  [f \in FieldNames |->
     IF /\ f \in OverrideFields
        /\ IF f \in Numbers THEN input[f] > 0 ELSE input[f] # ""
       THEN input[f] ELSE s[f]]

ApplyCoreProfile(s) ==
  LET profile == normalizeCoreProfile(s.CoreProfile)
      named == [s EXCEPT !.CoreProfile = profile]
  IN  IF profile = "custom" THEN named
      ELSE applyCoreProfileOverrides(applyProfileFields(named, preset(profile)), s)

-----------------------------------------------------------------------------
\* config.yml.

\* applyDefaults, after the file is read.
ConfigDefaults ==
  [CacheSize |-> 64, PreloadCache |-> 50, TorrentDisconnectTimeout |-> 30, ConnectionsLimit |-> 25,
   CoreProfile |-> "custom", StreamQueueWaitSec |-> 3, AdaptiveRAMinMB |-> 4,
   AdaptiveRAMaxMB |-> 64, ReaderReadAHead |-> 95, DiskSyncPolicy |-> "periodic",
   DiskSyncIntervalMS |-> 1000, DiskWriteBatchSize |-> 16, WarmDiskCacheTTLMin |-> 180]

applyDefaults(file) ==
  LET read == over(file, [f \in ConfigFields |-> zero(f)])
      filled == [f \in ConfigFields |->
                   IF read[f] = zero(f) /\ f \in DOMAIN ConfigDefaults
                     THEN ConfigDefaults[f] ELSE read[f]]
  IN  [filled EXCEPT !.StartupPreloadPolicy = NormalizeStartupPreloadPolicy(@)]

ApplyToBTSets(cfg, s) == ApplyCoreProfile(over(cfg, s))

-----------------------------------------------------------------------------
\* The API's copy of the settings has no DebugMaxUnverifiedBytesMB.

mapSettingsFromBTSets(s) ==
  [f \in FieldNames \ {"DebugMaxUnverifiedBytesMB"} |->
     IF f = "StartupPreloadPolicy" THEN NormalizeStartupPreloadPolicy(s[f]) ELSE s[f]]

mapSettingsToBTSets(v) == over(v, ZeroSets)

\* Only the fields the body of the request names.
mergeSettingsPatch(current, patch) == over(patch, current)

SetDefaultConfig ==
  over([ReaderReadAHead |-> 95, TorrentDisconnectTimeout |-> 30, ResponsiveMode |-> TRUE,
        CoreProfile |-> "custom", StartupPreloadPolicy |-> "skip-active"],
       over(balancedProfile, ZeroSets))

-----------------------------------------------------------------------------
VARIABLES
  processUp,    \* the process serves
  cfgDebug,     \* debug.enabled of the configuration it was started with
  current,      \* defaultBTsetsStore
  savedSets,    \* the settings in the database, or NotSaved
  request,      \* per client: the patch of its request and the settings it read
  settingsBound \* bounds: requests and starts so far

settingsVars == <<processUp, cfgDebug, current, savedSets, request, settingsBound>>

NotSaved == [saved |-> FALSE]
NoRequest == [busy |-> FALSE]

SettingsInit ==
  /\ processUp = FALSE /\ cfgDebug = FALSE
  /\ current = ZeroSets
  /\ savedSets = NotSaved
  /\ request = [c \in SettingsClients |-> NoRequest]
  /\ settingsBound = [requests |-> 0, starts |-> 0]

\* SetBTSets: what is kept in memory and saved.  A directory .tsc below the save
\* path is taken instead of it.
savePaths(path) == IF path \in {"", ".tsc"} THEN {path} ELSE {path, ".tsc"}

normalised(s) ==
  LET n == validateAndNormalize(ApplyCoreProfile(s))
  IN  IF n.UseDisk /\ n.TorrentsSavePath # ""
        THEN {[n EXCEPT !.TorrentsSavePath = p] : p \in savePaths(n.TorrentsSavePath)}
        ELSE {[n EXCEPT !.UseDisk = IF n.TorrentsSavePath = "" THEN FALSE ELSE @]}

\* loadBTSets; storage preferences that changed are saved with the rest; applyConfig
\* over what is in memory.
StartServer(file) ==
  LET cfg == applyDefaults(file)
      saved == IF savedSets = NotSaved THEN SetDefaultConfig ELSE savedSets
      loaded == IF savedSets = NotSaved THEN SetDefaultConfig ELSE ensureDefaults(savedSets)
  IN  /\ ~processUp /\ settingsBound.starts < MaxSettingsStarts
      /\ processUp' = TRUE
      /\ cfgDebug' = cfg.EnableDebug
      /\ \/ /\ savedSets' = saved
            /\ current' = ApplyToBTSets(cfg, loaded)
         \/ /\ savedSets' \in normalised(loaded)
            /\ current' = ApplyToBTSets(cfg, savedSets')
      /\ settingsBound' = [settingsBound EXCEPT !.starts = @ + 1]
      /\ UNCHANGED request

\* A settings request reads the settings ...
ReadCurrent(c, patch) ==
  /\ processUp /\ request[c] = NoRequest
  /\ settingsBound.requests < MaxSettingsRequests
  /\ request' = [request EXCEPT ![c] = [busy |-> TRUE, patch |-> patch,
                                        read |-> mapSettingsFromBTSets(current)]]
  /\ settingsBound' = [settingsBound EXCEPT !.requests = @ + 1]
  /\ UNCHANGED <<processUp, cfgDebug, current, savedSets>>

\* Mutant: the merged settings keep what the patch says of EnableDebug.
mergedRequest_unguarded(r) == mergeSettingsPatch(r.read, r.patch)

mergedRequest(r) == [mergeSettingsPatch(r.read, r.patch) EXCEPT !.EnableDebug = r.read.EnableDebug]

\* ... and replaces them by the merged copy; nothing is normalised or saved.
SetCurrent(c) ==
  /\ processUp /\ request[c].busy
  /\ current' = mapSettingsToBTSets(mergedRequest(request[c]))
  /\ request' = [request EXCEPT ![c] = NoRequest]
  /\ UNCHANGED <<processUp, cfgDebug, savedSets, settingsBound>>

SetDefault ==
  /\ processUp /\ settingsBound.requests < MaxSettingsRequests
  /\ current' = SetDefaultConfig /\ savedSets' = SetDefaultConfig
  /\ settingsBound' = [settingsBound EXCEPT !.requests = @ + 1]
  /\ UNCHANGED <<processUp, cfgDebug, request>>

\* A change of the storage preferences saves what is in memory.
SavePreferences ==
  /\ processUp /\ settingsBound.requests < MaxSettingsRequests
  /\ current' \in normalised(current) /\ savedSets' = current'
  /\ settingsBound' = [settingsBound EXCEPT !.requests = @ + 1]
  /\ UNCHANGED <<processUp, cfgDebug, request>>

\* The process ends, or is killed.
EndServer ==
  /\ processUp
  /\ processUp' = FALSE
  /\ request' = [c \in SettingsClients |-> NoRequest]
  /\ UNCHANGED <<cfgDebug, current, savedSets, settingsBound>>

SettingsNext ==
  \/ \E file \in ConfigFiles : StartServer(file)
  \/ \E c \in SettingsClients : SetCurrent(c) \/ \E patch \in Patches : ReadCurrent(c, patch)
  \/ SetDefault
  \/ SavePreferences
  \/ EndServer

SettingsSpec == SettingsInit /\ [][SettingsNext]_settingsVars

-----------------------------------------------------------------------------
\* What is saved is in range and at rest: its bounds are in order, and to save it
\* again changes nothing, so a value cannot drift from one change of the storage
\* preferences to the next (SetBTSets; ApplyCoreProfile and validateAndNormalize
\* work on the same object again and again).  One value does: a negative
\* PreloadCache is saved as 0, and a 0 as 50.
SavedAtRest ==
  savedSets # NotSaved =>
    /\ savedSets.AdaptiveRAMinMB \in 1 .. savedSets.AdaptiveRAMaxMB
    /\ savedSets.ReaderReadAHead \in 5 .. 100
    /\ savedSets.PreloadCache \in 0 .. 100
    /\ \A f \in NonNegativeFields \cup {"WarmDiskCacheTTLMin"} : savedSets[f] >= 0
    /\ savedSets \in {[n EXCEPT !.PreloadCache = IF savedSets.PreloadCache = 0 THEN 0 ELSE @] :
                       n \in normalised(savedSets)}

\* Debug mode is a decision of the configuration the process was started with: no
\* order of settings requests, resets and saves switches it on, in this process or,
\* through the database, in a later one (settings in web/api/settings.go: "debug
\* remains a startup/config.yml decision").
DebugOnlyFromConfig == processUp /\ current.EnableDebug => cfgDebug
=============================================================================
