---------------------- MODULE SettingsStorage_proofs ----------------------
(***************************************************************************)
(* Proofs about SettingsStorage, for any installations, torrents, marks    *)
(* and settings, any number of crashes and starts, on a disk that works    *)
(* and on one that does not.                                               *)
(***************************************************************************)
EXTENDS SettingsStorage, FiniteSetTheorems, TLAPS

-----------------------------------------------------------------------------
(* The import of torrserver.db. *)

\* What the import has not come to is on its list.
OnTheList ==
  pc = "import" => legacy \cap Parses \subseteq torrents \cup todo \cup refused

ImportInv == OnTheList /\ LegacyTorrentsKept

\* Only three steps touch what the import is about.
LEMMA ImportElsewhere ==
  ASSUME Next, ~ImportTorrent, ~RemoveLegacy, ~UpdatePreferences
  PROVE  \/ UNCHANGED <<setup, torrents, legacy, refused>> /\ pc' # "import"
         \/ UNCHANGED <<setup, torrents, legacy, refused, pc, todo>>
<1> USE DEF disk, bounds, history
<1>1. setup' = setup
  BY DEF Next
<1>2. CASE InitSets
  <2>1. ASSUME Start \/ MigrateSettings \/ ClearSettings \/ ListViewed \/ ClearViewed
               \/ LoadBTSets \/ ApplyConfig
        PROVE  UNCHANGED <<torrents, legacy, refused>> /\ pc' # "import"
    BY <2>1 DEF Start, MigrateSettings, ClearSettings, ListViewed, ClearViewed, LoadBTSets,
                ApplyConfig
  <2>2. ASSUME MigrateViewed PROVE UNCHANGED <<torrents, legacy, refused, pc, todo>>
    BY <2>2 DEF MigrateViewed
  <2> QED BY <1>1, <1>2, <2>1, <2>2 DEF InitSets
<1>3. CASE \E a \in Actors : Request(a)
  <2>1. PICK a \in Actors : Request(a)
    BY <1>3
  <2>2. ASSUME SetViewed(a) \/ RemViewed(a) \/ Fill(a) \/ CachePut(a) \/ DBPut(a)
               \/ SetStoragePreferences(a) \/ ApplySettings(a) \/ ResetDefaultSettings(a)
        PROVE  UNCHANGED <<torrents, legacy, refused, pc, todo>>
    BY <2>2 DEF SetViewed, RemViewed, Get, Fill, CachePut, DBPut, SetStoragePreferences,
                ApplySettings, ResetDefaultSettings, UNCHANGED_process
  <2>3. ASSUME SwitchSettingsStorage(a) \/ CopySettings(a) \/ SwitchViewedStorage(a)
               \/ CopyViewed(a) \/ ClearSwitched(a) \/ SaveViewed(a)
        PROVE  UNCHANGED <<torrents, legacy, refused, pc, todo>>
    BY <2>3 DEF SwitchSettingsStorage, CopySettings, SwitchViewedStorage, CopyViewed,
                ClearSwitched, SaveViewed
  <2> QED BY <1>1, <2>1, <2>2, <2>3 DEF Request
<1>4. CASE Stop \/ Crash
  BY <1>1, <1>4 DEF Stop, Crash, gone
<1> QED BY <1>2, <1>3, <1>4 DEF Next

\* The import keeps every torrent it can read or knows that it was refused, whenever
\* the process is killed and however often it starts again (MigrateTorrentAtPath,
\* migrateAndSave).
LEMMA ImportStep ==
  ASSUME ImportInv, [Next]_vars
  PROVE  ImportInv'
<1> SUFFICES /\ pc' = "import" => legacy' \cap Parses \subseteq torrents' \cup todo' \cup refused'
             /\ setup'.old \cap Parses \subseteq torrents' \cup legacy' \cup refused'
  BY DEF ImportInv, OnTheList, LegacyTorrentsKept
<1>1. setup' = setup
  BY DEF Next, vars
<1>2. setup.old \cap Parses \subseteq torrents \cup legacy \cup refused
  BY DEF ImportInv, LegacyTorrentsKept
<1>3. pc = "import" => legacy \cap Parses \subseteq torrents \cup todo \cup refused
  BY DEF ImportInv, OnTheList
<1>4. CASE ImportTorrent
  <2>1. PICK t \in todo :
          /\ todo' = todo \ {t}
          /\ torrents' \in IF t \in Parses /\ ~setup.readOnly
               THEN TDBWrites(torrents, torrents \cup {t}) ELSE {torrents}
          /\ refused' = IF t \in torrents' THEN refused \ {t} ELSE refused \cup {t}
    BY <1>4 DEF ImportTorrent
  <2>2. torrents \subseteq torrents'
    BY <2>1 DEF TDBWrites
  <2>3. pc = "import" /\ legacy' = legacy
    BY <1>4 DEF ImportTorrent
  <2>4. t \in torrents' \cup refused' /\ refused \subseteq torrents' \cup refused'
    BY <2>1
  <2> QED BY <1>1, <1>2, <1>3, <2>1, <2>2, <2>3, <2>4
<1>5. CASE RemoveLegacy
  BY <1>1, <1>2, <1>3, <1>5 DEF RemoveLegacy, history
<1>6. CASE UpdatePreferences
  BY <1>1, <1>2, <1>6, StorageAssumption DEF UpdatePreferences, history
<1>7. CASE Next /\ ~ImportTorrent /\ ~RemoveLegacy /\ ~UpdatePreferences
  BY <1>1, <1>2, <1>3, <1>7, ImportElsewhere
<1>8. CASE UNCHANGED vars
  BY <1>2, <1>3, <1>8 DEF vars
<1> QED BY <1>4, <1>5, <1>6, <1>7, <1>8

\* In every mode, on a disk that works or not, and wherever it is killed: no start loses
\* a torrent of torrserver.db whose own AddTorrent did not fail, for any installation
\* (MigrateTorrentAtPath).
THEOREM ImportLosesOnlyRefused == Spec => []LegacyTorrentsKept
<1>1. Init => ImportInv
  BY DEF Init, ImportInv, OnTheList, LegacyTorrentsKept
<1>2. ImportInv /\ [Next]_vars => ImportInv'
  BY ImportStep
<1>3. ImportInv => LegacyTorrentsKept
  BY DEF ImportInv
<1> QED BY <1>1, <1>2, <1>3, PTL DEF Spec

-----------------------------------------------------------------------------
(* Types.  The migration that is under way says so at its step, and a       *)
(* request that switches a preference is the holder of the lock.            *)

LockedSteps == {"copySettings", "copyViewed", "saveViewed"}

Exclusive ==
  /\ pc = "migrateViewed" => job # NoJob
  /\ pc # "serve" => \A a \in Actors : req[a] = Idle
  /\ \A a \in Actors : req[a].at \in LockedSteps => lock = a
  /\ \A a \in Actors : req[a].at = "copyViewed" => job # NoJob

TypeInv == TypeOK /\ Exclusive

LEMMA Databases ==
  /\ Other("json") = "bbolt" /\ Other("bbolt") = "json"
  /\ \A d \in DBs : Other(d) \in DBs /\ Other(d) # d /\ Other(Other(d)) = d
  /\ \A b : DBFor(b) \in DBs
BY DEF Other, DBs, DBFor

LEMMA Constants ==
  /\ NoEntries \in [Hashes -> Viewed]
  /\ Settings \subseteq Settings \cup {NoData}
  /\ SetDefaultConfig \in Settings
  /\ EnvPrefs \in Prefs
BY StorageAssumption DEF NoEntries, Viewed, SetDefaultConfig, Settings

\* What a write of the viewed history leaves (TDB, JSONDB).
LEMMA ViewedWrites ==
  ASSUME viewed \in [DBs -> [Hashes -> Viewed]], NEW d \in DBs,
         NEW new \in [Hashes -> Viewed], writeViewed(d, new)
  PROVE  /\ viewed' \in [DBs -> [Hashes -> Viewed]] /\ dirty' \in {"none", "viewed"}
         /\ viewed'[d] \in {new, viewed[d], NoEntries}
         /\ \A e \in DBs \ {d} : viewed'[e] = viewed[e]
<1>1. PICK v \in {new, viewed[d], NoEntries} : viewed' = [viewed EXCEPT ![d] = v]
  BY DEF writeViewed, JSONDBWrites, TDBWrites
<1>2. v \in [Hashes -> Viewed]
  BY <1>1, Constants
<1> QED BY <1>1, <1>2 DEF writeViewed

\* What a write of the settings leaves.
LEMMA SettingsWrites ==
  ASSUME stored \in [DBs -> Settings \cup {NoData}], NEW d \in DBs,
         NEW new \in Settings \cup {NoData}, writeSettings(d, new)
  PROVE  /\ stored' \in [DBs -> Settings \cup {NoData}] /\ dirty' \in {"none", "settings"}
         /\ stored'[d] \in {new, stored[d], NoData}
         /\ \A e \in DBs \ {d} : stored'[e] = stored[e]
<1>1. PICK s \in {new, stored[d], NoData} : stored' = [stored EXCEPT ![d] = s]
  BY DEF writeSettings, JSONDBWrites, TDBWrites
<1>2. s \in Settings \cup {NoData}
  BY <1>1
<1> QED BY <1>1, <1>2 DEF writeSettings

\* SetBTSets keeps settings in memory and in the database they are routed to.
LEMMA SetBTSetsType ==
  ASSUME stored \in [DBs -> Settings \cup {NoData}], route \in [settings : DBs, viewed : DBs],
         NEW s \in Settings, SetBTSets(s)
  PROVE  /\ stored' \in [DBs -> Settings \cup {NoData}] /\ mem' \in Settings
         /\ dirty' \in {"none", "settings"}
<1>1. route.settings \in DBs
  OBVIOUS
<1>2. CASE setup.readOnly
  BY <1>2 DEF SetBTSets
<1>3. CASE ~setup.readOnly
  <2>1. writeSettings(route.settings, s)
    BY <1>3 DEF SetBTSets
  <2> QED BY <1>1, <2>1, SettingsWrites DEF SetBTSets
<1> QED BY <1>2, <1>3

\* A step of a migration copies one entry or none.
LEMMA EntryCopied ==
  ASSUME viewed \in [DBs -> [Hashes -> Viewed]], job \in Jobs,
         NEW h \in job.todo, migrateEntry(h)
  PROVE  /\ viewed' \in [DBs -> [Hashes -> Viewed]]
         /\ \A e \in DBs \ {job.dst} : viewed'[e] = viewed[e]
         /\ dirty' \in {"none", "viewed"}
         /\ job' \in Jobs
         /\ job'.src = job.src /\ job'.dst = job.dst /\ job'.todo = job.todo \ {h}
<1> DEFINE copy == [viewed[job.dst] EXCEPT ![h] = viewed[job.src][h]]
<1>1. /\ job.dst \in DBs /\ job.src \in DBs /\ job.todo \in SUBSET Hashes
      /\ job.migrated \in Nat /\ job.failed \in BOOLEAN /\ h \in Hashes
  BY DEF Jobs
<1>2. copy \in [Hashes -> Viewed]
  BY <1>1
<1>3. CASE needsMigration(viewed[job.src][h], viewed[job.dst][h])
  <2>1. writeViewed(job.dst, copy)
    BY <1>3 DEF migrateEntry
  <2>2. PICK v \in BOOLEAN :
          job' = [job EXCEPT !.todo = @ \ {h}, !.migrated = IF v THEN @ + 1 ELSE @,
                             !.failed = @ \/ ~v]
    BY <1>3 DEF migrateEntry
  <2> DEFINE m == IF v THEN job.migrated + 1 ELSE job.migrated
             f == job.failed \/ ~v
  <2>3. m \in Nat /\ f \in BOOLEAN
    BY <1>1
  <2>4. job' = [job EXCEPT !.todo = job.todo \ {h}, !.migrated = m, !.failed = f]
    BY <2>2
  <2> HIDE DEF m, f
  <2>5. /\ job' \in Jobs
        /\ job'.src = job.src /\ job'.dst = job.dst /\ job'.todo = job.todo \ {h}
    BY <1>1, <2>3, <2>4 DEF Jobs
  <2> QED BY <1>1, <1>2, <2>1, <2>5, ViewedWrites
<1>4. CASE ~needsMigration(viewed[job.src][h], viewed[job.dst][h])
  <2>1. job' = [job EXCEPT !.todo = @ \ {h}] /\ dirty' = "none" /\ viewed' = viewed
    BY <1>4 DEF migrateEntry
  <2>2. /\ job' \in Jobs
        /\ job'.src = job.src /\ job'.dst = job.dst /\ job'.todo = job.todo \ {h}
    BY <1>1, <2>1 DEF Jobs
  <2> QED BY <2>1, <2>2
<1> QED BY <1>3, <1>4

LEMMA NewJobType ==
  ASSUME NEW src \in DBs, NEW dst \in DBs
  PROVE  newJob(src, dst) \in Jobs
BY DEF newJob, Jobs, List

\* The entry a request writes (SetViewed, RemViewed).
LEMMA ChangedType ==
  ASSUME NEW r \in ViewedRequests, NEW old \in Viewed
  PROVE  changed(r, old) \in Viewed
<1>1. r.op \in {"set", "rem", "forget"} /\ (r.op = "set" => r.i \in Indexes)
  BY DEF ViewedRequests
<1>2. CASE r.op = "set"
  BY <1>1, <1>2 DEF changed, Viewed
<1>3. CASE r.op = "rem"
  BY <1>1, <1>3 DEF changed, Viewed
<1>4. CASE r.op = "forget"
  BY <1>1, <1>4 DEF changed, Viewed
<1> QED BY <1>1, <1>2, <1>3, <1>4

\* Where a request is says what kind it is.
LEMMA RequestKinds ==
  ASSUME NEW r \in {Idle} \cup ViewedRequests \cup SwitchRequests
  PROVE  /\ r.at \in ViewedSteps => r \in ViewedRequests
         /\ r.at \in SwitchSteps => r \in SwitchRequests
         /\ r = Idle <=> r.at = "idle"
BY DEF ViewedRequests, SwitchRequests, Idle, ViewedSteps, SwitchSteps

\* A request that goes on stays one of its kind.
LEMMA RequestGoesOn ==
  /\ \A r \in ViewedRequests, l \in ViewedSteps : [r EXCEPT !.at = l] \in ViewedRequests
  /\ \A r \in SwitchRequests, l \in SwitchSteps : [r EXCEPT !.at = l] \in SwitchRequests
BY DEF ViewedRequests, SwitchRequests


\* The steps of InitSets are typed.
LEMMA InitSetsTypes ==
  ASSUME TypeInv, InitSets
  PROVE  DiskOK' /\ ProcessOK' /\ Exclusive' /\ sessions' \in Nat /\ UNCHANGED <<crashes, req>>
<1> USE DEF disk, bounds, TypeInv, Exclusive
<1>1. /\ stored \in [DBs -> Settings \cup {NoData}] /\ viewed \in [DBs -> [Hashes -> Viewed]]
      /\ torrents \subseteq OldTorrents /\ legacy \subseteq OldTorrents /\ todo \subseteq OldTorrents
      /\ boot \in Prefs /\ mem \in Settings /\ sessions \in Nat
      /\ route \in [settings : DBs, viewed : DBs]
      /\ job \in Jobs \cup {NoJob}
  BY DEF TypeInv, TypeOK, DiskOK, ProcessOK
<1>2. CASE Start
  <2>1. boot' \in Prefs
    <3>1. \A s \in Settings :
            [settingsInJSON |-> s.settingsInJSON, viewedInJSON |-> s.viewedInJSON] \in Prefs
      BY DEF Settings, Prefs
    <3>2. stored["json"] \in Settings \cup {NoData} /\ stored["bbolt"] \in Settings \cup {NoData}
      BY <1>1 DEF DBs
    <3>3. boot' = determineStoragePreferences
      BY <1>2 DEF Start
    <3> QED BY <3>1, <3>2, <3>3, Constants DEF determineStoragePreferences
  <2> QED BY <1>1, <1>2, <2>1 DEF Start, TypeOK, DiskOK, ProcessOK
<1>3. CASE MigrateSettings
  <2> DEFINE dst == DBFor(boot.settingsInJSON)
             src == Other(dst)
  <2>1. dst \in DBs /\ src \in DBs
    BY Databases
  <2>2. stored[src] \in Settings \cup {NoData}
    BY <1>1, <2>1
  <2>3. pc' \in {"clearSettings", "listViewed"}
    BY <1>3 DEF MigrateSettings
  <2>4. writeSettings(dst, stored[src]) \/ (UNCHANGED stored /\ dirty' = "none")
    BY <1>3 DEF MigrateSettings
  <2> HIDE DEF dst, src
  <2>5. stored' \in [DBs -> Settings \cup {NoData}] /\ dirty' \in {"none", "settings"}
    BY <1>1, <2>1, <2>2, <2>4, SettingsWrites
  <2> QED BY <1>3, <2>3, <2>5 DEF MigrateSettings, TypeOK, DiskOK, ProcessOK
<1>4. CASE ClearSettings
  <2> DEFINE src == Other(DBFor(boot.settingsInJSON))
  <2>1. src \in DBs /\ writeSettings(src, NoData)
    BY <1>4, Databases DEF ClearSettings
  <2> HIDE DEF src
  <2>2. stored' \in [DBs -> Settings \cup {NoData}] /\ dirty' \in {"none", "settings"}
    BY <1>1, <2>1, SettingsWrites
  <2> QED BY <1>4, <2>2 DEF ClearSettings, TypeOK, DiskOK, ProcessOK
<1>5. CASE ListViewed
  <2>1. job' \in Jobs
    BY <1>5, Databases, NewJobType DEF ListViewed
  <2> QED BY <1>5, <2>1, StorageAssumption DEF ListViewed, TypeOK, DiskOK, ProcessOK
<1>6. CASE MigrateViewed
  <2>1. PICK h \in job.todo : migrateEntry(h)
    BY <1>6 DEF MigrateViewed
  <2>2. job \in Jobs
    BY <1>1, <1>6 DEF MigrateViewed
  <2>3. viewed' \in [DBs -> [Hashes -> Viewed]] /\ dirty' \in {"none", "viewed"} /\ job' \in Jobs
    BY <1>1, <2>1, <2>2, EntryCopied
  <2> QED BY <1>6, <2>3, StorageAssumption DEF MigrateViewed, TypeOK, DiskOK, ProcessOK
<1>7. CASE ClearViewed
  <2>1. job \in Jobs
    BY <1>1, <1>7 DEF ClearViewed
  <2>2. job.src \in DBs
    BY <2>1 DEF Jobs
  <2>3. viewed' \in [DBs -> [Hashes -> Viewed]] /\ dirty' \in {"none", "viewed"}
    BY <1>1, <1>7, <2>2, ViewedWrites, Constants DEF ClearViewed
  <2>4. \A a \in Actors : req[a] = Idle
    BY <1>7 DEF ClearViewed
  <2>5. pc' = "load" /\ req' = req
    BY <1>7 DEF ClearViewed
  <2>6. Exclusive'
    BY <2>4, <2>5 DEF LockedSteps, Idle
  <2>7. ProcessOK' /\ DiskOK'
    BY <1>7, <2>3 DEF ClearViewed, TypeOK, DiskOK, ProcessOK
  <2> QED BY <1>7, <2>5, <2>6, <2>7 DEF ClearViewed, TypeOK, bounds
<1>8. CASE LoadBTSets
  <2> DEFINE d == DBFor(boot.settingsInJSON)
  <2>1. d \in DBs
    BY Databases
  <2>2. /\ mem' = IF stored[d] # NoData THEN stored[d] ELSE SetDefaultConfig
        /\ (UNCHANGED stored /\ dirty' = "none") \/ writeSettings(d, SetDefaultConfig)
    BY <1>8 DEF LoadBTSets
  <2>3. route' \in [settings : DBs, viewed : DBs] /\ cache' \in [Hashes -> Viewed \cup {Uncached}]
    BY <1>8, Databases DEF LoadBTSets
  <2> HIDE DEF d
  <2>4. mem' \in Settings
    BY <1>1, <2>1, <2>2, Constants
  <2>5. stored' \in [DBs -> Settings \cup {NoData}] /\ dirty' \in {"none", "settings"}
    BY <1>1, <2>1, <2>2, SettingsWrites, Constants
  <2> QED BY <1>8, <2>3, <2>4, <2>5 DEF LoadBTSets, TypeOK, DiskOK, ProcessOK
<1>9. CASE UpdatePreferences
  <2> DEFINE s == [mem EXCEPT !.settingsInJSON = boot.settingsInJSON,
                              !.viewedInJSON = boot.viewedInJSON]
  <2>1. s \in Settings
    BY <1>1 DEF Settings, Prefs
  <2>2. SetBTSets(s) \/ (UNCHANGED <<mem, stored>> /\ dirty' = "none")
    BY <1>9 DEF UpdatePreferences
  <2> HIDE DEF s
  <2>3. /\ stored' \in [DBs -> Settings \cup {NoData}] /\ mem' \in Settings
        /\ dirty' \in {"none", "settings"}
    BY <1>1, <2>1, <2>2, SetBTSetsType
  <2>4. todo' \subseteq OldTorrents /\ pc' \in {"config", "import"}
    BY <1>1, <1>9 DEF UpdatePreferences
  <2> QED BY <1>9, <2>3, <2>4 DEF UpdatePreferences, TypeOK, DiskOK, ProcessOK
<1>10. CASE ImportTorrent
  <2>1. torrents' \subseteq OldTorrents /\ todo' \subseteq OldTorrents
    BY <1>1, <1>10 DEF ImportTorrent, TDBWrites
  <2> QED BY <1>10, <2>1 DEF ImportTorrent, TypeOK, DiskOK, ProcessOK
<1>11. CASE RemoveLegacy
  <2>1. legacy' \subseteq OldTorrents
    BY <1>1, <1>11 DEF RemoveLegacy
  <2> QED BY <1>11, <2>1 DEF RemoveLegacy, TypeOK, DiskOK, ProcessOK
<1>12. CASE ApplyConfig
  <2>1. setup.config \in Settings \cup {NoConfig}
    BY StorageAssumption DEF TypeOK, SetupFields
  <2>2. mem' \in Settings
    BY <1>1, <1>12, <2>1 DEF ApplyConfig
  <2> QED BY <1>12, <2>2 DEF ApplyConfig, TypeOK, DiskOK, ProcessOK
<1> QED BY <1>2, <1>3, <1>4, <1>5, <1>6, <1>7, <1>8, <1>9, <1>10, <1>11, <1>12 DEF InitSets

RequestType == {Idle} \cup ViewedRequests \cup SwitchRequests

\* A step of one request keeps the others, and the lock keeps them apart.
LEMMA OneMoves ==
  ASSUME TypeInv, NEW a \in Actors, NEW r \in RequestType, req' = [req EXCEPT ![a] = r],
         pc = "serve", pc' = pc,
         r.at \in LockedSteps => lock' = a,
         r.at = "copyViewed" => job' # NoJob,
         lock \in {NoActor, a} \/ UNCHANGED <<lock, job>>
  PROVE  Exclusive' /\ req' \in [Actors -> RequestType]
<1>1. req \in [Actors -> RequestType]
  BY DEF TypeInv, TypeOK, RequestType
<1>2. req' \in [Actors -> RequestType]
  BY <1>1
<1>3. \A b \in Actors \ {a} : req'[b] = req[b]
  BY <1>1
<1>4. req'[a] = r
  BY <1>1
<1>5. ASSUME NEW b \in Actors \ {a}, req[b].at \in LockedSteps
      PROVE  lock' = b /\ (req[b].at = "copyViewed" => job' # NoJob)
  BY <1>5, StorageAssumption DEF TypeInv, Exclusive
<1>6. \A b \in Actors : req'[b].at \in LockedSteps => lock' = b
  BY <1>3, <1>4, <1>5
<1>7. \A b \in Actors : req'[b].at = "copyViewed" => job' # NoJob
  BY <1>3, <1>4, <1>5 DEF LockedSteps
<1>8. pc' # "migrateViewed" /\ pc' = "serve"
  OBVIOUS
<1> QED BY <1>2, <1>6, <1>7, <1>8 DEF Exclusive

\* The steps that take no lock are typed: those of SetViewed and RemViewed, and the
\* requests that change the settings in memory.
LEMMA UnlockedTypes ==
  ASSUME TypeInv, NEW a \in Actors,
         \/ SetViewed(a) \/ RemViewed(a) \/ Fill(a) \/ CachePut(a) \/ DBPut(a)
         \/ SetStoragePreferences(a) \/ ApplySettings(a) \/ ResetDefaultSettings(a)
  PROVE  /\ DiskOK' /\ ProcessOK' /\ Exclusive' /\ req' \in [Actors -> RequestType] /\ UNCHANGED bounds
         /\ req'[a].at \notin LockedSteps
<1>1. /\ stored \in [DBs -> Settings \cup {NoData}] /\ viewed \in [DBs -> [Hashes -> Viewed]]
      /\ torrents \subseteq OldTorrents /\ legacy \subseteq OldTorrents
      /\ mem \in Settings /\ cache \in [Hashes -> Viewed \cup {Uncached}]
      /\ route \in [settings : DBs, viewed : DBs]
      /\ req \in [Actors -> RequestType]
  BY DEF TypeInv, TypeOK, DiskOK, ProcessOK, RequestType
<1>2. setup.indexes \subseteq Indexes /\ setup.values \subseteq Rest
      /\ setup.ops \subseteq {"set", "rem", "forget"} /\ setup.switches \subseteq {"settings", "viewed"}
  BY StorageAssumption DEF TypeInv, TypeOK, SetupFields
<1>3. pc = "serve" /\ UNCHANGED_process
  BY DEF SetViewed, RemViewed, Get, Fill, CachePut, DBPut, SetStoragePreferences, ApplySettings,
         ResetDefaultSettings
<1>4. UNCHANGED <<pc, boot, route, job, todo, lock, bounds>>
  BY <1>3 DEF UNCHANGED_process
<1>5. SUFFICES /\ stored' \in [DBs -> Settings \cup {NoData}]
               /\ viewed' \in [DBs -> [Hashes -> Viewed]]
               /\ torrents' \subseteq OldTorrents /\ legacy' \subseteq OldTorrents
               /\ mem' \in Settings /\ cache' \in [Hashes -> Viewed \cup {Uncached}]
               /\ dirty' \in {"none", "settings", "viewed"}
               /\ \E r \in RequestType : r.at \notin LockedSteps /\ req' = [req EXCEPT ![a] = r]
  <2>1. SUFFICES ASSUME NEW r \in RequestType, r.at \notin LockedSteps,
                        req' = [req EXCEPT ![a] = r]
                 PROVE  /\ Exclusive' /\ req' \in [Actors -> RequestType]
                        /\ req'[a].at \notin LockedSteps
    BY <1>4, <1>5 DEF TypeInv, TypeOK, DiskOK, ProcessOK
  <2>2. req'[a] = r
    BY <1>1, <2>1
  <2> QED BY <1>3, <1>4, <2>1, <2>2, OneMoves DEF LockedSteps
<1>6. Idle \in RequestType /\ Idle.at \notin LockedSteps
  BY DEF RequestType, Idle, LockedSteps
<1>7. \A r \in ViewedRequests : r \in RequestType /\ r.at \notin LockedSteps
  BY DEF RequestType, ViewedRequests, ViewedSteps, LockedSteps
<1>8. req[a] \in RequestType /\ (req[a].at \in ViewedSteps => req[a] \in ViewedRequests)
  BY <1>1, RequestKinds DEF RequestType
<1>9. UNCHANGED req =>
        \/ \E r \in RequestType : r.at \notin LockedSteps /\ req' = [req EXCEPT ![a] = r]
        \/ req[a].at \in LockedSteps
  <2>1. req = [req EXCEPT ![a] = req[a]]
    BY <1>1
  <2> QED BY <1>8, <2>1
<1>10. ASSUME NEW op \in {"set", "rem", "forget"}, NEW h \in Hashes,
              NEW i \in Indexes \cup {NoData}, op = "set" => i \in Indexes, Get(a, op, h, i)
       PROVE  /\ \E r \in RequestType : r.at \notin LockedSteps /\ req' = [req EXCEPT ![a] = r]
              /\ UNCHANGED <<disk, mem, cache>> /\ dirty' = "none"
  <2> DEFINE got == IF cache[h] # Uncached THEN cache[h] ELSE viewed[route.viewed][h]
             at == IF cache[h] # Uncached THEN afterGet(op, got) ELSE "fill"
             r == IF at = "idle" THEN Idle
                  ELSE [at |-> at, op |-> op, h |-> h, i |-> i, got |-> got]
  <2>1. req' = [req EXCEPT ![a] = r] /\ UNCHANGED <<disk, mem, cache>> /\ dirty' = "none"
    BY <1>10 DEF Get
  <2>2. route.viewed \in DBs
    BY <1>1
  <2>3. got \in Viewed
    BY <1>1, <2>2
  <2>4. at \in {"idle"} \cup ViewedSteps
    BY DEF afterGet, ViewedSteps
  <2> HIDE DEF got, at
  <2>5. at # "idle" => r \in ViewedRequests
    BY <1>10, <2>3, <2>4 DEF ViewedRequests
  <2>6. r \in RequestType /\ r.at \notin LockedSteps
    BY <1>6, <1>7, <2>5
  <2> HIDE DEF r
  <2> QED BY <2>1, <2>6
<1>11. CASE SetViewed(a)
  BY <1>1, <1>2, <1>10, <1>11 DEF SetViewed, disk
<1>12. CASE RemViewed(a)
  <2>1. CASE \E h \in Hashes, i \in setup.indexes : Get(a, "rem", h, i)
    BY <1>1, <1>2, <1>10, <2>1 DEF disk
  <2>2. CASE \E h \in Hashes : Get(a, "forget", h, NoData)
    BY <1>1, <1>10, <2>2 DEF disk
  <2> QED BY <1>12, <2>1, <2>2 DEF RemViewed
<1>13. CASE Fill(a)
  <2> DEFINE at == afterGet(req[a].op, req[a].got)
             r == IF at = "idle" THEN Idle ELSE [req[a] EXCEPT !.at = at]
  <2>1. req[a] \in ViewedRequests
    BY <1>8, <1>13 DEF Fill, ViewedSteps
  <2>2. at \in {"idle"} \cup ViewedSteps
    BY DEF afterGet, ViewedSteps
  <2>3. req' = [req EXCEPT ![a] = r]
    BY <1>1, <1>13 DEF Fill
  <2> HIDE DEF at
  <2>4. r \in RequestType /\ r.at \notin LockedSteps
    BY <1>6, <1>7, <2>1, <2>2, RequestGoesOn
  <2>5. cache' \in [Hashes -> Viewed \cup {Uncached}]
    <3>1. req[a].h \in Hashes /\ req[a].got \in Viewed
      BY <2>1 DEF ViewedRequests
    <3> QED BY <1>1, <1>13, <3>1 DEF Fill
  <2> HIDE DEF r
  <2> QED BY <1>1, <1>13, <2>3, <2>4, <2>5 DEF Fill, disk
<1>14. CASE CachePut(a)
  <2>1. req[a] \in ViewedRequests
    BY <1>8, <1>14 DEF CachePut, ViewedSteps
  <2>2. req[a].h \in Hashes /\ changed(req[a], req[a].got) \in Viewed
    BY <2>1, ChangedType DEF ViewedRequests
  <2> DEFINE next == [req[a] EXCEPT !.at = "dbPut"]
             c == IF req[a].op = "forget" THEN Uncached ELSE changed(req[a], req[a].got)
  <2>3. next \in ViewedRequests
    BY <2>1, RequestGoesOn DEF ViewedSteps
  <2>4. cache' = cache \/ cache' = [cache EXCEPT ![req[a].h] = c]
    BY <1>14 DEF CachePut
  <2>5. req' = [req EXCEPT ![a] = Idle] \/ req' = [req EXCEPT ![a] = next]
    BY <1>1, <1>14 DEF CachePut, Goto
  <2>6. c \in Viewed \cup {Uncached}
    BY <2>2
  <2> HIDE DEF next, c
  <2>7. cache' \in [Hashes -> Viewed \cup {Uncached}]
    BY <1>1, <2>2, <2>4, <2>6
  <2> QED BY <1>1, <1>6, <1>7, <1>14, <2>3, <2>5, <2>7 DEF CachePut, disk
<1>15. CASE DBPut(a)
  <2> DEFINE d == route.viewed
             new == [viewed[d] EXCEPT ![req[a].h] = changed(req[a], req[a].got)]
  <2>1. req[a] \in ViewedRequests
    BY <1>8, <1>15 DEF DBPut, ViewedSteps
  <2>2. req[a].h \in Hashes /\ changed(req[a], req[a].got) \in Viewed
    BY <2>1, ChangedType DEF ViewedRequests
  <2>3. d \in DBs /\ new \in [Hashes -> Viewed]
    BY <1>1, <2>2
  <2>4. writeViewed(d, new) /\ req' = [req EXCEPT ![a] = Idle]
    BY <1>15 DEF DBPut
  <2> HIDE DEF d, new
  <2>6. viewed' \in [DBs -> [Hashes -> Viewed]] /\ dirty' \in {"none", "viewed"}
    BY <1>1, <2>3, <2>4, ViewedWrites
  <2> QED BY <1>1, <1>6, <1>15, <2>4, <2>6 DEF DBPut
<1>16. CASE SetStoragePreferences(a)
  <2>1. UNCHANGED <<disk, mem, cache>> /\ dirty' = "none" /\ req[a] = Idle
    BY <1>16 DEF SetStoragePreferences
  <2>2. \E r \in RequestType : r.at \notin LockedSteps /\ req' = [req EXCEPT ![a] = r]
    <3>1. PICK kind \in setup.switches, useJSON \in BOOLEAN :
             IF preferred(mem, kind) = useJSON
               THEN UNCHANGED req
               ELSE req' = [req EXCEPT ![a] = [Idle EXCEPT !.at = "switch", !.op = kind,
                                                          !.got = useJSON]]
      BY <1>16 DEF SetStoragePreferences
    <3> DEFINE r == [Idle EXCEPT !.at = "switch", !.op = kind, !.got = useJSON]
    <3>2. UNCHANGED req \/ req' = [req EXCEPT ![a] = r]
      BY <3>1
    <3>3. kind \in {"settings", "viewed"}
      BY <1>2
    <3>4. r \in SwitchRequests
      BY <3>3 DEF Idle, SwitchRequests, SwitchSteps
    <3>5. r.at = "switch"
      BY DEF Idle
    <3> HIDE DEF r
    <3>6. r \in RequestType /\ r.at \notin LockedSteps
      BY <3>4, <3>5 DEF RequestType, LockedSteps
    <3>7. CASE UNCHANGED req
      BY <1>6, <1>9, <2>1, <3>7
    <3> QED BY <3>2, <3>6, <3>7
  <2> QED BY <1>1, <2>1, <2>2 DEF disk
<1>17. CASE ApplySettings(a)
  <2>1. UNCHANGED <<disk, cache, req>> /\ dirty' = "none" /\ req[a] = Idle
    BY <1>17 DEF ApplySettings
  <2>2. mem' \in Settings
    BY <1>1, <1>2, <1>17 DEF ApplySettings, Settings
  <2> QED BY <1>1, <1>6, <1>9, <2>1, <2>2 DEF disk
<1>18. CASE ResetDefaultSettings(a)
  <2>1. /\ UNCHANGED <<viewed, torrents, legacy, cache, req>> /\ req[a] = Idle
        /\ SetBTSets(SetDefaultConfig)
    BY <1>18 DEF ResetDefaultSettings
  <2>2. /\ stored' \in [DBs -> Settings \cup {NoData}] /\ mem' \in Settings
        /\ dirty' \in {"none", "settings"}
    BY <1>1, <2>1, SetBTSetsType, Constants
  <2> QED BY <1>1, <1>6, <1>9, <2>1, <2>2
<1> QED BY <1>11, <1>12, <1>13, <1>14, <1>15, <1>16, <1>17, <1>18

\* The steps under dbMigrationLock are typed (SwitchSettingsStorage,
\* SwitchViewedStorage).
LEMMA LockedTypes ==
  ASSUME TypeInv, NEW a \in Actors,
         \/ SwitchSettingsStorage(a) \/ CopySettings(a) \/ SwitchViewedStorage(a)
         \/ CopyViewed(a) \/ ClearSwitched(a) \/ SaveViewed(a)
  PROVE  DiskOK' /\ ProcessOK' /\ Exclusive' /\ req' \in [Actors -> RequestType] /\ UNCHANGED bounds
<1>1. /\ stored \in [DBs -> Settings \cup {NoData}] /\ viewed \in [DBs -> [Hashes -> Viewed]]
      /\ torrents \subseteq OldTorrents /\ legacy \subseteq OldTorrents
      /\ mem \in Settings /\ cache \in [Hashes -> Viewed \cup {Uncached}]
      /\ route \in [settings : DBs, viewed : DBs] /\ job \in Jobs \cup {NoJob}
      /\ req \in [Actors -> RequestType]
  BY DEF TypeInv, TypeOK, DiskOK, ProcessOK, RequestType
<1>2. req[a].at \in SwitchSteps /\ pc = "serve"
  BY DEF SwitchSettingsStorage, CopySettings, SwitchViewedStorage, CopyViewed, ClearSwitched,
         SaveViewed, SwitchSteps
<1>3. req[a] \in SwitchRequests
  BY <1>1, <1>2, RequestKinds DEF RequestType
<1>4. req[a].got \in BOOLEAN /\ req[a].op \in {"settings", "viewed"}
  BY <1>3 DEF SwitchRequests
<1>5. UNCHANGED <<torrents, legacy, cache, route, pc, boot, todo, bounds>>
  BY DEF SwitchSettingsStorage, CopySettings, SwitchViewedStorage, CopyViewed, ClearSwitched,
         SaveViewed, disk
<1>6. SUFFICES /\ stored' \in [DBs -> Settings \cup {NoData}]
               /\ viewed' \in [DBs -> [Hashes -> Viewed]]
               /\ mem' \in Settings /\ dirty' \in {"none", "settings", "viewed"}
               /\ job' \in Jobs \cup {NoJob} /\ lock' \in Actors \cup {NoActor}
               /\ Exclusive' /\ req' \in [Actors -> RequestType]
  BY <1>1, <1>5, <1>6 DEF TypeInv, TypeOK, DiskOK, ProcessOK
<1>7. Idle \in RequestType /\ Idle.at \notin LockedSteps /\ Idle.at # "copyViewed"
  BY DEF RequestType, Idle, LockedSteps
<1>8. ASSUME NEW l \in LockedSteps
      PROVE  [req[a] EXCEPT !.at = l] \in RequestType /\ [req[a] EXCEPT !.at = l].at = l
  <2>1. l \in SwitchSteps
    BY DEF LockedSteps, SwitchSteps
  <2> QED BY <1>3, <2>1, RequestGoesOn DEF RequestType, SwitchRequests
<1>9. \A s \in Settings, kind \in {"settings", "viewed"}, b \in BOOLEAN : prefer(s, kind, b) \in Settings
  BY DEF prefer, Settings
<1>10. req[a].at \in LockedSteps => lock = a
  BY DEF TypeInv, Exclusive
<1>11. CASE SwitchSettingsStorage(a)
  <2> DEFINE s == prefer(mem, "settings", req[a].got)
             r == [req[a] EXCEPT !.at = "copySettings"]
  <2>1. lock = NoActor /\ lock' = a /\ SetBTSets(s) /\ UNCHANGED <<viewed, job>>
    BY <1>11 DEF SwitchSettingsStorage
  <2>2. req' = [req EXCEPT ![a] = r]
    BY <1>1, <1>11 DEF SwitchSettingsStorage, Goto
  <2>3. r \in RequestType /\ r.at = "copySettings"
    BY <1>8 DEF LockedSteps
  <2>4. s \in Settings
    BY <1>1, <1>4, <1>9
  <2> HIDE DEF s, r
  <2>5. /\ stored' \in [DBs -> Settings \cup {NoData}] /\ mem' \in Settings
        /\ dirty' \in {"none", "settings"}
    BY <1>1, <2>1, <2>4, SetBTSetsType
  <2>6. Exclusive' /\ req' \in [Actors -> RequestType]
    BY <1>2, <1>5, <2>1, <2>2, <2>3, OneMoves
  <2> QED BY <1>1, <2>1, <2>5, <2>6
<1>12. CASE CopySettings(a)
  <2> DEFINE dst == DBFor(req[a].got)
             src == Other(dst)
  <2>1. /\ lock' = NoActor /\ req' = [req EXCEPT ![a] = Idle] /\ UNCHANGED <<viewed, mem, job>>
        /\ req[a].at = "copySettings"
        /\ writeSettings(dst, stored[src]) \/ (UNCHANGED stored /\ dirty' = "none")
    BY <1>12 DEF CopySettings
  <2>2. dst \in DBs /\ src \in DBs
    BY Databases
  <2>3. stored[src] \in Settings \cup {NoData}
    BY <1>1, <2>2
  <2> HIDE DEF dst, src
  <2>4. stored' \in [DBs -> Settings \cup {NoData}] /\ dirty' \in {"none", "settings"}
    BY <1>1, <2>1, <2>2, <2>3, SettingsWrites
  <2>5. lock = a
    BY <1>10, <2>1 DEF LockedSteps
  <2>6. Exclusive' /\ req' \in [Actors -> RequestType]
    BY <1>2, <1>5, <1>7, <2>1, <2>5, OneMoves
  <2> QED BY <1>1, <2>1, <2>4, <2>6
<1>13. CASE SwitchViewedStorage(a)
  <2> DEFINE r == [req[a] EXCEPT !.at = "copyViewed"]
             j == newJob(Other(DBFor(req[a].got)), DBFor(req[a].got))
  <2>1. lock = NoActor /\ lock' = a /\ UNCHANGED <<stored, viewed, mem>> /\ dirty' = "none" /\ job' = j
    BY <1>13 DEF SwitchViewedStorage, disk
  <2>2. req' = [req EXCEPT ![a] = r]
    BY <1>1, <1>13 DEF SwitchViewedStorage, Goto
  <2>3. r \in RequestType /\ r.at = "copyViewed"
    BY <1>8 DEF LockedSteps
  <2>4. j \in Jobs
    BY Databases, NewJobType
  <2> HIDE DEF r, j
  <2>5. job' # NoJob
    BY <2>1, <2>4, StorageAssumption
  <2>6. Exclusive' /\ req' \in [Actors -> RequestType]
    BY <1>2, <1>5, <2>1, <2>2, <2>3, <2>5, OneMoves
  <2> QED BY <1>1, <2>1, <2>4, <2>6
<1>14. CASE CopyViewed(a)
  <2>1. /\ req[a].at = "copyViewed" /\ UNCHANGED <<stored, mem, lock, req>>
    BY <1>14 DEF CopyViewed
  <2>2. PICK h \in job.todo : migrateEntry(h)
    BY <1>14 DEF CopyViewed
  <2>3. job \in Jobs
    BY <1>1, <2>1 DEF TypeInv, Exclusive
  <2>4. viewed' \in [DBs -> [Hashes -> Viewed]] /\ dirty' \in {"none", "viewed"} /\ job' \in Jobs
    BY <1>1, <2>2, <2>3, EntryCopied
  <2>5. lock = a
    BY <1>10, <2>1 DEF LockedSteps
  <2>6. Exclusive'
    BY <1>2, <1>5, <2>1, <2>4, StorageAssumption DEF TypeInv, Exclusive
  <2>7. lock' \in Actors \cup {NoActor}
    BY <2>1, <2>5
  <2> QED BY <1>1, <2>1, <2>4, <2>6, <2>7
<1>15. CASE ClearSwitched(a)
  <2>1. req[a].at = "copyViewed" /\ job' = NoJob /\ UNCHANGED <<stored, mem>>
    BY <1>15 DEF ClearSwitched
  <2>2. lock = a
    BY <1>10, <2>1 DEF LockedSteps
  <2>3. job \in Jobs
    BY <1>1, <2>1 DEF TypeInv, Exclusive
  <2>4. CASE job.failed
    <3>1. req' = [req EXCEPT ![a] = Idle] /\ lock' = NoActor /\ viewed' = viewed /\ dirty' = "none"
      BY <1>15, <2>4 DEF ClearSwitched
    <3>2. Exclusive' /\ req' \in [Actors -> RequestType]
      BY <1>2, <1>5, <1>7, <2>2, <3>1, OneMoves
    <3> QED BY <1>1, <2>1, <3>1, <3>2
  <2>5. CASE ~job.failed
    <3> DEFINE r == [req[a] EXCEPT !.at = "saveViewed"]
    <3>1. writeViewed(job.src, NoEntries) /\ req' = [req EXCEPT ![a] = r] /\ lock' = lock
      BY <1>1, <1>15, <2>5 DEF ClearSwitched, Goto
    <3>2. r \in RequestType /\ r.at = "saveViewed"
      BY <1>8 DEF LockedSteps
    <3> HIDE DEF r
    <3>3. Exclusive' /\ req' \in [Actors -> RequestType]
      BY <1>2, <1>5, <2>2, <3>1, <3>2, OneMoves
    <3>4. job.src \in DBs
      BY <2>3 DEF Jobs
    <3>5. viewed' \in [DBs -> [Hashes -> Viewed]] /\ dirty' \in {"none", "viewed"}
      BY <1>1, <3>1, <3>4, ViewedWrites, Constants
    <3>6. lock' \in Actors \cup {NoActor}
      BY <2>2, <3>1
    <3> QED BY <1>1, <2>1, <3>3, <3>5, <3>6
  <2> QED BY <2>4, <2>5
<1>16. CASE SaveViewed(a)
  <2> DEFINE s == prefer(mem, "viewed", req[a].got)
  <2>1. /\ req[a].at = "saveViewed" /\ lock' = NoActor /\ SetBTSets(s) /\ UNCHANGED <<viewed, job>>
        /\ req' = [req EXCEPT ![a] = Idle]
    BY <1>16 DEF SaveViewed
  <2>2. s \in Settings
    BY <1>1, <1>4, <1>9
  <2> HIDE DEF s
  <2>3. /\ stored' \in [DBs -> Settings \cup {NoData}] /\ mem' \in Settings
        /\ dirty' \in {"none", "settings"}
    BY <1>1, <2>1, <2>2, SetBTSetsType
  <2>4. lock = a
    BY <1>10, <2>1 DEF LockedSteps
  <2>5. Exclusive' /\ req' \in [Actors -> RequestType]
    BY <1>2, <1>5, <1>7, <2>1, <2>4, OneMoves
  <2> QED BY <1>1, <2>1, <2>3, <2>5
<1> QED BY <1>11, <1>12, <1>13, <1>14, <1>15, <1>16

\* The end of the process leaves a typed state.
LEMMA EndTypes ==
  ASSUME TypeInv, Stop \/ Crash
  PROVE  /\ DiskOK' /\ ProcessOK' /\ Exclusive' /\ req' \in [Actors -> RequestType]
         /\ crashes' \in Nat /\ sessions' \in Nat
<1>1. gone /\ UNCHANGED <<torrents, legacy, sessions>>
  BY DEF Stop, Crash, disk, bounds
<1>2. viewed' = viewed \/ viewed' = [viewed EXCEPT !["json"] = NoEntries]
  BY DEF Stop, Crash, disk
<1>3. stored' = stored \/ stored' = [stored EXCEPT !["json"] = NoData]
  BY DEF Stop, Crash, disk
<1>4. DiskOK'
  BY <1>1, <1>2, <1>3, Constants DEF TypeInv, TypeOK, DiskOK
<1>5. ProcessOK'
  BY <1>1, Constants DEF gone, ProcessOK, DBs
<1>6. Exclusive' /\ req' \in [Actors -> RequestType]
  BY <1>1 DEF gone, Exclusive, RequestType, Idle, LockedSteps
<1>7. crashes' \in Nat /\ sessions' \in Nat
  BY <1>1 DEF Stop, Crash, TypeInv, TypeOK, bounds
<1> QED BY <1>4, <1>5, <1>6, <1>7

\* What the properties remember is typed.
LEMMA HistoryTypes ==
  ASSUME TypeInv, Next, DiskOK'
  PROVE  HistoryOK'
<1> USE DEF disk, bounds, history
<1>1. /\ marks \in [Hashes -> SUBSET Indexes] /\ refused \subseteq OldTorrents
      /\ touched \subseteq Hashes /\ raced \subseteq Hashes
      /\ found \in [dst : DBs \cup {"none"}, entries : [DBs -> [Hashes -> Viewed]]]
  BY DEF TypeInv, TypeOK, HistoryOK
<1>2. viewed \in [DBs -> [Hashes -> Viewed]] /\ todo \subseteq OldTorrents
      /\ req \in [Actors -> RequestType]
  BY DEF TypeInv, TypeOK, DiskOK, ProcessOK, RequestType
<1>3. CASE InitSets
  <2>1. CASE Start
    BY <1>1, <1>2, <2>1, Databases DEF Start, HistoryOK
  <2>2. CASE ListViewed
    BY <1>1, <2>2 DEF ListViewed, HistoryOK
  <2>3. CASE LoadBTSets
    <3>1. NothingFound \in [dst : DBs \cup {"none"}, entries : [DBs -> [Hashes -> Viewed]]]
      BY Constants DEF NothingFound
    <3> QED BY <1>1, <2>3, <3>1 DEF LoadBTSets, HistoryOK
  <2>4. CASE ImportTorrent
    BY <1>1, <1>2, <2>4 DEF ImportTorrent, HistoryOK
  <2>5. CASE \/ MigrateSettings \/ ClearSettings \/ MigrateViewed \/ ClearViewed
             \/ UpdatePreferences \/ RemoveLegacy \/ ApplyConfig
    BY <1>1, <2>5 DEF MigrateSettings, ClearSettings, MigrateViewed, ClearViewed,
         UpdatePreferences, RemoveLegacy, ApplyConfig, HistoryOK
  <2> QED BY <1>3, <2>1, <2>2, <2>3, <2>4, <2>5 DEF InitSets
<1>4. CASE \E a \in Actors : Request(a)
  <2>1. PICK a \in Actors : Request(a)
    BY <1>4
  <2>2. CASE SetViewed(a) \/ RemViewed(a)
    <3>1. PICK op \in {"set", "rem", "forget"}, h \in Hashes, i \in setup.indexes \cup {NoData} :
            Get(a, op, h, i)
      BY <2>2 DEF SetViewed, RemViewed
    <3> QED BY <1>1, <3>1 DEF Get, HistoryOK
  <2>3. CASE DBPut(a)
    <3>1. req[a] \in ViewedRequests
      BY <1>2, <2>3, RequestKinds DEF DBPut, ViewedSteps, RequestType
    <3>2. req[a].h \in Hashes /\ (req[a].op = "set" => req[a].i \in Indexes)
      BY <3>1 DEF ViewedRequests
    <3>3. \/ marks' = marks
          \/ marks' = [marks EXCEPT ![req[a].h] = IF req[a].op = "set" THEN @ \cup {req[a].i}
                                          ELSE IF req[a].op = "rem" THEN @ \ {req[a].i} ELSE {}]
      BY <2>3 DEF DBPut
    <3>4. marks' \in [Hashes -> SUBSET Indexes]
      BY <1>1, <3>2, <3>3
    <3>5. touched' \subseteq Hashes /\ UNCHANGED <<refused, found, raced>>
      BY <1>1, <2>3 DEF DBPut
    <3> QED BY <1>1, <3>4, <3>5 DEF HistoryOK
  <2>4. CASE SwitchViewedStorage(a)
    BY <1>1, <2>4 DEF SwitchViewedStorage, HistoryOK
  <2>5. CASE \/ Fill(a) \/ CachePut(a) \/ SetStoragePreferences(a) \/ SwitchSettingsStorage(a)
             \/ CopySettings(a) \/ CopyViewed(a) \/ ClearSwitched(a) \/ SaveViewed(a)
             \/ ApplySettings(a) \/ ResetDefaultSettings(a)
    BY <1>1, <2>5 DEF Fill, CachePut, SetStoragePreferences, SwitchSettingsStorage, CopySettings,
         CopyViewed, ClearSwitched, SaveViewed, ApplySettings, ResetDefaultSettings, HistoryOK
  <2> QED BY <2>1, <2>2, <2>3, <2>4, <2>5 DEF Request
<1>5. CASE Stop \/ Crash
  BY <1>1, <1>5 DEF Stop, Crash, gone, HistoryOK
<1> QED BY <1>3, <1>4, <1>5 DEF Next

LEMMA TypeStep ==
  ASSUME TypeInv, [Next]_vars
  PROVE  TypeInv'
<1>1. CASE Next /\ InitSets
  BY <1>1, InitSetsTypes, HistoryTypes DEF TypeInv, TypeOK, Next
<1>2. CASE Next /\ \E a \in Actors : Request(a)
  <2>1. PICK a \in Actors : Request(a)
    BY <1>2
  <2>2. DiskOK' /\ ProcessOK' /\ Exclusive' /\ req' \in [Actors -> RequestType] /\ UNCHANGED bounds
    BY <2>1, UnlockedTypes, LockedTypes DEF Request
  <2> QED BY <1>2, <2>2, HistoryTypes DEF TypeInv, TypeOK, Next, bounds, RequestType
<1>3. CASE Next /\ (Stop \/ Crash)
  BY <1>3, EndTypes, HistoryTypes DEF TypeInv, TypeOK, Next, RequestType
<1>4. CASE UNCHANGED vars
  BY <1>4 DEF TypeInv, TypeOK, DiskOK, ProcessOK, HistoryOK, Exclusive, vars
<1> QED BY <1>1, <1>2, <1>3, <1>4 DEF Next

LEMMA TypeInit == Init => TypeInv
<1> SUFFICES ASSUME Init PROVE TypeInv
  OBVIOUS
<1>1. setup \in Setups /\ setup.indexes \subseteq Indexes /\ setup.old \subseteq OldTorrents
      /\ setup.prefs \subseteq Prefs
  BY StorageAssumption DEF Init, SetupFields
<1>2. PICK place \in setup.placed, v \in [Hashes -> (SUBSET setup.indexes) \cup {NoData}],
        s \in {[settingsInJSON |-> p.settingsInJSON, viewedInJSON |-> p.viewedInJSON,
                rest |-> DefaultRest] : p \in setup.prefs} \cup {NoData} :
       /\ stored = [d \in DBs |-> IF d = place[1] THEN s ELSE NoData]
       /\ viewed = [d \in DBs |-> IF d = place[2] THEN v ELSE NoEntries]
       /\ marks = [h \in Hashes |-> IF v[h] = NoData THEN {} ELSE v[h]]
  BY DEF Init
<1>3. s \in Settings \cup {NoData}
  BY <1>1, StorageAssumption DEF Settings, Prefs
<1>4. v \in [Hashes -> Viewed]
  BY <1>1 DEF Viewed
<1>5. marks \in [Hashes -> SUBSET Indexes]
  BY <1>1, <1>2
<1>6. DiskOK
  BY <1>1, <1>2, <1>3, <1>4, Constants DEF DiskOK, Init
<1>9. HistoryOK
  BY <1>5, Constants DEF HistoryOK, NothingFound, Init
<1>7. ProcessOK
  BY Constants DEF Init, ProcessOK, DBs
<1>8. Exclusive /\ req \in [Actors -> {Idle} \cup ViewedRequests \cup SwitchRequests]
  BY DEF Init, Exclusive, Idle, LockedSteps
<1> QED BY <1>1, <1>6, <1>7, <1>8, <1>9 DEF TypeInv, TypeOK, Init

LEMMA TypesAlways == Spec => []TypeInv
<1>1. TypeInv /\ [Next]_vars => TypeInv'
  BY TypeStep
<1> QED BY TypeInit, <1>1, PTL DEF Spec

\* Every state is well typed, for any number of requests at a time; in particular
\* the holder of dbMigrationLock is the only one in a switch.
THEOREM TypeCorrect == Spec => []TypeOK
<1>1. TypeInv => TypeOK
  BY DEF TypeInv
<1> QED BY TypesAlways, <1>1, PTL

-----------------------------------------------------------------------------
(* No source is cleared too early.  A start counts what it has copied, and *)
(* counts as many entries as it has passed only when every one of them is  *)
(* in the target; a switch remembers that one failed.  What the requests   *)
(* change meanwhile is set apart.                                          *)

\* The entries the migration has passed.
Done == List(job.src) \ job.todo

Copied == \A h \in Done \ touched : viewed[job.dst][h] = viewed[job.src][h]

CopyUnderWay == job.src # job.dst /\ job.todo \subseteq List(job.src) \cup touched

AllCounted ==
  /\ job.migrated <= Cardinality(Done)
  /\ job.migrated = Cardinality(Done) => Copied

NoneFailed == ~job.failed => Copied

SettingsCopied ==
  LET dst == DBFor(boot.settingsInJSON) IN stored[dst] = stored[Other(dst)]

SourceInv ==
  /\ pc = "clearSettings" => SettingsCopied
  /\ pc = "migrateViewed" => touched = {} /\ CopyUnderWay /\ AllCounted
  /\ \A a \in Actors : req[a].at = "copyViewed" => CopyUnderWay /\ NoneFailed

LEMMA DoneFinite ==
  ASSUME job \in Jobs
  PROVE  IsFiniteSet(Done) /\ Cardinality(Done) \in Nat
<1>1. Done \subseteq Hashes
  BY DEF Done, List
<1>2. IsFiniteSet(Done)
  BY <1>1, StorageAssumption, FS_Subset
<1> QED BY <1>2, FS_CardinalityType

\* A step of a migration passes one entry: copied, or already there, or failed.  A
\* write that fails and empties the target counts as a failure.
LEMMA EntryPassed ==
  ASSUME TypeInv, job \in Jobs, CopyUnderWay, NEW h \in job.todo, migrateEntry(h),
         touched' = touched
  PROVE  /\ CopyUnderWay'
         /\ touched = {} /\ AllCounted => AllCounted'
         /\ NoneFailed => NoneFailed'
<1> DEFINE src == viewed[job.src]
           dst == viewed[job.dst]
           copy == [dst EXCEPT ![h] = src[h]]
           verified == viewed'[job.dst][h] = src[h]
<1>1. /\ viewed \in [DBs -> [Hashes -> Viewed]] /\ job.src \in DBs /\ job.dst \in DBs
      /\ job.todo \in SUBSET Hashes /\ h \in Hashes /\ job.migrated \in Nat
      /\ job.failed \in BOOLEAN
  BY DEF TypeInv, TypeOK, DiskOK, Jobs
<1>2. /\ job'.src = job.src /\ job'.dst = job.dst /\ job'.todo = job.todo \ {h} /\ job' \in Jobs
      /\ \A e \in DBs \ {job.dst} : viewed'[e] = viewed[e]
  BY <1>1, EntryCopied
<1>3. viewed'[job.src] = src /\ job.src # job.dst
  BY <1>1, <1>2 DEF CopyUnderWay
<1>4. List(job.src)' = List(job.src)
  BY <1>2, <1>3 DEF List
<1>5. src[h] = NoData => h \in touched
  BY <1>1 DEF CopyUnderWay, List
<1>6. CopyUnderWay'
  BY <1>2, <1>3, <1>4 DEF CopyUnderWay
<1>7. Done' \subseteq Done \cup {h} /\ h \notin Done
  BY <1>2, <1>4 DEF Done
<1>8. touched = {} => Cardinality(Done') = Cardinality(Done) + 1 /\ Cardinality(Done) \in Nat
  <2>1. touched = {} => Done' = Done \cup {h}
    BY <1>1, <1>2, <1>4, <1>5 DEF Done, List
  <2> QED BY <1>7, <2>1, DoneFinite, FS_AddElement
<1>9. (\A g \in (Done \cup {h}) \ touched : viewed'[job.dst][g] = src[g]) => Copied'
  BY <1>2, <1>3, <1>7 DEF Copied
<1>10. CASE needsMigration(src[h], dst[h])
  <2>1. /\ writeViewed(job.dst, copy)
        /\ job' = [job EXCEPT !.todo = @ \ {h}, !.migrated = IF verified THEN @ + 1 ELSE @,
                              !.failed = @ \/ ~verified]
    BY <1>10 DEF migrateEntry
  <2>2. copy \in [Hashes -> Viewed]
    BY <1>1
  <2>3. viewed'[job.dst] \in {copy, dst, NoEntries}
    BY <1>1, <2>1, <2>2, ViewedWrites
  <2>4. CASE verified
    <3>1. viewed'[job.dst] = copy
      BY <1>1, <1>10, <2>3, <2>4 DEF NoEntries, needsMigration
    <3>2. Copied => Copied'
      BY <1>1, <1>9, <3>1 DEF Copied, Done, List
    <3>3. job'.migrated = job.migrated + 1 /\ job'.failed = job.failed
      BY <1>1, <2>1, <2>4 DEF Jobs
    <3>4. touched = {} /\ AllCounted => AllCounted'
      BY <1>1, <1>8, <3>2, <3>3 DEF AllCounted
    <3>5. NoneFailed => NoneFailed'
      BY <3>2, <3>3 DEF NoneFailed
    <3> QED BY <1>6, <3>4, <3>5
  <2>5. CASE ~verified
    <3>1. job'.migrated = job.migrated /\ job'.failed
      BY <1>1, <2>1, <2>5 DEF Jobs
    <3>2. touched = {} /\ AllCounted => AllCounted'
      BY <1>1, <1>8, <3>1 DEF AllCounted
    <3>3. NoneFailed => NoneFailed'
      BY <3>1 DEF NoneFailed
    <3> QED BY <1>6, <3>2, <3>3
  <2> QED BY <2>4, <2>5
<1>11. CASE ~needsMigration(src[h], dst[h])
  <2>1. job' = [job EXCEPT !.todo = @ \ {h}] /\ viewed' = viewed
    BY <1>11 DEF migrateEntry
  <2>2. job'.migrated = job.migrated /\ job'.failed = job.failed
    BY <2>1 DEF Jobs
  <2>3. h \in touched \/ dst[h] = src[h]
    BY <1>5, <1>11 DEF needsMigration
  <2>4. Copied => Copied'
    BY <1>9, <2>1, <2>3 DEF Copied
  <2>5. touched = {} /\ AllCounted => AllCounted'
    BY <1>1, <1>8, <2>2 DEF AllCounted
  <2>6. NoneFailed => NoneFailed'
    BY <2>2, <2>4 DEF NoneFailed
  <2> QED BY <1>6, <2>5, <2>6
<1> QED BY <1>10, <1>11

\* A migration begins with nothing passed.
LEMMA NewJobCounts ==
  ASSUME NEW d \in DBs, viewed' = viewed, job' = newJob(Other(d), d)
  PROVE  (CopyUnderWay /\ AllCounted /\ NoneFailed)'
<1>1. /\ job'.src = Other(d) /\ job'.dst = d /\ job'.todo = List(Other(d)) /\ job'.migrated = 0
  BY DEF newJob
<1>2. Other(d) # d
  BY Databases
<1>3. List(job.src)' = List(Other(d))
  BY <1>1 DEF List
<1>4. Done' = {}
  BY <1>1, <1>3 DEF Done
<1>5. Cardinality(Done') = 0
  BY <1>4, FS_EmptySet
<1>6. Copied'
  BY <1>4 DEF Copied
<1> QED BY <1>1, <1>2, <1>3, <1>5, <1>6 DEF CopyUnderWay, AllCounted, NoneFailed

LEMMA SourceStepInitSets ==
  ASSUME TypeInv, SourceInv, InitSets
  PROVE  SourceInv'
<1> USE DEF disk, bounds, history
<1>1. pc # "serve"
  BY DEF InitSets, Start, MigrateSettings, ClearSettings, ListViewed, MigrateViewed, ClearViewed,
         LoadBTSets, UpdatePreferences, ImportTorrent, RemoveLegacy, ApplyConfig
<1>2. \A a \in Actors : req[a].at # "copyViewed"
  BY <1>1 DEF TypeInv, Exclusive, Idle
<1>3. req' = req
  BY InitSetsTypes
<1>4. SUFFICES /\ pc' = "clearSettings" => SettingsCopied'
               /\ pc' = "migrateViewed" => (touched = {} /\ CopyUnderWay /\ AllCounted)'
  BY <1>2, <1>3 DEF SourceInv
<1>5. CASE MigrateSettings
  <2>1. SUFFICES ASSUME pc' = "clearSettings" PROVE SettingsCopied'
    BY <1>5 DEF MigrateSettings
  <2> DEFINE dst == DBFor(boot.settingsInJSON)
             src == Other(dst)
  <2>2. /\ writeSettings(dst, stored[src]) /\ stored'[dst] = stored[src] /\ boot' = boot
    BY <1>5, <2>1 DEF MigrateSettings
  <2>3. dst \in DBs /\ src \in DBs /\ src # dst
    BY Databases
  <2>4. stored \in [DBs -> Settings \cup {NoData}] /\ stored[src] \in Settings \cup {NoData}
    BY <2>3 DEF TypeInv, TypeOK, DiskOK
  <2>5. stored'[dst] = stored'[src]
    <3> HIDE DEF dst, src
    <3> QED BY <2>2, <2>3, <2>4, SettingsWrites
  <2> QED BY <2>2, <2>5 DEF SettingsCopied
<1>6. CASE ListViewed
  <2>1. viewed' = viewed /\ pc' = "migrateViewed" /\ touched' = {}
        /\ job' = newJob(Other(DBFor(boot.viewedInJSON)), DBFor(boot.viewedInJSON))
    BY <1>6 DEF ListViewed
  <2>2. DBFor(boot.viewedInJSON) \in DBs
    BY Databases
  <2> QED BY <2>1, <2>2, NewJobCounts
<1>7. CASE MigrateViewed
  <2>1. PICK h \in job.todo : migrateEntry(h)
    BY <1>7 DEF MigrateViewed
  <2>2. pc = "migrateViewed" /\ pc' = pc /\ touched' = touched
    BY <1>7 DEF MigrateViewed
  <2>3. job \in Jobs
    BY <2>2 DEF TypeInv, TypeOK, ProcessOK, Exclusive
  <2>4. touched = {} /\ CopyUnderWay /\ AllCounted
    BY <2>2 DEF SourceInv
  <2>5. CopyUnderWay' /\ AllCounted'
    BY <2>1, <2>2, <2>3, <2>4, EntryPassed
  <2> QED BY <2>2, <2>4, <2>5, <1>7 DEF MigrateViewed
<1>8. CASE InitSets /\ ~MigrateSettings /\ ~ListViewed /\ ~MigrateViewed
  <2>1. pc' \notin {"clearSettings", "migrateViewed"}
    BY <1>8 DEF InitSets, Start, ClearSettings, ClearViewed, LoadBTSets, UpdatePreferences,
                ImportTorrent, RemoveLegacy, ApplyConfig
  <2> QED BY <2>1
<1> QED BY <1>5, <1>6, <1>7, <1>8

\* A request leaves a migration alone, but for the entries it changes.
LEMMA TouchedApart ==
  ASSUME job' = job, touched \subseteq touched', CopyUnderWay, NoneFailed,
         \A d \in DBs, h \in Hashes \ touched' : viewed'[d][h] = viewed[d][h],
         job \in Jobs
  PROVE  (CopyUnderWay /\ NoneFailed)'
<1>1. job.src \in DBs /\ job.dst \in DBs /\ job.todo \subseteq Hashes
  BY DEF Jobs
<1>2. \A h \in Hashes \ touched' : h \in List(job.src)' <=> h \in List(job.src)
  BY <1>1 DEF List
<1>3. CopyUnderWay'
  BY <1>1, <1>2 DEF CopyUnderWay
<1>4. \A h \in Done' \ touched' : h \in Done \ touched
  BY <1>1, <1>2 DEF Done, List
<1>5. Done' \subseteq Hashes
  BY DEF Done, List
<1>6. Copied => Copied'
  BY <1>1, <1>4, <1>5 DEF Copied
<1> QED BY <1>3, <1>6 DEF NoneFailed

LEMMA SourceStepRequest ==
  ASSUME TypeInv, SourceInv, NEW a \in Actors, Request(a)
  PROVE  SourceInv'
<1> USE DEF disk, history
<1>1. pc = "serve" /\ pc' = pc
  BY DEF Request, SetViewed, RemViewed, Get, Fill, CachePut, DBPut, SetStoragePreferences,
         ApplySettings, ResetDefaultSettings, UNCHANGED_process, SwitchSettingsStorage, CopySettings,
         SwitchViewedStorage, CopyViewed, ClearSwitched, SaveViewed
<1>2. SUFFICES ASSUME NEW b \in Actors, req'[b].at = "copyViewed"
               PROVE  (CopyUnderWay /\ NoneFailed)'
  BY <1>1 DEF SourceInv
<1>3. req \in [Actors -> RequestType] /\ viewed \in [DBs -> [Hashes -> Viewed]]
      /\ route.viewed \in DBs
  BY DEF TypeInv, TypeOK, DiskOK, ProcessOK, RequestType
<1>4. \A c \in Actors \ {a} : req'[c] = req[c]
  BY <1>3 DEF Request, SetViewed, RemViewed, Get, Fill, CachePut, DBPut, SetStoragePreferences,
         ApplySettings, ResetDefaultSettings, SwitchSettingsStorage, CopySettings,
         SwitchViewedStorage, CopyViewed, ClearSwitched, SaveViewed, Goto
<1>5. req[b].at = "copyViewed" => /\ lock = b /\ job \in Jobs /\ CopyUnderWay /\ NoneFailed
  BY DEF TypeInv, TypeOK, ProcessOK, Exclusive, SourceInv, LockedSteps
<1>6. CASE SwitchViewedStorage(a)
  <2>1. viewed' = viewed /\ job' = newJob(Other(DBFor(req[a].got)), DBFor(req[a].got))
    BY <1>6 DEF SwitchViewedStorage
  <2>2. DBFor(req[a].got) \in DBs
    BY Databases
  <2> QED BY <2>1, <2>2, NewJobCounts
<1>7. CASE CopyViewed(a)
  <2>1. PICK h \in job.todo : migrateEntry(h)
    BY <1>7 DEF CopyViewed
  <2>2. req[a].at = "copyViewed" /\ touched' = touched
    BY <1>7 DEF CopyViewed
  <2>3. job \in Jobs
    BY <2>2 DEF TypeInv, TypeOK, ProcessOK, Exclusive
  <2>4. CopyUnderWay /\ NoneFailed
    BY <2>2 DEF SourceInv
  <2> QED BY <2>1, <2>2, <2>3, <2>4, EntryPassed
<1>8. CASE DBPut(a)
  <2>1. req'[a] = Idle /\ job' = job
    BY <1>3, <1>8 DEF DBPut, UNCHANGED_process
  <2>2. req[b].at = "copyViewed"
    BY <1>2, <1>4, <2>1 DEF Idle
  <2> DEFINE d == route.viewed
             new == [viewed[d] EXCEPT ![req[a].h] = changed(req[a], req[a].got)]
  <2>3. req[a] \in ViewedRequests
    BY <1>3, <1>8, RequestKinds DEF DBPut, ViewedSteps, RequestType
  <2>4. new \in [Hashes -> Viewed]
    <3>1. changed(req[a], req[a].got) \in Viewed
      BY <2>3, ChangedType DEF ViewedRequests
    <3> QED BY <1>3, <3>1
  <2>5. writeViewed(d, new) /\ touched' = touched \cup {h \in Hashes : viewed'[d][h] # viewed[d][h]}
    BY <1>8 DEF DBPut
  <2> HIDE DEF new
  <2>6. \A e \in DBs \ {d} : viewed'[e] = viewed[e]
    BY <1>3, <2>4, <2>5, ViewedWrites
  <2>7. \A e \in DBs, h \in Hashes \ touched' : viewed'[e][h] = viewed[e][h]
    BY <2>5, <2>6
  <2> QED BY <1>5, <2>1, <2>2, <2>5, <2>7, TouchedApart
<1>9. CASE \/ SetViewed(a) \/ RemViewed(a) \/ Fill(a) \/ CachePut(a)
           \/ SetStoragePreferences(a) \/ ApplySettings(a) \/ ResetDefaultSettings(a)
  <2>1. req'[a].at \notin LockedSteps
    BY <1>9, UnlockedTypes
  <2>2. req[b].at = "copyViewed"
    BY <1>2, <1>4, <2>1 DEF LockedSteps
  <2>3. UNCHANGED <<viewed, job, touched>>
    BY <1>9 DEF SetViewed, RemViewed, Get, Fill, CachePut, SetStoragePreferences, ApplySettings,
                ResetDefaultSettings, UNCHANGED_process
  <2> QED BY <1>5, <2>2, <2>3, TouchedApart
<1>10. CASE SwitchSettingsStorage(a) \/ CopySettings(a) \/ ClearSwitched(a) \/ SaveViewed(a)
  <2>1. req[a].at \in SwitchSteps
    BY <1>10 DEF SwitchSettingsStorage, CopySettings, ClearSwitched, SaveViewed, SwitchSteps
  <2>2. req[a] \in SwitchRequests
    BY <1>3, <2>1, RequestKinds DEF RequestType
  <2>3. \A l : [req[a] EXCEPT !.at = l].at = l
    BY <2>2 DEF SwitchRequests
  <2>4. req'[a] = Idle \/ req'[a].at \in {"copySettings", "saveViewed"}
    BY <1>3, <1>10, <2>3 DEF SwitchSettingsStorage, CopySettings, ClearSwitched, SaveViewed, Goto
  <2>5. b # a /\ req[b].at = "copyViewed"
    BY <1>2, <1>4, <2>4 DEF Idle
  <2>6. lock = b
    BY <1>5, <2>5
  <2>7. CASE SwitchSettingsStorage(a)
    BY <2>6, <2>7, StorageAssumption DEF SwitchSettingsStorage
  <2>8. CASE CopySettings(a) \/ ClearSwitched(a) \/ SaveViewed(a)
    <3>1. lock = a
      BY <2>8 DEF CopySettings, ClearSwitched, SaveViewed, TypeInv, Exclusive, LockedSteps
    <3> QED BY <2>5, <2>6, <3>1
  <2> QED BY <1>10, <2>7, <2>8
<1> QED BY <1>6, <1>7, <1>8, <1>9, <1>10 DEF Request

LEMMA SourceStep ==
  ASSUME TypeInv, SourceInv, [Next]_vars
  PROVE  SourceInv'
<1>1. CASE \E a \in Actors : Request(a)
  BY <1>1, SourceStepRequest
<1>2. CASE Stop \/ Crash
  <2>1. pc' = "down" /\ \A a \in Actors : req'[a].at = "idle"
    BY <1>2 DEF Stop, Crash, gone, Idle
  <2> QED BY <2>1 DEF SourceInv
<1>3. CASE UNCHANGED vars
  BY <1>3 DEF vars, SourceInv, SettingsCopied, CopyUnderWay, AllCounted, NoneFailed, Copied, Done,
              List
<1> QED BY <1>1, <1>2, <1>3, SourceStepInitSets DEF Next

\* What a step forgets about a migration under way is in its target.
LEMMA ClearedIsCopied ==
  ASSUME TypeInv, SourceInv, [Next]_vars,
         job # NoJob, job' = NoJob, pc' # "down",
         NEW h \in Hashes \ touched, viewed[job.src][h] # NoData, viewed'[job.src][h] = NoData
  PROVE  viewed[job.dst][h] = viewed[job.src][h]
<1> USE DEF disk, bounds
<1>1. job \in Jobs
  BY DEF TypeInv, TypeOK, ProcessOK
<1>2. viewed' # viewed
  OBVIOUS
<1>3. CASE InitSets
  <2>1. CASE ListViewed
    BY <1>2, <2>1 DEF ListViewed
  <2>2. CASE MigrateViewed
    <3>1. PICK g \in job.todo : migrateEntry(g)
      BY <2>2 DEF MigrateViewed
    <3>2. job' \in Jobs
      BY <1>1, <3>1, EntryCopied DEF TypeInv, TypeOK, DiskOK
    <3> QED BY <3>2, StorageAssumption
  <2>3. CASE ClearViewed
    <3>1. pc = "migrateViewed" /\ job.todo = {} /\ job.migrated >= Cardinality(List(job.src))
      BY <1>2, <2>3 DEF ClearViewed
    <3>2. AllCounted
      BY <3>1 DEF SourceInv
    <3>3. Done = List(job.src) /\ h \in Done
      BY <3>1 DEF Done, List
    <3>4. job.migrated \in Nat /\ Cardinality(Done) \in Nat
      BY <1>1, DoneFinite DEF Jobs
    <3>5. Copied
      BY <3>1, <3>2, <3>3, <3>4 DEF AllCounted
    <3> QED BY <3>3, <3>5 DEF Copied
  <2>4. CASE Start \/ MigrateSettings \/ ClearSettings \/ LoadBTSets \/ UpdatePreferences
             \/ ImportTorrent \/ RemoveLegacy \/ ApplyConfig
    BY <1>2, <2>4 DEF Start, MigrateSettings, ClearSettings, LoadBTSets, UpdatePreferences,
                      ImportTorrent, RemoveLegacy, ApplyConfig
  <2> QED BY <1>3, <2>1, <2>2, <2>3, <2>4 DEF InitSets
<1>4. CASE \E a \in Actors : Request(a)
  <2>1. PICK a \in Actors : Request(a)
    BY <1>4
  <2>2. CASE ClearSwitched(a)
    <3>1. req[a].at = "copyViewed" /\ job.todo = {} /\ ~job.failed
      BY <1>2, <2>2 DEF ClearSwitched
    <3>2. Copied
      BY <3>1 DEF SourceInv, NoneFailed
    <3>3. h \in Done
      BY <3>1 DEF Done, List
    <3> QED BY <3>2, <3>3 DEF Copied
  <2>3. CASE CopyViewed(a)
    <3>1. PICK g \in job.todo : migrateEntry(g)
      BY <2>3 DEF CopyViewed
    <3>2. job' \in Jobs
      BY <1>1, <3>1, EntryCopied DEF TypeInv, TypeOK, DiskOK
    <3> QED BY <3>2, StorageAssumption
  <2>4. CASE SwitchViewedStorage(a)
    BY <1>2, <2>4 DEF SwitchViewedStorage
  <2>5. CASE SwitchSettingsStorage(a) \/ CopySettings(a) \/ SaveViewed(a)
    BY <1>2, <2>5 DEF SwitchSettingsStorage, CopySettings, SaveViewed
  <2>6. CASE \/ SetViewed(a) \/ RemViewed(a) \/ Fill(a) \/ CachePut(a) \/ DBPut(a)
             \/ SetStoragePreferences(a) \/ ApplySettings(a) \/ ResetDefaultSettings(a)
    <3>1. job' = job
      BY <2>6 DEF SetViewed, RemViewed, Get, Fill, CachePut, DBPut, SetStoragePreferences,
                  ApplySettings, ResetDefaultSettings, UNCHANGED_process
    <3> QED BY <3>1
  <2> QED BY <2>1, <2>2, <2>3, <2>4, <2>5, <2>6 DEF Request
<1>5. CASE Stop \/ Crash
  BY <1>5 DEF Stop, Crash, gone
<1>6. CASE UNCHANGED vars
  BY <1>2, <1>6 DEF vars
<1> QED BY <1>3, <1>4, <1>5, <1>6 DEF Next

\* However many requests run beside it, no migration, at a start or under way, empties
\* its source of an entry that the target does not have and no request has changed
\* meanwhile, whatever writes fail and wherever the process is killed (safeMigrate,
\* safeMigrateAll, SwitchViewedStorage).
THEOREM SourcesKept == Spec => SourceKeptUntilVerified
<1>1. Init => SourceInv
  BY DEF Init, SourceInv, Idle
<1>2. TypeInv /\ SourceInv /\ [Next]_vars => SourceInv'
  BY SourceStep
<1> DEFINE Step ==
      /\ \A h \in Hashes \ touched :
           (/\ job # NoJob /\ job' = NoJob /\ pc' # "down"
            /\ viewed[job.src][h] # NoData /\ viewed'[job.src][h] = NoData)
             => viewed[job.dst][h] = viewed[job.src][h]
      /\ pc = "clearSettings" =>
           LET dst == DBFor(boot.settingsInJSON) IN stored[dst] = stored[Other(dst)]
<1>3. TypeInv /\ SourceInv /\ [Next]_vars => Step
  BY ClearedIsCopied DEF SourceInv, SettingsCopied
<1>4. SourceKeptUntilVerified <=> [][Step]_vars
  BY DEF SourceKeptUntilVerified
<1> HIDE DEF Step
<1> QED BY <1>1, <1>2, <1>3, <1>4, TypesAlways, PTL DEF Spec

-----------------------------------------------------------------------------
(* The read cache, entry by entry.  A request changes the cache before the  *)
(* database, and between the two steps the cache is ahead by what the       *)
(* request changes.                                                         *)

Uses(a, h) == req[a].at \in ViewedSteps /\ req[a].h = h

\* At most one request uses the entry of h; what it has read is what the database has,
\* and the cache agrees with the database but for what the request is about to write.
InStep(h) ==
  /\ \A a, b \in Actors : Uses(a, h) /\ Uses(b, h) => a = b
  /\ \A a \in Actors : Uses(a, h) =>
       /\ req[a].got = viewed[route.viewed][h]
       /\ req[a].at = "dbPut" /\ cache[h] # Uncached => cache[h] = changed(req[a], req[a].got)
  /\ cache[h] # Uncached => \/ cache[h] = viewed[route.viewed][h]
                            \/ \E a \in Actors : Uses(a, h) /\ req[a].at = "dbPut"

CacheInv ==
  ~setup.faulty =>
    /\ pc \in {"update", "import", "config"} => \A h \in Hashes : cache[h] = Uncached
    /\ pc = "serve" => \A h \in Hashes \ raced : InStep(h)
    /\ \A a \in Actors : req[a].at = "copyViewed" => raced = Hashes

\* A step of a request that neither uses the entry nor changes it.
LEMMA EntryUntouched ==
  ASSUME NEW a \in Actors, NEW h, InStep(h), cache'[h] = cache[h],
         viewed'[route'.viewed][h] = viewed[route.viewed][h],
         \A b \in Actors \ {a} : req'[b] = req[b],
         ~Uses(a, h), ~Uses(a, h)'
  PROVE  InStep(h)'
<1>1. \A b \in Actors \ {a} : (Uses(b, h) <=> Uses(b, h)') /\ req'[b] = req[b]
  BY DEF Uses
<1>2. \A b \in Actors \ {a} : changed(req[b], req[b].got)' = changed(req[b], req[b].got)
  BY DEF changed
<1>3. \A b \in Actors : Uses(b, h)' => b # a
  OBVIOUS
<1>4. \A b \in Actors : Uses(b, h) => b # a
  OBVIOUS
<1>5. \A b, c \in Actors : Uses(b, h)' /\ Uses(c, h)' => b = c
  BY <1>1, <1>3 DEF InStep
<1>6. \A b \in Actors : Uses(b, h)' =>
        /\ req'[b].got = viewed'[route'.viewed][h]
        /\ req'[b].at = "dbPut" /\ cache'[h] # Uncached => cache'[h] = changed(req[b], req[b].got)'
  BY <1>1, <1>2, <1>3 DEF InStep
<1>7. cache'[h] # Uncached => \/ cache'[h] = viewed'[route'.viewed][h]
                              \/ \E b \in Actors : Uses(b, h)' /\ req'[b].at = "dbPut"
  BY <1>1, <1>4 DEF InStep
<1> QED BY <1>5, <1>6, <1>7 DEF InStep

\* The only user of an entry leaves it in step when its next request is.
LEMMA EntryInStep ==
  ASSUME NEW a \in Actors, NEW h,
         \A b \in Actors \ {a} : ~Uses(b, h)',
         Uses(a, h)' => /\ req'[a].got = viewed'[route'.viewed][h]
                        /\ req'[a].at = "dbPut" /\ cache'[h] # Uncached =>
                             cache'[h] = changed(req[a], req[a].got)',
         cache'[h] # Uncached => \/ cache'[h] = viewed'[route'.viewed][h]
                                 \/ Uses(a, h)' /\ req'[a].at = "dbPut"
  PROVE  InStep(h)'
<1>1. \A b \in Actors : Uses(b, h)' => b = a
  OBVIOUS
<1>2. \A b, c \in Actors : Uses(b, h)' /\ Uses(c, h)' => b = c
  BY <1>1
<1>3. \A b \in Actors : Uses(b, h)' =>
        /\ req'[b].got = viewed'[route'.viewed][h]
        /\ req'[b].at = "dbPut" /\ cache'[h] # Uncached => cache'[h] = changed(req[b], req[b].got)'
  BY <1>1
<1> QED BY <1>2, <1>3 DEF InStep

\* DBReadCache.Get: the request has read what the database has.
LEMMA GetInStep ==
  ASSUME TypeInv, NEW a \in Actors, NEW op, NEW g \in Hashes, NEW i, Get(a, op, g, i),
         NEW h \in Hashes \ raced', InStep(h)
  PROVE  InStep(h)' /\ req'[a].at \in {"idle", "fill", "cachePut"}
<1>1. req \in [Actors -> RequestType]
  BY DEF TypeInv, TypeOK, RequestType
<1>2. /\ req[a] = Idle /\ UNCHANGED <<cache, viewed, route>>
      /\ raced' = IF InUse(g) THEN raced \cup {g} ELSE raced
  BY DEF Get, disk, UNCHANGED_process
<1> DEFINE got == IF cache[g] # Uncached THEN cache[g] ELSE viewed[route.viewed][g]
           at == IF cache[g] # Uncached THEN afterGet(op, got) ELSE "fill"
<1>3. req' = [req EXCEPT ![a] = IF at = "idle" THEN Idle
                ELSE [at |-> at, op |-> op, h |-> g, i |-> i, got |-> got]]
  BY DEF Get
<1>4. /\ req'[a] = IF at = "idle" THEN Idle
                   ELSE [at |-> at, op |-> op, h |-> g, i |-> i, got |-> got]
      /\ \A b \in Actors \ {a} : req'[b] = req[b]
  BY <1>1, <1>3
<1>5. at \in {"idle", "fill", "cachePut"}
  BY DEF afterGet
<1>6. ~Uses(a, h)
  BY <1>2 DEF Uses, Idle, ViewedSteps
<1>7. h = g => got = viewed[route.viewed][g]
  <2>1. SUFFICES ASSUME h = g, cache[g] # Uncached PROVE cache[g] = viewed[route.viewed][g]
    OBVIOUS
  <2>2. ~InUse(h)
    BY <1>2, <2>1
  <2> QED BY <2>1, <2>2 DEF InStep, InUse, Uses
<1> HIDE DEF got, at
<1>8. /\ req'[a].at \in {"idle", "fill", "cachePut"}
      /\ req'[a].at # "idle" => req'[a].h = g /\ req'[a].got = got
  BY <1>4, <1>5 DEF Idle
<1>9. CASE h # g
  BY <1>2, <1>4, <1>6, <1>8, <1>9, EntryUntouched DEF Uses, ViewedSteps
<1>10. CASE h = g
  <2>1. ~InUse(h)
    BY <1>2, <1>10
  <2>2. \A b \in Actors \ {a} : ~Uses(b, h)'
    BY <1>4, <2>1 DEF InUse, Uses
  <2>3. cache[h] # Uncached => cache[h] = viewed[route.viewed][h]
    BY <2>1 DEF InStep, InUse, Uses
  <2>4. Uses(a, h)' => req'[a].got = viewed[route.viewed][h]
    BY <1>7, <1>8, <1>10 DEF Uses, ViewedSteps
  <2> QED BY <1>2, <1>8, <2>2, <2>3, <2>4, EntryInStep
<1> QED BY <1>8, <1>9, <1>10

\* What a request for the viewed history knows of its own entry.
LEMMA OwnEntry ==
  ASSUME TypeInv, NEW a \in Actors, req[a].at \in ViewedSteps, NEW h, InStep(h), req[a].h = h
  PROVE  /\ req[a].got = viewed[route.viewed][h]
         /\ \A b \in Actors \ {a} : ~Uses(b, h)
         /\ req[a].at = "dbPut" /\ cache[h] # Uncached => cache[h] = changed(req[a], req[a].got)
         /\ req[a].at # "dbPut" /\ cache[h] # Uncached => cache[h] = viewed[route.viewed][h]
BY DEF InStep, Uses

\* DBReadCache.Get after a miss: the cache takes what the database has.
LEMMA FillInStep ==
  ASSUME TypeInv, NEW a \in Actors, Fill(a), NEW h \in Hashes, InStep(h)
  PROVE  InStep(h)' /\ req'[a].at \in {"idle", "cachePut"}
<1>1. /\ req \in [Actors -> RequestType] /\ cache \in [Hashes -> Viewed \cup {Uncached}]
      /\ UNCHANGED <<viewed, route>> /\ req[a].at = "fill"
  BY DEF TypeInv, TypeOK, ProcessOK, RequestType, Fill, disk, UNCHANGED_process
<1>2. req[a] \in ViewedRequests
  BY <1>1, RequestKinds DEF RequestType, ViewedSteps
<1> DEFINE at == afterGet(req[a].op, req[a].got)
<1>3. /\ cache' = [cache EXCEPT ![req[a].h] = req[a].got]
      /\ req' = [req EXCEPT ![a] = IF at = "idle" THEN Idle ELSE [req[a] EXCEPT !.at = at]]
  BY DEF Fill
<1>4. at \in {"idle", "cachePut"}
  BY DEF afterGet
<1>5. /\ req'[a] = IF at = "idle" THEN Idle ELSE [req[a] EXCEPT !.at = at]
      /\ \A b \in Actors \ {a} : req'[b] = req[b]
  BY <1>1, <1>3
<1> HIDE DEF at
<1>6. /\ req'[a].at \in {"idle", "cachePut"}
      /\ req'[a].at # "idle" => req'[a].h = req[a].h /\ req'[a].got = req[a].got
  BY <1>2, <1>4, <1>5 DEF Idle, ViewedRequests
<1>7. CASE h # req[a].h
  BY <1>1, <1>3, <1>5, <1>6, <1>7, EntryUntouched DEF Uses, ViewedSteps
<1>8. CASE h = req[a].h
  <2>1. /\ req[a].got = viewed[route.viewed][h] /\ \A b \in Actors \ {a} : ~Uses(b, h)
    BY <1>1, <1>8, OwnEntry DEF ViewedSteps
  <2>2. \A b \in Actors \ {a} : ~Uses(b, h)'
    BY <1>5, <2>1 DEF Uses
  <2>3. cache'[h] = viewed'[route'.viewed][h]
    BY <1>1, <1>3, <1>8, <2>1
  <2>4. Uses(a, h)' => req'[a].got = viewed'[route'.viewed][h]
    BY <1>1, <1>6, <2>1 DEF Uses, ViewedSteps
  <2> QED BY <1>6, <2>2, <2>3, <2>4, EntryInStep
<1> QED BY <1>6, <1>7, <1>8

\* DBReadCache.Set and Rem, first half.
LEMMA CachePutInStep ==
  ASSUME TypeInv, NEW a \in Actors, CachePut(a), NEW h \in Hashes, InStep(h)
  PROVE  InStep(h)' /\ req'[a].at \in {"idle", "dbPut"}
<1>1. /\ req \in [Actors -> RequestType] /\ cache \in [Hashes -> Viewed \cup {Uncached}]
      /\ UNCHANGED <<viewed, route>> /\ req[a].at = "cachePut"
  BY DEF TypeInv, TypeOK, ProcessOK, RequestType, CachePut, disk, UNCHANGED_process
<1>2. req[a] \in ViewedRequests
  BY <1>1, RequestKinds DEF RequestType, ViewedSteps
<1>3. CASE setup.readOnly
  <2>1. cache' = cache /\ req'[a] = Idle /\ \A b \in Actors \ {a} : req'[b] = req[b]
    BY <1>1, <1>3 DEF CachePut
  <2>2. ~Uses(a, h)' /\ req'[a].at = "idle"
    BY <2>1 DEF Uses, Idle, ViewedSteps
  <2>3. CASE h # req[a].h
    BY <1>1, <2>1, <2>2, <2>3, EntryUntouched DEF Uses
  <2>4. CASE h = req[a].h
    <3>1. /\ cache[h] # Uncached => cache[h] = viewed[route.viewed][h]
          /\ \A b \in Actors \ {a} : ~Uses(b, h)
      BY <1>1, <2>4, OwnEntry DEF ViewedSteps
    <3>2. \A b \in Actors \ {a} : ~Uses(b, h)'
      BY <2>1, <3>1 DEF Uses
    <3> QED BY <1>1, <2>1, <2>2, <3>1, <3>2, EntryInStep
  <2> QED BY <2>2, <2>3, <2>4
<1>4. CASE ~setup.readOnly
  <2> DEFINE next == [req[a] EXCEPT !.at = "dbPut"]
             c == IF req[a].op = "forget" THEN Uncached ELSE changed(req[a], req[a].got)
  <2>1. /\ req'[a] = next /\ cache' = [cache EXCEPT ![req[a].h] = c]
        /\ \A b \in Actors \ {a} : req'[b] = req[b]
    BY <1>1, <1>4 DEF CachePut, Goto
  <2>2. /\ next.at = "dbPut" /\ next.h = req[a].h /\ next.got = req[a].got /\ next.op = req[a].op
        /\ next.i = req[a].i
    BY <1>2 DEF ViewedRequests
  <2>3. changed(next, next.got) = changed(req[a], req[a].got)
    BY <2>2 DEF changed
  <2>4. c = Uncached \/ c = changed(next, next.got)
    BY <2>3
  <2> HIDE DEF next, c
  <2>5. changed(req[a], req[a].got)' = changed(next, next.got)
    BY <2>1 DEF changed
  <2>6. CASE h # req[a].h
    BY <1>1, <2>1, <2>2, <2>6, EntryUntouched DEF Uses
  <2>7. CASE h = req[a].h
    <3>1. /\ req[a].got = viewed[route.viewed][h] /\ \A b \in Actors \ {a} : ~Uses(b, h)
      BY <1>1, <2>7, OwnEntry DEF ViewedSteps
    <3>2. \A b \in Actors \ {a} : ~Uses(b, h)'
      BY <2>1, <3>1 DEF Uses
    <3>3. cache'[h] = c
      BY <1>1, <2>1, <2>7
    <3>4. Uses(a, h)' /\ req'[a].at = "dbPut"
      BY <2>1, <2>2, <2>7 DEF Uses, ViewedSteps
    <3>5. /\ req'[a].got = viewed'[route'.viewed][h]
          /\ cache'[h] # Uncached => cache'[h] = changed(req[a], req[a].got)'
      BY <1>1, <2>1, <2>2, <2>4, <2>5, <3>1, <3>3
    <3> QED BY <3>2, <3>4, <3>5, EntryInStep
  <2> QED BY <2>1, <2>2, <2>6, <2>7
<1> QED BY <1>3, <1>4

\* DBReadCache.Set and Rem, second half: the database catches up.
LEMMA DBPutInStep ==
  ASSUME TypeInv, ~setup.faulty, NEW a \in Actors, DBPut(a), NEW h \in Hashes, InStep(h)
  PROVE  InStep(h)' /\ req'[a].at = "idle"
<1>1. /\ req \in [Actors -> RequestType] /\ viewed \in [DBs -> [Hashes -> Viewed]]
      /\ route.viewed \in DBs
      /\ UNCHANGED <<cache, route>> /\ req[a].at = "dbPut"
  BY DEF TypeInv, TypeOK, DiskOK, ProcessOK, RequestType, DBPut, UNCHANGED_process
<1>2. req[a] \in ViewedRequests
  BY <1>1, RequestKinds DEF RequestType, ViewedSteps
<1>3. req[a].h \in Hashes
  BY <1>2 DEF ViewedRequests
<1> DEFINE d == route.viewed
           new == [viewed[d] EXCEPT ![req[a].h] = changed(req[a], req[a].got)]
<1>4. writeViewed(d, new) /\ req'[a] = Idle /\ \A b \in Actors \ {a} : req'[b] = req[b]
  BY <1>1 DEF DBPut
<1>5. viewed' = [viewed EXCEPT ![d] = new]
  BY <1>4 DEF writeViewed, TDBWrites, JSONDBWrites
<1>6. /\ viewed'[d][req[a].h] = changed(req[a], req[a].got)
      /\ \A g \in Hashes \ {req[a].h} : viewed'[d][g] = viewed[d][g]
  BY <1>1, <1>3, <1>5
<1> HIDE DEF new
<1>7. ~Uses(a, h)' /\ req'[a].at = "idle"
  BY <1>4 DEF Uses, Idle, ViewedSteps
<1>8. CASE h # req[a].h
  BY <1>1, <1>4, <1>6, <1>7, <1>8, EntryUntouched DEF Uses
<1>9. CASE h = req[a].h
  <2>1. /\ cache[h] # Uncached => cache[h] = changed(req[a], req[a].got)
        /\ \A b \in Actors \ {a} : ~Uses(b, h)
    BY <1>1, <1>9, OwnEntry DEF ViewedSteps
  <2>2. \A b \in Actors \ {a} : ~Uses(b, h)'
    BY <1>4, <2>1 DEF Uses
  <2>3. cache'[h] # Uncached => cache'[h] = viewed'[route'.viewed][h]
    BY <1>1, <1>6, <1>9, <2>1
  <2> QED BY <1>7, <2>2, <2>3, EntryInStep
<1> QED BY <1>7, <1>8, <1>9

LEMMA CacheStepRequest ==
  ASSUME TypeInv, CacheInv, ~setup.faulty, pc = "serve", NEW a \in Actors, Request(a)
  PROVE  /\ \A h \in Hashes \ raced' : InStep(h)'
         /\ \A b \in Actors : req'[b].at = "copyViewed" => raced' = Hashes
<1> USE DEF disk, history
<1>1. /\ req \in [Actors -> RequestType] /\ raced \subseteq Hashes
      /\ \A h \in Hashes \ raced : InStep(h)
      /\ \A b \in Actors : req[b].at = "copyViewed" => raced = Hashes
  BY DEF TypeInv, TypeOK, HistoryOK, RequestType, CacheInv
<1>2. \A b \in Actors \ {a} : req'[b] = req[b]
  BY <1>1 DEF Request, SetViewed, RemViewed, Get, Fill, CachePut, DBPut, SetStoragePreferences,
         ApplySettings, ResetDefaultSettings, SwitchSettingsStorage, CopySettings,
         SwitchViewedStorage, CopyViewed, ClearSwitched, SaveViewed, Goto
<1>3. ASSUME raced \subseteq raced', raced' \subseteq Hashes, req'[a].at # "copyViewed" \/ raced' = Hashes
      PROVE  \A b \in Actors : req'[b].at = "copyViewed" => raced' = Hashes
  BY <1>1, <1>2, <1>3
<1>4. ASSUME UNCHANGED <<cache, viewed, route, raced>>, req[a].at \notin ViewedSteps,
             req'[a].at \notin ViewedSteps
      PROVE  \A h \in Hashes \ raced' : InStep(h)'
  BY <1>1, <1>2, <1>4, EntryUntouched DEF Uses
<1>5. CASE SetViewed(a) \/ RemViewed(a)
  <2>1. PICK op \in {"set", "rem", "forget"}, g \in Hashes, i \in setup.indexes \cup {NoData} :
          Get(a, op, g, i)
    BY <1>5 DEF SetViewed, RemViewed
  <2>2. raced \subseteq raced' /\ raced' \subseteq Hashes
    BY <1>1, <2>1 DEF Get
  <2>3. \A h \in Hashes \ raced' : InStep(h)'
    BY <1>1, <2>1, <2>2, GetInStep
  <2>4. req'[a].at # "copyViewed" \/ raced' = Hashes
    <3>1. CASE raced' = Hashes
      BY <3>1
    <3>2. CASE raced' # Hashes
      <4>1. PICK h \in Hashes : h \notin raced'
        BY <2>2, <3>2
      <4> QED BY <1>1, <2>1, <2>2, <4>1, GetInStep
    <3> QED BY <3>1, <3>2
  <2> QED BY <1>3, <2>2, <2>3, <2>4
<1>6. CASE Fill(a) \/ CachePut(a) \/ DBPut(a)
  <2>1. raced' = raced
    BY <1>6 DEF Fill, CachePut, DBPut
  <2>2. \A h \in Hashes \ raced' : InStep(h)'
    BY <1>1, <1>6, <2>1, FillInStep, CachePutInStep, DBPutInStep
  <2>3. req'[a].at # "copyViewed" \/ raced' = Hashes
    <3>1. CASE raced = Hashes
      BY <2>1, <3>1
    <3>2. CASE raced # Hashes
      <4>1. PICK h \in Hashes : h \notin raced
        BY <1>1, <3>2
      <4> QED BY <1>1, <1>6, <4>1, FillInStep, CachePutInStep, DBPutInStep
    <3> QED BY <3>1, <3>2
  <2> QED BY <1>1, <1>3, <2>1, <2>2, <2>3
<1>7. CASE SetStoragePreferences(a) \/ ApplySettings(a) \/ ResetDefaultSettings(a)
  <2>1. UNCHANGED <<cache, viewed, route, raced>> /\ req[a] = Idle
    BY <1>7 DEF SetStoragePreferences, ApplySettings, ResetDefaultSettings, UNCHANGED_process
  <2>2. req'[a].at \in {"idle", "switch"}
    <3>1. CASE SetStoragePreferences(a)
      <4>1. PICK kind \in setup.switches, useJSON \in BOOLEAN :
              \/ req' = req
              \/ req' = [req EXCEPT ![a] = [Idle EXCEPT !.at = "switch", !.op = kind, !.got = useJSON]]
        BY <3>1 DEF SetStoragePreferences
      <4>2. \/ req'[a] = req[a]
            \/ req'[a] = [Idle EXCEPT !.at = "switch", !.op = kind, !.got = useJSON]
        BY <1>1, <4>1
      <4>3. [Idle EXCEPT !.at = "switch", !.op = kind, !.got = useJSON].at = "switch"
        BY DEF Idle
      <4>4. Idle.at = "idle"
        BY DEF Idle
      <4> QED BY <2>1, <4>2, <4>3, <4>4
    <3>2. CASE ApplySettings(a) \/ ResetDefaultSettings(a)
      BY <2>1, <3>2 DEF ApplySettings, ResetDefaultSettings, Idle
    <3> QED BY <1>7, <3>1, <3>2
  <2>3. req[a].at \notin ViewedSteps /\ req'[a].at \notin ViewedSteps
    BY <2>1, <2>2 DEF Idle, ViewedSteps
  <2>4. \A h \in Hashes \ raced' : InStep(h)'
    BY <1>4, <2>1, <2>3
  <2>5. raced \subseteq raced' /\ raced' \subseteq Hashes
    BY <1>1, <2>1
  <2> QED BY <1>3, <2>2, <2>4, <2>5
<1>8. CASE SwitchSettingsStorage(a) \/ CopySettings(a) \/ SaveViewed(a)
  <2>1. UNCHANGED <<cache, viewed, route, raced>> /\ req[a].at \in SwitchSteps
    BY <1>8 DEF SwitchSettingsStorage, CopySettings, SaveViewed, SwitchSteps
  <2>2. req[a] \in SwitchRequests
    BY <1>1, <2>1, RequestKinds DEF RequestType
  <2>3. [req[a] EXCEPT !.at = "copySettings"].at = "copySettings"
    BY <2>2 DEF SwitchRequests
  <2>4. req'[a].at \in {"idle", "copySettings"}
    <3>1. req \in [Actors -> RequestType]
      BY <1>1
    <3>2. CASE SwitchSettingsStorage(a)
      BY <2>3, <3>1, <3>2 DEF SwitchSettingsStorage, Goto
    <3>3. CASE CopySettings(a) \/ SaveViewed(a)
      BY <3>1, <3>3 DEF CopySettings, SaveViewed, Idle
    <3> QED BY <1>8, <3>2, <3>3
  <2>5. req[a].at \notin ViewedSteps /\ req'[a].at \notin ViewedSteps
    BY <2>1, <2>4 DEF ViewedSteps, SwitchSteps
  <2>6. \A h \in Hashes \ raced' : InStep(h)'
    BY <1>4, <2>1, <2>5
  <2>7. raced \subseteq raced' /\ raced' \subseteq Hashes
    BY <1>1, <2>1
  <2>8. \A b \in Actors : req'[b].at = "copyViewed" => raced' = Hashes
    BY <1>3, <2>4, <2>7
  <2> QED BY <2>6, <2>8
<1>9. CASE SwitchViewedStorage(a)
  BY <1>9 DEF SwitchViewedStorage
<1>10. CASE CopyViewed(a) \/ ClearSwitched(a)
  <2>1. raced' = raced /\ req[a].at = "copyViewed"
    BY <1>10 DEF CopyViewed, ClearSwitched
  <2> QED BY <1>1, <2>1
<1> QED BY <1>5, <1>6, <1>7, <1>8, <1>9, <1>10 DEF Request

LEMMA CacheStep ==
  ASSUME TypeInv, CacheInv, [Next]_vars
  PROVE  CacheInv'
<1> SUFFICES ASSUME ~setup'.faulty
             PROVE  /\ pc' \in {"update", "import", "config"} => \A h \in Hashes : cache'[h] = Uncached
                    /\ pc' = "serve" => \A h \in Hashes \ raced' : InStep(h)'
                    /\ \A a \in Actors : req'[a].at = "copyViewed" => raced' = Hashes
  BY DEF CacheInv
<1>1. setup' = setup /\ ~setup.faulty
  BY DEF Next, vars
<1>2. /\ pc \in {"update", "import", "config"} => \A h \in Hashes : cache[h] = Uncached
      /\ pc = "serve" => \A h \in Hashes \ raced : InStep(h)
      /\ \A a \in Actors : req[a].at = "copyViewed" => raced = Hashes
  BY <1>1 DEF CacheInv
<1>3. CASE InitSets
  <2>1. pc # "serve" /\ req' = req
    BY <1>3, InitSetsTypes DEF InitSets, Start, MigrateSettings, ClearSettings, ListViewed,
       MigrateViewed, ClearViewed, LoadBTSets, UpdatePreferences, ImportTorrent, RemoveLegacy,
       ApplyConfig
  <2>2. \A a \in Actors : req'[a] = Idle
    BY <2>1 DEF TypeInv, Exclusive
  <2>3. \A a \in Actors : req'[a].at = "idle"
    BY <2>2 DEF Idle
  <2>4. CASE LoadBTSets
    BY <2>3, <2>4 DEF LoadBTSets
  <2>5. CASE UpdatePreferences \/ ImportTorrent \/ RemoveLegacy
    BY <1>2, <2>3, <2>5 DEF UpdatePreferences, ImportTorrent, RemoveLegacy
  <2>6. CASE ApplyConfig
    <3>1. cache' = cache /\ \A h \in Hashes : cache[h] = Uncached
      BY <1>2, <2>6 DEF ApplyConfig
    <3>2. \A h \in Hashes, a \in Actors : ~Uses(a, h)'
      BY <2>3 DEF Uses, ViewedSteps
    <3>3. \A h \in Hashes : InStep(h)'
      BY <3>1, <3>2 DEF InStep
    <3> QED BY <2>3, <2>6, <3>3 DEF ApplyConfig
  <2>7. CASE \/ Start \/ MigrateSettings \/ ClearSettings \/ ListViewed \/ MigrateViewed
             \/ ClearViewed
    BY <2>3, <2>7 DEF Start, MigrateSettings, ClearSettings, ListViewed, MigrateViewed, ClearViewed
  <2> QED BY <1>3, <2>4, <2>5, <2>6, <2>7 DEF InitSets
<1>4. CASE \E a \in Actors : Request(a)
  <2>1. PICK a \in Actors : Request(a)
    BY <1>4
  <2>2. pc = "serve" /\ pc' = pc
    BY <2>1 DEF Request, SetViewed, RemViewed, Get, Fill, CachePut, DBPut, SetStoragePreferences,
         ApplySettings, ResetDefaultSettings, UNCHANGED_process, SwitchSettingsStorage, CopySettings,
         SwitchViewedStorage, CopyViewed, ClearSwitched, SaveViewed, disk
  <2> QED BY <1>1, <2>1, <2>2, CacheStepRequest
<1>5. CASE Stop \/ Crash
  <2>1. pc' = "down" /\ \A a \in Actors : req'[a].at = "idle"
    BY <1>5 DEF Stop, Crash, gone, Idle
  <2> QED BY <2>1
<1>6. CASE UNCHANGED vars
  <2>1. \A h, a : Uses(a, h)' <=> Uses(a, h)
    BY <1>6 DEF vars, Uses
  <2>2. \A a : changed(req[a], req[a].got)' = changed(req[a], req[a].got)
    BY <1>6 DEF vars, changed
  <2>3. \A h \in Hashes : InStep(h) => InStep(h)'
    BY <1>6, <2>1, <2>2 DEF vars, InStep
  <2> QED BY <1>2, <1>6, <2>3 DEF vars
<1> QED BY <1>3, <1>4, <1>5, <1>6 DEF Next

\* On a working disk, for any number of requests at a time: the read cache never differs
\* from the database in an entry nobody is using and no two requests have used at a time
\* since the start, whatever is set, removed, hit or missed and however often the process
\* restarts (DBReadCache).
THEOREM CacheFollowsDatabase == Spec => []CacheAgrees
<1>1. Init => CacheInv
  BY DEF Init, CacheInv, Idle
<1>2. TypeInv /\ CacheInv /\ [Next]_vars => CacheInv'
  BY CacheStep
<1>3. CacheInv => CacheAgrees
  BY DEF CacheInv, CacheAgrees, InStep, InUse, Uses
<1> QED BY <1>1, <1>2, <1>3, TypesAlways, PTL DEF Spec

-----------------------------------------------------------------------------
(* The viewed history at a start.  Until the source is cleared it is what   *)
(* the start has found, and once it is cleared the target has all of it; a  *)
(* kill in between is followed by a start that goes on where it was.        *)

\* What the target held of an entry it still holds, but for a JSON file cut by a kill.
Kept(h) == \/ found.dst = "json" /\ crashes > 0
           \/ viewed[found.dst][h] = found.entries[found.dst][h]

\* The source is as it was found ...
SourceAsFound ==
  LET src == Other(found.dst) IN
  /\ viewed[src] = found.entries[src]
  /\ \A h \in Hashes : found.entries[src][h] = NoData => Kept(h)

\* ... or empty, and what it had has arrived.
Arrived ==
  LET src == Other(found.dst) IN
  \A h \in Hashes : IF found.entries[src][h] # NoData
                      THEN viewed[found.dst][h] = found.entries[src][h]
                      ELSE Kept(h)

SourceCleared == viewed[Other(found.dst)] = NoEntries /\ Arrived

\* The migration goes where the start wants the history, and has copied what it passed.
Underway ==
  /\ job.dst = found.dst /\ job.src = Other(found.dst)
  /\ \A h \in List(job.src) \ job.todo : viewed[job.dst][h] = viewed[job.src][h]

ArriveInv ==
  ~setup.faulty =>
    /\ pc \in {"migrateSettings", "clearSettings", "listViewed", "migrateViewed", "load"} =>
         found.dst = DBFor(boot.viewedInJSON)
    /\ pc \in {"update", "import", "config", "serve"} => found.dst = "none"
    /\ pc \in {"down", "migrateSettings", "clearSettings", "listViewed"} => dirty # "viewed"
    /\ found.dst # "none" => SourceAsFound \/ SourceCleared
    /\ pc = "migrateViewed" =>
         Underway /\ (dirty = "viewed" => found.dst = "json" /\ SourceAsFound)
    /\ pc = "load" =>
         Arrived /\ (dirty = "viewed" => found.dst = "bbolt" /\ SourceCleared)

\* A write of a working database is what was written.
LEMMA WorkingWrite ==
  ASSUME viewed \in [DBs -> [Hashes -> Viewed]], ~setup.faulty, NEW d \in DBs,
         NEW new \in [Hashes -> Viewed], writeViewed(d, new)
  PROVE  viewed'[d] = new /\ viewed'[Other(d)] = viewed[Other(d)]
<1>1. viewed' = [viewed EXCEPT ![d] = new]
  BY DEF writeViewed, TDBWrites, JSONDBWrites
<1> QED BY <1>1, Databases

\* A step that leaves the history alone.
LEMMA PhaseStays ==
  ASSUME UNCHANGED <<viewed, found>>, crashes \in Nat, crashes' \in Nat, crashes' >= crashes
  PROVE  /\ SourceAsFound => SourceAsFound'
         /\ SourceCleared => SourceCleared'
         /\ Arrived => Arrived'
<1>1. \A h : Kept(h) => Kept(h)'
  BY DEF Kept
<1> QED BY <1>1 DEF SourceAsFound, SourceCleared, Arrived

\* InitSets begins with what is there, or goes on with what the start before it found.
LEMMA StartArrives ==
  ASSUME TypeInv, ArriveInv, ~setup.faulty, Start
  PROVE  ArriveInv'
<1> DEFINE dst == DBFor(boot'.viewedInJSON)
<1>1. /\ pc = "down" /\ pc' = "migrateSettings" /\ dirty' = "none"
      /\ UNCHANGED <<viewed, crashes>> /\ crashes \in Nat
      /\ found' = IF found.dst = dst THEN found ELSE [dst |-> dst, entries |-> viewed]
  BY DEF Start, disk, TypeInv, TypeOK
<1>2. dst \in DBs
  BY Databases
<1> HIDE DEF dst
<1>3. found'.dst = dst
  BY <1>1
<1>4. SourceAsFound' \/ SourceCleared'
  <2>1. CASE found.dst = dst
    <3>1. found.dst # "none" /\ UNCHANGED <<viewed, found>>
      BY <1>1, <1>2, <2>1 DEF DBs
    <3>2. SourceAsFound \/ SourceCleared
      BY <3>1 DEF ArriveInv
    <3> QED BY <1>1, <3>1, <3>2, PhaseStays
  <2>2. CASE found.dst # dst
    <3>1. found' = [dst |-> dst, entries |-> viewed'] /\ viewed' = viewed
      BY <1>1, <2>2
    <3>2. SourceAsFound'
      BY <3>1 DEF SourceAsFound, Kept
    <3> QED BY <3>2
  <2> QED BY <2>1, <2>2
<1> QED BY <1>1, <1>3, <1>4 DEF ArriveInv, dst

\* One entry is copied.
LEMMA EntryArrives ==
  ASSUME TypeInv, ArriveInv, ~setup.faulty, MigrateViewed
  PROVE  ArriveInv'
<1> DEFINE dst == found.dst
           src == Other(found.dst)
<1>1. /\ pc = "migrateViewed" /\ pc' = pc /\ UNCHANGED <<boot, crashes, found>>
      /\ viewed \in [DBs -> [Hashes -> Viewed]] /\ job \in Jobs
      /\ found.entries \in [DBs -> [Hashes -> Viewed]]
  BY DEF MigrateViewed, bounds, history, TypeInv, TypeOK, DiskOK, ProcessOK, HistoryOK, Exclusive
<1>2. /\ found.dst = DBFor(boot.viewedInJSON) /\ Underway
      /\ SourceAsFound \/ SourceCleared
  <2>1. found.dst = DBFor(boot.viewedInJSON) /\ Underway
    BY <1>1 DEF ArriveInv
  <2>2. found.dst # "none"
    BY <2>1 DEF DBFor
  <2> QED BY <2>1, <2>2 DEF ArriveInv
<1>3. dst \in DBs /\ src \in DBs /\ src # dst
  BY <1>2, Databases
<1>4. PICK h \in job.todo : migrateEntry(h)
  BY DEF MigrateViewed
<1>5. /\ job.dst = dst /\ job.src = src
      /\ \A g \in List(src) \ job.todo : viewed[dst][g] = viewed[src][g]
  BY <1>2 DEF Underway
<1>6. /\ job'.src = src /\ job'.dst = dst /\ job'.todo = job.todo \ {h} /\ h \in Hashes
  BY <1>1, <1>4, <1>5, EntryCopied DEF Jobs
<1>7. CASE ~needsMigration(viewed[src][h], viewed[dst][h])
  <2>1. viewed' = viewed /\ dirty' = "none"
    BY <1>4, <1>5, <1>7 DEF migrateEntry
  <2>2. viewed[src][h] = NoData \/ viewed[dst][h] = viewed[src][h]
    BY <1>7 DEF needsMigration
  <2>3. Underway'
    BY <1>1, <1>5, <1>6, <2>1, <2>2 DEF Underway, List
  <2>4. SourceAsFound' \/ SourceCleared'
    BY <1>1, <1>2, <2>1, PhaseStays DEF TypeInv, TypeOK
  <2> QED BY <1>1, <1>2, <2>1, <2>3, <2>4 DEF ArriveInv
<1>8. CASE needsMigration(viewed[src][h], viewed[dst][h])
  <2> DEFINE copy == [viewed[dst] EXCEPT ![h] = viewed[src][h]]
  <2>1. writeViewed(dst, copy)
    BY <1>4, <1>5, <1>8 DEF migrateEntry
  <2>2. copy \in [Hashes -> Viewed]
    BY <1>1, <1>3, <1>6
  <2>3. viewed'[dst] = copy /\ viewed'[src] = viewed[src]
    BY <1>1, <1>3, <2>1, <2>2, WorkingWrite
  <2>4. viewed[src][h] # NoData
    BY <1>8 DEF needsMigration
  <2>5. SourceAsFound
    BY <1>2, <1>6, <2>4 DEF SourceCleared, NoEntries
  <2>6. viewed[src] = found.entries[src]
    BY <2>5 DEF SourceAsFound
  <2>7. \A g \in Hashes : found.entries[src][g] = NoData => Kept(g)'
    <3> SUFFICES ASSUME NEW g \in Hashes, found.entries[src][g] = NoData PROVE Kept(g)'
      OBVIOUS
    <3>1. g # h
      BY <2>4, <2>6
    <3>2. viewed'[dst][g] = viewed[dst][g]
      BY <1>1, <1>3, <2>3, <3>1
    <3>3. Kept(g)
      BY <2>5 DEF SourceAsFound
    <3> QED BY <1>1, <3>2, <3>3 DEF Kept
  <2>8. SourceAsFound'
    BY <1>1, <2>3, <2>6, <2>7 DEF SourceAsFound
  <2>9. Underway'
    <3>1. \A g \in List(src)' \ job'.todo : viewed'[dst][g] = viewed'[src][g]
      <4> TAKE g \in List(src)' \ job'.todo
      <4>1. g \in Hashes /\ viewed[src][g] # NoData
        BY <1>1, <2>3 DEF List
      <4>2. CASE g = h
        BY <1>1, <1>3, <2>3, <4>1, <4>2
      <4>3. CASE g # h
        <5>1. g \in List(src) \ job.todo
          BY <1>6, <4>1, <4>3 DEF List
        <5> QED BY <1>1, <1>3, <1>5, <2>3, <4>1, <4>3, <5>1
      <4> QED BY <4>2, <4>3
    <3> QED BY <1>1, <1>6, <3>1 DEF Underway, List
  <2>10. dirty' = "viewed" => dst = "json"
    BY <2>1 DEF writeViewed
  <2> QED BY <1>1, <1>2, <2>8, <2>9, <2>10 DEF ArriveInv
<1> QED BY <1>7, <1>8

\* The source is cleared, or had nothing to clear.
LEMMA AllArrive ==
  ASSUME TypeInv, ArriveInv, ~setup.faulty, ClearViewed
  PROVE  ArriveInv'
<1> DEFINE dst == found.dst
           src == Other(found.dst)
<1>1. /\ pc = "migrateViewed" /\ pc' = "load" /\ job.todo = {} /\ UNCHANGED <<boot, crashes, found>>
      /\ viewed \in [DBs -> [Hashes -> Viewed]]
      /\ found.entries \in [DBs -> [Hashes -> Viewed]] /\ crashes \in Nat
  BY DEF ClearViewed, bounds, history, TypeInv, TypeOK, DiskOK, ProcessOK, HistoryOK, Exclusive
<1>2. /\ found.dst = DBFor(boot.viewedInJSON) /\ Underway
      /\ SourceAsFound \/ SourceCleared
  <2>1. found.dst = DBFor(boot.viewedInJSON) /\ Underway
    BY <1>1 DEF ArriveInv
  <2>2. found.dst # "none"
    BY <2>1 DEF DBFor
  <2> QED BY <2>1, <2>2 DEF ArriveInv
<1>3. dst \in DBs /\ src \in DBs /\ src # dst /\ Other(src) = dst
  BY <1>2, Databases
<1>4. job.src = src /\ \A h \in List(src) : viewed[dst][h] = viewed[src][h]
  BY <1>1, <1>2 DEF Underway
<1>5. Arrived
  <2>1. CASE SourceAsFound
    <3>1. \A h \in Hashes : found.entries[src][h] # NoData => viewed[dst][h] = found.entries[src][h]
      BY <1>4, <2>1 DEF SourceAsFound, List
    <3>2. \A h \in Hashes : found.entries[src][h] = NoData => Kept(h)
      BY <2>1 DEF SourceAsFound
    <3> QED BY <3>1, <3>2 DEF Arrived
  <2>2. CASE SourceCleared
    BY <2>2 DEF SourceCleared
  <2> QED BY <1>2, <2>1, <2>2
<1>6. CASE viewed' = viewed /\ dirty' = "none"
  <2>1. Arrived' /\ (SourceAsFound' \/ SourceCleared')
    BY <1>1, <1>2, <1>5, <1>6, PhaseStays
  <2> QED BY <1>1, <1>2, <1>6, <2>1 DEF ArriveInv
<1>7. CASE writeViewed(src, NoEntries)
  <2>1. viewed'[src] = NoEntries /\ viewed'[dst] = viewed[dst]
    BY <1>1, <1>3, <1>7, WorkingWrite, Constants
  <2>2. \A h : Kept(h) => Kept(h)'
    BY <1>1, <2>1 DEF Kept
  <2>3. Arrived'
    BY <1>1, <1>5, <2>1, <2>2 DEF Arrived
  <2>4. SourceCleared'
    BY <1>1, <2>1, <2>3 DEF SourceCleared
  <2>5. dirty' = "viewed" => dst = "bbolt"
    BY <1>3, <1>7 DEF writeViewed, DBs
  <2> QED BY <1>1, <1>2, <2>3, <2>4, <2>5 DEF ArriveInv
<1> QED BY <1>4, <1>6, <1>7 DEF ClearViewed

LEMMA ArriveStepInitSets ==
  ASSUME TypeInv, ArriveInv, ~setup.faulty, InitSets, setup' = setup
  PROVE  ArriveInv'
<1> USE DEF disk, bounds
<1>1. crashes' = crashes /\ crashes \in Nat
  BY InitSetsTypes DEF TypeInv, TypeOK
<1>2. CASE MigrateSettings \/ ClearSettings
  <2>1. /\ UNCHANGED <<viewed, found, boot>>
        /\ pc \in {"migrateSettings", "clearSettings"} /\ pc' \in {"clearSettings", "listViewed"}
        /\ dirty' # "viewed"
    BY <1>2 DEF MigrateSettings, ClearSettings, writeSettings, history
  <2>2. found.dst = DBFor(boot.viewedInJSON) /\ (SourceAsFound \/ SourceCleared)
    BY <2>1 DEF ArriveInv, DBFor
  <2>3. SourceAsFound' \/ SourceCleared'
    BY <1>1, <2>1, <2>2, PhaseStays
  <2> QED BY <2>1, <2>2, <2>3 DEF ArriveInv
<1>3. CASE ListViewed
  <2> DEFINE dst == DBFor(boot.viewedInJSON)
  <2>1. /\ UNCHANGED <<viewed, found, boot>> /\ pc = "listViewed" /\ pc' = "migrateViewed"
        /\ dirty' = "none" /\ job' = newJob(Other(dst), dst)
    BY <1>3 DEF ListViewed
  <2>2. found.dst = dst /\ (SourceAsFound \/ SourceCleared)
    BY <2>1 DEF ArriveInv, DBFor
  <2>3. SourceAsFound' \/ SourceCleared'
    BY <1>1, <2>1, <2>2, PhaseStays
  <2>4. /\ job'.dst = dst /\ job'.src = Other(dst) /\ job'.todo = List(Other(dst))
    BY <2>1 DEF newJob
  <2>5. List(job.src)' = List(Other(dst))
    BY <2>1, <2>4 DEF List
  <2>6. Underway'
    BY <2>1, <2>2, <2>4, <2>5 DEF Underway
  <2> QED BY <2>1, <2>2, <2>3, <2>6 DEF ArriveInv
<1>4. CASE LoadBTSets
  <2>1. found'.dst = "none" /\ pc' = "update"
    BY <1>4 DEF LoadBTSets, NothingFound
  <2> QED BY <2>1 DEF ArriveInv
<1>5. CASE UpdatePreferences \/ ImportTorrent \/ RemoveLegacy \/ ApplyConfig
  <2>1. /\ found' = found /\ pc \in {"update", "import", "config"}
        /\ pc' \in {"update", "import", "config", "serve"}
    BY <1>5 DEF UpdatePreferences, ImportTorrent, RemoveLegacy, ApplyConfig, history
  <2>2. found'.dst = "none"
    BY <2>1 DEF ArriveInv
  <2> QED BY <2>1, <2>2 DEF ArriveInv
<1>6. CASE Start \/ MigrateViewed \/ ClearViewed
  BY <1>6, StartArrives, EntryArrives, AllArrive
<1> QED BY <1>2, <1>3, <1>4, <1>5, <1>6 DEF InitSets

\* A kill may cut the JSON file the history is being copied to, or the one that has just
\* been cleared.
LEMMA KillArrives ==
  ASSUME TypeInv, ArriveInv, ~setup.faulty, Stop \/ Crash
  PROVE  ArriveInv'
<1>1. /\ pc' = "down" /\ dirty' = "none" /\ found' = found
      /\ crashes \in Nat /\ crashes' \in Nat /\ crashes' >= crashes
      /\ viewed \in [DBs -> [Hashes -> Viewed]]
      /\ found.dst \in DBs \cup {"none"}
  BY DEF Stop, Crash, gone, bounds, TypeInv, TypeOK, DiskOK, HistoryOK
<1>2. SUFFICES ASSUME found.dst # "none" PROVE SourceAsFound' \/ SourceCleared'
  BY <1>1 DEF ArriveInv
<1>3. /\ SourceAsFound \/ SourceCleared
      /\ pc \notin {"update", "import", "config", "serve"}
      /\ found.dst \in DBs
  BY <1>1, <1>2 DEF ArriveInv
<1>4. CASE viewed' = viewed
  BY <1>1, <1>3, <1>4, PhaseStays
<1>5. CASE viewed' # viewed
  <2>1. /\ dirty = "viewed" /\ crashes' > 0
        /\ viewed' = [viewed EXCEPT !["json"] = NoEntries]
    BY <1>1, <1>5 DEF Stop, Crash, disk
  <2>2. pc \in {"migrateViewed", "load"}
    BY <1>3, <2>1 DEF ArriveInv, TypeInv, TypeOK, ProcessOK
  <2>3. CASE pc = "migrateViewed"
    <3>1. found.dst = "json" /\ SourceAsFound
      BY <2>1, <2>3 DEF ArriveInv
    <3>2. viewed'["bbolt"] = viewed["bbolt"] /\ Other("json") = "bbolt"
      BY <1>1, <2>1, Databases DEF DBs
    <3>3. \A h : Kept(h)'
      BY <1>1, <2>1, <3>1 DEF Kept
    <3>4. SourceAsFound'
      BY <1>1, <3>1, <3>2, <3>3 DEF SourceAsFound
    <3> QED BY <3>4
  <2>4. CASE pc = "load"
    <3>1. found.dst = "bbolt" /\ SourceCleared
      BY <2>1, <2>4 DEF ArriveInv
    <3>2. /\ Other("bbolt") = "json" /\ viewed'["bbolt"] = viewed["bbolt"]
          /\ viewed'["json"] = NoEntries
      BY <1>1, <2>1, Databases DEF DBs
    <3>3. \A h : Kept(h) => Kept(h)'
      BY <1>1, <3>1, <3>2 DEF Kept
    <3>4. Arrived'
      BY <1>1, <3>1, <3>2, <3>3 DEF SourceCleared, Arrived
    <3> QED BY <1>1, <3>1, <3>2, <3>4 DEF SourceCleared
  <2> QED BY <2>2, <2>3, <2>4
<1> QED BY <1>4, <1>5

LEMMA ArriveStep ==
  ASSUME TypeInv, ArriveInv, [Next]_vars
  PROVE  ArriveInv'
<1> SUFFICES ASSUME ~setup'.faulty PROVE ArriveInv'
  BY DEF ArriveInv
<1>1. setup' = setup /\ ~setup.faulty
  BY DEF Next, vars
<1>2. CASE InitSets
  BY <1>1, <1>2, ArriveStepInitSets
<1>3. CASE \E a \in Actors : Request(a)
  <2>1. pc = "serve" /\ pc' = pc /\ found' = found
    BY <1>3 DEF Request, SetViewed, RemViewed, Get, Fill, CachePut, DBPut, SetStoragePreferences,
         ApplySettings, ResetDefaultSettings, UNCHANGED_process, SwitchSettingsStorage, CopySettings,
         SwitchViewedStorage, CopyViewed, ClearSwitched, SaveViewed, disk, history
  <2>2. found'.dst = "none"
    BY <1>1, <2>1 DEF ArriveInv
  <2> QED BY <2>1, <2>2 DEF ArriveInv
<1>4. CASE Stop \/ Crash
  BY <1>1, <1>4, KillArrives
<1>5. CASE UNCHANGED vars
  <2>1. /\ UNCHANGED <<setup, pc, boot, dirty, found, viewed, job, crashes>> /\ crashes \in Nat
    BY <1>5 DEF vars, TypeInv, TypeOK
  <2>2. /\ SourceAsFound => SourceAsFound'
        /\ SourceCleared => SourceCleared'
        /\ Arrived => Arrived'
    BY <2>1, PhaseStays
  <2>3. Underway => Underway'
    BY <2>1 DEF Underway, List
  <2> QED BY <2>1, <2>2, <2>3 DEF ArriveInv
<1> QED BY <1>2, <1>3, <1>4, <1>5 DEF Next

\* On a working disk, for any installation, any switches and marks before it and any
\* number of kills on the way: a start that gets past the migration of the viewed history
\* has moved every entry it found in the source, and spared the target's others, but for
\* a JSON file cut by a kill (safeMigrateAll, MigrateAllWithReport).
THEOREM HistoryArrives == Spec => []EntriesArrive
<1>1. Init => ArriveInv
  BY DEF Init, ArriveInv, NothingFound
<1>2. TypeInv /\ ArriveInv /\ [Next]_vars => ArriveInv'
  BY ArriveStep
<1>3. ArriveInv => EntriesArrive
  BY DEF ArriveInv, EntriesArrive, Arrived, Kept
<1> QED BY <1>1, <1>2, <1>3, TypesAlways, PTL DEF Spec
=============================================================================
