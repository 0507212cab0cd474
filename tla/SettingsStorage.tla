-------------------------- MODULE SettingsStorage --------------------------
(***************************************************************************)
(* The persistent state of the server (server/settings): the bbolt file    *)
(* config.db, the JSON files, the migrations between them at every start   *)
(* and on request, the viewed history on top of the read cache, and the    *)
(* import of the old torrserver.db.                                        *)
(*                                                                         *)
(* Startup (InitSets) is sequential and one step of it is one write; the   *)
(* process may die after any of them.  A bbolt update is a transaction.  A *)
(* JSON update rewrites the whole file with os.WriteFile, which truncates  *)
(* first, and a truncated file reads as an empty one.  Settings are kept   *)
(* as their two storage preferences and one value for everything else.     *)
(***************************************************************************)
EXTENDS Naturals, FiniteSets

CONSTANTS
  Actors,       \* goroutines that serve API requests
  Hashes,       \* torrents of the viewed history
  Indexes,      \* file indexes
  Rest,         \* values of the settings other than the two preferences
  DefaultRest,  \* their default
  OldTorrents,  \* torrents in torrserver.db
  Complete,     \* those with every required field
  Parses,       \* those whose link torrentparse accepts
  NoConfig,
  EnvPrefs,     \* preferences of a first start (defaults and environment)
  Setups,       \* installations: see SetupFields
  MaxCrashes,   \* bound: how often the process is killed
  MaxSessions,  \* bound: how often it is started
  NoData, Uncached, NoActor, NoJob

DBs == {"bbolt", "json"}
Prefs == [settingsInJSON : BOOLEAN, viewedInJSON : BOOLEAN]
Settings == [settingsInJSON : BOOLEAN, viewedInJSON : BOOLEAN, rest : Rest]
Viewed == (SUBSET Indexes) \cup {NoData}

\* What sets one installation apart from another.
SetupFields ==
  [config : Settings \cup {NoConfig},         \* what config.yml says of the preferences
   old : SUBSET OldTorrents,                  \* what torrserver.db holds
   placed : SUBSET (DBs \X DBs),              \* where the first start finds settings and history
   prefs : SUBSET Prefs,                      \* the preferences those settings may have
   indexes : SUBSET Indexes,                  \* the files its users mark
   ops : SUBSET {"set", "rem", "forget"},     \* how they change the viewed history
   switches : SUBSET {"settings", "viewed"},  \* which preferences they change
   values : SUBSET Rest,                      \* the other settings they apply
   crashes : 0..MaxCrashes, sessions : 0..MaxSessions,  \* bounds
   readOnly : BOOLEAN,                        \* started with --rdb
   faulty : BOOLEAN]                          \* writes of a database may fail

\* A MigrateAll: from where to where, the entries to come, how many were copied,
\* and whether one failed.
Jobs == [src : DBs, dst : DBs, todo : SUBSET Hashes, migrated : Nat, failed : BOOLEAN]

ASSUME StorageAssumption ==
  /\ IsFiniteSet(Hashes) /\ NoJob \notin Jobs
  /\ NoConfig \notin Settings
  /\ \A s \in SUBSET Indexes : s # NoData
  /\ DefaultRest \in Rest
  /\ Parses \subseteq Complete /\ Complete \subseteq OldTorrents
  /\ EnvPrefs \in Prefs /\ Setups \subseteq SetupFields
  /\ MaxCrashes \in Nat /\ MaxSessions \in Nat
  /\ NoActor \notin Actors

VARIABLES
  setup,     \* the installation
  stored,    \* stored[d]: Settings/BitTorr in database d
  viewed,    \* viewed[d][h]: Viewed/h in database d
  torrents,  \* Torrents in config.db
  legacy,    \* content of torrserver.db; empty when there is no file
  pc,        \* where the process is: down, a step of InitSets, serve
  boot,      \* the preferences this start has determined
  mem,       \* defaultBTsetsStore
  route,     \* the database each path is routed to
  cache,     \* DBReadCache.dataCache for the viewed history
  job,       \* the MigrateAll under way
  todo,      \* old torrents still to be imported
  lock,      \* holder of dbMigrationLock
  req,       \* the request each actor serves
  dirty,     \* the JSON file the last step wrote
  crashes, sessions,
  marks,     \* history: the marks the users have set and not removed
  refused,   \* history: the old torrents whose own AddTorrent stored nothing
  touched,   \* history: entries that requests changed while a migration ran
  found,     \* history: where the viewed history goes, and what there was of it,
             \* since a start began that has not got past the migration
  raced      \* history: entries that two requests used at a time since the start,
             \* or that were switched to the other database

disk == <<stored, viewed, torrents, legacy>>
bounds == <<crashes, sessions>>
history == <<marks, refused, touched, found, raced>>
vars == <<setup, stored, viewed, torrents, legacy, pc, boot, mem, route, cache, job,
          todo, lock, req, dirty, crashes, sessions, marks, refused, touched, found, raced>>

Other(d) == CHOOSE e \in DBs : e # d
DBFor(inJSON) == IF inJSON THEN "json" ELSE "bbolt"
NoEntries == [h \in Hashes |-> NoData]
NothingFound == [dst |-> "none", entries |-> [d \in DBs |-> NoEntries]]
Idle == [at |-> "idle", op |-> "none", h |-> NoData, i |-> NoData, got |-> NoData]
Goto(a, label) == req' = [req EXCEPT ![a].at = label]

\* SetDefaultConfig: the settings of a first start.
SetDefaultConfig == [settingsInJSON |-> TRUE, viewedInJSON |-> FALSE, rest |-> DefaultRest]

-----------------------------------------------------------------------------
(* The two databases. *)

\* TDB.Set, Rem and Clear: one transaction, whose error is only logged.
TDBWrites(old, new) == {new} \cup (IF setup.faulty THEN {old} ELSE {})

\* JSONDB.Set, Rem and Clear: the file is truncated and written again; when
\* that fails it is as it was or empty, and the error is only logged.
JSONDBWrites(old, new, empty) == {new} \cup (IF setup.faulty THEN {old, empty} ELSE {})

\* List: the names that have data.
List(d) == {h \in Hashes : viewed[d][h] # NoData}

writeViewed(d, new) ==
  /\ \E v \in IF d = "json" THEN JSONDBWrites(viewed[d], new, NoEntries)
                            ELSE TDBWrites(viewed[d], new) :
       viewed' = [viewed EXCEPT ![d] = v]
  /\ dirty' = IF d = "json" THEN "viewed" ELSE "none"

writeSettings(d, new) ==
  /\ \E s \in IF d = "json" THEN JSONDBWrites(stored[d], new, NoData)
                            ELSE TDBWrites(stored[d], new) :
       stored' = [stored EXCEPT ![d] = s]
  /\ dirty' = IF d = "json" THEN "settings" ELSE "none"

\* SetBTSets and the save in SetDefaultConfig: keep s in memory, write it
\* where the settings are routed.  Nothing is written in read-only mode.
SetBTSets(s) ==
  /\ mem' = s
  /\ IF setup.readOnly THEN UNCHANGED stored /\ dirty' = "none"
                 ELSE writeSettings(route.settings, s)

-----------------------------------------------------------------------------
(* Migration of entries from one database to the other. *)

\* migrateSingleWithReport: there is data and the target does not have it.
needsMigration(source, target) == source # NoData /\ source # target

newJob(src, dst) == [src |-> src, dst |-> dst, todo |-> List(src),
                     migrated |-> 0, failed |-> FALSE]

\* Mutant: what the target has after the write is not compared.
migrateEntry_unverified(h) ==
  LET copy == [viewed[job.dst] EXCEPT ![h] = viewed[job.src][h]] IN
  IF needsMigration(viewed[job.src][h], viewed[job.dst][h])
    THEN /\ writeViewed(job.dst, copy)
         /\ job' = [job EXCEPT !.todo = @ \ {h}, !.migrated = @ + 1]
    ELSE /\ job' = [job EXCEPT !.todo = @ \ {h}]
         /\ dirty' = "none" /\ UNCHANGED viewed

\* One round of MigrateAllWithReport: copy the entry, read it back.  What a request
\* writes between the two counts as written before the round.
migrateEntry(h) ==
  LET copy == [viewed[job.dst] EXCEPT ![h] = viewed[job.src][h]]
      verified == viewed'[job.dst][h] = viewed[job.src][h] IN
  IF needsMigration(viewed[job.src][h], viewed[job.dst][h])
    THEN /\ writeViewed(job.dst, copy)
         /\ job' = [job EXCEPT !.todo = @ \ {h},
                               !.migrated = IF verified THEN @ + 1 ELSE @,
                               !.failed = @ \/ ~verified]
    ELSE /\ job' = [job EXCEPT !.todo = @ \ {h}]
         /\ dirty' = "none" /\ UNCHANGED viewed

-----------------------------------------------------------------------------
(* InitSets. *)

\* loadExistingSettings and determineStoragePreferences: JSON is asked first.
determineStoragePreferences ==
  LET s == IF stored["json"] # NoData THEN stored["json"] ELSE stored["bbolt"] IN
  IF s = NoData THEN EnvPrefs
  ELSE [settingsInJSON |-> s.settingsInJSON, viewedInJSON |-> s.viewedInJSON]

Start ==
  /\ pc = "down"
  /\ pc' = "migrateSettings"
  /\ boot' = determineStoragePreferences
  /\ sessions' = sessions + 1
  /\ found' = LET dst == DBFor(boot'.viewedInJSON) IN
              IF found.dst = dst THEN found ELSE [dst |-> dst, entries |-> viewed]
  /\ dirty' = "none"
  /\ UNCHANGED <<disk, mem, route, cache, job, todo, lock, req, crashes, marks, refused,
                 touched, raced>>

\* safeMigrate of Settings/BitTorr up to the verification.
MigrateSettings ==
  LET dst == DBFor(boot.settingsInJSON)
      src == Other(dst) IN
  /\ pc = "migrateSettings"
  /\ IF needsMigration(stored[src], stored[dst])
       THEN /\ writeSettings(dst, stored[src])
            /\ pc' = IF stored'[dst] = stored[src] THEN "clearSettings" ELSE "listViewed"
       ELSE /\ UNCHANGED stored /\ dirty' = "none"
            /\ pc' = "listViewed"
  /\ UNCHANGED <<viewed, torrents, legacy, boot, mem, route, cache, job, todo, lock,
                 req, bounds, history>>

\* safeMigrate: the source entry is removed once it has been migrated.
ClearSettings ==
  /\ pc = "clearSettings"
  /\ writeSettings(Other(DBFor(boot.settingsInJSON)), NoData)
  /\ pc' = "listViewed"
  /\ UNCHANGED <<viewed, torrents, legacy, boot, mem, route, cache, job, todo, lock,
                 req, bounds, history>>

\* safeMigrateAll of Viewed: List, then one entry after the other.
ListViewed ==
  LET dst == DBFor(boot.viewedInJSON) IN
  /\ pc = "listViewed"
  /\ job' = newJob(Other(dst), dst)
  /\ pc' = "migrateViewed"
  /\ touched' = {}
  /\ dirty' = "none"
  /\ UNCHANGED <<disk, boot, mem, route, cache, todo, lock, req, bounds, marks, refused,
                 found, raced>>

MigrateViewed ==
  /\ pc = "migrateViewed"
  /\ \E h \in job.todo : migrateEntry(h)
  /\ UNCHANGED <<stored, torrents, legacy, pc, boot, mem, route, cache, todo, lock,
                 req, bounds, history>>

\* Mutant: MigrateAllWithReport returns before it has been through all entries.
ClearViewed_early ==
  /\ pc = "migrateViewed"
  /\ IF job.migrated > 0 /\ job.migrated >= Cardinality(List(job.src))
       THEN writeViewed(job.src, NoEntries)
       ELSE UNCHANGED viewed /\ dirty' = "none"
  /\ job' = NoJob
  /\ pc' = "load"
  /\ UNCHANGED <<stored, torrents, legacy, boot, mem, route, cache, todo, lock, req,
                 bounds, history>>

\* safeMigrateAll: the source is cleared when as many entries were migrated as
\* it holds.
ClearViewed ==
  /\ pc = "migrateViewed" /\ job.todo = {}
  /\ IF job.migrated > 0 /\ job.migrated >= Cardinality(List(job.src))
       THEN writeViewed(job.src, NoEntries)
       ELSE UNCHANGED viewed /\ dirty' = "none"
  /\ job' = NoJob
  /\ pc' = "load"
  /\ UNCHANGED <<stored, torrents, legacy, boot, mem, route, cache, todo, lock, req,
                 bounds, history>>

\* setupDatabaseRouting, with an empty read cache, and loadBTSets, which saves
\* the defaults when it finds nothing.
LoadBTSets ==
  LET d == DBFor(boot.settingsInJSON) IN
  /\ pc = "load"
  /\ route' = [settings |-> d, viewed |-> DBFor(boot.viewedInJSON)]
  /\ cache' = [h \in Hashes |-> Uncached]
  /\ IF stored[d] # NoData
       THEN mem' = stored[d] /\ UNCHANGED stored /\ dirty' = "none"
       ELSE /\ mem' = SetDefaultConfig
            /\ IF setup.readOnly THEN UNCHANGED stored /\ dirty' = "none"
                           ELSE writeSettings(d, SetDefaultConfig)
  /\ pc' = "update"
  /\ found' = NothingFound
  /\ UNCHANGED <<viewed, torrents, legacy, boot, job, todo, lock, req, bounds, marks,
                 refused, touched, raced>>

\* InitSets: save the settings again when the preferences in them differ from
\* the ones this start has determined.  Then MigrateTorrentAtPath opens the
\* old database and reads the complete torrents.
UpdatePreferences ==
  LET s == [mem EXCEPT !.settingsInJSON = boot.settingsInJSON,
                       !.viewedInJSON = boot.viewedInJSON] IN
  /\ pc = "update"
  /\ IF s # mem THEN SetBTSets(s) ELSE UNCHANGED <<mem, stored>> /\ dirty' = "none"
  /\ todo' = legacy \cap Complete
  /\ pc' = IF todo' = {} THEN "config" ELSE "import"
  /\ UNCHANGED <<viewed, torrents, legacy, boot, route, cache, job, lock, req,
                 bounds, history>>

\* migrateAndSave: a link that does not parse is skipped; AddTorrent goes
\* through DBReadCache.Set, which refuses in read-only mode, and has no result.
ImportTorrent ==
  /\ pc = "import"
  /\ \E t \in todo :
       /\ todo' = todo \ {t}
       /\ torrents' \in IF t \in Parses /\ ~setup.readOnly
                          THEN TDBWrites(torrents, torrents \cup {t}) ELSE {torrents}
       /\ refused' = IF t \in torrents' THEN refused \ {t} ELSE refused \cup {t}
  /\ dirty' = "none"
  /\ UNCHANGED <<stored, viewed, legacy, pc, boot, mem, route, cache, job, lock, req,
                 bounds, marks, touched, found, raced>>

\* Mutant: the old database is removed before its torrents are saved.
RemoveLegacy_first ==
  /\ pc = "import" /\ legacy # {}
  /\ legacy' = {}
  /\ pc' = IF todo = {} THEN "config" ELSE pc
  /\ dirty' = "none"
  /\ UNCHANGED <<stored, viewed, torrents, boot, mem, route, cache, job, todo, lock, req,
                 bounds, history>>

\* MigrateTorrentAtPath: torrserver.db is removed; os.Remove may fail.
RemoveLegacy ==
  /\ pc = "import" /\ todo = {}
  /\ legacy' \in {{}} \cup (IF setup.faulty THEN {legacy} ELSE {})
  /\ pc' = "config"
  /\ dirty' = "none"
  /\ UNCHANGED <<stored, viewed, torrents, boot, mem, route, cache, job, todo, lock, req,
                 bounds, history>>

\* serverRuntime.Start: config.yml is applied over the loaded settings, in
\* memory only, and the web server starts.
ApplyConfig ==
  /\ pc = "config"
  /\ mem' = IF setup.config = NoConfig THEN mem ELSE setup.config
  /\ pc' = "serve"
  /\ dirty' = "none"
  /\ UNCHANGED <<disk, boot, route, cache, job, todo, lock, req, bounds, history>>


-----------------------------------------------------------------------------
(* The viewed history: SetViewed and RemViewed read, then write, through   *)
(* DBReadCache, without a lock around the two.                             *)

UNCHANGED_process == UNCHANGED <<pc, boot, route, job, todo, lock, bounds>>

ViewedSteps == {"fill", "cachePut", "dbPut"}

\* A request for the entry of h is under way.
InUse(h) == \E a \in Actors : req[a].at \in ViewedSteps /\ req[a].h = h

\* DBReadCache.Get: what the request has read, and whether it must still put
\* it into the cache.  RemViewed ends when there is nothing to remove.
afterGet(op, got) == IF op # "set" /\ got = NoData THEN "idle" ELSE "cachePut"

Get(a, op, h, i) ==
  /\ pc = "serve" /\ req[a] = Idle /\ op \in setup.ops
  /\ LET hit == cache[h] # Uncached
         got == IF hit THEN cache[h] ELSE viewed[route.viewed][h]
         at == IF hit THEN afterGet(op, got) ELSE "fill" IN
     req' = [req EXCEPT ![a] = IF at = "idle" THEN Idle
               ELSE [at |-> at, op |-> op, h |-> h, i |-> i, got |-> got]]
  /\ raced' = IF InUse(h) THEN raced \cup {h} ELSE raced
  /\ dirty' = "none"
  /\ UNCHANGED <<disk, mem, cache, marks, refused, touched, found>> /\ UNCHANGED_process

SetViewed(a) == \E h \in Hashes, i \in setup.indexes : Get(a, "set", h, i)

\* RemViewed of one index, or of the whole entry (index -1).
RemViewed(a) ==
  \/ \E h \in Hashes, i \in setup.indexes : Get(a, "rem", h, i)
  \/ \E h \in Hashes : Get(a, "forget", h, NoData)

\* DBReadCache.Get after a miss: store what the database has returned.
Fill(a) ==
  /\ pc = "serve" /\ req[a].at = "fill"
  /\ cache' = [cache EXCEPT ![req[a].h] = req[a].got]
  /\ LET at == afterGet(req[a].op, req[a].got) IN
     req' = [req EXCEPT ![a] = IF at = "idle" THEN Idle ELSE [@ EXCEPT !.at = at]]
  /\ dirty' = "none"
  /\ UNCHANGED <<disk, mem, history>> /\ UNCHANGED_process

\* The set of indexes a request writes, given the one it has read.
changed(r, old) ==
  LET indexes == IF old = NoData THEN {} ELSE old IN
  CASE r.op = "set" -> indexes \cup {r.i}
    [] r.op = "rem" -> indexes \ {r.i}
    [] r.op = "forget" -> NoData

\* Mutant: a removed entry stays in the read cache.
CachePut_keepsRemoved(a) ==
  LET r == req[a] IN
  /\ pc = "serve" /\ r.at = "cachePut"
  /\ IF setup.readOnly
       THEN req' = [req EXCEPT ![a] = Idle] /\ UNCHANGED cache
       ELSE /\ cache' = IF r.op = "forget" THEN cache
                        ELSE [cache EXCEPT ![r.h] = changed(r, r.got)]
            /\ Goto(a, "dbPut")
  /\ dirty' = "none"
  /\ UNCHANGED <<disk, mem, history>> /\ UNCHANGED_process

\* DBReadCache.Set and Rem, first half: the cache.  Nothing in read-only mode.
CachePut(a) ==
  LET r == req[a] IN
  /\ pc = "serve" /\ r.at = "cachePut"
  /\ IF setup.readOnly
       THEN req' = [req EXCEPT ![a] = Idle] /\ UNCHANGED cache
       ELSE /\ cache' = [cache EXCEPT ![r.h] = IF r.op = "forget" THEN Uncached
                                               ELSE changed(r, r.got)]
            /\ Goto(a, "dbPut")
  /\ dirty' = "none"
  /\ UNCHANGED <<disk, mem, history>> /\ UNCHANGED_process

\* DBReadCache.Set and Rem, second half: the database.  The request is done.
DBPut(a) ==
  LET r == req[a]
      d == route.viewed
      new == [viewed[d] EXCEPT ![r.h] = changed(r, r.got)] IN
  /\ pc = "serve" /\ r.at = "dbPut"
  /\ writeViewed(d, new)
  /\ marks' = IF viewed'[d] # new THEN marks
              ELSE [marks EXCEPT ![r.h] = IF r.op = "set" THEN @ \cup {r.i}
                                          ELSE IF r.op = "rem" THEN @ \ {r.i} ELSE {}]
  /\ touched' = touched \cup {h \in Hashes : viewed'[d][h] # viewed[d][h]}
  /\ req' = [req EXCEPT ![a] = Idle]
  /\ UNCHANGED <<stored, torrents, legacy, mem, cache, refused, found, raced>>
  /\ UNCHANGED_process

-----------------------------------------------------------------------------
(* Changing a storage preference while the server runs. *)

prefer(s, kind, useJSON) == IF kind = "settings" THEN [s EXCEPT !.settingsInJSON = useJSON]
                                                 ELSE [s EXCEPT !.viewedInJSON = useJSON]
preferred(s, kind) == IF kind = "settings" THEN s.settingsInJSON ELSE s.viewedInJSON

\* UpdateStorageSettings and SetStoragePreferences: success without any change
\* when the settings in memory already say so, else the switch.
SetStoragePreferences(a) ==
  /\ pc = "serve" /\ req[a] = Idle /\ ~setup.readOnly
  /\ \E kind \in setup.switches, useJSON \in BOOLEAN :
       IF preferred(mem, kind) = useJSON
         THEN UNCHANGED req
         ELSE req' = [req EXCEPT ![a] = [Idle EXCEPT !.at = "switch", !.op = kind, !.got = useJSON]]
  /\ dirty' = "none"
  /\ UNCHANGED <<disk, mem, cache, history>> /\ UNCHANGED_process

\* SwitchSettingsStorage under dbMigrationLock: save the settings with the new
\* preference where they are routed now ...
SwitchSettingsStorage(a) ==
  /\ pc = "serve" /\ req[a].at = "switch" /\ req[a].op = "settings" /\ lock = NoActor
  /\ lock' = a
  /\ SetBTSets(prefer(mem, "settings", req[a].got))
  /\ Goto(a, "copySettings")
  /\ UNCHANGED <<viewed, torrents, legacy, pc, boot, route, cache, job, todo, bounds, history>>

\* ... then MigrateSettingsToJSON or MigrateSettingsFromJSON on the databases
\* themselves.  The source keeps its entry.
CopySettings(a) ==
  LET dst == DBFor(req[a].got)
      src == Other(dst) IN
  /\ pc = "serve" /\ req[a].at = "copySettings"
  /\ IF needsMigration(stored[src], stored[dst])
       THEN writeSettings(dst, stored[src])
       ELSE UNCHANGED stored /\ dirty' = "none"
  /\ req' = [req EXCEPT ![a] = Idle]
  /\ lock' = NoActor
  /\ UNCHANGED <<viewed, torrents, legacy, pc, boot, mem, route, cache, job, todo, bounds,
                 history>>

\* SwitchViewedStorage: MigrateAll on the databases themselves ...
SwitchViewedStorage(a) ==
  LET dst == DBFor(req[a].got) IN
  /\ pc = "serve" /\ req[a].at = "switch" /\ req[a].op = "viewed" /\ lock = NoActor
  /\ lock' = a
  /\ job' = newJob(Other(dst), dst)
  /\ Goto(a, "copyViewed")
  /\ touched' = {} /\ raced' = Hashes
  /\ dirty' = "none"
  /\ UNCHANGED <<disk, pc, boot, mem, route, cache, todo, bounds, marks, refused, found>>

CopyViewed(a) ==
  /\ pc = "serve" /\ req[a].at = "copyViewed"
  /\ \E h \in job.todo : migrateEntry(h)
  /\ UNCHANGED <<stored, torrents, legacy, pc, boot, mem, route, cache, todo, lock, req,
                 bounds, history>>

\* ... then Clear of the source, unless an entry failed ...
ClearSwitched(a) ==
  /\ pc = "serve" /\ req[a].at = "copyViewed" /\ job.todo = {}
  /\ IF job.failed
       THEN /\ req' = [req EXCEPT ![a] = Idle] /\ lock' = NoActor
            /\ UNCHANGED viewed /\ dirty' = "none"
       ELSE /\ writeViewed(job.src, NoEntries)
            /\ Goto(a, "saveViewed") /\ UNCHANGED lock
  /\ job' = NoJob
  /\ UNCHANGED <<stored, torrents, legacy, pc, boot, mem, route, cache, todo, bounds, history>>

\* ... and the settings are saved with the new preference.
SaveViewed(a) ==
  /\ pc = "serve" /\ req[a].at = "saveViewed"
  /\ SetBTSets(prefer(mem, "viewed", req[a].got))
  /\ req' = [req EXCEPT ![a] = Idle]
  /\ lock' = NoActor
  /\ UNCHANGED <<viewed, torrents, legacy, pc, boot, route, cache, job, todo, bounds,
                 history>>

\* ApplySettings: the new settings replace the ones in memory and are not
\* written anywhere.
ApplySettings(a) ==
  /\ pc = "serve" /\ req[a] = Idle /\ ~setup.readOnly
  /\ \E v \in setup.values : mem' = [mem EXCEPT !.rest = v]
  /\ dirty' = "none"
  /\ UNCHANGED <<disk, cache, req, history>> /\ UNCHANGED_process

\* ResetDefaultSettings: the defaults replace the settings and are saved.
ResetDefaultSettings(a) ==
  /\ pc = "serve" /\ req[a] = Idle /\ ~setup.readOnly
  /\ SetBTSets(SetDefaultConfig)
  /\ UNCHANGED <<viewed, torrents, legacy, cache, req, history>> /\ UNCHANGED_process

-----------------------------------------------------------------------------
(* The end of the process. *)

\* What a process keeps in memory is gone.
gone ==
  /\ pc' = "down"
  /\ boot' = EnvPrefs /\ mem' = SetDefaultConfig
  /\ route' = [settings |-> "bbolt", viewed |-> "bbolt"]
  /\ cache' = [h \in Hashes |-> Uncached]
  /\ job' = NoJob /\ todo' = {} /\ lock' = NoActor
  /\ req' = [a \in Actors |-> Idle]
  /\ raced' = {}
  /\ dirty' = "none"

\* A shutdown after the requests have been served.
Stop ==
  /\ pc = "serve" /\ sessions < setup.sessions
  /\ \A a \in Actors : req[a] = Idle
  /\ gone
  /\ UNCHANGED <<disk, bounds, marks, refused, touched, found>>

\* The process is killed, at worst in the middle of the last JSON write.
Crash ==
  /\ pc # "down" /\ crashes < setup.crashes /\ sessions < setup.sessions
  /\ crashes' = crashes + 1
  /\ gone
  /\ \/ UNCHANGED <<stored, viewed>>
     \/ /\ dirty = "viewed"
        /\ viewed' = [viewed EXCEPT !["json"] = NoEntries] /\ UNCHANGED stored
     \/ /\ dirty = "settings"
        /\ stored' = [stored EXCEPT !["json"] = NoData] /\ UNCHANGED viewed
  /\ UNCHANGED <<torrents, legacy, sessions, marks, refused, touched, found>>

\* A data directory as an earlier session leaves it: the settings, if any, in
\* one database and the viewed history in one.
Init ==
  /\ setup \in Setups
  /\ \E place \in setup.placed, v \in [Hashes -> (SUBSET setup.indexes) \cup {NoData}],
        s \in {[settingsInJSON |-> p.settingsInJSON, viewedInJSON |-> p.viewedInJSON,
                rest |-> DefaultRest] : p \in setup.prefs} \cup {NoData} :
       /\ stored = [d \in DBs |-> IF d = place[1] THEN s ELSE NoData]
       /\ viewed = [d \in DBs |-> IF d = place[2] THEN v ELSE NoEntries]
       /\ marks = [h \in Hashes |-> IF v[h] = NoData THEN {} ELSE v[h]]
  /\ torrents = {} /\ legacy = setup.old
  /\ pc = "down" /\ boot = EnvPrefs /\ mem = SetDefaultConfig
  /\ route = [settings |-> "bbolt", viewed |-> "bbolt"]
  /\ cache = [h \in Hashes |-> Uncached]
  /\ job = NoJob /\ todo = {} /\ lock = NoActor
  /\ req = [a \in Actors |-> Idle]
  /\ dirty = "none" /\ crashes = 0 /\ sessions = 0
  /\ refused = {} /\ touched = {} /\ found = NothingFound /\ raced = {}

InitSets == \/ Start \/ MigrateSettings \/ ClearSettings \/ ListViewed \/ MigrateViewed
            \/ ClearViewed \/ LoadBTSets \/ UpdatePreferences \/ ImportTorrent
            \/ RemoveLegacy \/ ApplyConfig

Request(a) == \/ SetViewed(a) \/ RemViewed(a) \/ Fill(a) \/ CachePut(a) \/ DBPut(a)
              \/ SetStoragePreferences(a) \/ SwitchSettingsStorage(a) \/ CopySettings(a)
              \/ SwitchViewedStorage(a) \/ CopyViewed(a) \/ ClearSwitched(a) \/ SaveViewed(a)
              \/ ApplySettings(a) \/ ResetDefaultSettings(a)

Next == /\ InitSets \/ (\E a \in Actors : Request(a)) \/ Stop \/ Crash
        /\ UNCHANGED setup

Spec == Init /\ [][Next]_vars

-----------------------------------------------------------------------------
(* Properties. *)

SwitchSteps == {"switch", "copySettings", "copyViewed", "saveViewed"}

\* A request for the viewed history: what it does to which entry, and the entry
\* it has read.
ViewedRequests ==
  {r \in [at : ViewedSteps, op : {"set", "rem", "forget"}, h : Hashes,
          i : Indexes \cup {NoData}, got : Viewed] : r.op = "set" => r.i \in Indexes}

\* A request that changes a storage preference, and what it is to become.
SwitchRequests ==
  [at : SwitchSteps, op : {"settings", "viewed"}, h : {NoData}, i : {NoData}, got : BOOLEAN]

DiskOK ==
  /\ stored \in [DBs -> Settings \cup {NoData}]
  /\ viewed \in [DBs -> [Hashes -> Viewed]]
  /\ torrents \subseteq OldTorrents /\ legacy \subseteq OldTorrents

HistoryOK ==
  /\ marks \in [Hashes -> SUBSET Indexes]
  /\ refused \subseteq OldTorrents
  /\ touched \subseteq Hashes /\ raced \subseteq Hashes
  /\ found \in [dst : DBs \cup {"none"}, entries : [DBs -> [Hashes -> Viewed]]]

ProcessOK ==
  /\ pc \in {"down", "migrateSettings", "clearSettings", "listViewed", "migrateViewed",
             "load", "update", "import", "config", "serve"}
  /\ boot \in Prefs /\ mem \in Settings
  /\ route \in [settings : DBs, viewed : DBs]
  /\ cache \in [Hashes -> Viewed \cup {Uncached}]
  /\ job \in Jobs \cup {NoJob}
  /\ todo \subseteq OldTorrents
  /\ lock \in Actors \cup {NoActor}
  /\ dirty \in {"none", "settings", "viewed"}

\* Every state is well typed.
TypeOK ==
  /\ setup \in Setups /\ DiskOK /\ ProcessOK /\ HistoryOK
  /\ crashes \in Nat /\ sessions \in Nat
  /\ req \in [Actors -> {Idle} \cup ViewedRequests \cup SwitchRequests]

\* A migration takes from its source no entry that the target does not hold, but for
\* those that a request has changed since the migration began, whatever else is
\* written, fails or is killed in between: safeMigrate, safeMigrateAll and
\* SwitchViewedStorage clear after the verification.
SourceKeptUntilVerified ==
  [][/\ \A h \in Hashes \ touched :
          (/\ job # NoJob /\ job' = NoJob /\ pc' # "down"
           /\ viewed[job.src][h] # NoData /\ viewed'[job.src][h] = NoData)
            => viewed[job.dst][h] = viewed[job.src][h]
     /\ pc = "clearSettings" =>
          LET dst == DBFor(boot.settingsInJSON) IN stored[dst] = stored[Other(dst)]]_vars

\* "A storage migration must not destroy its source before it has been verified"
\* (VERSIONING.md): the same of every entry, for requests come in while
\* SwitchViewedStorage moves the history.
SourceKept ==
  [][\A h \in Hashes :
       (/\ job # NoJob /\ job' = NoJob /\ pc' # "down"
        /\ viewed[job.src][h] # NoData /\ viewed'[job.src][h] = NoData)
         => viewed[job.dst][h] = viewed[job.src][h]]_vars

\* As long as no write fails, a start that gets past the migration of the viewed history
\* has in the target what the source held of an entry before it, and what the target
\* held of an entry the source did not have, however often it was killed on the way and
\* begun again (safeMigrateAll).  A kill may truncate the JSON file, and then only what
\* the source held comes back.
EntriesArrive ==
  (~setup.faulty /\ pc = "load") =>
    LET dst == found.dst
        src == Other(dst) IN
    \A h \in Hashes :
      IF found.entries[src][h] # NoData
        THEN viewed[dst][h] = found.entries[src][h]
        ELSE (dst = "json" /\ crashes > 0) \/ viewed[dst][h] = found.entries[dst][h]

\* As long as no write fails, and once a start has run its migrations, the
\* database the viewed history is routed to has every mark that was set and
\* not removed before (SetViewed, safeMigrateAll, SwitchViewedStorage).
ViewedKept ==
  (~setup.faulty /\ pc = "config") =>
    \A h \in Hashes : marks[h] # {} => /\ viewed[route.viewed][h] # NoData
                                       /\ marks[h] \subseteq viewed[route.viewed][h]

\* Requests that run at the same time for different torrents, or one after the other
\* for one, leave the read cache and the database in agreement, as long as no write
\* fails: what the cache has of an entry nobody is using is what the database has
\* (DBReadCache takes its locks for one map access each).
CacheAgrees ==
  (~setup.faulty /\ pc = "serve") =>
    \A h \in Hashes \ raced :
      ~InUse(h) /\ cache[h] # Uncached => cache[h] = viewed[route.viewed][h]

\* "A storage migration must not destroy its source before it has been verified"
\* (VERSIONING.md): an old torrent whose link can be read is in the new database or
\* still in torrserver.db (MigrateTorrentAtPath).
ImportVerified == setup.old \cap Parses \subseteq torrents \cup legacy

\* In every mode, on every disk and wherever the import is killed: the only old
\* torrents that are lost are those whose own AddTorrent stored nothing when the import
\* came to them, as in read-only mode (MigrateTorrentAtPath, migrateAndSave).
LegacyTorrentsKept == setup.old \cap Parses \subseteq torrents \cup legacy \cup refused

=============================================================================
