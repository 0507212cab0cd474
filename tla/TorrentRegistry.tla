-------------------------- MODULE TorrentRegistry --------------------------
(***************************************************************************)
(* One torrent between the registry of the BT server, the torrent client   *)
(* library, the cache registry of the storage and the torrent database,    *)
(* while several handlers add, play, drop and remove it (server/torr:      *)
(* btserver_torrent_registry.go, btserver_registry.go, torrent.go,         *)
(* torrent_lifecycle.go, service_adapter.go; apiservices/torrent_service;  *)
(* web/api/torrents.go).                                                   *)
(*                                                                         *)
(* A wrapper is a *Torrent, a generation the library's torrent it wraps.   *)
(* The registry, the client and the storage each have a lock, and every    *)
(* call into one of them is a step of its own.  Titles, posters and        *)
(* categories are left out.                                                *)
(***************************************************************************)
EXTENDS Integers, FiniteSets, Sequences

CONSTANTS
  Handlers,        \* goroutines that serve requests
  MaxGenerations,  \* bound: torrents the library makes
  MaxWrappers      \* bound: wrappers

ASSUME RegistryAssumption == MaxGenerations \in Nat /\ MaxWrappers \in Nat

VARIABLES
  entry,       \* btTorrentRegistry.items: a wrapper, 0 when there is none
  wrappers,    \* all wrappers: generation, Stat, whether cache and Torrent are set
  lib,         \* the generation the client has, 0 when there is none
  generations, \* generations made so far
  dropped,     \* generations the client has closed
  info,        \* generations whose metadata has arrived
  cacheEntry,  \* storageCacheRegistry.items: the generation whose cache is there
  openCaches,  \* generations whose cache is not closed
  stored,      \* the torrent database has a record
  handler,     \* what each handler does, and the wrapper it holds
  displaced    \* ghost: a Close has taken the entry of another wrapper, or its refusal
               \* has left a wrapper without one

registryVars == <<entry, wrappers, lib, generations, dropped, info, cacheEntry,
                  openCaches, stored, handler, displaced>>

Idle == [pc |-> "idle", op |-> "none", tor |-> 0, gen |-> 0]

RegistryInit ==
  /\ entry = 0 /\ wrappers = <<>>
  /\ lib = 0 /\ generations = 0 /\ dropped = {} /\ info = {}
  /\ cacheEntry = 0 /\ openCaches = {}
  /\ stored = FALSE /\ displaced = FALSE
  /\ handler = [h \in Handlers |-> Idle]

\* A handler that is done still has its wrapper.
Goto(h, from, to) ==
  /\ handler[h].pc = from
  /\ handler' = [handler EXCEPT ![h] =
       IF to = "idle" THEN [Idle EXCEPT !.tor = handler[h].tor] ELSE [@ EXCEPT !.pc = to]]

-----------------------------------------------------------------------------
(* Requests.                                                               *)

\* GetTorrent: the registry first, then the database.  An added torrent in memory is
\* only saved; another is added.
StartAdd(h) ==
  /\ handler[h].pc = "idle"
  /\ \E op \in {"add", "addSaved"} :
       handler' = [handler EXCEPT ![h] =
         [pc |-> IF entry = 0 THEN "spec" ELSE "added", op |-> op, tor |-> entry,
          gen |-> 0]]
  /\ UNCHANGED <<entry, wrappers, lib, generations, dropped, info, cacheEntry,
                 openCaches, stored, displaced>>

\* A player: a torrent in memory is used, one in the database is loaded first.
StartPlay(h) ==
  /\ handler[h].pc = "idle"
  /\ entry # 0 \/ stored
  /\ handler' = [handler EXCEPT ![h] =
       IF entry # 0
         THEN [pc |-> "gotInfo", op |-> "play", tor |-> entry, gen |-> 0]
         ELSE [pc |-> "spec", op |-> "load", tor |-> 0, gen |-> 0]]
  /\ UNCHANGED <<entry, wrappers, lib, generations, dropped, info, cacheEntry,
                 openCaches, stored, displaced>>

\* RemoveTorrent and DropTorrent: BTServer.RemoveTorrent takes the entry out and closes
\* what it took.  (The watch goroutine of an expired torrent does the same.)
StartRemove(h) ==
  /\ handler[h].pc = "idle"
  /\ \E op \in {"rem", "drop"} :
       handler' = [handler EXCEPT ![h] =
         [pc |-> IF entry # 0 THEN "close" ELSE "closed", op |-> op, tor |-> entry,
          gen |-> 0]]
  /\ entry' = 0
  /\ UNCHANGED <<wrappers, lib, generations, dropped, info, cacheEntry, openCaches,
                 stored, displaced>>

-----------------------------------------------------------------------------
(* NewTorrent.                                                             *)

\* AddTorrentSpec: the torrent the client has, or a new one.
AddTorrentSpec(h) ==
  /\ handler[h].pc = "spec"
  /\ IF lib # 0
       THEN UNCHANGED <<lib, generations>>
       ELSE /\ generations < MaxGenerations
            /\ generations' = generations + 1 /\ lib' = generations'
  /\ handler' = [handler EXCEPT ![h].pc = "get", ![h].gen = lib']
  /\ UNCHANGED <<entry, wrappers, dropped, info, cacheEntry, openCaches, stored,
                 displaced>>

\* registry.Get; nothing there makes a wrapper of what AddTorrentSpec returned.
NewWrapper(gen) == [gen |-> gen, stat |-> "added", cached |-> FALSE, set |-> TRUE]

RegistryGet(h) ==
  /\ handler[h].pc = "get"
  /\ IF entry # 0
       THEN /\ handler' = [handler EXCEPT ![h].pc = "added", ![h].tor = entry,
                                             ![h].gen = 0]
            /\ UNCHANGED wrappers
       ELSE /\ Len(wrappers) < MaxWrappers
            /\ wrappers' = Append(wrappers, NewWrapper(handler[h].gen))
            /\ handler' = [handler EXCEPT ![h].pc = "store", ![h].gen = 0,
                                             ![h].tor = Len(wrappers')]
  /\ UNCHANGED <<entry, lib, generations, dropped, info, cacheEntry, openCaches,
                 stored, displaced>>

\* Mutant: the second of two adders overwrites the entry of the first.
LoadOrStore_overwrite(h) ==
  /\ handler[h].pc = "store"
  /\ entry' = handler[h].tor
  /\ handler' = [handler EXCEPT ![h].pc = "added"]
  /\ UNCHANGED <<wrappers, lib, generations, dropped, info, cacheEntry, openCaches,
                 stored, displaced>>

LoadOrStore(h) ==
  /\ handler[h].pc = "store"
  /\ entry' = IF entry # 0 THEN entry ELSE handler[h].tor
  /\ handler' = [handler EXCEPT ![h].pc = "added", ![h].tor = entry']
  /\ UNCHANGED <<wrappers, lib, generations, dropped, info, cacheEntry, openCaches,
                 stored, displaced>>

\* EnqueueMetadataFinalize saves the torrent if the request said so; a torrent loaded
\* from the database waits for its metadata.
Added(h) ==
  /\ Goto(h, "added", IF handler[h].op = "load" THEN "wait" ELSE "idle")
  /\ stored' = (stored \/ handler[h].op = "addSaved")
  /\ UNCHANGED <<entry, wrappers, lib, generations, dropped, info, cacheEntry,
                 openCaches, displaced>>

-----------------------------------------------------------------------------
(* GotInfo and WaitInfo.                                                   *)

GotInfo(h) ==
  LET w == handler[h].tor IN
  /\ Goto(h, "gotInfo", IF wrappers[w].stat = "closed" THEN "idle" ELSE "wait")
  /\ wrappers' = IF wrappers[w].stat = "closed" THEN wrappers
                 ELSE [wrappers EXCEPT ![w].stat = "info"]
  /\ UNCHANGED <<entry, lib, generations, dropped, info, cacheEntry, openCaches, stored,
                 displaced>>

\* Mutant: a torrent whose metadata did not come is left as it is.
waited_leave(h, from, ok) ==
  Goto(h, from, IF ok /\ handler[h].op = "load" THEN "gotInfo" ELSE "idle")

\* A player without metadata closes the torrent, LoadTorrent only gives up.
waited(h, from, ok) ==
  Goto(h, from, CASE ok -> IF handler[h].op = "load" THEN "gotInfo" ELSE "idle"
                  [] ~ok -> IF handler[h].op = "load" THEN "idle" ELSE "close")

\* The metadata has arrived: the cache is looked up by hash.  A closed torrent that
\* finds one is marked working.
WaitInfoReady(h) ==
  LET w == handler[h].tor IN
  /\ handler[h].pc = "wait"
  /\ wrappers[w].set /\ wrappers[w].gen \in info
  /\ waited(h, "wait", cacheEntry # 0)
  /\ wrappers' = IF cacheEntry = 0 THEN wrappers
                 ELSE [wrappers EXCEPT ![w].cached = TRUE,
                                       ![w].stat = IF handler[h].op = "load" THEN @
                                                   ELSE "working"]
  /\ UNCHANGED <<entry, lib, generations, dropped, info, cacheEntry, openCaches, stored,
                 displaced>>

\* The torrent has been closed, or dropped before it was looked at.
WaitInfoClosed(h) ==
  LET w == handler[h].tor IN
  /\ handler[h].pc = "wait"
  /\ ~wrappers[w].set \/ wrappers[w].gen \in dropped
  /\ waited(h, "wait", FALSE)
  /\ UNCHANGED <<entry, wrappers, lib, generations, dropped, info, cacheEntry,
                 openCaches, stored, displaced>>

WaitInfoTimeout(h) ==
  /\ waited(h, "wait", FALSE)
  /\ UNCHANGED <<entry, wrappers, lib, generations, dropped, info, cacheEntry,
                 openCaches, stored, displaced>>

-----------------------------------------------------------------------------
(* Close.                                                                  *)

\* The entry is deleted by hash, whosever it is by now.
CloseEntry(h) ==
  LET w == handler[h].tor IN
  /\ Goto(h, "close", "closeHash")
  /\ wrappers' = [wrappers EXCEPT ![w].stat = "closed"]
  /\ entry' = 0
  /\ displaced' = (displaced \/ entry \notin {0, w})
  /\ UNCHANGED <<lib, generations, dropped, info, cacheEntry, openCaches, stored>>

\* A server in read-only mode leaves a torrent alone that has a reader on its cache, even
\* if its entry is out already.  RemoveTorrent does not get here in that mode.
CloseRefused(h) ==
  LET w == handler[h].tor IN
  /\ Goto(h, "close", "idle")
  /\ wrappers[w].cached /\ handler[h].op # "rem"
  /\ displaced' = (displaced \/ entry # w)
  /\ UNCHANGED <<entry, wrappers, lib, generations, dropped, info, cacheEntry,
                 openCaches, stored>>

\* storage.CloseHash: the cache that is registered is closed.
CloseHash(h) ==
  /\ Goto(h, "closeHash", "drop")
  /\ openCaches' = openCaches \ {cacheEntry}
  /\ cacheEntry' = 0
  /\ wrappers' = [wrappers EXCEPT ![handler[h].tor].cached = FALSE]
  /\ UNCHANGED <<entry, lib, generations, dropped, info, stored, displaced>>

\* drop: the library closes its torrent and the cache it still has open, which
\* unregisters by hash.  Dropping twice does nothing.
Drop(h) ==
  LET w == handler[h].tor
      gen == wrappers[w].gen
      live == wrappers[w].set /\ gen \notin dropped
  IN  /\ Goto(h, "drop", "closed")
      /\ wrappers' = [wrappers EXCEPT ![w].set = FALSE]
      /\ dropped' = IF live THEN dropped \cup {gen} ELSE dropped
      /\ lib' = IF live /\ lib = gen THEN 0 ELSE lib
      /\ openCaches' = IF live THEN openCaches \ {gen} ELSE openCaches
      /\ cacheEntry' = IF live /\ gen \in openCaches THEN 0 ELSE cacheEntry
      /\ UNCHANGED <<entry, generations, info, stored, displaced>>

\* RemoveTorrent's last step, after the wait for the library and the files on disk.
RemoveRecord(h) ==
  /\ Goto(h, "closed", "idle")
  /\ stored' = (stored /\ handler[h].op # "rem")
  /\ UNCHANGED <<entry, wrappers, lib, generations, dropped, info, cacheEntry,
                 openCaches, displaced>>

\* The library gets the metadata and opens the storage.
InfoArrives ==
  /\ lib # 0 /\ lib \notin info
  /\ info' = info \cup {lib}
  /\ cacheEntry' = lib /\ openCaches' = openCaches \cup {lib}
  /\ UNCHANGED <<entry, wrappers, lib, generations, dropped, stored, handler, displaced>>

HandlerStep(h) ==
  \/ AddTorrentSpec(h) \/ RegistryGet(h) \/ LoadOrStore(h) \/ Added(h)
  \/ GotInfo(h) \/ WaitInfoReady(h) \/ WaitInfoClosed(h) \/ WaitInfoTimeout(h)
  \/ CloseEntry(h) \/ CloseRefused(h) \/ CloseHash(h) \/ Drop(h) \/ RemoveRecord(h)

RegistryNext ==
  \/ \E h \in Handlers : StartAdd(h) \/ StartPlay(h) \/ StartRemove(h) \/ HandlerStep(h)
  \/ InfoArrives

RegistrySpec == RegistryInit /\ [][RegistryNext]_registryVars

Places == {"idle", "spec", "get", "store", "added", "gotInfo", "wait",
           "close", "closeHash", "drop", "closed"}
Operations == {"none", "add", "addSaved", "play", "load", "rem", "drop"}
Wrapper == [gen : Nat, stat : {"added", "info", "working", "closed"},
            cached : BOOLEAN, set : BOOLEAN]

RegistryData ==
  /\ wrappers \in Seq(Wrapper) /\ entry \in 0 .. Len(wrappers)
  /\ lib \in Nat /\ generations \in Nat /\ cacheEntry \in Nat
  /\ dropped \subseteq Nat /\ info \subseteq Nat /\ openCaches \subseteq Nat
  /\ handler \in [Handlers -> [pc : Places, op : Operations,
                               tor : 0 .. Len(wrappers), gen : Nat]]

RegistryTypeOK ==
  /\ RegistryData
  /\ stored \in BOOLEAN /\ displaced \in BOOLEAN

-----------------------------------------------------------------------------
Alive(w) == wrappers[w].set /\ wrappers[w].gen \notin dropped

Closing == \E h \in Handlers : handler[h].pc \in {"close", "closeHash", "drop"}

\* A handler was given this wrapper by NewTorrent or by the registry.
Has(h, w) == handler[h].tor = w /\ w # 0 /\ handler[h].pc # "store"

\* Handlers that race to add a torrent end with the same wrapper, the registered one:
\* nobody goes on with a live torrent that the others cannot find
\* (btserver_torrent_registry.go:72).  The exceptions are a Close that comes so late that
\* it deletes the entry of a newer wrapper, and one that a read-only server refuses after
\* the entry has been deleted (btserver_registry.go:38, torrent_lifecycle.go:247).
AddersAgree ==
  ~(Closing \/ displaced) =>
     \A h \in Handlers, w \in DOMAIN wrappers : (Has(h, w) /\ Alive(w)) => w = entry

\* An entry whose torrent the library has closed does not stay for ever: a player that
\* keeps asking gets it out of the way (torrent_lifecycle.go:44).
StaleEntryHeals ==
  (entry # 0 /\ ~Alive(entry)) ~> (entry = 0 \/ Alive(entry))
=============================================================================
