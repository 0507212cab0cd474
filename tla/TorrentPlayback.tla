-------------------------- MODULE TorrentPlayback --------------------------
(***************************************************************************)
(* One loaded torrent while clients play it: torr/torrent_playback.go,     *)
(* torr/torrent_lifecycle.go, torr/stream.go and torr/preload.go.          *)
(*                                                                         *)
(* The wrapper (type Torrent) is shared by request handlers, by preload    *)
(* goroutines, by its own watch goroutine and by whoever removes it.  Only *)
(* Stat is guarded by muTorrent; the references t.cache and t.Torrent are  *)
(* plain fields, the expiry, the quiesce flag and the connection limit are *)
(* separate atomics, and each library call is a step of its own.  The      *)
(* module therefore splits every operation at each access to that state.   *)
(*                                                                         *)
(* Data left out: file selection, headers, the bytes read, statistics and  *)
(* readahead sizes.  Time is the number of ticks left until the expiry.    *)
(* Admission (StreamAdmission.tla) is reduced to "granted or refused".     *)
(***************************************************************************)
EXTENDS Naturals, FiniteSets

CONSTANTS
  Clients,        \* request handlers and file-system handles of this torrent
  Kinds,          \* which requests clients make: subset of RequestKinds
  Target,         \* the connection limit the policy asks for
  Timeout,        \* disconnectTimeout, in ticks
  PostDelay,      \* postPlaybackDisconnectDelay, in ticks
  SkipActive,     \* StartupPreloadPolicy: TRUE skip-active, FALSE legacy
  Others,         \* other loaded torrents with active readers
  Removable,      \* TRUE when the API may remove the torrent
  ReadOnly        \* the settings database is read-only

RequestKinds == {"stream", "poll", "preload", "file"}

ASSUME PlaybackAssumption ==
  /\ Kinds \subseteq RequestKinds
  /\ Target \in Nat \ {0}
  /\ Timeout \in Nat \ {0}
  /\ PostDelay \in 1..Timeout
  /\ Others \in Nat
  /\ SkipActive \in BOOLEAN /\ Removable \in BOOLEAN /\ ReadOnly \in BOOLEAN
  /\ Clients \cap {"watch", "api"} = {}

Actors == Clients \cup {"watch", "api"}

VARIABLES
  pc,          \* where each actor is
  ret,         \* where its current resume or Close call returns to
  stat,        \* t.Stat
  cacheRef,    \* t.cache # nil
  cacheOpen,   \* the cache is registered in the storage and not closed
  torrentRef,  \* t.Torrent # nil
  dropped,     \* the library torrent was dropped (lifecycle.closed)
  registered,  \* the wrapper is in the registry
  readers,     \* clients whose reader is in cache.readers.items
  inUse,       \* clients whose reader counts in cache.readers.active
  streams,     \* clients holding an admission slot
  allowed,     \* the library may download data
  maxConns,    \* the library's connection limit
  lastMax,     \* lifecycle.lastMaxEstablished
  quiesced,    \* lifecycle.playbackQuiesced
  expiry,      \* ticks until lifecycle.expiredUnixNano, 0 once it has passed
  saw,         \* what the watch goroutine has read for its expiry decision
  held         \* history: clients playing ever since that decision began

wrapper == <<stat, cacheRef, cacheOpen, torrentRef, dropped, registered>>
playing == <<readers, inUse, streams>>
network == <<allowed, maxConns, lastMax, quiesced>>
vars == <<pc, ret, wrapper, playing, network, expiry, saw, held>>

-----------------------------------------------------------------------------
\* Control helpers.

At(a, l) == pc[a] = l

Go(a, l) == pc' = [pc EXCEPT ![a] = l]

\* Enter a shared procedure that returns to l.
Call(a, entry, l) == Go(a, entry) /\ ret' = [ret EXCEPT ![a] = l]

Return(a) == Go(a, ret[a]) /\ ret' = [ret EXCEPT ![a] = "idle"]

\* The handler returns; its deferred release gives the admission slot back.
Finish(c) == Go(c, "idle") /\ streams' = streams \ {c}

\* A method call on t.Torrent panics when drop() has cleared the reference.
\* The HTTP server recovers a handler's panic; nothing recovers one in the
\* watch goroutine or in a preload goroutine, which ends the process.
Panics(a) ==
  /\ ~torrentRef
  /\ streams' = streams \ {a}
  /\ Go(a, IF a \in Clients /\ ret[a] \notin {"canPreload", "preloading"}
           THEN "panicked" ELSE "crashed")

Alive == \A a \in Actors : ~At(a, "crashed")

\* AddExpiredTime: the expiry only moves later.
AddExpiredTime(d) == expiry' = IF expiry >= d THEN expiry ELSE d

\* ShortenExpiredTime: a future expiry only moves earlier, a past one gets d.
ShortenExpiredTime(d) ==
  expiry' = IF expiry > 0 /\ expiry <= d THEN expiry ELSE d

\* ActivePlaybackTorrents never reports less than one.
ActivePlaybackTorrents ==
  LET count == Others + (IF registered /\ cacheRef /\ inUse # {} THEN 1 ELSE 0)
  IN  IF count < 1 THEN 1 ELSE count

-----------------------------------------------------------------------------
\* resumePlaybackPeerAcquisition, entered at "swap".

ResumeSwap(a) ==
  /\ At(a, "swap")
  /\ \/ ~torrentRef /\ Return(a) /\ UNCHANGED quiesced
     \/ torrentRef /\ quiesced' = FALSE
                   /\ Go(a, IF quiesced THEN "allow" ELSE "setMax")
                   /\ UNCHANGED ret
  /\ UNCHANGED <<wrapper, playing, allowed, maxConns, lastMax, expiry, saw>>

ResumeAllow(a) ==
  /\ At(a, "allow")
  /\ \/ Panics(a) /\ UNCHANGED allowed
     \/ torrentRef /\ allowed' = TRUE /\ Go(a, "setMax") /\ UNCHANGED streams
  /\ UNCHANGED <<ret, wrapper, readers, inUse, maxConns, lastMax, quiesced, expiry, saw>>

ResumeSetMax(a) ==
  /\ At(a, "setMax")
  /\ \/ Panics(a) /\ UNCHANGED maxConns
     \/ torrentRef /\ maxConns' = Target /\ Go(a, "storeMax") /\ UNCHANGED streams
  /\ UNCHANGED <<ret, wrapper, readers, inUse, allowed, lastMax, quiesced, expiry, saw>>

ResumeStoreMax(a) ==
  /\ At(a, "storeMax")
  /\ lastMax' = Target
  /\ Return(a)
  /\ UNCHANGED <<wrapper, playing, allowed, maxConns, quiesced, expiry, saw>>

Resume(a) == ResumeSwap(a) \/ ResumeAllow(a) \/ ResumeSetMax(a) \/ ResumeStoreMax(a)

\* TouchPlaybackIntent by client c, returning to l.
TouchPlaybackIntent(c, l) == AddExpiredTime(Timeout) /\ Call(c, "swap", l)

-----------------------------------------------------------------------------
\* quiescePlaybackPeerAcquisition, entered at "quiesce", and the shortened
\* expiry that CloseReader sets after it.

Quiesce(c) ==
  /\ At(c, "quiesce")
  /\ Go(c, IF torrentRef THEN "disallow" ELSE "shorten")
  /\ UNCHANGED <<ret, wrapper, playing, network, expiry, saw>>

QuiesceDisallow(c) ==
  /\ At(c, "disallow")
  /\ \/ Panics(c) /\ UNCHANGED allowed
     \/ torrentRef /\ allowed' = FALSE /\ Go(c, "zeroMax") /\ UNCHANGED streams
  /\ UNCHANGED <<ret, wrapper, readers, inUse, maxConns, lastMax, quiesced, expiry, saw>>

QuiesceZeroMax(c) ==
  /\ At(c, "zeroMax")
  /\ \/ Panics(c) /\ UNCHANGED maxConns
     \/ torrentRef /\ maxConns' = 0 /\ Go(c, "zeroLast") /\ UNCHANGED streams
  /\ UNCHANGED <<ret, wrapper, readers, inUse, allowed, lastMax, quiesced, expiry, saw>>

QuiesceZeroLast(c) ==
  /\ At(c, "zeroLast")
  /\ lastMax' = 0
  /\ Go(c, "markQuiesced")
  /\ UNCHANGED <<ret, wrapper, playing, allowed, maxConns, quiesced, expiry, saw>>

\* Mutant: the torrent is marked when it had a limit, tested after the reset.
QuiesceMark_ifLimited(c) ==
  /\ At(c, "markQuiesced")
  /\ quiesced' = (lastMax > 0)
  /\ Go(c, "shorten")
  /\ UNCHANGED <<ret, wrapper, playing, allowed, maxConns, lastMax, expiry, saw>>

QuiesceMark(c) ==
  /\ At(c, "markQuiesced")
  /\ quiesced' = TRUE
  /\ Go(c, "shorten")
  /\ UNCHANGED <<ret, wrapper, playing, allowed, maxConns, lastMax, expiry, saw>>

Shorten(c) ==
  /\ At(c, "shorten")
  /\ ShortenExpiredTime(PostDelay)
  /\ Finish(c)
  /\ UNCHANGED <<ret, wrapper, readers, inUse, network, saw>>

QuiesceSteps(c) ==
  \/ Quiesce(c) \/ QuiesceDisallow(c) \/ QuiesceZeroMax(c)
  \/ QuiesceZeroLast(c) \/ QuiesceMark(c) \/ Shorten(c)

-----------------------------------------------------------------------------
\* Torrent.Close, entered at "close" by the watch goroutine, by the API or by
\* a client whose GotInfo failed.

\* Mutant: every Close is refused while a reader is active.
CloseBegin_refusesReaders(a) ==
  /\ At(a, "close")
  /\ \/ cacheRef /\ inUse # {} /\ Return(a) /\ UNCHANGED stat
     \/ ~(cacheRef /\ inUse # {}) /\ stat' = "Closed" /\ Go(a, "closeHash") /\ UNCHANGED ret
  /\ UNCHANGED <<cacheRef, cacheOpen, torrentRef, dropped, registered,
                 playing, network, expiry, saw>>

CloseBegin(a) ==
  /\ At(a, "close")
  /\ \/ ReadOnly /\ cacheRef /\ inUse # {} /\ Return(a) /\ UNCHANGED stat
     \/ ~(ReadOnly /\ cacheRef /\ inUse # {}) /\ stat' = "Closed" /\ Go(a, "closeHash") /\ UNCHANGED ret
  /\ UNCHANGED <<cacheRef, cacheOpen, torrentRef, dropped, registered,
                 playing, network, expiry, saw>>

\* registry.Delete, then storage.CloseHash, which closes the cache and
\* forgets its readers.
CloseHash(a) ==
  /\ At(a, "closeHash")
  /\ registered' = FALSE
  /\ cacheOpen' = FALSE
  /\ readers' = {}
  /\ Go(a, "forgetCache")
  /\ UNCHANGED <<ret, stat, cacheRef, torrentRef, dropped, inUse, streams,
                 network, expiry, saw>>

CloseForgetCache(a) ==
  /\ At(a, "forgetCache")
  /\ cacheRef' = FALSE
  /\ Go(a, "drop")
  /\ UNCHANGED <<ret, stat, cacheOpen, torrentRef, dropped, registered,
                 playing, network, expiry, saw>>

\* drop clears t.Torrent under muTorrent and drops the library torrent.
Drop(a) ==
  /\ At(a, "drop")
  /\ torrentRef' = FALSE
  /\ dropped' = TRUE
  /\ Return(a)
  /\ UNCHANGED <<stat, cacheRef, cacheOpen, registered, playing, network,
                 expiry, saw>>

Close(a) == CloseBegin(a) \/ CloseHash(a) \/ CloseForgetCache(a) \/ Drop(a)

-----------------------------------------------------------------------------
\* Requests.

Idle(c) == At(c, "idle") \/ At(c, "polled")

\* Torrent.Stream: refused once closed, else touch and ask for admission.
Stream(c) ==
  /\ "stream" \in Kinds
  /\ Idle(c)
  /\ \/ stat = "Closed" /\ Go(c, "idle") /\ UNCHANGED <<ret, expiry>>
     \/ stat # "Closed" /\ TouchPlaybackIntent(c, "acquire")
  /\ UNCHANGED <<wrapper, playing, network, saw>>

\* tryAcquireStream grants a slot or refuses.
Acquire(c) ==
  /\ At(c, "acquire")
  /\ \/ streams' = streams \cup {c} /\ Go(c, "gotInfo")
     \/ Finish(c)
  /\ UNCHANGED <<ret, wrapper, readers, inUse, network, expiry, saw>>

\* A player polls /stream?stat before it opens the stream.
StreamStat(c) ==
  /\ "poll" \in Kinds
  /\ Idle(c)
  /\ registered
  /\ TouchPlaybackIntent(c, "polled")
  /\ UNCHANGED <<wrapper, playing, network, saw>>

\* The player gives up: its intent is over.
GiveUp(c) ==
  /\ At(c, "polled")
  /\ Go(c, "idle")
  /\ UNCHANGED <<ret, wrapper, playing, network, expiry, saw>>

\* A file-system open takes no admission slot.
Open(c) ==
  /\ "file" \in Kinds
  /\ Idle(c)
  /\ Go(c, "newReader")
  /\ UNCHANGED <<ret, wrapper, playing, network, expiry, saw>>

\* GotInfo: a closed torrent fails, a preloading one succeeds as it is.
GotInfo(c) ==
  /\ At(c, "gotInfo")
  /\ \/ stat = "Closed" /\ Finish(c) /\ UNCHANGED stat
     \/ stat = "Preload" /\ Go(c, "newReader") /\ UNCHANGED <<stat, streams>>
     \/ /\ stat \notin {"Closed", "Preload"}
        /\ stat' = "GettingInfo"
        /\ Go(c, "waitInfo")
        /\ UNCHANGED streams
  /\ UNCHANGED <<ret, cacheRef, cacheOpen, torrentRef, dropped, registered,
                 readers, inUse, network, expiry, saw>>

\* WaitInfo: the metadata is there already, so it takes the cache from the
\* storage; it fails when the torrent is gone, and may fail once it is dropped.
WaitInfo(c) ==
  /\ At(c, "waitInfo")
  /\ \/ /\ torrentRef
        /\ cacheRef' = cacheOpen
        /\ \/ cacheOpen /\ Go(c, "setWorking") /\ UNCHANGED ret
           \/ ~cacheOpen /\ Call(c, "close", "noInfo")
     \/ /\ ~torrentRef \/ dropped
        /\ Call(c, "close", "noInfo")
        /\ UNCHANGED cacheRef
  /\ UNCHANGED <<stat, cacheOpen, torrentRef, dropped, registered, playing,
                 network, expiry, saw>>

SetWorking(c) ==
  /\ At(c, "setWorking")
  /\ stat' = IF stat = "Preload" THEN stat ELSE "Working"
  /\ AddExpiredTime(Timeout)
  /\ Go(c, "newReader")
  /\ UNCHANGED <<ret, cacheRef, cacheOpen, torrentRef, dropped, registered,
                 playing, network, saw>>

\* The request of a torrent without metadata fails.
NoInfo(c) ==
  /\ At(c, "noInfo")
  /\ Finish(c)
  /\ UNCHANGED <<ret, wrapper, readers, inUse, network, expiry, saw>>

\* Mutant: a request that gets no reader keeps its admission slot.
NewReader_keepsSlot(c) ==
  /\ At(c, "newReader")
  /\ Go(c, IF stat = "Closed" \/ ~cacheRef THEN "idle" ELSE "openReader")
  /\ UNCHANGED <<ret, wrapper, playing, network, expiry, saw>>

\* NewReader checks under muTorrent ...
NewReader(c) ==
  /\ At(c, "newReader")
  /\ \/ (stat = "Closed" \/ ~cacheRef) /\ Finish(c)
     \/ stat # "Closed" /\ cacheRef /\ Go(c, "openReader") /\ UNCHANGED streams
  /\ UNCHANGED <<ret, wrapper, readers, inUse, network, expiry, saw>>

\* ... and opens the reader after it has let go of the lock.  The reader set
\* of a cache closed in between is nil and storing into it panics; newReader
\* has already counted the reader as active.
OpenReader(c) ==
  /\ At(c, "openReader")
  /\ inUse' = inUse \cup {c}
  /\ \/ cacheOpen /\ readers' = readers \cup {c} /\ Call(c, "swap", "reading") /\ UNCHANGED streams
     \/ ~cacheOpen /\ Go(c, "panicked") /\ streams' = streams \ {c} /\ UNCHANGED <<readers, ret>>
  /\ UNCHANGED <<wrapper, network, expiry, saw>>

\* Reader.Read, Seek and checkReader count an open reader as active ...
ReaderOn(c) ==
  /\ At(c, "reading")
  /\ inUse' = inUse \cup {c}
  /\ UNCHANGED <<pc, ret, wrapper, readers, streams, network, expiry, saw>>

\* ... and checkReader demotes one that idles beside another reader.
ReaderOff(c) ==
  /\ At(c, "reading")
  /\ c \in readers
  /\ Cardinality(readers) > 1
  /\ inUse' = inUse \ {c}
  /\ UNCHANGED <<pc, ret, wrapper, readers, streams, network, expiry, saw>>

\* CloseReader does nothing once t.cache is nil.
CloseReader(c) ==
  /\ At(c, "reading")
  /\ \/ ~cacheRef /\ Finish(c) /\ UNCHANGED <<readers, inUse>>
     \/ /\ cacheRef
        /\ readers' = readers \ {c}
        /\ inUse' = inUse \ {c}
        /\ Go(c, "lastReader")
        /\ UNCHANGED streams
  /\ UNCHANGED <<ret, wrapper, network, expiry, saw>>

\* The last active reader quiesces the torrent, any other extends the expiry.
CheckLastReader(c) ==
  /\ At(c, "lastReader")
  /\ \/ (~cacheRef \/ inUse = {}) /\ Go(c, "quiesce") /\ UNCHANGED <<expiry, streams>>
     \/ cacheRef /\ inUse # {} /\ AddExpiredTime(Timeout) /\ Finish(c)
  /\ UNCHANGED <<ret, wrapper, readers, inUse, network, saw>>

-----------------------------------------------------------------------------
\* Preload: the policy, then a goroutine that reads through library readers,
\* which the cache does not count.

EnqueuePreload(c) ==
  /\ "preload" \in Kinds
  /\ Idle(c)
  /\ registered
  /\ LET threshold == IF SkipActive THEN 0 ELSE 1 IN
       \/ /\ ActivePlaybackTorrents > threshold
          /\ Go(c, "idle")
          /\ UNCHANGED <<ret, expiry>>
       \/ /\ ActivePlaybackTorrents <= threshold
          /\ TouchPlaybackIntent(c, "canPreload")
  /\ UNCHANGED <<wrapper, playing, network, saw>>

\* canPreload looks at Stat in one critical section ...
CanPreload(c) ==
  /\ At(c, "canPreload")
  /\ Go(c, IF stat = "Working" THEN "setPreload" ELSE "idle")
  /\ UNCHANGED <<ret, wrapper, playing, network, expiry, saw>>

\* ... and Preload stores into it in another one.
SetPreload(c) ==
  /\ At(c, "setPreload")
  /\ stat' = "Preload"
  /\ Go(c, "setup")
  /\ UNCHANGED <<ret, cacheRef, cacheOpen, torrentRef, dropped, registered,
                 playing, network, expiry, saw>>

\* setupPreloadReaders needs the library torrent.
SetupPreload(c) ==
  /\ At(c, "setup")
  /\ \/ ~torrentRef /\ Go(c, "crashed") /\ UNCHANGED <<ret, expiry>>
     \/ torrentRef /\ TouchPlaybackIntent(c, "preloading")
  /\ UNCHANGED <<wrapper, playing, network, saw>>

\* While it runs, runEndRangePreload touches the torrent once more and
\* monitorPreloadProgress keeps the expiry away.
PreloadTouch(c) ==
  /\ At(c, "preloading")
  /\ stat = "Preload"
  /\ \/ TouchPlaybackIntent(c, "preloading")
     \/ AddExpiredTime(Timeout) /\ UNCHANGED <<pc, ret>>
  /\ UNCHANGED <<wrapper, playing, network, saw>>

\* Mutant: a finished preload does not restore Stat.
PreloadEnd_keepsStat(c) ==
  /\ At(c, "preloading")
  /\ Go(c, "idle")
  /\ UNCHANGED <<ret, wrapper, playing, network, expiry, saw>>

PreloadEnd(c) ==
  /\ At(c, "preloading")
  /\ stat' = IF stat = "Preload" THEN "Working" ELSE stat
  /\ Go(c, "idle")
  /\ UNCHANGED <<ret, cacheRef, cacheOpen, torrentRef, dropped, registered,
                 playing, network, expiry, saw>>

-----------------------------------------------------------------------------
\* The watch goroutine: every second progressEvent reads the four inputs of
\* shouldExpireTorrent one after the other and then acts on them.

NothingSeen == [due |-> FALSE, stat |-> "Added", readers |-> FALSE]

WatchExpiry ==
  /\ At("watch", "tick")
  /\ cacheRef
  /\ saw' = [NothingSeen EXCEPT !.due = expiry = 0]
  /\ Go("watch", "readStat")
  /\ UNCHANGED <<ret, wrapper, playing, network, expiry>>

WatchStat ==
  /\ At("watch", "readStat")
  /\ saw' = [saw EXCEPT !.stat = stat]
  /\ Go("watch", "countReaders")
  /\ UNCHANGED <<ret, wrapper, playing, network, expiry>>

WatchReaders ==
  /\ At("watch", "countReaders")
  /\ saw' = [saw EXCEPT !.readers = cacheRef /\ readers # {}]
  /\ Go("watch", "askStreams")
  /\ UNCHANGED <<ret, wrapper, playing, network, expiry>>

\* Mutant: admitted streams do not keep the torrent.
shouldExpireTorrent_ignoresStreams(seen, hasActiveStream) ==
  ~seen.readers /\ seen.due /\ seen.stat \in {"Working", "Closed"}

shouldExpireTorrent(seen, hasActiveStream) ==
  /\ ~seen.readers
  /\ ~hasActiveStream
  /\ seen.due
  /\ seen.stat \in {"Working", "Closed"}

WatchDecide ==
  /\ At("watch", "askStreams")
  /\ Go("watch", IF shouldExpireTorrent(saw, streams # {}) THEN "remove" ELSE "updateRA")
  /\ saw' = NothingSeen
  /\ UNCHANGED <<ret, wrapper, playing, network, expiry>>

\* updateRA restores the connection limit the policy asks for.
UpdateRA ==
  /\ At("watch", "updateRA")
  /\ Go("watch", IF cacheRef /\ torrentRef /\ lastMax # Target THEN "raSetMax" ELSE "tick")
  /\ UNCHANGED <<ret, wrapper, playing, network, expiry, saw>>

UpdateRASetMax ==
  /\ At("watch", "raSetMax")
  /\ \/ Panics("watch") /\ UNCHANGED maxConns
     \/ torrentRef /\ maxConns' = Target /\ Go("watch", "raStoreMax") /\ UNCHANGED streams
  /\ UNCHANGED <<ret, wrapper, readers, inUse, allowed, lastMax, quiesced, expiry, saw>>

UpdateRAStoreMax ==
  /\ At("watch", "raStoreMax")
  /\ lastMax' = Target
  /\ Go("watch", "tick")
  /\ UNCHANGED <<ret, wrapper, playing, allowed, maxConns, quiesced, expiry, saw>>

WatchEnd ==
  /\ At("watch", "tick")
  /\ dropped
  /\ Go("watch", "done")
  /\ UNCHANGED <<ret, wrapper, playing, network, expiry, saw>>

\* BTServer.RemoveTorrent: whoever takes the wrapper out of the registry
\* closes it.
RemoveTorrent(a) ==
  /\ At(a, "remove")
  /\ \/ registered /\ Call(a, "close", IF a = "watch" THEN "tick" ELSE "done")
     \/ ~registered /\ Go(a, IF a = "watch" THEN "tick" ELSE "done") /\ UNCHANGED ret
  /\ registered' = FALSE
  /\ UNCHANGED <<stat, cacheRef, cacheOpen, torrentRef, dropped, playing,
                 network, expiry, saw>>

\* The API: removal is unconditional, drop looks for playback first.
ApiRemove ==
  /\ Removable
  /\ At("api", "idle")
  /\ ~ReadOnly
  /\ Go("api", "remove")
  /\ UNCHANGED <<ret, wrapper, playing, network, expiry, saw>>

ApiDrop ==
  /\ Removable
  /\ At("api", "idle")
  /\ streams = {}
  /\ ~(registered /\ cacheRef /\ inUse # {})
  /\ Go("api", "remove")
  /\ UNCHANGED <<ret, wrapper, playing, network, expiry, saw>>

\* A tick of the clock.
Elapse ==
  /\ expiry > 0
  /\ expiry' = expiry - 1
  /\ UNCHANGED <<pc, ret, wrapper, playing, network, saw>>

-----------------------------------------------------------------------------
\* The torrent has its metadata and its cache, and nobody plays it yet.
Init ==
  /\ pc = [a \in Actors |-> IF a = "watch" THEN "tick" ELSE "idle"]
  /\ ret = [a \in Actors |-> "idle"]
  /\ stat = "Working"
  /\ cacheRef = TRUE /\ cacheOpen = TRUE /\ torrentRef = TRUE
  /\ dropped = FALSE /\ registered = TRUE
  /\ readers = {} /\ inUse = {} /\ streams = {}
  /\ allowed = TRUE /\ maxConns = Target /\ lastMax = 0 /\ quiesced = FALSE
  /\ expiry = Timeout
  /\ saw = NothingSeen
  /\ held = {}

\* History: held is set when an expiry decision begins and loses a client
\* as soon as it neither streams nor reads.
TrackHeld ==
  held' = (IF At("watch", "tick") /\ pc'["watch"] # "tick" THEN streams \cup readers ELSE held)
          \cap (streams' \cup readers')

\* Steps a client takes on its own: start a request, read, end a request.
Chooses(c) ==
  \/ Stream(c) \/ StreamStat(c) \/ GiveUp(c) \/ Open(c) \/ EnqueuePreload(c)
  \/ ReaderOn(c) \/ ReaderOff(c) \/ CloseReader(c) \/ PreloadTouch(c)

\* Steps of a call that is under way.
Proceeds(c) ==
  \/ Resume(c) \/ QuiesceSteps(c) \/ Close(c)
  \/ Acquire(c) \/ GotInfo(c) \/ WaitInfo(c) \/ SetWorking(c) \/ NoInfo(c)
  \/ NewReader(c) \/ OpenReader(c) \/ CheckLastReader(c)
  \/ CanPreload(c) \/ SetPreload(c) \/ SetupPreload(c) \/ PreloadEnd(c)

Watch ==
  \/ WatchExpiry \/ WatchStat \/ WatchReaders \/ WatchDecide
  \/ UpdateRA \/ UpdateRASetMax \/ UpdateRAStoreMax \/ WatchEnd
  \/ RemoveTorrent("watch") \/ Close("watch")

Api == ApiRemove \/ ApiDrop \/ RemoveTorrent("api") \/ Close("api")

Next ==
  /\ Alive
  /\ \/ \E c \in Clients : Chooses(c) \/ Proceeds(c)
     \/ Watch \/ Api \/ Elapse
  /\ TrackHeld

\* The Go scheduler runs every goroutine that can run, and time passes;
\* nobody is obliged to start a request or to end a playback.
Fairness ==
  /\ \A c \in Clients : WF_vars(Alive /\ Proceeds(c) /\ TrackHeld)
  /\ WF_vars(Alive /\ Watch /\ TrackHeld)
  /\ WF_vars(Alive /\ (RemoveTorrent("api") \/ Close("api")) /\ TrackHeld)
  /\ WF_vars(Alive /\ Elapse /\ TrackHeld)

Spec == Init /\ [][Next]_vars

FairSpec == Spec /\ Fairness

-----------------------------------------------------------------------------
\* Properties.

ClientLabels ==
  {"idle", "polled", "swap", "allow", "setMax", "storeMax", "quiesce",
   "disallow", "zeroMax", "zeroLast", "markQuiesced", "shorten", "acquire",
   "gotInfo", "waitInfo", "setWorking", "noInfo", "newReader", "openReader",
   "reading", "lastReader", "canPreload", "setPreload", "setup", "preloading"}

OtherLabels ==
  {"tick", "readStat", "countReaders", "askStreams", "remove", "updateRA",
   "raSetMax", "raStoreMax", "done", "close", "closeHash", "forgetCache",
   "drop", "panicked", "crashed"}

\* Where resume and Close return to.
ReturnLabels ==
  {"idle", "polled", "acquire", "reading", "canPreload", "preloading",
   "noInfo", "tick", "done"}

FlagsOK ==
  /\ cacheRef \in BOOLEAN /\ cacheOpen \in BOOLEAN /\ torrentRef \in BOOLEAN
  /\ dropped \in BOOLEAN /\ registered \in BOOLEAN
  /\ allowed \in BOOLEAN /\ quiesced \in BOOLEAN

SeenOK ==
  saw \in [due : BOOLEAN, readers : BOOLEAN,
           stat : {"Added", "GettingInfo", "Preload", "Working", "Closed"}]

\* Every variable of torrent_playback.go's and torrent_lifecycle.go's state
\* keeps its type; in particular the expiry never exceeds the timeout.
TypeOK ==
  /\ FlagsOK
  /\ SeenOK
  /\ pc \in [Actors -> ClientLabels \cup OtherLabels]
  /\ ret \in [Actors -> ReturnLabels]
  /\ stat \in {"GettingInfo", "Preload", "Working", "Closed"}
  /\ readers \subseteq Clients /\ inUse \subseteq Clients /\ streams \subseteq Clients
  /\ maxConns \in {0, Target} /\ lastMax \in {0, Target}
  /\ expiry \in 0..Timeout
  /\ held \subseteq Clients

\* Between DisallowDataDownload and the store of playbackQuiesced.
MidQuiesce(a) == pc[a] \in {"zeroMax", "zeroLast", "markQuiesced"}

\* Quiesce and resume race without a lock (torrent_playback.go:126-151), yet a
\* loaded torrent whose downloads are off can always be resumed: the flag that
\* makes the next request allow them is set, or is about to be, or somebody is
\* about to allow them.
QuiesceRecoverable ==
  torrentRef /\ ~allowed =>
    \/ quiesced
    \/ \E a \in Actors : MidQuiesce(a) \/ At(a, "allow")

\* The watch goroutine decides on values it read one after the other, while
\* clients come and go (torrent_lifecycle.go:181-202): nobody who has been
\* streaming or reading ever since the decision began is closed by it.
ExpirySparesPlayback == At("watch", "remove") => held = {}

\* A client between requests holds neither an admission slot nor, while the
\* cache is open, a reader (stream.go:48, stream_http.go:432-440): every way
\* out of a request gives both back.
IdleHoldsNothing ==
  \A c \in Clients : Idle(c) =>
    c \notin streams /\ (cacheRef => c \notin readers \cup inUse)

\* TouchPlaybackIntent's comment (torrent_playback.go:79-81): downloads are
\* not switched off between a player's poll and its stream.
IntentNotQuiesced ==
  [][\A c \in Clients : At(c, "polled") /\ pc'[c] = "polled" /\ allowed => allowed']_vars

\* RemoveTorrent (btserver_registry.go:33-43): a torrent that has left the
\* registry is dropped, unless a goroutine crashed the process.
UnregisteredIsDropped == ~registered ~> (dropped \/ ~Alive)

\* watch (torrent_lifecycle.go:118-202): a torrent nobody asks for any more
\* is dropped, unless a goroutine crashed the process.
UnusedIsDropped ==
  <>[](\A c \in Clients : pc[c] \in {"idle", "polled", "panicked"}) => <>(dropped \/ ~Alive)

\* Every torrent that is not wanted any more is dropped.
DroppedInTheEnd == UnregisteredIsDropped /\ UnusedIsDropped

=============================================================================
