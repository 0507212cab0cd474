-------------------------- MODULE ServerLifecycle --------------------------
(***************************************************************************)
(* The torrserver process from start to exit: the daemon that supervises   *)
(* it (server/internal/daemon, bootstrap), the runtime and its web server  *)
(* (server/internal/app, server/web), the listeners, the requests they     *)
(* accept, and the two ways to stop: a signal, which the daemon answers,   *)
(* and the shutdown request, whose hook stops the runtime by itself.       *)
(*                                                                         *)
(* One action is one step between two points where another goroutine can   *)
(* see a difference.  Time is free: a grace period or a deadline may end   *)
(* at any moment, a step that may hang has no fairness.                    *)
(***************************************************************************)
EXTENDS Naturals, Sequences, FiniteSets

CONSTANTS
  Servers,   \* the listeners, started in this order: HTTPS if enabled, HTTP
  Requests,  \* requests clients may make, each at most once
  Kind,      \* what each of them is: "stream", "settings" or "shutdown"
  NoRequest, \* not a request
  MaxRequests \* bound: how many of them one run of the process gets

App == "app"                     \* the goroutine of App.Stop
Callers == {r \in Requests : Kind[r] = "shutdown"} \cup {App}

ASSUME LifecycleAssumption ==
  /\ Servers \in {<<"http">>, <<"https", "http">>}
  /\ Kind \in [Requests -> {"stream", "settings", "shutdown"}]
  /\ NoRequest \notin Requests /\ App \notin Requests
  /\ MaxRequests \in Nat

Names == {Servers[i] : i \in 1 .. Len(Servers)}

VARIABLES
  main,      \* where daemon.Run is
  exit,      \* how it has ended: the exit code and the way it came about
  failed,    \* the runtime ended with an error, which Stop follows
  signalled, \* a signal has arrived
  waitChan,  \* Server.waitChan: what the listeners have reported
  waited,    \* what Wait has returned to supervise
  field,     \* Server.httpServer and httpsSrv: the ones that are set
  listener,  \* the goroutine of each listener
  shut,      \* listeners on which http.Server.Shutdown has been called
  taken,     \* the servers Server.Stop has taken out of the fields
  phase,     \* how far the body of serverRuntime.Stop is
  runner,    \* who runs it (stopOnce)
  calling,   \* goroutines inside serverRuntime.Stop
  stopped,   \* App.Stop has seen it end
  asked,     \* shutdownCtl.requested
  state,     \* of each request: none, active, done, or cut off
  via,       \* the listener that accepted it
  step,      \* what is left of a request: its goroutine
  db,        \* the settings database
  client,    \* the torrent client is connected
  modules,   \* DLNA and FUSE may be up
  worker,    \* the goroutine that removes unused caches
  cancelled, \* its context
  lost       \* it has removed the cache of a torrent the database knows

start == <<exit, failed, signalled, waited>>
web == <<waitChan, field, listener, shut>>
stop == <<taken, phase, runner, calling, stopped>>
request == <<asked, state, via, step>>
parts == <<db, client, modules>>
cleanup == <<worker, cancelled, lost>>
vars == <<main, exit, failed, signalled, waitChan, waited, field, listener, shut,
          taken, phase, runner, calling, stopped, asked, state, via, step,
          db, client, modules, worker, cancelled, lost>>

NoExit == [code |-> 0, way |-> "none"]

Init ==
  /\ main = "settings" /\ exit = NoExit /\ failed = FALSE /\ signalled = FALSE
  /\ waitChan = <<>> /\ waited = "nothing"
  /\ field = {} /\ listener = [s \in Names |-> "none"] /\ shut = {}
  /\ taken = {} /\ phase = "none" /\ runner = NoRequest /\ calling = {} /\ stopped = FALSE
  /\ asked = FALSE /\ state = [r \in Requests |-> "none"]
  /\ via = [r \in Requests |-> "http"] /\ step = [r \in Requests |-> "none"]
  /\ db = "unopened" /\ client = FALSE /\ modules = FALSE
  /\ worker = "none" /\ cancelled = FALSE /\ lost = FALSE

Alive == main # "exited"

-----------------------------------------------------------------------------
(* daemon.Run, Bootstrap.Start, serverRuntime.Start, Server.Start *)

Leave(code, way) ==
  /\ main' = "exited"
  /\ exit' = [code |-> code, way |-> way]

\* An error of a stage of Start ends the process; nothing is stopped.
StartFails ==
  /\ main \in {"settings", "network", "connect", "routes", "https"}
  /\ Leave(1, "start")
  /\ UNCHANGED <<failed, signalled, waited, web, stop, request, parts, cleanup>>

InitSettings ==
  /\ main = "settings"
  /\ db' = "open"
  /\ main' = "network"
  /\ UNCHANGED <<start, web, stop, request, client, modules, cleanup>>

\* PrepareNetworkWithProvider: the ports are free now.
PrepareNetwork ==
  /\ main = "network"
  /\ main' = "connect"
  /\ UNCHANGED <<start, web, stop, request, parts, cleanup>>

\* BTServer.Connect
Connect ==
  /\ main = "connect"
  /\ client' = TRUE
  /\ main' = "routes"
  /\ UNCHANGED <<start, web, stop, request, db, modules, cleanup>>

\* registerAppRoutes; DLNA and FUSE that fail to start are only reported.
RegisterRoutes ==
  /\ main = "routes"
  /\ modules' = TRUE
  /\ main' = IF "https" \in Names THEN "https" ELSE "http"
  /\ UNCHANGED <<start, web, stop, request, db, client, cleanup>>

\* startHTTPSServer, startHTTPServer: set the field, start the goroutine.
StartServer(s) ==
  /\ main = s
  /\ field' = field \cup {s}
  /\ listener' = [listener EXCEPT ![s] = "spawned"]
  /\ main' = IF s = "https" THEN "http" ELSE "worker"
  /\ UNCHANGED <<start, waitChan, shut, stop, request, parts, cleanup>>

\* startCleanupWorker
StartWorker ==
  /\ main = "worker"
  /\ worker' = "list"
  /\ main' = "supervise"
  /\ UNCHANGED <<start, web, stop, request, parts, cancelled, lost>>

-----------------------------------------------------------------------------
(* The goroutine of a listener *)

Report(s, outcome) ==
  /\ waitChan' = Append(waitChan, outcome)
  /\ listener' = [listener EXCEPT ![s] = "ended"]

Listen(s) ==
  /\ listener[s] = "spawned" /\ s \notin shut
  /\ listener' = [listener EXCEPT ![s] = "listening"]
  /\ UNCHANGED <<main, start, waitChan, field, shut, stop, request, parts, cleanup>>

\* Mutant: the goroutine goes on after reporting the error.
ListenFails_noReturn(s) ==
  /\ listener[s] \in {"spawned", "listening"} /\ s \notin shut
  /\ waitChan' = waitChan \o <<"error", "closed">>
  /\ listener' = [listener EXCEPT ![s] = "ended"]
  /\ UNCHANGED <<main, start, field, shut, stop, request, parts, cleanup>>

ListenFails(s) ==
  /\ listener[s] \in {"spawned", "listening"} /\ s \notin shut
  /\ Report(s, "error")
  /\ UNCHANGED <<main, start, field, shut, stop, request, parts, cleanup>>

\* Shutdown makes ListenAndServe return at once, before it has drained.
ServerClosed(s) ==
  /\ listener[s] \in {"spawned", "listening"} /\ s \in shut
  /\ Report(s, "closed")
  /\ UNCHANGED <<main, start, field, shut, stop, request, parts, cleanup>>

-----------------------------------------------------------------------------
(* supervise and stopLifecycle *)

\* The goroutine of waitForLifecycle: Server.Wait.
Wait ==
  /\ main \notin {"settings", "network", "connect", "routes", "https", "http", "worker"}
  /\ waited = "nothing" /\ waitChan # <<>>
  /\ waited' = Head(waitChan)
  /\ waitChan' = Tail(waitChan)
  /\ UNCHANGED <<main, exit, failed, signalled, field, listener, shut, stop, request,
                 parts, cleanup>>

Signal ==
  /\ main = "supervise" /\ ~signalled
  /\ signalled' = TRUE
  /\ UNCHANGED <<main, exit, failed, waited, web, stop, request, parts, cleanup>>

\* A runtime that has ended without an error ends the process.
RuntimeExited ==
  /\ main = "supervise" /\ waited = "closed"
  /\ Leave(0, "runtime")
  /\ UNCHANGED <<failed, signalled, waited, web, stop, request, parts, cleanup>>

\* Mutant: the worker is left running.
StopLifecycle_keepsWorker ==
  /\ main = "supervise" /\ (waited = "error" \/ signalled)
  /\ failed' = (waited = "error")
  /\ main' = "stopWorker"
  /\ UNCHANGED <<exit, signalled, waited, web, stop, request, parts, cleanup>>

\* A signal or an error of the runtime: stopCleanupWorker cancels first.
StopLifecycle ==
  /\ main = "supervise" /\ (waited = "error" \/ signalled)
  /\ failed' = (waited = "error")
  /\ cancelled' = TRUE
  /\ main' = "stopWorker"
  /\ UNCHANGED <<exit, signalled, waited, web, stop, request, parts, worker, lost>>

\* Mutant: the wait for the worker has no deadline.
AwaitWorker_unbounded ==
  /\ main = "stopWorker"
  /\ worker = "done"
  /\ calling' = calling \cup {App}
  /\ main' = "stopApp"
  /\ UNCHANGED <<start, web, taken, phase, runner, stopped, request, parts, cleanup>>

\* ... and waits for it, or for the deadline; then App.Stop starts its goroutine.
AwaitWorker ==
  /\ main = "stopWorker"
  /\ calling' = calling \cup {App}
  /\ main' = "stopApp"
  /\ UNCHANGED <<start, web, taken, phase, runner, stopped, request, parts, cleanup>>

\* App.Stop returns: the goroutine is done, or the deadline has passed.
AppStopped ==
  /\ main = "stopApp" /\ stopped
  /\ Leave(IF failed THEN 1 ELSE 0, "stopped")
  /\ UNCHANGED <<failed, signalled, waited, web, stop, request, parts, cleanup>>

StopTimesOut ==
  /\ main = "stopApp"
  /\ Leave(1, "timeout")
  /\ UNCHANGED <<failed, signalled, waited, web, stop, request, parts, cleanup>>

-----------------------------------------------------------------------------
(* serverRuntime.Stop, once, and Server.Stop *)

EnterStop(c) ==
  /\ Alive /\ c \in calling /\ phase = "none"
  /\ runner' = c /\ phase' = "take"
  /\ UNCHANGED <<main, start, web, taken, calling, stopped, request, parts, cleanup>>

\* Mutant: a flag in the place of sync.Once, whose second caller does not wait.
LeaveStop_early(c) ==
  /\ Alive /\ c \in calling
  /\ phase = "done" \/ (phase # "none" /\ runner # c)
  /\ calling' = calling \ {c}
  /\ stopped' = (stopped \/ c = App)
  /\ UNCHANGED <<main, start, web, taken, phase, runner, request, parts, cleanup>>

\* sync.Once: every caller returns when the body has ended.
LeaveStop(c) ==
  /\ Alive /\ c \in calling /\ phase = "done"
  /\ calling' = calling \ {c}
  /\ stopped' = (stopped \/ c = App)
  /\ UNCHANGED <<main, start, web, taken, phase, runner, request, parts, cleanup>>

\* Mutant: the fields are cleared before they are read.
TakeServers_cleared ==
  /\ Alive /\ phase = "take"
  /\ taken' = {} /\ field' = {}
  /\ phase' = "https"
  /\ UNCHANGED <<main, start, waitChan, listener, shut, runner, calling, stopped,
                 request, parts, cleanup>>

TakeServers ==
  /\ Alive /\ phase = "take"
  /\ taken' = field /\ field' = {}
  /\ phase' = "https"
  /\ UNCHANGED <<main, start, waitChan, listener, shut, runner, calling, stopped,
                 request, parts, cleanup>>

after(s) == IF s = "https" THEN "http" ELSE "modules"
running(s) == {r \in Requests : state[r] = "active" /\ via[r] = s}

SkipServer(s) ==
  /\ Alive /\ phase = s /\ s \notin taken
  /\ phase' = after(s)
  /\ UNCHANGED <<main, start, web, taken, runner, calling, stopped, request, parts, cleanup>>

\* http.Server.Shutdown closes the listener ...
ShutdownServer(s) ==
  /\ Alive /\ phase = s /\ s \in taken /\ s \notin shut
  /\ shut' = shut \cup {s}
  /\ UNCHANGED <<main, start, waitChan, field, listener, stop, request, parts, cleanup>>

\* Mutant: Shutdown does not wait.
DrainServer_atOnce(s) ==
  /\ Alive /\ phase = s /\ s \in shut
  /\ phase' = after(s)
  /\ UNCHANGED <<main, start, web, taken, runner, calling, stopped, request, parts, cleanup>>

\* ... and waits for the requests in progress.
DrainServer(s) ==
  /\ Alive /\ phase = s /\ s \in shut
  /\ running(s) = {}
  /\ phase' = after(s)
  /\ UNCHANGED <<main, start, web, taken, runner, calling, stopped, request, parts, cleanup>>

\* When the grace period ends first, their connections are closed; the handlers
\* run on.
CutServer(s) ==
  /\ Alive /\ phase = s /\ s \in shut
  /\ running(s) # {}
  /\ state' = [r \in Requests |-> IF r \in running(s) THEN "cut" ELSE state[r]]
  /\ phase' = after(s)
  /\ UNCHANGED <<main, start, web, taken, runner, calling, stopped, asked, via, step,
                 parts, cleanup>>

\* StopDLNA, StopFUSE
StopModules ==
  /\ Alive /\ phase = "modules"
  /\ modules' = FALSE
  /\ phase' = "disconnect"
  /\ UNCHANGED <<main, start, web, taken, runner, calling, stopped, request, db, client,
                 cleanup>>

\* BTServer.Disconnect
Disconnect ==
  /\ Alive /\ phase = "disconnect"
  /\ client' = FALSE
  /\ phase' = "closeDB"
  /\ UNCHANGED <<main, start, web, taken, runner, calling, stopped, request, db, modules,
                 cleanup>>

\* CloseDB: the caches of DBReadCache go first, then the variable tdb.
CloseDB ==
  /\ Alive /\ phase = "closeDB" /\ db = "open"
  /\ db' = "emptied"
  /\ UNCHANGED <<main, start, web, stop, request, client, modules, cleanup>>

ForgetDB ==
  /\ Alive /\ phase = "closeDB" /\ db = "emptied"
  /\ db' = "closed"
  /\ phase' = "done"
  /\ UNCHANGED <<main, start, web, taken, runner, calling, stopped, request, client,
                 modules, cleanup>>

-----------------------------------------------------------------------------
(* Requests *)

\* A listener accepts a request.  The shutdown request, once authorised, is
\* answered at once and goes on in a goroutine of its own.
Accept(r, s) ==
  /\ Alive /\ listener[s] = "listening" /\ s \notin shut
  /\ state[r] = "none"
  /\ Cardinality({q \in Requests : state[q] # "none"}) < MaxRequests
  /\ state' = [state EXCEPT ![r] = IF Kind[r] = "shutdown" THEN "done" ELSE "active"]
  /\ via' = [via EXCEPT ![r] = s]
  /\ step' = [step EXCEPT ![r] = Kind[r]]
  /\ UNCHANGED <<main, start, web, stop, asked, parts, cleanup>>

Finish(r, next) ==
  /\ step' = [step EXCEPT ![r] = next]
  /\ state' = IF next = "none" /\ state[r] = "active"
                THEN [state EXCEPT ![r] = "done"] ELSE state

\* A stream ends when it likes.
StreamEnds(r) ==
  /\ Alive /\ step[r] = "stream"
  /\ Finish(r, "none")
  /\ UNCHANGED <<main, start, web, stop, asked, via, parts, cleanup>>

\* ApplySettings and ResetDefaultSettings: no reconnect while somebody plays.
ApplySettings(r) ==
  /\ Alive /\ step[r] = "settings"
  /\ Finish(r, IF \E q \in Requests : step[q] = "stream" THEN "none" ELSE "disconnect")
  /\ UNCHANGED <<main, start, web, stop, asked, via, parts, cleanup>>

ApplyDisconnect(r) ==
  /\ Alive /\ step[r] = "disconnect"
  /\ client' = FALSE
  /\ Finish(r, "connect")
  /\ UNCHANGED <<main, start, web, stop, asked, via, db, modules, cleanup>>

\* A failure is only reported.
ApplyConnect(r) ==
  /\ Alive /\ step[r] = "connect"
  /\ client' \in BOOLEAN
  /\ Finish(r, "none")
  /\ UNCHANGED <<main, start, web, stop, asked, via, db, modules, cleanup>>

\* RequestShutdown, one second after the answer.  Start has set the hook before
\* any listener exists; only the first request runs it.
RequestShutdown(r) ==
  /\ Alive /\ step[r] = "shutdown"
  /\ asked' = TRUE
  /\ calling' = IF asked THEN calling ELSE calling \cup {r}
  /\ Finish(r, "none")
  /\ UNCHANGED <<main, start, web, taken, phase, runner, stopped, via, parts, cleanup>>

-----------------------------------------------------------------------------
(* runCacheCleanupWithDeps, with a disk cache whose torrents are all in the *)
(* database and RemoveCacheOnDrop off                                      *)

\* ListTorrent: a closed DBReadCache lists nothing; without tdb the goroutine
\* panics, which it recovers from.
ListTorrents ==
  /\ Alive /\ worker = "list"
  /\ worker' = CASE db = "open" -> "listed" [] db = "emptied" -> "misled" [] OTHER -> "done"
  /\ UNCHANGED <<main, start, web, stop, request, parts, cancelled, lost>>

\* Each directory: not after a cancellation, and only if no torrent is listed
\* for it.
RemoveUnused ==
  /\ Alive /\ worker \in {"listed", "misled"}
  /\ lost' = (lost \/ (~cancelled /\ worker = "misled"))
  /\ worker' = "done"
  /\ UNCHANGED <<main, start, web, stop, request, parts, cancelled>>

-----------------------------------------------------------------------------
Main ==
  \/ InitSettings \/ PrepareNetwork \/ Connect \/ RegisterRoutes
  \/ \E s \in Names : StartServer(s)
  \/ StartWorker \/ RuntimeExited \/ StopLifecycle \/ AwaitWorker
  \/ AppStopped \/ StopTimesOut

Listener(s) == Listen(s) \/ ServerClosed(s)

\* What Server.Stop does up to the end of the listeners.
StopServers(s) == SkipServer(s) \/ ShutdownServer(s) \/ DrainServer(s) \/ CutServer(s)

Next ==
  \/ Main \/ StartFails \/ Wait \/ Signal
  \/ \E s \in Names : Alive /\ (Listener(s) \/ ListenFails(s))
  \/ \E c \in Callers : EnterStop(c) \/ LeaveStop(c)
  \/ TakeServers
  \/ \E s \in {"https", "http"} : StopServers(s)
  \/ StopModules \/ Disconnect \/ CloseDB \/ ForgetDB
  \/ \E r \in Requests :
       \/ \E s \in Names : Accept(r, s)
       \/ StreamEnds(r) \/ ApplySettings(r) \/ ApplyDisconnect(r) \/ ApplyConnect(r)
       \/ RequestShutdown(r)
  \/ ListTorrents \/ RemoveUnused

Spec == Init /\ [][Next]_vars

\* The goroutines run, deadlines pass.  Nothing is assumed of what may hang:
\* a stream, the modules, the torrent client, the worker.
Fairness ==
  /\ WF_vars(Main) /\ WF_vars(Wait)
  /\ \A s \in Names : WF_vars(Alive /\ Listener(s))
  /\ \A c \in Callers : WF_vars(EnterStop(c))
  /\ WF_vars(TakeServers)
  /\ \A s \in {"https", "http"} : WF_vars(StopServers(s))

FairSpec == Spec /\ Fairness

-----------------------------------------------------------------------------
(* Properties. *)

FlagsOK ==
  /\ failed \in BOOLEAN /\ signalled \in BOOLEAN
  /\ stopped \in BOOLEAN /\ asked \in BOOLEAN
  /\ client \in BOOLEAN /\ modules \in BOOLEAN
  /\ cancelled \in BOOLEAN /\ lost \in BOOLEAN

Outcomes == {"error", "closed"}

StateOK ==
  /\ main \in {"settings", "network", "connect", "routes", "https", "http", "worker",
               "supervise", "stopWorker", "stopApp", "exited"}
  /\ exit \in [code : {0, 1}, way : {"none", "start", "runtime", "stopped", "timeout"}]
  /\ waited \in {"nothing"} \cup Outcomes
  /\ field \subseteq Names /\ shut \subseteq Names /\ taken \subseteq Names
  /\ listener \in [Names -> {"none", "spawned", "listening", "ended"}]
  /\ phase \in {"none", "take", "https", "http", "modules", "disconnect", "closeDB", "done"}
  /\ runner \in Callers \cup {NoRequest} /\ calling \subseteq Callers
  /\ state \in [Requests -> {"none", "active", "cut", "done"}]
  /\ via \in [Requests -> {"http", "https"}]
  /\ step \in [Requests -> {"none", "stream", "settings", "disconnect", "connect", "shutdown"}]
  /\ db \in {"unopened", "open", "emptied", "closed"}
  /\ worker \in {"none", "list", "listed", "misled", "done"}

\* Every variable has its type; the two listeners never report more than
\* Server.waitChan holds, so neither of them blocks.
TypeOK ==
  /\ FlagsOK /\ StateOK
  /\ waitChan \in UNION {[1 .. n -> Outcomes] : n \in 0 .. 2}

\* A change of the settings that the stop of the listeners could not wait for.
Reconnected ==
  \E r \in Requests : /\ Kind[r] = "settings" /\ state[r] # "none"
                      /\ state[r] = "cut" \/ via[r] \notin shut

\* A process that ends because App.Stop returned has stopped everything, whoever
\* ran the body of Stop.  The torrent client may be up again only if a change of
\* the settings was cut off by the shutdown, or came through a listener opened
\* after it.
CleanStop ==
  exit.way = "stopped" =>
    /\ db = "closed" /\ ~modules
    /\ client => Reconnected

\* The database is not closed under a handler of a listener that has been shut
\* down, unless the grace period has cut it off.
DrainedBeforeClose ==
  db \in {"emptied", "closed"} => \A s \in shut : running(s) = {}

\* The worker never takes a closing database for an empty one and removes the
\* caches of known torrents, unless the stop came from the shutdown request,
\* which does not cancel it.
CachesKept == lost => asked

\* After a signal the process ends, whatever hangs.
SignalEnds == signalled ~> main = "exited"

\* After an accepted shutdown request the process ends, whatever hangs.
ShutdownEnds == asked ~> main = "exited"

\* Whoever ends the process, it ends.
ProcessEnds == SignalEnds /\ ShutdownEnds

\* "Gracefully shuts down server": a process that ends without an error has
\* closed the database.
GracefulExit == main = "exited" /\ exit.code = 0 => db = "closed"
=============================================================================
