----------------------- MODULE ServerLifecycle_proofs -----------------------
(***************************************************************************)
(* Proofs about ServerLifecycle, for one or two listeners and any number   *)
(* of requests of any kind.                                                *)
(***************************************************************************)
EXTENDS ServerLifecycle, SequenceTheorems, TLAPS

\* Where daemon.Run has not started a listener yet.
Early == {"settings", "network", "connect", "routes", "https"}

\* Before the first listener nobody can ask for anything.
Quiet ==
  /\ main \in Early =>
       /\ \A s \in Names : listener[s] = "none"
       /\ \A r \in Requests : state[r] = "none" /\ step[r] = "none"
       /\ calling = {} /\ phase = "none"
  /\ main = "http" => listener["http"] = "none"

\* What the listeners have reported and Wait has not returned yet.
Ended(s) == IF s \in Names /\ listener[s] = "ended" THEN 1 ELSE 0
Reported ==
  /\ waitChan \in Seq(Outcomes)
  /\ Len(waitChan) + (IF waited = "nothing" THEN 0 ELSE 1) = Ended("http") + Ended("https")

\* What is down at each phase of serverRuntime.Stop.
InPhase ==
  /\ main \notin {"settings", "exited"} => db # "unopened"
  /\ phase # "none" => db # "unopened"
  /\ db = "emptied" => phase = "closeDB"
  /\ db = "closed" => phase = "done"
  /\ phase = "done" => db = "closed"
  /\ phase \in {"disconnect", "closeDB", "done"} => ~modules
  /\ stopped => phase = "done"
  /\ exit.way = "stopped" => stopped

\* A request whose goroutine still runs is in progress or cut off, or it is a
\* shutdown request, answered before.
Handled ==
  \A r \in Requests :
    /\ step[r] \notin {"none", "shutdown"} => state[r] \in {"active", "cut"}
    /\ step[r] \in {"settings", "disconnect", "connect"} => Kind[r] = "settings"
    /\ step[r] = "shutdown" => Kind[r] = "shutdown"

\* The listeners that Server.Stop is through with have no request in progress.
Drained ==
  /\ shut \subseteq taken
  /\ phase \in {"none", "take"} => shut = {}
  /\ phase = "https" => "http" \notin shut
  /\ phase = "http" => ("https" \in shut => running("https") = {})
  /\ phase \in {"modules", "disconnect", "closeDB", "done"} =>
       \A s \in shut : running(s) = {}

\* Once it is disconnected, only a request that was not waited for connects the
\* torrent client again.
StaysDown == phase \in {"closeDB", "done"} => (client => Reconnected)

\* Who has started the stop: the shutdown request, or the daemon after it has
\* cancelled the cleanup worker.
Started ==
  /\ \A c \in calling : c # App => asked
  /\ App \in calling => cancelled
  /\ phase # "none" => asked \/ cancelled
  /\ worker = "misled" => asked \/ cancelled
  /\ main \in {"stopWorker", "stopApp"} => cancelled
  /\ lost => asked

Inv == /\ TypeOK /\ Quiet /\ Reported /\ InPhase /\ Handled
       /\ Drained /\ StaysDown /\ Started

-----------------------------------------------------------------------------
(* Types.                                                                  *)

\* The listeners: HTTP, and HTTPS if it is enabled.
LEMMA NamesCases ==
  /\ Names \in {{"http"}, {"http", "https"}}
  /\ "http" \in Names
<1>1. CASE Servers = <<"http">>
  <2>1. Len(Servers) = 1 /\ Servers[1] = "http"
    BY <1>1
  <2> QED
    BY <2>1 DEF Names
<1>2. CASE Servers = <<"https", "http">>
  <2>1. Len(Servers) = 2 /\ Servers[1] = "https" /\ Servers[2] = "http"
    BY <1>2
  <2> QED
    BY <2>1 DEF Names
<1> QED
  BY <1>1, <1>2, LifecycleAssumption

\* The flags stay Boolean.
LEMMA FlagsStep ==
  ASSUME FlagsOK, Next
  PROVE  FlagsOK'
<1> USE DEF FlagsOK
<1>1. ASSUME InitSettings  PROVE  FlagsOK'
  BY <1>1, Zenon DEF InitSettings, start, web, stop, request, parts, cleanup
<1>2. ASSUME PrepareNetwork  PROVE  FlagsOK'
  BY <1>2, Zenon DEF PrepareNetwork, start, web, stop, request, parts, cleanup
<1>3. ASSUME Connect  PROVE  FlagsOK'
  BY <1>3, Zenon DEF Connect, start, web, stop, request, parts, cleanup
<1>4. ASSUME RegisterRoutes  PROVE  FlagsOK'
  BY <1>4, Zenon DEF RegisterRoutes, start, web, stop, request, parts, cleanup
<1>5. ASSUME NEW s \in Names, StartServer(s)  PROVE  FlagsOK'
  BY <1>5, Zenon DEF StartServer, start, web, stop, request, parts, cleanup
<1>6. ASSUME StartWorker  PROVE  FlagsOK'
  BY <1>6, Zenon DEF StartWorker, start, web, stop, request, parts, cleanup
<1>7. ASSUME RuntimeExited  PROVE  FlagsOK'
  BY <1>7, Zenon DEF RuntimeExited, Leave, start, web, stop, request, parts, cleanup
<1>8. ASSUME StopLifecycle  PROVE  FlagsOK'
  BY <1>8, Zenon DEF StopLifecycle, start, web, stop, request, parts, cleanup
<1>9. ASSUME AwaitWorker  PROVE  FlagsOK'
  BY <1>9, Zenon DEF AwaitWorker, start, web, stop, request, parts, cleanup
<1>10. ASSUME AppStopped  PROVE  FlagsOK'
  BY <1>10, Zenon DEF AppStopped, Leave, start, web, stop, request, parts, cleanup
<1>11. ASSUME StopTimesOut  PROVE  FlagsOK'
  BY <1>11, Zenon DEF StopTimesOut, Leave, start, web, stop, request, parts, cleanup
<1>12. ASSUME StartFails  PROVE  FlagsOK'
  BY <1>12, Zenon DEF StartFails, Leave, start, web, stop, request, parts, cleanup
<1>13. ASSUME Wait  PROVE  FlagsOK'
  BY <1>13, Zenon DEF Wait, start, web, stop, request, parts, cleanup
<1>14. ASSUME Signal  PROVE  FlagsOK'
  BY <1>14, Zenon DEF Signal, start, web, stop, request, parts, cleanup
<1>15. ASSUME NEW s \in Names, Listen(s)  PROVE  FlagsOK'
  BY <1>15, Zenon DEF Listen, start, web, stop, request, parts, cleanup
<1>16. ASSUME NEW s \in Names, ServerClosed(s)  PROVE  FlagsOK'
  BY <1>16, Zenon DEF ServerClosed, Report, start, web, stop, request, parts, cleanup
<1>17. ASSUME NEW s \in Names, ListenFails(s)  PROVE  FlagsOK'
  BY <1>17, Zenon DEF ListenFails, Report, start, web, stop, request, parts, cleanup
<1>18. ASSUME NEW c \in Callers, EnterStop(c)  PROVE  FlagsOK'
  BY <1>18, Zenon DEF EnterStop, start, web, stop, request, parts, cleanup
<1>19. ASSUME NEW c \in Callers, LeaveStop(c)  PROVE  FlagsOK'
  BY <1>19, Zenon DEF LeaveStop, start, web, stop, request, parts, cleanup
<1>20. ASSUME TakeServers  PROVE  FlagsOK'
  BY <1>20, Zenon DEF TakeServers, start, web, stop, request, parts, cleanup
<1>21. ASSUME NEW s \in {"https", "http"}, SkipServer(s)  PROVE  FlagsOK'
  BY <1>21, Zenon DEF SkipServer, after, start, web, stop, request, parts, cleanup
<1>22. ASSUME NEW s \in {"https", "http"}, ShutdownServer(s)  PROVE  FlagsOK'
  BY <1>22, Zenon DEF ShutdownServer, start, web, stop, request, parts, cleanup
<1>23. ASSUME NEW s \in {"https", "http"}, DrainServer(s)  PROVE  FlagsOK'
  BY <1>23, Zenon DEF DrainServer, after, start, web, stop, request, parts, cleanup
<1>24. ASSUME NEW s \in {"https", "http"}, CutServer(s)  PROVE  FlagsOK'
  BY <1>24, Zenon DEF CutServer, after, start, web, stop, request, parts, cleanup
<1>25. ASSUME StopModules  PROVE  FlagsOK'
  BY <1>25, Zenon DEF StopModules, start, web, stop, request, parts, cleanup
<1>26. ASSUME Disconnect  PROVE  FlagsOK'
  BY <1>26, Zenon DEF Disconnect, start, web, stop, request, parts, cleanup
<1>27. ASSUME CloseDB  PROVE  FlagsOK'
  BY <1>27, Zenon DEF CloseDB, start, web, stop, request, parts, cleanup
<1>28. ASSUME ForgetDB  PROVE  FlagsOK'
  BY <1>28, Zenon DEF ForgetDB, start, web, stop, request, parts, cleanup
<1>29. ASSUME NEW r \in Requests, NEW s \in Names, Accept(r, s)  PROVE  FlagsOK'
  BY <1>29, Zenon DEF Accept, start, web, stop, request, parts, cleanup
<1>30. ASSUME NEW r \in Requests, StreamEnds(r)  PROVE  FlagsOK'
  BY <1>30, Zenon DEF StreamEnds, Finish, start, web, stop, request, parts, cleanup
<1>31. ASSUME NEW r \in Requests, ApplySettings(r)  PROVE  FlagsOK'
  BY <1>31, Zenon DEF ApplySettings, Finish, start, web, stop, request, parts, cleanup
<1>32. ASSUME NEW r \in Requests, ApplyDisconnect(r)  PROVE  FlagsOK'
  BY <1>32, Zenon DEF ApplyDisconnect, Finish, start, web, stop, request, parts, cleanup
<1>33. ASSUME NEW r \in Requests, ApplyConnect(r)  PROVE  FlagsOK'
  BY <1>33, Zenon DEF ApplyConnect, Finish, start, web, stop, request, parts, cleanup
<1>34. ASSUME NEW r \in Requests, RequestShutdown(r)  PROVE  FlagsOK'
  BY <1>34, Zenon DEF RequestShutdown, Finish, start, web, stop, request, parts, cleanup
<1>35. ASSUME ListTorrents  PROVE  FlagsOK'
  BY <1>35, Zenon DEF ListTorrents, start, web, stop, request, parts, cleanup
<1>36. ASSUME RemoveUnused  PROVE  FlagsOK'
  BY <1>36, Zenon DEF RemoveUnused, start, web, stop, request, parts, cleanup
<1> QED
  BY <1>1, <1>2, <1>3, <1>4, <1>5, <1>6, <1>7, <1>8, <1>9, <1>10, <1>11, <1>12,
     <1>13, <1>14, <1>15, <1>16, <1>17, <1>18, <1>19, <1>20, <1>21, <1>22,
     <1>23, <1>24, <1>25, <1>26, <1>27, <1>28, <1>29, <1>30, <1>31, <1>32,
     <1>33, <1>34, <1>35, <1>36, Zenon DEF Next, Main, Listener, StopServers

\* Every step leaves the variables in their types.
LEMMA StateStep ==
  ASSUME StateOK, Reported, Handled, Next
  PROVE  StateOK'
<1> USE LifecycleAssumption, NamesCases DEF StateOK, Callers, Outcomes
<1>1. ASSUME InitSettings  PROVE  StateOK'
  BY <1>1 DEF InitSettings, start, web, stop, request, parts, cleanup
<1>2. ASSUME PrepareNetwork  PROVE  StateOK'
  BY <1>2 DEF PrepareNetwork, start, web, stop, request, parts, cleanup
<1>3. ASSUME Connect  PROVE  StateOK'
  BY <1>3 DEF Connect, start, web, stop, request, parts, cleanup
<1>4. ASSUME RegisterRoutes  PROVE  StateOK'
  BY <1>4 DEF RegisterRoutes, start, web, stop, request, parts, cleanup
<1>5. ASSUME NEW s \in Names, StartServer(s)  PROVE  StateOK'
  BY <1>5 DEF StartServer, start, web, stop, request, parts, cleanup
<1>6. ASSUME StartWorker  PROVE  StateOK'
  BY <1>6 DEF StartWorker, start, web, stop, request, parts, cleanup
<1>7. ASSUME RuntimeExited  PROVE  StateOK'
  BY <1>7 DEF RuntimeExited, Leave, start, web, stop, request, parts, cleanup
<1>8. ASSUME StopLifecycle  PROVE  StateOK'
  BY <1>8 DEF StopLifecycle, start, web, stop, request, parts, cleanup
<1>9. ASSUME AwaitWorker  PROVE  StateOK'
  BY <1>9 DEF AwaitWorker, start, web, stop, request, parts, cleanup
<1>10. ASSUME AppStopped  PROVE  StateOK'
  BY <1>10 DEF AppStopped, Leave, start, web, stop, request, parts, cleanup
<1>11. ASSUME StopTimesOut  PROVE  StateOK'
  BY <1>11 DEF StopTimesOut, Leave, start, web, stop, request, parts, cleanup
<1>12. ASSUME StartFails  PROVE  StateOK'
  BY <1>12 DEF StartFails, Leave, start, web, stop, request, parts, cleanup
<1>13. ASSUME Wait  PROVE  StateOK'
  <2>1. Head(waitChan) \in Outcomes
    BY <1>13, HeadTailProperties DEF Wait, Reported
  <2> QED
    BY <1>13, <2>1 DEF Wait, start, web, stop, request, parts, cleanup
<1>14. ASSUME Signal  PROVE  StateOK'
  BY <1>14 DEF Signal, start, web, stop, request, parts, cleanup
<1>15. ASSUME NEW s \in Names, Listen(s)  PROVE  StateOK'
  BY <1>15 DEF Listen, start, web, stop, request, parts, cleanup
<1>16. ASSUME NEW s \in Names, ServerClosed(s)  PROVE  StateOK'
  BY <1>16 DEF ServerClosed, Report, start, web, stop, request, parts, cleanup
<1>17. ASSUME NEW s \in Names, ListenFails(s)  PROVE  StateOK'
  BY <1>17 DEF ListenFails, Report, start, web, stop, request, parts, cleanup
<1>18. ASSUME NEW c \in Callers, EnterStop(c)  PROVE  StateOK'
  BY <1>18 DEF EnterStop, start, web, stop, request, parts, cleanup
<1>19. ASSUME NEW c \in Callers, LeaveStop(c)  PROVE  StateOK'
  BY <1>19 DEF LeaveStop, start, web, stop, request, parts, cleanup
<1>20. ASSUME TakeServers  PROVE  StateOK'
  BY <1>20 DEF TakeServers, start, web, stop, request, parts, cleanup
<1>21. ASSUME NEW s \in {"https", "http"}, SkipServer(s)  PROVE  StateOK'
  BY <1>21 DEF SkipServer, after, start, web, stop, request, parts, cleanup
<1>22. ASSUME NEW s \in {"https", "http"}, ShutdownServer(s)  PROVE  StateOK'
  BY <1>22 DEF ShutdownServer, start, web, stop, request, parts, cleanup
<1>23. ASSUME NEW s \in {"https", "http"}, DrainServer(s)  PROVE  StateOK'
  BY <1>23 DEF DrainServer, after, start, web, stop, request, parts, cleanup
<1>24. ASSUME NEW s \in {"https", "http"}, CutServer(s)  PROVE  StateOK'
  BY <1>24 DEF CutServer, after, start, web, stop, request, parts, cleanup
<1>25. ASSUME StopModules  PROVE  StateOK'
  BY <1>25 DEF StopModules, start, web, stop, request, parts, cleanup
<1>26. ASSUME Disconnect  PROVE  StateOK'
  BY <1>26 DEF Disconnect, start, web, stop, request, parts, cleanup
<1>27. ASSUME CloseDB  PROVE  StateOK'
  BY <1>27 DEF CloseDB, start, web, stop, request, parts, cleanup
<1>28. ASSUME ForgetDB  PROVE  StateOK'
  BY <1>28 DEF ForgetDB, start, web, stop, request, parts, cleanup
<1>29. ASSUME NEW r \in Requests, NEW s \in Names, Accept(r, s)  PROVE  StateOK'
  BY <1>29 DEF Accept, start, web, stop, request, parts, cleanup
<1>30. ASSUME NEW r \in Requests, StreamEnds(r)  PROVE  StateOK'
  BY <1>30 DEF StreamEnds, Finish, start, web, stop, request, parts, cleanup
<1>31. ASSUME NEW r \in Requests, ApplySettings(r)  PROVE  StateOK'
  BY <1>31 DEF ApplySettings, Finish, start, web, stop, request, parts, cleanup
<1>32. ASSUME NEW r \in Requests, ApplyDisconnect(r)  PROVE  StateOK'
  BY <1>32 DEF ApplyDisconnect, Finish, start, web, stop, request, parts, cleanup
<1>33. ASSUME NEW r \in Requests, ApplyConnect(r)  PROVE  StateOK'
  BY <1>33 DEF ApplyConnect, Finish, start, web, stop, request, parts, cleanup
<1>34. ASSUME NEW r \in Requests, RequestShutdown(r)  PROVE  StateOK'
  <2>1. r \in Callers
    BY <1>34 DEF RequestShutdown, Handled
  <2> QED
    BY <1>34, <2>1 DEF RequestShutdown, Finish, start, web, stop, request, parts, cleanup
<1>35. ASSUME ListTorrents  PROVE  StateOK'
  BY <1>35 DEF ListTorrents, start, web, stop, request, parts, cleanup
<1>36. ASSUME RemoveUnused  PROVE  StateOK'
  BY <1>36 DEF RemoveUnused, start, web, stop, request, parts, cleanup
<1> QED
  BY <1>1, <1>2, <1>3, <1>4, <1>5, <1>6, <1>7, <1>8, <1>9, <1>10, <1>11, <1>12,
     <1>13, <1>14, <1>15, <1>16, <1>17, <1>18, <1>19, <1>20, <1>21, <1>22,
     <1>23, <1>24, <1>25, <1>26, <1>27, <1>28, <1>29, <1>30, <1>31, <1>32,
     <1>33, <1>34, <1>35, <1>36, Zenon DEF Next, Main, Listener, StopServers

-----------------------------------------------------------------------------
(* What each step keeps.                                                   *)

\* Nothing happens before the first listener.
LEMMA QuietStep ==
  ASSUME TypeOK, Quiet, Next
  PROVE  Quiet'
<1> USE LifecycleAssumption, NamesCases DEF TypeOK, StateOK, Quiet, Early
<1>1. ASSUME InitSettings  PROVE  Quiet'
  BY <1>1 DEF InitSettings, start, web, stop, request, parts, cleanup
<1>2. ASSUME PrepareNetwork  PROVE  Quiet'
  BY <1>2 DEF PrepareNetwork, start, web, stop, request, parts, cleanup
<1>3. ASSUME Connect  PROVE  Quiet'
  BY <1>3 DEF Connect, start, web, stop, request, parts, cleanup
<1>4. ASSUME RegisterRoutes  PROVE  Quiet'
  BY <1>4 DEF RegisterRoutes, start, web, stop, request, parts, cleanup
<1>5. ASSUME NEW s \in Names, StartServer(s)  PROVE  Quiet'
  BY <1>5 DEF StartServer, start, web, stop, request, parts, cleanup
<1>6. ASSUME StartWorker  PROVE  Quiet'
  BY <1>6 DEF StartWorker, start, web, stop, request, parts, cleanup
<1>7. ASSUME RuntimeExited  PROVE  Quiet'
  BY <1>7 DEF RuntimeExited, Leave, start, web, stop, request, parts, cleanup
<1>8. ASSUME StopLifecycle  PROVE  Quiet'
  BY <1>8 DEF StopLifecycle, start, web, stop, request, parts, cleanup
<1>9. ASSUME AwaitWorker  PROVE  Quiet'
  BY <1>9 DEF AwaitWorker, start, web, stop, request, parts, cleanup
<1>10. ASSUME AppStopped  PROVE  Quiet'
  BY <1>10 DEF AppStopped, Leave, start, web, stop, request, parts, cleanup
<1>11. ASSUME StopTimesOut  PROVE  Quiet'
  BY <1>11 DEF StopTimesOut, Leave, start, web, stop, request, parts, cleanup
<1>12. ASSUME StartFails  PROVE  Quiet'
  BY <1>12 DEF StartFails, Leave, start, web, stop, request, parts, cleanup
<1>13. ASSUME Wait  PROVE  Quiet'
  BY <1>13 DEF Wait, start, web, stop, request, parts, cleanup
<1>14. ASSUME Signal  PROVE  Quiet'
  BY <1>14 DEF Signal, start, web, stop, request, parts, cleanup
<1>15. ASSUME NEW s \in Names, Listen(s)  PROVE  Quiet'
  BY <1>15 DEF Listen, start, web, stop, request, parts, cleanup
<1>16. ASSUME NEW s \in Names, ServerClosed(s)  PROVE  Quiet'
  BY <1>16 DEF ServerClosed, Report, start, web, stop, request, parts, cleanup
<1>17. ASSUME NEW s \in Names, ListenFails(s)  PROVE  Quiet'
  BY <1>17 DEF ListenFails, Report, start, web, stop, request, parts, cleanup
<1>18. ASSUME NEW c \in Callers, EnterStop(c)  PROVE  Quiet'
  BY <1>18 DEF EnterStop, start, web, stop, request, parts, cleanup
<1>19. ASSUME NEW c \in Callers, LeaveStop(c)  PROVE  Quiet'
  BY <1>19 DEF LeaveStop, start, web, stop, request, parts, cleanup
<1>20. ASSUME TakeServers  PROVE  Quiet'
  BY <1>20 DEF TakeServers, start, web, stop, request, parts, cleanup
<1>21. ASSUME NEW s \in {"https", "http"}, SkipServer(s)  PROVE  Quiet'
  BY <1>21 DEF SkipServer, after, start, web, stop, request, parts, cleanup
<1>22. ASSUME NEW s \in {"https", "http"}, ShutdownServer(s)  PROVE  Quiet'
  BY <1>22 DEF ShutdownServer, start, web, stop, request, parts, cleanup
<1>23. ASSUME NEW s \in {"https", "http"}, DrainServer(s)  PROVE  Quiet'
  BY <1>23 DEF DrainServer, after, start, web, stop, request, parts, cleanup
<1>24. ASSUME NEW s \in {"https", "http"}, CutServer(s)  PROVE  Quiet'
  BY <1>24 DEF CutServer, after, start, web, stop, request, parts, cleanup
<1>25. ASSUME StopModules  PROVE  Quiet'
  BY <1>25 DEF StopModules, start, web, stop, request, parts, cleanup
<1>26. ASSUME Disconnect  PROVE  Quiet'
  BY <1>26 DEF Disconnect, start, web, stop, request, parts, cleanup
<1>27. ASSUME CloseDB  PROVE  Quiet'
  BY <1>27 DEF CloseDB, start, web, stop, request, parts, cleanup
<1>28. ASSUME ForgetDB  PROVE  Quiet'
  BY <1>28 DEF ForgetDB, start, web, stop, request, parts, cleanup
<1>29. ASSUME NEW r \in Requests, NEW s \in Names, Accept(r, s)  PROVE  Quiet'
  BY <1>29 DEF Accept, start, web, stop, request, parts, cleanup
<1>30. ASSUME NEW r \in Requests, StreamEnds(r)  PROVE  Quiet'
  BY <1>30 DEF StreamEnds, Finish, start, web, stop, request, parts, cleanup
<1>31. ASSUME NEW r \in Requests, ApplySettings(r)  PROVE  Quiet'
  BY <1>31 DEF ApplySettings, Finish, start, web, stop, request, parts, cleanup
<1>32. ASSUME NEW r \in Requests, ApplyDisconnect(r)  PROVE  Quiet'
  BY <1>32 DEF ApplyDisconnect, Finish, start, web, stop, request, parts, cleanup
<1>33. ASSUME NEW r \in Requests, ApplyConnect(r)  PROVE  Quiet'
  BY <1>33 DEF ApplyConnect, Finish, start, web, stop, request, parts, cleanup
<1>34. ASSUME NEW r \in Requests, RequestShutdown(r)  PROVE  Quiet'
  BY <1>34 DEF RequestShutdown, Finish, start, web, stop, request, parts, cleanup
<1>35. ASSUME ListTorrents  PROVE  Quiet'
  BY <1>35 DEF ListTorrents, start, web, stop, request, parts, cleanup
<1>36. ASSUME RemoveUnused  PROVE  Quiet'
  BY <1>36 DEF RemoveUnused, start, web, stop, request, parts, cleanup
<1> HIDE DEF TypeOK, StateOK, Quiet, Early
<1> QED
  BY <1>1, <1>2, <1>3, <1>4, <1>5, <1>6, <1>7, <1>8, <1>9, <1>10, <1>11, <1>12,
     <1>13, <1>14, <1>15, <1>16, <1>17, <1>18, <1>19, <1>20, <1>21, <1>22,
     <1>23, <1>24, <1>25, <1>26, <1>27, <1>28, <1>29, <1>30, <1>31, <1>32,
     <1>33, <1>34, <1>35, <1>36, Zenon DEF Next, Main, Listener, StopServers

\* serverRuntime.Stop goes through its phases in order.
LEMMA InPhaseStep ==
  ASSUME TypeOK, Quiet, InPhase, Next
  PROVE  InPhase'
<1> USE LifecycleAssumption, NamesCases DEF TypeOK, StateOK, FlagsOK, Quiet, Early, InPhase, Alive, NoExit
<1>1. ASSUME InitSettings  PROVE  InPhase'
  BY <1>1 DEF InitSettings, start, web, stop, request, parts, cleanup
<1>2. ASSUME PrepareNetwork  PROVE  InPhase'
  BY <1>2 DEF PrepareNetwork, start, web, stop, request, parts, cleanup
<1>3. ASSUME Connect  PROVE  InPhase'
  BY <1>3 DEF Connect, start, web, stop, request, parts, cleanup
<1>4. ASSUME RegisterRoutes  PROVE  InPhase'
  BY <1>4 DEF RegisterRoutes, start, web, stop, request, parts, cleanup
<1>5. ASSUME NEW s \in Names, StartServer(s)  PROVE  InPhase'
  BY <1>5 DEF StartServer, start, web, stop, request, parts, cleanup
<1>6. ASSUME StartWorker  PROVE  InPhase'
  BY <1>6 DEF StartWorker, start, web, stop, request, parts, cleanup
<1>7. ASSUME RuntimeExited  PROVE  InPhase'
  BY <1>7 DEF RuntimeExited, Leave, start, web, stop, request, parts, cleanup
<1>8. ASSUME StopLifecycle  PROVE  InPhase'
  BY <1>8 DEF StopLifecycle, start, web, stop, request, parts, cleanup
<1>9. ASSUME AwaitWorker  PROVE  InPhase'
  BY <1>9 DEF AwaitWorker, start, web, stop, request, parts, cleanup
<1>10. ASSUME AppStopped  PROVE  InPhase'
  BY <1>10 DEF AppStopped, Leave, start, web, stop, request, parts, cleanup
<1>11. ASSUME StopTimesOut  PROVE  InPhase'
  BY <1>11 DEF StopTimesOut, Leave, start, web, stop, request, parts, cleanup
<1>12. ASSUME StartFails  PROVE  InPhase'
  BY <1>12 DEF StartFails, Leave, start, web, stop, request, parts, cleanup
<1>13. ASSUME Wait  PROVE  InPhase'
  BY <1>13 DEF Wait, start, web, stop, request, parts, cleanup
<1>14. ASSUME Signal  PROVE  InPhase'
  BY <1>14 DEF Signal, start, web, stop, request, parts, cleanup
<1>15. ASSUME NEW s \in Names, Listen(s)  PROVE  InPhase'
  BY <1>15 DEF Listen, start, web, stop, request, parts, cleanup
<1>16. ASSUME NEW s \in Names, ServerClosed(s)  PROVE  InPhase'
  BY <1>16 DEF ServerClosed, Report, start, web, stop, request, parts, cleanup
<1>17. ASSUME NEW s \in Names, ListenFails(s)  PROVE  InPhase'
  BY <1>17 DEF ListenFails, Report, start, web, stop, request, parts, cleanup
<1>18. ASSUME NEW c \in Callers, EnterStop(c)  PROVE  InPhase'
  BY <1>18 DEF EnterStop, start, web, stop, request, parts, cleanup
<1>19. ASSUME NEW c \in Callers, LeaveStop(c)  PROVE  InPhase'
  BY <1>19 DEF LeaveStop, start, web, stop, request, parts, cleanup
<1>20. ASSUME TakeServers  PROVE  InPhase'
  BY <1>20 DEF TakeServers, start, web, stop, request, parts, cleanup
<1>21. ASSUME NEW s \in {"https", "http"}, SkipServer(s)  PROVE  InPhase'
  BY <1>21 DEF SkipServer, after, start, web, stop, request, parts, cleanup
<1>22. ASSUME NEW s \in {"https", "http"}, ShutdownServer(s)  PROVE  InPhase'
  BY <1>22 DEF ShutdownServer, start, web, stop, request, parts, cleanup
<1>23. ASSUME NEW s \in {"https", "http"}, DrainServer(s)  PROVE  InPhase'
  BY <1>23 DEF DrainServer, after, start, web, stop, request, parts, cleanup
<1>24. ASSUME NEW s \in {"https", "http"}, CutServer(s)  PROVE  InPhase'
  BY <1>24 DEF CutServer, after, start, web, stop, request, parts, cleanup
<1>25. ASSUME StopModules  PROVE  InPhase'
  BY <1>25 DEF StopModules, start, web, stop, request, parts, cleanup
<1>26. ASSUME Disconnect  PROVE  InPhase'
  BY <1>26 DEF Disconnect, start, web, stop, request, parts, cleanup
<1>27. ASSUME CloseDB  PROVE  InPhase'
  BY <1>27 DEF CloseDB, start, web, stop, request, parts, cleanup
<1>28. ASSUME ForgetDB  PROVE  InPhase'
  BY <1>28 DEF ForgetDB, start, web, stop, request, parts, cleanup
<1>29. ASSUME NEW r \in Requests, NEW s \in Names, Accept(r, s)  PROVE  InPhase'
  BY <1>29 DEF Accept, start, web, stop, request, parts, cleanup
<1>30. ASSUME NEW r \in Requests, StreamEnds(r)  PROVE  InPhase'
  BY <1>30 DEF StreamEnds, Finish, start, web, stop, request, parts, cleanup
<1>31. ASSUME NEW r \in Requests, ApplySettings(r)  PROVE  InPhase'
  BY <1>31 DEF ApplySettings, Finish, start, web, stop, request, parts, cleanup
<1>32. ASSUME NEW r \in Requests, ApplyDisconnect(r)  PROVE  InPhase'
  BY <1>32 DEF ApplyDisconnect, Finish, start, web, stop, request, parts, cleanup
<1>33. ASSUME NEW r \in Requests, ApplyConnect(r)  PROVE  InPhase'
  BY <1>33 DEF ApplyConnect, Finish, start, web, stop, request, parts, cleanup
<1>34. ASSUME NEW r \in Requests, RequestShutdown(r)  PROVE  InPhase'
  BY <1>34 DEF RequestShutdown, Finish, start, web, stop, request, parts, cleanup
<1>35. ASSUME ListTorrents  PROVE  InPhase'
  BY <1>35 DEF ListTorrents, start, web, stop, request, parts, cleanup
<1>36. ASSUME RemoveUnused  PROVE  InPhase'
  BY <1>36 DEF RemoveUnused, start, web, stop, request, parts, cleanup
<1> QED
  BY <1>1, <1>2, <1>3, <1>4, <1>5, <1>6, <1>7, <1>8, <1>9, <1>10, <1>11, <1>12,
     <1>13, <1>14, <1>15, <1>16, <1>17, <1>18, <1>19, <1>20, <1>21, <1>22,
     <1>23, <1>24, <1>25, <1>26, <1>27, <1>28, <1>29, <1>30, <1>31, <1>32,
     <1>33, <1>34, <1>35, <1>36, Zenon DEF Next, Main, Listener, StopServers

\* Requests keep their goroutines.
LEMMA HandledStep ==
  ASSUME TypeOK, Quiet, Handled, Next
  PROVE  Handled'
<1> USE LifecycleAssumption, NamesCases DEF TypeOK, StateOK, Handled
<1>1. ASSUME InitSettings  PROVE  Handled'
  BY <1>1 DEF InitSettings, start, web, stop, request, parts, cleanup, running
<1>2. ASSUME PrepareNetwork  PROVE  Handled'
  BY <1>2 DEF PrepareNetwork, start, web, stop, request, parts, cleanup, running
<1>3. ASSUME Connect  PROVE  Handled'
  BY <1>3 DEF Connect, start, web, stop, request, parts, cleanup, running
<1>4. ASSUME RegisterRoutes  PROVE  Handled'
  BY <1>4 DEF RegisterRoutes, start, web, stop, request, parts, cleanup, running
<1>5. ASSUME NEW s \in Names, StartServer(s)  PROVE  Handled'
  BY <1>5 DEF StartServer, start, web, stop, request, parts, cleanup, running
<1>6. ASSUME StartWorker  PROVE  Handled'
  BY <1>6 DEF StartWorker, start, web, stop, request, parts, cleanup, running
<1>7. ASSUME RuntimeExited  PROVE  Handled'
  BY <1>7 DEF RuntimeExited, Leave, start, web, stop, request, parts, cleanup, running
<1>8. ASSUME StopLifecycle  PROVE  Handled'
  BY <1>8 DEF StopLifecycle, start, web, stop, request, parts, cleanup, running
<1>9. ASSUME AwaitWorker  PROVE  Handled'
  BY <1>9 DEF AwaitWorker, start, web, stop, request, parts, cleanup, running
<1>10. ASSUME AppStopped  PROVE  Handled'
  BY <1>10 DEF AppStopped, Leave, start, web, stop, request, parts, cleanup, running
<1>11. ASSUME StopTimesOut  PROVE  Handled'
  BY <1>11 DEF StopTimesOut, Leave, start, web, stop, request, parts, cleanup, running
<1>12. ASSUME StartFails  PROVE  Handled'
  BY <1>12 DEF StartFails, Leave, start, web, stop, request, parts, cleanup, running
<1>13. ASSUME Wait  PROVE  Handled'
  BY <1>13 DEF Wait, start, web, stop, request, parts, cleanup, running
<1>14. ASSUME Signal  PROVE  Handled'
  BY <1>14 DEF Signal, start, web, stop, request, parts, cleanup, running
<1>15. ASSUME NEW s \in Names, Listen(s)  PROVE  Handled'
  BY <1>15 DEF Listen, start, web, stop, request, parts, cleanup, running
<1>16. ASSUME NEW s \in Names, ServerClosed(s)  PROVE  Handled'
  BY <1>16 DEF ServerClosed, Report, start, web, stop, request, parts, cleanup, running
<1>17. ASSUME NEW s \in Names, ListenFails(s)  PROVE  Handled'
  BY <1>17 DEF ListenFails, Report, start, web, stop, request, parts, cleanup, running
<1>18. ASSUME NEW c \in Callers, EnterStop(c)  PROVE  Handled'
  BY <1>18 DEF EnterStop, start, web, stop, request, parts, cleanup, running
<1>19. ASSUME NEW c \in Callers, LeaveStop(c)  PROVE  Handled'
  BY <1>19 DEF LeaveStop, start, web, stop, request, parts, cleanup, running
<1>20. ASSUME TakeServers  PROVE  Handled'
  BY <1>20 DEF TakeServers, start, web, stop, request, parts, cleanup, running
<1>21. ASSUME NEW s \in {"https", "http"}, SkipServer(s)  PROVE  Handled'
  BY <1>21 DEF SkipServer, after, start, web, stop, request, parts, cleanup, running
<1>22. ASSUME NEW s \in {"https", "http"}, ShutdownServer(s)  PROVE  Handled'
  BY <1>22 DEF ShutdownServer, start, web, stop, request, parts, cleanup, running
<1>23. ASSUME NEW s \in {"https", "http"}, DrainServer(s)  PROVE  Handled'
  BY <1>23 DEF DrainServer, after, start, web, stop, request, parts, cleanup, running
<1>24. ASSUME NEW s \in {"https", "http"}, CutServer(s)  PROVE  Handled'
  BY <1>24 DEF CutServer, after, start, web, stop, request, parts, cleanup, running
<1>25. ASSUME StopModules  PROVE  Handled'
  BY <1>25 DEF StopModules, start, web, stop, request, parts, cleanup, running
<1>26. ASSUME Disconnect  PROVE  Handled'
  BY <1>26 DEF Disconnect, start, web, stop, request, parts, cleanup, running
<1>27. ASSUME CloseDB  PROVE  Handled'
  BY <1>27 DEF CloseDB, start, web, stop, request, parts, cleanup, running
<1>28. ASSUME ForgetDB  PROVE  Handled'
  BY <1>28 DEF ForgetDB, start, web, stop, request, parts, cleanup, running
<1>29. ASSUME NEW r \in Requests, NEW s \in Names, Accept(r, s)  PROVE  Handled'
  BY <1>29 DEF Accept, start, web, stop, request, parts, cleanup, running
<1>30. ASSUME NEW r \in Requests, StreamEnds(r)  PROVE  Handled'
  BY <1>30 DEF StreamEnds, Finish, start, web, stop, request, parts, cleanup, running
<1>31. ASSUME NEW r \in Requests, ApplySettings(r)  PROVE  Handled'
  BY <1>31 DEF ApplySettings, Finish, start, web, stop, request, parts, cleanup, running
<1>32. ASSUME NEW r \in Requests, ApplyDisconnect(r)  PROVE  Handled'
  BY <1>32 DEF ApplyDisconnect, Finish, start, web, stop, request, parts, cleanup, running
<1>33. ASSUME NEW r \in Requests, ApplyConnect(r)  PROVE  Handled'
  BY <1>33 DEF ApplyConnect, Finish, start, web, stop, request, parts, cleanup, running
<1>34. ASSUME NEW r \in Requests, RequestShutdown(r)  PROVE  Handled'
  BY <1>34 DEF RequestShutdown, Finish, start, web, stop, request, parts, cleanup, running
<1>35. ASSUME ListTorrents  PROVE  Handled'
  BY <1>35 DEF ListTorrents, start, web, stop, request, parts, cleanup, running
<1>36. ASSUME RemoveUnused  PROVE  Handled'
  BY <1>36 DEF RemoveUnused, start, web, stop, request, parts, cleanup, running
<1> QED
  BY <1>1, <1>2, <1>3, <1>4, <1>5, <1>6, <1>7, <1>8, <1>9, <1>10, <1>11, <1>12,
     <1>13, <1>14, <1>15, <1>16, <1>17, <1>18, <1>19, <1>20, <1>21, <1>22,
     <1>23, <1>24, <1>25, <1>26, <1>27, <1>28, <1>29, <1>30, <1>31, <1>32,
     <1>33, <1>34, <1>35, <1>36, Zenon DEF Next, Main, Listener, StopServers

\* Each listener reports once, and Wait takes one report.
LEMMA ReportedStep ==
  ASSUME TypeOK, Quiet, Reported, Next
  PROVE  Reported'
<1> USE LifecycleAssumption, NamesCases DEF TypeOK, StateOK, Reported, Ended
<1>1. ASSUME InitSettings  PROVE  Reported'
  BY <1>1 DEF InitSettings, start, web, stop, request, parts, cleanup
<1>2. ASSUME PrepareNetwork  PROVE  Reported'
  BY <1>2 DEF PrepareNetwork, start, web, stop, request, parts, cleanup
<1>3. ASSUME Connect  PROVE  Reported'
  BY <1>3 DEF Connect, start, web, stop, request, parts, cleanup
<1>4. ASSUME RegisterRoutes  PROVE  Reported'
  BY <1>4 DEF RegisterRoutes, start, web, stop, request, parts, cleanup
<1>5. ASSUME NEW s \in Names, StartServer(s)  PROVE  Reported'
  <2>1. listener[s] # "ended" /\ listener' = [listener EXCEPT ![s] = "spawned"]
    BY <1>5 DEF Quiet, Early, StartServer
  <2>2. UNCHANGED <<waitChan, waited>>
    BY <1>5 DEF StartServer, start
  <2> QED
    BY <2>1, <2>2
<1>6. ASSUME StartWorker  PROVE  Reported'
  BY <1>6 DEF StartWorker, start, web, stop, request, parts, cleanup
<1>7. ASSUME RuntimeExited  PROVE  Reported'
  BY <1>7 DEF RuntimeExited, Leave, start, web, stop, request, parts, cleanup
<1>8. ASSUME StopLifecycle  PROVE  Reported'
  BY <1>8 DEF StopLifecycle, start, web, stop, request, parts, cleanup
<1>9. ASSUME AwaitWorker  PROVE  Reported'
  BY <1>9 DEF AwaitWorker, start, web, stop, request, parts, cleanup
<1>10. ASSUME AppStopped  PROVE  Reported'
  BY <1>10 DEF AppStopped, Leave, start, web, stop, request, parts, cleanup
<1>11. ASSUME StopTimesOut  PROVE  Reported'
  BY <1>11 DEF StopTimesOut, Leave, start, web, stop, request, parts, cleanup
<1>12. ASSUME StartFails  PROVE  Reported'
  BY <1>12 DEF StartFails, Leave, start, web, stop, request, parts, cleanup
<1>13. ASSUME Wait  PROVE  Reported'
  <2>1. /\ waitChan' \in Seq(Outcomes)
        /\ Len(waitChan') = Len(waitChan) - 1
        /\ Head(waitChan) \in Outcomes
    BY <1>13, HeadTailProperties DEF Wait
  <2>2. waited = "nothing" /\ waited' # "nothing" /\ UNCHANGED listener
    BY <1>13, <2>1 DEF Wait, Outcomes
  <2>3. Len(waitChan) \in Nat /\ Len(waitChan') \in Nat
    BY <2>1
  <2> QED
    BY <2>1, <2>2, <2>3
<1>14. ASSUME Signal  PROVE  Reported'
  BY <1>14 DEF Signal, start, web, stop, request, parts, cleanup
<1>15. ASSUME NEW s \in Names, Listen(s)  PROVE  Reported'
  <2>1. listener[s] # "ended" /\ listener' = [listener EXCEPT ![s] = "listening"]
    BY <1>15 DEF Listen
  <2>2. UNCHANGED <<waitChan, waited>>
    BY <1>15 DEF Listen, start
  <2> QED
    BY <2>1, <2>2
<1>16. ASSUME NEW s \in Names, ServerClosed(s)  PROVE  Reported'
  <2>1. /\ waitChan' \in Seq(Outcomes)
        /\ Len(waitChan') = Len(waitChan) + 1
    BY <1>16, AppendProperties DEF ServerClosed, Report, Outcomes
  <2>2. UNCHANGED waited /\ listener[s] # "ended" /\ listener' = [listener EXCEPT ![s] = "ended"]
    BY <1>16 DEF ServerClosed, Report, start
  <2> QED
    BY <2>1, <2>2
<1>17. ASSUME NEW s \in Names, ListenFails(s)  PROVE  Reported'
  <2>1. /\ waitChan' \in Seq(Outcomes)
        /\ Len(waitChan') = Len(waitChan) + 1
    BY <1>17, AppendProperties DEF ListenFails, Report, Outcomes
  <2>2. UNCHANGED waited /\ listener[s] # "ended" /\ listener' = [listener EXCEPT ![s] = "ended"]
    BY <1>17 DEF ListenFails, Report, start
  <2> QED
    BY <2>1, <2>2
<1>18. ASSUME NEW c \in Callers, EnterStop(c)  PROVE  Reported'
  BY <1>18 DEF EnterStop, start, web, stop, request, parts, cleanup
<1>19. ASSUME NEW c \in Callers, LeaveStop(c)  PROVE  Reported'
  BY <1>19 DEF LeaveStop, start, web, stop, request, parts, cleanup
<1>20. ASSUME TakeServers  PROVE  Reported'
  BY <1>20 DEF TakeServers, start, web, stop, request, parts, cleanup
<1>21. ASSUME NEW s \in {"https", "http"}, SkipServer(s)  PROVE  Reported'
  BY <1>21 DEF SkipServer, after, start, web, stop, request, parts, cleanup
<1>22. ASSUME NEW s \in {"https", "http"}, ShutdownServer(s)  PROVE  Reported'
  BY <1>22 DEF ShutdownServer, start, web, stop, request, parts, cleanup
<1>23. ASSUME NEW s \in {"https", "http"}, DrainServer(s)  PROVE  Reported'
  BY <1>23 DEF DrainServer, after, start, web, stop, request, parts, cleanup
<1>24. ASSUME NEW s \in {"https", "http"}, CutServer(s)  PROVE  Reported'
  BY <1>24 DEF CutServer, after, start, web, stop, request, parts, cleanup
<1>25. ASSUME StopModules  PROVE  Reported'
  BY <1>25 DEF StopModules, start, web, stop, request, parts, cleanup
<1>26. ASSUME Disconnect  PROVE  Reported'
  BY <1>26 DEF Disconnect, start, web, stop, request, parts, cleanup
<1>27. ASSUME CloseDB  PROVE  Reported'
  BY <1>27 DEF CloseDB, start, web, stop, request, parts, cleanup
<1>28. ASSUME ForgetDB  PROVE  Reported'
  BY <1>28 DEF ForgetDB, start, web, stop, request, parts, cleanup
<1>29. ASSUME NEW r \in Requests, NEW s \in Names, Accept(r, s)  PROVE  Reported'
  BY <1>29 DEF Accept, start, web, stop, request, parts, cleanup
<1>30. ASSUME NEW r \in Requests, StreamEnds(r)  PROVE  Reported'
  BY <1>30 DEF StreamEnds, Finish, start, web, stop, request, parts, cleanup
<1>31. ASSUME NEW r \in Requests, ApplySettings(r)  PROVE  Reported'
  BY <1>31 DEF ApplySettings, Finish, start, web, stop, request, parts, cleanup
<1>32. ASSUME NEW r \in Requests, ApplyDisconnect(r)  PROVE  Reported'
  BY <1>32 DEF ApplyDisconnect, Finish, start, web, stop, request, parts, cleanup
<1>33. ASSUME NEW r \in Requests, ApplyConnect(r)  PROVE  Reported'
  BY <1>33 DEF ApplyConnect, Finish, start, web, stop, request, parts, cleanup
<1>34. ASSUME NEW r \in Requests, RequestShutdown(r)  PROVE  Reported'
  BY <1>34 DEF RequestShutdown, Finish, start, web, stop, request, parts, cleanup
<1>35. ASSUME ListTorrents  PROVE  Reported'
  BY <1>35 DEF ListTorrents, start, web, stop, request, parts, cleanup
<1>36. ASSUME RemoveUnused  PROVE  Reported'
  BY <1>36 DEF RemoveUnused, start, web, stop, request, parts, cleanup
<1> HIDE DEF TypeOK, StateOK, Reported, Ended
<1> QED
  BY <1>1, <1>2, <1>3, <1>4, <1>5, <1>6, <1>7, <1>8, <1>9, <1>10, <1>11, <1>12,
     <1>13, <1>14, <1>15, <1>16, <1>17, <1>18, <1>19, <1>20, <1>21, <1>22,
     <1>23, <1>24, <1>25, <1>26, <1>27, <1>28, <1>29, <1>30, <1>31, <1>32,
     <1>33, <1>34, <1>35, <1>36, Zenon DEF Next, Main, Listener, StopServers

\* Server.Stop passes a listener when its requests are done or cut off.
LEMMA DrainedStep ==
  ASSUME TypeOK, Quiet, Handled, Drained, Next
  PROVE  Drained'
<1> USE LifecycleAssumption, NamesCases DEF TypeOK, StateOK, Quiet, Drained, running
<1>1. ASSUME InitSettings  PROVE  Drained'
  BY <1>1 DEF InitSettings, start, web, stop, request, parts, cleanup
<1>2. ASSUME PrepareNetwork  PROVE  Drained'
  BY <1>2 DEF PrepareNetwork, start, web, stop, request, parts, cleanup
<1>3. ASSUME Connect  PROVE  Drained'
  BY <1>3 DEF Connect, start, web, stop, request, parts, cleanup
<1>4. ASSUME RegisterRoutes  PROVE  Drained'
  BY <1>4 DEF RegisterRoutes, start, web, stop, request, parts, cleanup
<1>5. ASSUME NEW s \in Names, StartServer(s)  PROVE  Drained'
  BY <1>5 DEF StartServer, start, web, stop, request, parts, cleanup
<1>6. ASSUME StartWorker  PROVE  Drained'
  BY <1>6 DEF StartWorker, start, web, stop, request, parts, cleanup
<1>7. ASSUME RuntimeExited  PROVE  Drained'
  BY <1>7 DEF RuntimeExited, Leave, start, web, stop, request, parts, cleanup
<1>8. ASSUME StopLifecycle  PROVE  Drained'
  BY <1>8 DEF StopLifecycle, start, web, stop, request, parts, cleanup
<1>9. ASSUME AwaitWorker  PROVE  Drained'
  BY <1>9 DEF AwaitWorker, start, web, stop, request, parts, cleanup
<1>10. ASSUME AppStopped  PROVE  Drained'
  BY <1>10 DEF AppStopped, Leave, start, web, stop, request, parts, cleanup
<1>11. ASSUME StopTimesOut  PROVE  Drained'
  BY <1>11 DEF StopTimesOut, Leave, start, web, stop, request, parts, cleanup
<1>12. ASSUME StartFails  PROVE  Drained'
  BY <1>12 DEF StartFails, Leave, start, web, stop, request, parts, cleanup
<1>13. ASSUME Wait  PROVE  Drained'
  BY <1>13 DEF Wait, start, web, stop, request, parts, cleanup
<1>14. ASSUME Signal  PROVE  Drained'
  BY <1>14 DEF Signal, start, web, stop, request, parts, cleanup
<1>15. ASSUME NEW s \in Names, Listen(s)  PROVE  Drained'
  BY <1>15 DEF Listen, start, web, stop, request, parts, cleanup
<1>16. ASSUME NEW s \in Names, ServerClosed(s)  PROVE  Drained'
  BY <1>16 DEF ServerClosed, Report, start, web, stop, request, parts, cleanup
<1>17. ASSUME NEW s \in Names, ListenFails(s)  PROVE  Drained'
  BY <1>17 DEF ListenFails, Report, start, web, stop, request, parts, cleanup
<1>18. ASSUME NEW c \in Callers, EnterStop(c)  PROVE  Drained'
  BY <1>18 DEF EnterStop, start, web, stop, request, parts, cleanup
<1>19. ASSUME NEW c \in Callers, LeaveStop(c)  PROVE  Drained'
  BY <1>19 DEF LeaveStop, start, web, stop, request, parts, cleanup
<1>20. ASSUME TakeServers  PROVE  Drained'
  BY <1>20 DEF TakeServers, start, web, stop, request, parts, cleanup
<1>21. ASSUME NEW s \in {"https", "http"}, SkipServer(s)  PROVE  Drained'
  BY <1>21 DEF SkipServer, after, start, web, stop, request, parts, cleanup
<1>22. ASSUME NEW s \in {"https", "http"}, ShutdownServer(s)  PROVE  Drained'
  BY <1>22 DEF ShutdownServer, start, web, stop, request, parts, cleanup
<1>23. ASSUME NEW s \in {"https", "http"}, DrainServer(s)  PROVE  Drained'
  BY <1>23 DEF DrainServer, after, start, web, stop, request, parts, cleanup
<1>24. ASSUME NEW s \in {"https", "http"}, CutServer(s)  PROVE  Drained'
  BY <1>24 DEF CutServer, after, start, web, stop, request, parts, cleanup
<1>25. ASSUME StopModules  PROVE  Drained'
  BY <1>25 DEF StopModules, start, web, stop, request, parts, cleanup
<1>26. ASSUME Disconnect  PROVE  Drained'
  BY <1>26 DEF Disconnect, start, web, stop, request, parts, cleanup
<1>27. ASSUME CloseDB  PROVE  Drained'
  BY <1>27 DEF CloseDB, start, web, stop, request, parts, cleanup
<1>28. ASSUME ForgetDB  PROVE  Drained'
  BY <1>28 DEF ForgetDB, start, web, stop, request, parts, cleanup
<1>29. ASSUME NEW r \in Requests, NEW s \in Names, Accept(r, s)  PROVE  Drained'
  BY <1>29 DEF Accept, start, web, stop, request, parts, cleanup
<1>30. ASSUME NEW r \in Requests, StreamEnds(r)  PROVE  Drained'
  BY <1>30 DEF StreamEnds, Finish, start, web, stop, request, parts, cleanup
<1>31. ASSUME NEW r \in Requests, ApplySettings(r)  PROVE  Drained'
  BY <1>31 DEF ApplySettings, Finish, start, web, stop, request, parts, cleanup
<1>32. ASSUME NEW r \in Requests, ApplyDisconnect(r)  PROVE  Drained'
  BY <1>32 DEF ApplyDisconnect, Finish, start, web, stop, request, parts, cleanup
<1>33. ASSUME NEW r \in Requests, ApplyConnect(r)  PROVE  Drained'
  BY <1>33 DEF ApplyConnect, Finish, start, web, stop, request, parts, cleanup
<1>34. ASSUME NEW r \in Requests, RequestShutdown(r)  PROVE  Drained'
  BY <1>34 DEF RequestShutdown, Finish, start, web, stop, request, parts, cleanup
<1>35. ASSUME ListTorrents  PROVE  Drained'
  BY <1>35 DEF ListTorrents, start, web, stop, request, parts, cleanup
<1>36. ASSUME RemoveUnused  PROVE  Drained'
  BY <1>36 DEF RemoveUnused, start, web, stop, request, parts, cleanup
<1> HIDE DEF TypeOK, StateOK, Quiet, Drained, running
<1> QED
  BY <1>1, <1>2, <1>3, <1>4, <1>5, <1>6, <1>7, <1>8, <1>9, <1>10, <1>11, <1>12,
     <1>13, <1>14, <1>15, <1>16, <1>17, <1>18, <1>19, <1>20, <1>21, <1>22,
     <1>23, <1>24, <1>25, <1>26, <1>27, <1>28, <1>29, <1>30, <1>31, <1>32,
     <1>33, <1>34, <1>35, <1>36, Zenon DEF Next, Main, Listener, StopServers

\* The torrent client stays down but for what was not waited for.
LEMMA StaysDownStep ==
  ASSUME TypeOK, Quiet, Handled, Drained, StaysDown, Next
  PROVE  StaysDown'
<1> USE LifecycleAssumption, NamesCases DEF TypeOK, StateOK, FlagsOK, Quiet, Early, Handled, Drained, running, StaysDown, Reconnected
<1>1. ASSUME InitSettings  PROVE  StaysDown'
  BY <1>1 DEF InitSettings, start, web, stop, request, parts, cleanup
<1>2. ASSUME PrepareNetwork  PROVE  StaysDown'
  BY <1>2 DEF PrepareNetwork, start, web, stop, request, parts, cleanup
<1>3. ASSUME Connect  PROVE  StaysDown'
  BY <1>3 DEF Connect, start, web, stop, request, parts, cleanup
<1>4. ASSUME RegisterRoutes  PROVE  StaysDown'
  BY <1>4 DEF RegisterRoutes, start, web, stop, request, parts, cleanup
<1>5. ASSUME NEW s \in Names, StartServer(s)  PROVE  StaysDown'
  BY <1>5 DEF StartServer, start, web, stop, request, parts, cleanup
<1>6. ASSUME StartWorker  PROVE  StaysDown'
  BY <1>6 DEF StartWorker, start, web, stop, request, parts, cleanup
<1>7. ASSUME RuntimeExited  PROVE  StaysDown'
  BY <1>7 DEF RuntimeExited, Leave, start, web, stop, request, parts, cleanup
<1>8. ASSUME StopLifecycle  PROVE  StaysDown'
  BY <1>8 DEF StopLifecycle, start, web, stop, request, parts, cleanup
<1>9. ASSUME AwaitWorker  PROVE  StaysDown'
  BY <1>9 DEF AwaitWorker, start, web, stop, request, parts, cleanup
<1>10. ASSUME AppStopped  PROVE  StaysDown'
  BY <1>10 DEF AppStopped, Leave, start, web, stop, request, parts, cleanup
<1>11. ASSUME StopTimesOut  PROVE  StaysDown'
  BY <1>11 DEF StopTimesOut, Leave, start, web, stop, request, parts, cleanup
<1>12. ASSUME StartFails  PROVE  StaysDown'
  BY <1>12 DEF StartFails, Leave, start, web, stop, request, parts, cleanup
<1>13. ASSUME Wait  PROVE  StaysDown'
  BY <1>13 DEF Wait, start, web, stop, request, parts, cleanup
<1>14. ASSUME Signal  PROVE  StaysDown'
  BY <1>14 DEF Signal, start, web, stop, request, parts, cleanup
<1>15. ASSUME NEW s \in Names, Listen(s)  PROVE  StaysDown'
  BY <1>15 DEF Listen, start, web, stop, request, parts, cleanup
<1>16. ASSUME NEW s \in Names, ServerClosed(s)  PROVE  StaysDown'
  BY <1>16 DEF ServerClosed, Report, start, web, stop, request, parts, cleanup
<1>17. ASSUME NEW s \in Names, ListenFails(s)  PROVE  StaysDown'
  BY <1>17 DEF ListenFails, Report, start, web, stop, request, parts, cleanup
<1>18. ASSUME NEW c \in Callers, EnterStop(c)  PROVE  StaysDown'
  BY <1>18 DEF EnterStop, start, web, stop, request, parts, cleanup
<1>19. ASSUME NEW c \in Callers, LeaveStop(c)  PROVE  StaysDown'
  BY <1>19 DEF LeaveStop, start, web, stop, request, parts, cleanup
<1>20. ASSUME TakeServers  PROVE  StaysDown'
  BY <1>20 DEF TakeServers, start, web, stop, request, parts, cleanup
<1>21. ASSUME NEW s \in {"https", "http"}, SkipServer(s)  PROVE  StaysDown'
  BY <1>21 DEF SkipServer, after, start, web, stop, request, parts, cleanup
<1>22. ASSUME NEW s \in {"https", "http"}, ShutdownServer(s)  PROVE  StaysDown'
  BY <1>22 DEF ShutdownServer, start, web, stop, request, parts, cleanup
<1>23. ASSUME NEW s \in {"https", "http"}, DrainServer(s)  PROVE  StaysDown'
  BY <1>23 DEF DrainServer, after, start, web, stop, request, parts, cleanup
<1>24. ASSUME NEW s \in {"https", "http"}, CutServer(s)  PROVE  StaysDown'
  BY <1>24 DEF CutServer, after, start, web, stop, request, parts, cleanup
<1>25. ASSUME StopModules  PROVE  StaysDown'
  BY <1>25 DEF StopModules, start, web, stop, request, parts, cleanup
<1>26. ASSUME Disconnect  PROVE  StaysDown'
  BY <1>26 DEF Disconnect, start, web, stop, request, parts, cleanup
<1>27. ASSUME CloseDB  PROVE  StaysDown'
  BY <1>27 DEF CloseDB, start, web, stop, request, parts, cleanup
<1>28. ASSUME ForgetDB  PROVE  StaysDown'
  BY <1>28 DEF ForgetDB, start, web, stop, request, parts, cleanup
<1>29. ASSUME NEW r \in Requests, NEW s \in Names, Accept(r, s)  PROVE  StaysDown'
  BY <1>29 DEF Accept, start, web, stop, request, parts, cleanup
<1>30. ASSUME NEW r \in Requests, StreamEnds(r)  PROVE  StaysDown'
  BY <1>30 DEF StreamEnds, Finish, start, web, stop, request, parts, cleanup
<1>31. ASSUME NEW r \in Requests, ApplySettings(r)  PROVE  StaysDown'
  BY <1>31 DEF ApplySettings, Finish, start, web, stop, request, parts, cleanup
<1>32. ASSUME NEW r \in Requests, ApplyDisconnect(r)  PROVE  StaysDown'
  BY <1>32 DEF ApplyDisconnect, Finish, start, web, stop, request, parts, cleanup
<1>33. ASSUME NEW r \in Requests, ApplyConnect(r)  PROVE  StaysDown'
  BY <1>33 DEF ApplyConnect, Finish, start, web, stop, request, parts, cleanup
<1>34. ASSUME NEW r \in Requests, RequestShutdown(r)  PROVE  StaysDown'
  BY <1>34 DEF RequestShutdown, Finish, start, web, stop, request, parts, cleanup
<1>35. ASSUME ListTorrents  PROVE  StaysDown'
  BY <1>35 DEF ListTorrents, start, web, stop, request, parts, cleanup
<1>36. ASSUME RemoveUnused  PROVE  StaysDown'
  BY <1>36 DEF RemoveUnused, start, web, stop, request, parts, cleanup
<1> HIDE DEF TypeOK, StateOK, FlagsOK, Quiet, Early, Handled, Drained, running, StaysDown, Reconnected
<1> QED
  BY <1>1, <1>2, <1>3, <1>4, <1>5, <1>6, <1>7, <1>8, <1>9, <1>10, <1>11, <1>12,
     <1>13, <1>14, <1>15, <1>16, <1>17, <1>18, <1>19, <1>20, <1>21, <1>22,
     <1>23, <1>24, <1>25, <1>26, <1>27, <1>28, <1>29, <1>30, <1>31, <1>32,
     <1>33, <1>34, <1>35, <1>36, Zenon DEF Next, Main, Listener, StopServers

\* A stop has its reason.
LEMMA StartedStep ==
  ASSUME TypeOK, Quiet, InPhase, Started, Next
  PROVE  Started'
<1> USE LifecycleAssumption, NamesCases DEF TypeOK, StateOK, FlagsOK, Quiet, InPhase, Started, Callers
<1>1. ASSUME InitSettings  PROVE  Started'
  BY <1>1 DEF InitSettings, start, web, stop, request, parts, cleanup
<1>2. ASSUME PrepareNetwork  PROVE  Started'
  BY <1>2 DEF PrepareNetwork, start, web, stop, request, parts, cleanup
<1>3. ASSUME Connect  PROVE  Started'
  BY <1>3 DEF Connect, start, web, stop, request, parts, cleanup
<1>4. ASSUME RegisterRoutes  PROVE  Started'
  BY <1>4 DEF RegisterRoutes, start, web, stop, request, parts, cleanup
<1>5. ASSUME NEW s \in Names, StartServer(s)  PROVE  Started'
  BY <1>5 DEF StartServer, start, web, stop, request, parts, cleanup
<1>6. ASSUME StartWorker  PROVE  Started'
  BY <1>6 DEF StartWorker, start, web, stop, request, parts, cleanup
<1>7. ASSUME RuntimeExited  PROVE  Started'
  BY <1>7 DEF RuntimeExited, Leave, start, web, stop, request, parts, cleanup
<1>8. ASSUME StopLifecycle  PROVE  Started'
  BY <1>8 DEF StopLifecycle, start, web, stop, request, parts, cleanup
<1>9. ASSUME AwaitWorker  PROVE  Started'
  BY <1>9 DEF AwaitWorker, start, web, stop, request, parts, cleanup
<1>10. ASSUME AppStopped  PROVE  Started'
  BY <1>10 DEF AppStopped, Leave, start, web, stop, request, parts, cleanup
<1>11. ASSUME StopTimesOut  PROVE  Started'
  BY <1>11 DEF StopTimesOut, Leave, start, web, stop, request, parts, cleanup
<1>12. ASSUME StartFails  PROVE  Started'
  BY <1>12 DEF StartFails, Leave, start, web, stop, request, parts, cleanup
<1>13. ASSUME Wait  PROVE  Started'
  BY <1>13 DEF Wait, start, web, stop, request, parts, cleanup
<1>14. ASSUME Signal  PROVE  Started'
  BY <1>14 DEF Signal, start, web, stop, request, parts, cleanup
<1>15. ASSUME NEW s \in Names, Listen(s)  PROVE  Started'
  BY <1>15 DEF Listen, start, web, stop, request, parts, cleanup
<1>16. ASSUME NEW s \in Names, ServerClosed(s)  PROVE  Started'
  BY <1>16 DEF ServerClosed, Report, start, web, stop, request, parts, cleanup
<1>17. ASSUME NEW s \in Names, ListenFails(s)  PROVE  Started'
  BY <1>17 DEF ListenFails, Report, start, web, stop, request, parts, cleanup
<1>18. ASSUME NEW c \in Callers, EnterStop(c)  PROVE  Started'
  BY <1>18 DEF EnterStop, start, web, stop, request, parts, cleanup
<1>19. ASSUME NEW c \in Callers, LeaveStop(c)  PROVE  Started'
  BY <1>19 DEF LeaveStop, start, web, stop, request, parts, cleanup
<1>20. ASSUME TakeServers  PROVE  Started'
  BY <1>20 DEF TakeServers, start, web, stop, request, parts, cleanup
<1>21. ASSUME NEW s \in {"https", "http"}, SkipServer(s)  PROVE  Started'
  BY <1>21 DEF SkipServer, after, start, web, stop, request, parts, cleanup
<1>22. ASSUME NEW s \in {"https", "http"}, ShutdownServer(s)  PROVE  Started'
  BY <1>22 DEF ShutdownServer, start, web, stop, request, parts, cleanup
<1>23. ASSUME NEW s \in {"https", "http"}, DrainServer(s)  PROVE  Started'
  BY <1>23 DEF DrainServer, after, start, web, stop, request, parts, cleanup
<1>24. ASSUME NEW s \in {"https", "http"}, CutServer(s)  PROVE  Started'
  BY <1>24 DEF CutServer, after, start, web, stop, request, parts, cleanup
<1>25. ASSUME StopModules  PROVE  Started'
  BY <1>25 DEF StopModules, start, web, stop, request, parts, cleanup
<1>26. ASSUME Disconnect  PROVE  Started'
  BY <1>26 DEF Disconnect, start, web, stop, request, parts, cleanup
<1>27. ASSUME CloseDB  PROVE  Started'
  BY <1>27 DEF CloseDB, start, web, stop, request, parts, cleanup
<1>28. ASSUME ForgetDB  PROVE  Started'
  BY <1>28 DEF ForgetDB, start, web, stop, request, parts, cleanup
<1>29. ASSUME NEW r \in Requests, NEW s \in Names, Accept(r, s)  PROVE  Started'
  BY <1>29 DEF Accept, start, web, stop, request, parts, cleanup
<1>30. ASSUME NEW r \in Requests, StreamEnds(r)  PROVE  Started'
  BY <1>30 DEF StreamEnds, Finish, start, web, stop, request, parts, cleanup
<1>31. ASSUME NEW r \in Requests, ApplySettings(r)  PROVE  Started'
  BY <1>31 DEF ApplySettings, Finish, start, web, stop, request, parts, cleanup
<1>32. ASSUME NEW r \in Requests, ApplyDisconnect(r)  PROVE  Started'
  BY <1>32 DEF ApplyDisconnect, Finish, start, web, stop, request, parts, cleanup
<1>33. ASSUME NEW r \in Requests, ApplyConnect(r)  PROVE  Started'
  BY <1>33 DEF ApplyConnect, Finish, start, web, stop, request, parts, cleanup
<1>34. ASSUME NEW r \in Requests, RequestShutdown(r)  PROVE  Started'
  BY <1>34 DEF RequestShutdown, Finish, start, web, stop, request, parts, cleanup
<1>35. ASSUME ListTorrents  PROVE  Started'
  BY <1>35 DEF ListTorrents, start, web, stop, request, parts, cleanup
<1>36. ASSUME RemoveUnused  PROVE  Started'
  BY <1>36 DEF RemoveUnused, start, web, stop, request, parts, cleanup
<1> HIDE DEF TypeOK, StateOK, FlagsOK, Quiet, InPhase, Started, Callers
<1> QED
  BY <1>1, <1>2, <1>3, <1>4, <1>5, <1>6, <1>7, <1>8, <1>9, <1>10, <1>11, <1>12,
     <1>13, <1>14, <1>15, <1>16, <1>17, <1>18, <1>19, <1>20, <1>21, <1>22,
     <1>23, <1>24, <1>25, <1>26, <1>27, <1>28, <1>29, <1>30, <1>31, <1>32,
     <1>33, <1>34, <1>35, <1>36, Zenon DEF Next, Main, Listener, StopServers

-----------------------------------------------------------------------------
(* The invariant and what follows from it.                                 *)

\* A queue of at most two reports fits in Server.waitChan.
LEMMA RoomForReports ==
  ASSUME NEW q \in Seq(Outcomes), Len(q) \in 0 .. 2
  PROVE  q \in UNION {[1 .. n -> Outcomes] : n \in 0 .. 2}
<1>1. q \in [1 .. Len(q) -> Outcomes]
  OBVIOUS
<1> QED
  BY <1>1, Zenon

\* The process starts with nothing up and nothing asked for.
LEMMA InitInv == Init => Inv
<1> SUFFICES ASSUME Init PROVE Inv
  OBVIOUS
<1>1. FlagsOK
  BY Zenon DEF Init, FlagsOK
<1>2. StateOK
  BY LifecycleAssumption, NamesCases DEF Init, StateOK, NoExit, Callers
<1>3. Reported
  <2>1. waitChan = <<>> /\ waited = "nothing"
    BY DEF Init
  <2>2. \A q \in Names : listener[q] = "none"
    BY DEF Init
  <2> QED
    BY <2>1, <2>2 DEF Reported, Ended
<1>4. TypeOK
  <2>1. waitChan \in Seq(Outcomes) /\ Len(waitChan) \in 0 .. 2
    BY DEF Init
  <2> QED
    BY <1>1, <1>2, <2>1, RoomForReports, Zenon DEF TypeOK
<1>5. Quiet /\ Handled
  BY NamesCases DEF Init, Quiet, Handled
<1>6. InPhase /\ Drained /\ StaysDown /\ Started
  BY DEF Init, InPhase, Drained, StaysDown, Started, NoExit
<1> QED
  BY <1>3, <1>4, <1>5, <1>6 DEF Inv

\* The invariant is inductive.
LEMMA InvStep == Inv /\ [Next]_vars => Inv'
<1>1. ASSUME Inv, Next PROVE Inv'
  <2>1. Reported'
    BY <1>1, ReportedStep DEF Inv
  <2>2. TypeOK'
    <3>1. FlagsOK' /\ StateOK'
      BY <1>1, FlagsStep, StateStep DEF Inv, TypeOK
    <3>2. (waitChan \in UNION {[1 .. n -> Outcomes] : n \in 0 .. 2})'
      <4> DEFINE k == Len(waitChan')
                 a == Ended("http")'
                 b == Ended("https")'
      <4>1. a \in {0, 1} /\ b \in {0, 1}
        BY DEF Ended
      <4>2. k \in Nat /\ (k = a + b \/ k + 1 = a + b)
        BY <2>1 DEF Reported
      <4>3. k \in 0 .. 2
        <5> HIDE DEF k, a, b
        <5> QED
          BY <4>1, <4>2
      <4>4. waitChan' \in Seq(Outcomes)
        BY <2>1 DEF Reported
      <4> QED
        BY <4>3, <4>4, RoomForReports, Zenon
    <3> QED
      BY <3>1, <3>2 DEF TypeOK
  <2>3. Quiet' /\ InPhase' /\ Handled'
    BY <1>1, QuietStep, InPhaseStep, HandledStep DEF Inv
  <2>4. Drained' /\ StaysDown' /\ Started'
    BY <1>1, DrainedStep, StaysDownStep, StartedStep DEF Inv
  <2> QED
    BY <2>1, <2>2, <2>3, <2>4 DEF Inv
<1>2. ASSUME Inv, UNCHANGED vars PROVE Inv'
  <2> USE <1>2 DEF Inv, vars
  <2>1. TypeOK'
    <3>1. FlagsOK'
      BY Zenon DEF TypeOK, FlagsOK
    <3>2. StateOK'
      BY DEF TypeOK, StateOK
    <3>3. (waitChan \in UNION {[1 .. n -> Outcomes] : n \in 0 .. 2})'
      BY DEF TypeOK
    <3> QED
      BY <3>1, <3>2, <3>3 DEF TypeOK
  <2>2. Quiet' /\ Handled'
    BY Zenon DEF Quiet, Handled
  <2>3. Reported' /\ InPhase'
    BY Zenon DEF Reported, Ended, InPhase
  <2>4. Drained' /\ StaysDown' /\ Started'
    BY Zenon DEF Drained, running, StaysDown, Reconnected, Started
  <2> QED
    BY <2>1, <2>2, <2>3, <2>4
<1> QED
  BY <1>1, <1>2

\* It holds in every reachable state.
LEMMA Invariance == Spec => []Inv
BY InitInv, InvStep, PTL DEF Spec

\* Every variable keeps its type for every set of requests, and the two
\* listeners together never report more than Server.waitChan has room for: the
\* goroutine of a listener never blocks on its report.
THEOREM TypeCorrect == Spec => []TypeOK
<1>1. Inv => TypeOK
  BY DEF Inv
<1> QED
  BY <1>1, Invariance, PTL

\* A process that exits because App.Stop returned has closed the database and
\* stopped the modules, whoever ran the body of serverRuntime.Stop, and has
\* the torrent client up only if a change of the settings was not waited for.
THEOREM StopIsClean == Spec => []CleanStop
<1>1. Inv => CleanStop
  BY DEF Inv, InPhase, StaysDown, CleanStop
<1> QED
  BY <1>1, Invariance, PTL

\* The database closes only when no handler of a listener that was shut down is
\* in progress, except those the grace period has cut off.
THEOREM ClosesAfterDraining == Spec => []DrainedBeforeClose
<1>1. Inv => DrainedBeforeClose
  BY DEF Inv, InPhase, Drained, DrainedBeforeClose
<1> QED
  BY <1>1, Invariance, PTL

\* The cleanup worker removes the cache of a torrent the database knows only
\* after a shutdown request, the one stop that does not cancel it.
THEOREM KeepsCaches == Spec => []CachesKept
<1>1. Inv => CachesKept
  BY DEF Inv, Started, CachesKept
<1> QED
  BY <1>1, Invariance, PTL
=============================================================================
