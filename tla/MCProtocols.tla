-------------------- MODULE MCProtocols --------------------
(***************************************************************************)
(* Liveness, in the components in which somebody waits for something: a    *)
(* breaker for its timeout, a handler for a torrent, a piece for its       *)
(* priority to be taken back, a command for its upload.  They share no     *)
(* state, so a behaviour picks the one it is about and takes only its      *)
(* steps.                                                                  *)
(***************************************************************************)
EXTENDS CircuitBreaker, TorrentRegistry, CachePriority, ManagementClient, TLC

\* A breaker that lets in as many calls as it wants to see succeed, as
\* circuitbreaker.DefaultConfig does, and the one that Torznab makes.
MCBreakerConfigs ==
  {[successThreshold |-> 2, halfOpenMax |-> 2], [successThreshold |-> 2, halfOpenMax |-> 0]}

MCCtlTorrents == <<1, 2>>
\* Torrents have the numbers 1 to 3, words in titles 11 and 12.  The title of the second
\* torrent is the hash of the third.
MCCtlTitles == (11 :> {1, 2}) @@ (12 :> {2, 3}) @@ (1 :> {}) @@ (3 :> {2})
MCCtlContexts == ("local" :> "torrserver") @@ ("away" :> "other") @@ ("broken" :> "bad")
MCCtlIdentifiers ==
  {[kind |-> "index", value |-> 2], [kind |-> "hash", value |-> 1], [kind |-> "hash", value |-> 3],
   [kind |-> "title", value |-> 11], [kind |-> "title", value |-> 12]}
MCVersionDocs ==
  [product : {"", "torrserver", "other"}, current : {"v1", "v2"}, application : {"", "1.0"},
   capable : BOOLEAN, legacy : BOOLEAN]

-----------------------------------------------------------------------------
VARIABLE part   \* the component a behaviour is about

vars == <<part, breakerVars, registryVars, priorityVars, clientVars, sample>>

\* Nothing of the other components changes.
OnlyBreaker == UNCHANGED <<part, registryVars, priorityVars, clientVars, sample>>
OnlyRegistry == UNCHANGED <<part, breakerVars, priorityVars, clientVars, sample>>
OnlyPriorities == UNCHANGED <<part, breakerVars, registryVars, clientVars, sample>>
OnlyClient == UNCHANGED <<part, breakerVars, registryVars, priorityVars, sample>>

Init ==
  /\ part \in {"breaker", "registry", "priorities", "client"}
  /\ BreakerInit /\ RegistryInit /\ PriorityInit /\ ClientInit /\ NumbersInit

Next ==
  \/ part = "breaker" /\ BreakerNext /\ OnlyBreaker
  \/ part = "registry" /\ RegistryNext /\ OnlyRegistry
  \/ part = "priorities" /\ PrioritiesNext /\ OnlyPriorities
  \/ part = "client" /\ ClientNext /\ OnlyClient

\* Goroutines run on, timers fire, and the breaker's timeout passes.  Some player keeps
\* asking, a handler that waits for a torrent's information hears that the torrent is
\* closed, and a read-only server does not find a reader on it every time: chances that
\* come again and again.  Users, indexers, peers, other programs and the machine owe
\* nothing.
Fairness ==
  /\ WF_vars(part = "breaker" /\ NewBreaker /\ OnlyBreaker)
  /\ WF_vars(part = "breaker" /\ TimeoutPasses /\ OnlyBreaker)
  /\ \A s \in Searches : WF_vars(part = "breaker" /\ SearchStep(s) /\ OnlyBreaker)
  /\ \A h \in Handlers : WF_vars(part = "registry" /\ HandlerStep(h) /\ OnlyRegistry)
  /\ SF_vars(part = "registry" /\ (\E h \in Handlers : StartPlay(h)) /\ OnlyRegistry)
  /\ SF_vars(part = "registry" /\ (\E h \in Handlers : WaitInfoClosed(h)) /\ OnlyRegistry)
  /\ SF_vars(part = "registry" /\ (\E h \in Handlers : CloseEntry(h)) /\ OnlyRegistry)
  /\ WF_vars(part = "priorities" /\ UpdateStep /\ OnlyPriorities)
  /\ WF_vars(part = "priorities" /\ ClearStep /\ OnlyPriorities)
  /\ WF_vars(part = "priorities" /\ ClearFires /\ OnlyPriorities)
  /\ \A p \in PriorityPieces :
       WF_vars(part = "priorities" /\ ClearReleased(p) /\ OnlyPriorities)
  /\ \A c \in Ctls :
       /\ WF_vars(part = "client" /\ CtlStep(c) /\ OnlyClient)
       /\ WF_vars(part = "client" /\ WriterStep(c) /\ OnlyClient)

Spec == Init /\ [][Next]_vars /\ Fairness
=============================================================================
