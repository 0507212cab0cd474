--------------------------- MODULE MCCircuitBreaker ---------------------------
(***************************************************************************)
(* The breaker that the Torznab search makes, alone.                        *)
(***************************************************************************)
EXTENDS CircuitBreaker

\* getBreaker: SuccessThreshold 2, HalfOpenMaxCalls not set.
MCTorznabBreaker == {[successThreshold |-> 2, halfOpenMax |-> 0]}

\* Users keep searching, requests end and the time-out passes; indexers owe nothing.
Fairness ==
  /\ WF_breakerVars(NewBreaker) /\ WF_breakerVars(TimeoutPasses)
  /\ \A s \in Searches : WF_breakerVars(SearchStep(s))

Spec == BreakerInit /\ [][BreakerNext]_breakerVars /\ Fairness
=============================================================================
