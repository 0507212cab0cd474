--------------------------- MODULE CircuitBreaker ---------------------------
(***************************************************************************)
(* A Torznab search and the circuit breaker and the retries it goes through*)
(* (server/torznab/torznab.go, utils/circuitbreaker, utils/retry).         *)
(*                                                                         *)
(* The breaker has no lock: its state, its counters and openTime are read  *)
(* and written one by one, so one step here is one of those accesses.      *)
(* openTime is not even atomic; a search that reads it while another writes*)
(* it may find the time-out over or not.                                   *)
(***************************************************************************)
EXTENDS Integers, FiniteSets

CONSTANTS
  Searches,           \* goroutines that search, one request after the other
  BreakerConfigs,     \* configurations: successThreshold, halfOpenMax
  FailuresToTrip,     \* defaultReadyToTrip; Config.FailureThreshold is not read
  MaxAttempts         \* retry.Config.MaxAttempts

ASSUME BreakerAssumption ==
  /\ BreakerConfigs \subseteq [successThreshold : Nat \ {0}, halfOpenMax : Nat]
  /\ FailuresToTrip \in Nat \ {0} /\ MaxAttempts \in Nat \ {0}

VARIABLES
  breakerConfig,
  breaker,        \* CircuitBreaker.state
  failures, successes, halfOpenCalls,
  timeoutOver,    \* Timeout has passed since openTime
  search,         \* where each search is
  attempt,        \* attempts of retry.Do made for it
  indexerDown     \* the service fails every request

breakerVars == <<breakerConfig, breaker, failures, successes, halfOpenCalls,
                 timeoutOver, search, attempt, indexerDown>>

NoConfig == [successThreshold |-> 0, halfOpenMax |-> 0]

BreakerInit ==
  /\ breakerConfig = NoConfig
  /\ breaker = "closed"
  /\ failures = 0 /\ successes = 0 /\ halfOpenCalls = 0
  /\ timeoutOver = FALSE
  /\ search = [s \in Searches |-> "idle"]
  /\ attempt = [s \in Searches |-> 0]
  /\ indexerDown = TRUE

\* getBreaker: the first search makes the breaker.
NewBreaker ==
  /\ breakerConfig = NoConfig
  /\ breakerConfig' \in BreakerConfigs
  /\ UNCHANGED <<breaker, failures, successes, halfOpenCalls, timeoutOver, search,
                 attempt, indexerDown>>

Goes(s, from, to) == search[s] = from /\ search' = [search EXCEPT ![s] = to]

-----------------------------------------------------------------------------
\* Allow: the state is loaded, and decides.
Allow(s) ==
  /\ breakerConfig # NoConfig
  /\ Goes(s, "idle", CASE breaker = "closed"    -> "calling"
                       [] breaker = "open"      -> "open"
                       [] breaker = "half-open" -> "halfOpen")
  /\ attempt' = [attempt EXCEPT ![s] = 0]
  /\ UNCHANGED <<breakerConfig, breaker, failures, successes, halfOpenCalls,
                 timeoutOver, indexerDown>>

beingWritten == \E s \in Searches : search[s] \in {"setOpenTime", "openTimeOnly"}

\* Mutant: the first try counts against the number of calls let in as well.
AllowOpen_counted(s) ==
  /\ \/ /\ timeoutOver \/ beingWritten
        /\ halfOpenCalls < breakerConfig.halfOpenMax
        /\ Goes(s, "open", "clearCalls")
        /\ breaker' = "half-open"
     \/ /\ ~timeoutOver \/ beingWritten \/ halfOpenCalls >= breakerConfig.halfOpenMax
        /\ Goes(s, "open", "idle")
        /\ UNCHANGED breaker
  /\ UNCHANGED <<breakerConfig, failures, successes, halfOpenCalls, timeoutOver,
                 attempt, indexerDown>>

\* shouldAllowHalfOpen; the one who finds the time-out over tries.
AllowOpen(s) ==
  /\ \/ /\ timeoutOver \/ beingWritten
        /\ Goes(s, "open", "clearCalls")
        /\ breaker' = "half-open"
     \/ /\ ~timeoutOver \/ beingWritten
        /\ Goes(s, "open", "idle")
        /\ UNCHANGED breaker
  /\ UNCHANGED <<breakerConfig, failures, successes, halfOpenCalls, timeoutOver,
                 attempt, indexerDown>>

ClearCalls(s) ==
  /\ Goes(s, "clearCalls", "calling")
  /\ halfOpenCalls' = 0
  /\ UNCHANGED <<breakerConfig, breaker, failures, successes, timeoutOver, attempt,
                 indexerDown>>

AllowHalfOpen(s) ==
  /\ Goes(s, "halfOpen", IF halfOpenCalls >= breakerConfig.halfOpenMax
                           THEN "idle" ELSE "countCall")
  /\ UNCHANGED <<breakerConfig, breaker, failures, successes, halfOpenCalls,
                 timeoutOver, attempt, indexerDown>>

CountCall(s) ==
  /\ Goes(s, "countCall", "calling")
  /\ halfOpenCalls' = halfOpenCalls + 1
  /\ UNCHANGED <<breakerConfig, breaker, failures, successes, timeoutOver, attempt,
                 indexerDown>>

-----------------------------------------------------------------------------
\* retry.Do around the request: an attempt that fails is repeated after a delay,
\* unless it was the last or the context of the whole is over.
Succeed(s) ==
  /\ ~indexerDown
  /\ Goes(s, "calling", "succeeded")
  /\ UNCHANGED <<breakerConfig, breaker, failures, successes, halfOpenCalls,
                 timeoutOver, attempt, indexerDown>>

Fail(s) ==
  /\ indexerDown
  /\ attempt' = [attempt EXCEPT ![s] = @ + 1]
  /\ \/ attempt[s] + 1 < MaxAttempts /\ UNCHANGED search /\ search[s] = "calling"
     \/ Goes(s, "calling", "failed")
  /\ UNCHANGED <<breakerConfig, breaker, failures, successes, halfOpenCalls,
                 timeoutOver, indexerDown>>

-----------------------------------------------------------------------------
\* recordSuccess.
RecordSuccess(s) ==
  /\ failures' = 0
  /\ Goes(s, "succeeded", IF breaker = "half-open" THEN "addSuccess" ELSE "idle")
  /\ UNCHANGED <<breakerConfig, breaker, successes, halfOpenCalls, timeoutOver,
                 attempt, indexerDown>>

AddSuccess(s) ==
  /\ Goes(s, "addSuccess", "checkSuccesses")
  /\ successes' = successes + 1
  /\ UNCHANGED <<breakerConfig, breaker, failures, halfOpenCalls, timeoutOver,
                 attempt, indexerDown>>

CheckSuccesses(s) ==
  /\ \/ /\ successes >= breakerConfig.successThreshold
        /\ Goes(s, "checkSuccesses", "resetSuccesses")
        /\ breaker' = "closed"
     \/ /\ successes < breakerConfig.successThreshold
        /\ Goes(s, "checkSuccesses", "idle")
        /\ UNCHANGED breaker
  /\ UNCHANGED <<breakerConfig, failures, successes, halfOpenCalls, timeoutOver,
                 attempt, indexerDown>>

\* recordFailure.
RecordFailure(s) ==
  /\ failures' = IF failures < FailuresToTrip THEN failures + 1 ELSE failures
  /\ Goes(s, "failed", CASE breaker = "half-open" -> "trip"
                         [] breaker = "closed"    -> "readyToTrip"
                         [] breaker = "open"      -> "idle")
  /\ UNCHANGED <<breakerConfig, breaker, successes, halfOpenCalls, timeoutOver,
                 attempt, indexerDown>>

ReadyToTrip(s) ==
  /\ \/ /\ failures >= FailuresToTrip
        /\ Goes(s, "readyToTrip", "openTimeOnly")
        /\ breaker' = "open"
     \/ /\ failures < FailuresToTrip
        /\ Goes(s, "readyToTrip", "idle")
        /\ UNCHANGED breaker
  /\ UNCHANGED <<breakerConfig, failures, successes, halfOpenCalls, timeoutOver,
                 attempt, indexerDown>>

Trip(s) ==
  /\ Goes(s, "trip", "setOpenTime")
  /\ breaker' = "open"
  /\ UNCHANGED <<breakerConfig, failures, successes, halfOpenCalls, timeoutOver,
                 attempt, indexerDown>>

SetOpenTime(s) ==
  /\ \/ Goes(s, "setOpenTime", "resetSuccesses")
     \/ Goes(s, "openTimeOnly", "idle")
  /\ timeoutOver' = FALSE
  /\ UNCHANGED <<breakerConfig, breaker, failures, successes, halfOpenCalls, attempt,
                 indexerDown>>

\* Both transitions out of half-open end by clearing the two counters.
ResetSuccesses(s) ==
  /\ Goes(s, "resetSuccesses", "resetCalls")
  /\ successes' = 0
  /\ UNCHANGED <<breakerConfig, breaker, failures, halfOpenCalls, timeoutOver,
                 attempt, indexerDown>>

ResetCalls(s) ==
  /\ Goes(s, "resetCalls", "idle")
  /\ halfOpenCalls' = 0
  /\ UNCHANGED <<breakerConfig, breaker, failures, successes, timeoutOver, attempt,
                 indexerDown>>

-----------------------------------------------------------------------------
TimeoutPasses ==
  /\ breaker = "open" /\ ~timeoutOver
  /\ timeoutOver' = TRUE
  /\ UNCHANGED <<breakerConfig, breaker, failures, successes, halfOpenCalls, search,
                 attempt, indexerDown>>

\* From some time on the service answers.
IndexerRecovers ==
  /\ indexerDown
  /\ indexerDown' = FALSE
  /\ UNCHANGED <<breakerConfig, breaker, failures, successes, halfOpenCalls,
                 timeoutOver, search, attempt>>

SearchStep(s) ==
  \/ Allow(s) \/ AllowOpen(s) \/ ClearCalls(s) \/ AllowHalfOpen(s) \/ CountCall(s)
  \/ Succeed(s) \/ Fail(s)
  \/ RecordSuccess(s) \/ AddSuccess(s) \/ CheckSuccesses(s)
  \/ RecordFailure(s) \/ ReadyToTrip(s) \/ Trip(s) \/ SetOpenTime(s)
  \/ ResetSuccesses(s) \/ ResetCalls(s)

BreakerNext ==
  \/ NewBreaker
  \/ \E s \in Searches : SearchStep(s)
  \/ TimeoutPasses
  \/ IndexerRecovers

-----------------------------------------------------------------------------
\* An open circuit is tried again: however the searches race over the unguarded state and
\* openTime, and whatever number of calls the half-open state lets in, one of them gets
\* through to the service after the time-out.
OpenIsTried == (breaker = "open") ~> (\E s \in Searches : search[s] = "calling")

\* Every search of one who keeps asking is made in the end, once the indexer answers.  False
\* for the breaker of the Torznab search: it wants two successes to close and lets no call
\* in after the first (HalfOpenMaxCalls is not set), so one success in the half-open state
\* is the last: all later searches are refused until the server restarts.
SearchesAreMade == \A s \in Searches : (~indexerDown) ~> (search[s] = "succeeded")
=============================================================================
