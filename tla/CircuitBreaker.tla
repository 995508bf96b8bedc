---------------------------- MODULE CircuitBreaker ----------------------------
(***************************************************************************)
(* The circuit breaker of utils/src/selection_event_bus.cpp.  Each of its  *)
(* methods holds its lock from beginning to end.  The clients are external:*)
(* they answer for every request that was let through, once, also when the *)
(* breaker has changed its state since.  Of the steady clock only how long *)
(* ago the breaker opened matters, as the 32 bits that are compared.       *)
(***************************************************************************)
EXTENDS Integers

CONSTANTS BreakerConfigs,   \* what the constructor may be given
          ClockValues,      \* the number of values of the 32 bits
          MaxOutstanding    \* bound of the model

ASSUME BreakerAssumption ==
    /\ BreakerConfigs \subseteq [failureThreshold : Nat, resetTimeout : Nat,
                                 halfOpenMaxRequests : Nat, successThreshold : Nat]
    /\ ClockValues \in Nat /\ \A c \in BreakerConfigs : c.resetTimeout < ClockValues
    /\ MaxOutstanding \in Nat \ {0}

VARIABLES config_,   \* no method changes it
          state_, consecutiveFailures_, halfOpenSuccessCount_, halfOpenRequestCount_,
          openFor, outstanding
breakerVars == <<config_, state_, consecutiveFailures_, halfOpenSuccessCount_,
                 halfOpenRequestCount_, openFor, outstanding>>

BreakerInit ==
    /\ config_ \in BreakerConfigs
    /\ state_ = "CLOSED" /\ consecutiveFailures_ = 0
    /\ halfOpenSuccessCount_ = 0 /\ halfOpenRequestCount_ = 0
    /\ openFor = 0 /\ outstanding = 0

HasResetTimeoutExpired == openFor >= config_.resetTimeout

-----------------------------------------------------------------------------
(* AllowRequest *)

Granted == outstanding < MaxOutstanding /\ outstanding' = outstanding + 1

AllowClosed ==
    /\ state_ = "CLOSED" /\ Granted
    /\ UNCHANGED <<config_, state_, consecutiveFailures_, halfOpenSuccessCount_,
                   halfOpenRequestCount_, openFor>>

\* Mutation for BreakerDecides: what the last half-open phase let through still counts.
AllowExpiredKeepingCount ==
    /\ state_ = "OPEN" /\ HasResetTimeoutExpired /\ Granted
    /\ state_' = "HALF_OPEN" /\ halfOpenSuccessCount_' = 0
    /\ UNCHANGED <<config_, consecutiveFailures_, halfOpenRequestCount_, openFor>>

\* The request that finds the time over is not counted.
AllowExpired ==
    /\ state_ = "OPEN" /\ HasResetTimeoutExpired /\ Granted
    /\ state_' = "HALF_OPEN" /\ halfOpenSuccessCount_' = 0 /\ halfOpenRequestCount_' = 0
    /\ UNCHANGED <<config_, consecutiveFailures_, openFor>>

AllowHalfOpen ==
    /\ state_ = "HALF_OPEN" /\ halfOpenRequestCount_ < config_.halfOpenMaxRequests /\ Granted
    /\ halfOpenRequestCount_' = halfOpenRequestCount_ + 1
    /\ UNCHANGED <<config_, state_, consecutiveFailures_, halfOpenSuccessCount_, openFor>>

-----------------------------------------------------------------------------
Answered == outstanding > 0 /\ outstanding' = outstanding - 1

RecordSuccess ==
    /\ Answered
    /\ consecutiveFailures_' = 0
    /\ IF state_ = "HALF_OPEN"
       THEN /\ halfOpenSuccessCount_' = halfOpenSuccessCount_ + 1
            /\ state_' = IF halfOpenSuccessCount_' >= config_.successThreshold
                         THEN "CLOSED" ELSE state_
       ELSE UNCHANGED <<halfOpenSuccessCount_, state_>>
    /\ UNCHANGED <<config_, halfOpenRequestCount_, openFor>>

\* Above the threshold the count makes no difference and is not followed.
RecordFailure ==
    /\ Answered
    /\ consecutiveFailures_' = IF consecutiveFailures_ < config_.failureThreshold
                               THEN consecutiveFailures_ + 1 ELSE consecutiveFailures_
    /\ IF \/ state_ = "HALF_OPEN"
          \/ state_ = "CLOSED" /\ consecutiveFailures_' >= config_.failureThreshold
       THEN state_' = "OPEN" /\ openFor' = 0       \* TripToOpen
       ELSE UNCHANGED <<state_, openFor>>
    /\ UNCHANGED <<config_, halfOpenSuccessCount_, halfOpenRequestCount_>>

BreakerReset ==
    /\ state_' = "CLOSED" /\ consecutiveFailures_' = 0
    /\ UNCHANGED <<config_, halfOpenSuccessCount_, halfOpenRequestCount_, openFor, outstanding>>

BreakerTick ==
    /\ state_ = "OPEN" /\ openFor' = (openFor + 1) % ClockValues
    /\ UNCHANGED <<config_, state_, consecutiveFailures_, halfOpenSuccessCount_,
                   halfOpenRequestCount_, outstanding>>

BreakerNext == \/ AllowClosed \/ AllowExpired \/ AllowHalfOpen
               \/ RecordSuccess \/ RecordFailure \/ BreakerReset \/ BreakerTick

\* Clients keep asking a breaker that is half open, and answer for what they were let do.
BreakerFairness == /\ WF_breakerVars(AllowHalfOpen)
                   /\ WF_breakerVars(RecordSuccess \/ RecordFailure)

BreakerSpec == BreakerInit /\ [][BreakerNext]_breakerVars /\ BreakerFairness

\* Half open it lets halfOpenMaxRequests through, and the request that made it half open.
\* Where more successes than these are asked for, it can use up what it lets through.
CanClose == config_.successThreshold <= config_.halfOpenMaxRequests + 1
UsedUp == halfOpenRequestCount_ >= config_.halfOpenMaxRequests /\ outstanding = 0

\* A breaker that tries out whether requests succeed again comes to a decision: it closes or
\* opens, as long as its clients go on and answer, and although answers for older requests
\* may come in between.  Only one that asks for more successes than it lets requests
\* through, as the default configuration does, may be left with nothing to decide on.
BreakerDecides == state_ = "HALF_OPEN" ~> state_ # "HALF_OPEN" \/ (~CanClose /\ UsedUp)

\* The same of every configuration: a circuit breaker that is half open after a failure
\* either lets requests through again, after successThreshold successes, or opens.
BreakerRecovers == state_ = "HALF_OPEN" ~> state_ # "HALF_OPEN"
=============================================================================
