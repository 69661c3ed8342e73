--------------------------- MODULE CircuitBreaker ---------------------------
(***************************************************************************)
(* pkg/stellar/circuitbreaker.go: the breaker every Horizon request of the *)
(* API server goes through.  Requests run concurrently, the mutex is held  *)
(* only in beforeRequest and in afterRequest, and afterRequest does not    *)
(* know in which state its request was admitted: a request that was        *)
(* admitted in one state reports in whatever state it finds.  Requests in  *)
(* flight are therefore indistinguishable, and are a count.                *)
(***************************************************************************)
EXTENDS Integers

CONSTANTS FailureThreshold, SuccessThreshold, HalfOpenMaxReqs, MaxInFlight

ASSUME BreakerConfig ==
    /\ FailureThreshold \in Nat \ {0}
    /\ SuccessThreshold \in Nat \ {0}
    /\ HalfOpenMaxReqs \in Nat
    /\ MaxInFlight \in Nat

(* Enough requests are admitted to close the breaker.  NewCircuitBreaker   *)
(* does not check it; DefaultCircuitBreakerConfig (5, 2, 3) satisfies it.  *)
TrialCanClose == SuccessThreshold <= HalfOpenMaxReqs + 1

VARIABLES cbState, failures, successes, halfOpenReqs,
          timedOut,  \* time.Since(lastStateChange) > OpenTimeout
          inFlight   \* requests between beforeRequest and afterRequest
cbVars == <<cbState, failures, successes, halfOpenReqs, timedOut, inFlight>>

(* NewCircuitBreaker: lastStateChange is the zero time, long ago. *)
NewCircuitBreaker ==
    /\ cbState = "closed"
    /\ failures = 0 /\ successes = 0 /\ halfOpenReqs = 0
    /\ timedOut = TRUE
    /\ inFlight = 0

(* Mutated form: a new trial period keeps the count of the last one. *)
transitionToKeeping(state) ==
    /\ cbState' = state
    /\ timedOut' = FALSE
    /\ failures' = IF state = "closed" THEN 0 ELSE failures
    /\ successes' = IF state = "half-open" THEN 0 ELSE successes
    /\ UNCHANGED halfOpenReqs

(* The successes of the last trial stay until the next one begins. *)
transitionTo(state) ==
    /\ cbState' = state
    /\ timedOut' = FALSE
    /\ failures' = IF state = "closed" THEN 0 ELSE failures
    /\ successes' = IF state = "half-open" THEN 0 ELSE successes
    /\ halfOpenReqs' = IF state = "half-open" THEN 0 ELSE halfOpenReqs

(* The request that ends the open period is admitted and not counted. *)
beforeRequest ==
    /\ inFlight < MaxInFlight
    /\ inFlight' = inFlight + 1
    /\ \/ /\ cbState = "closed"
          /\ UNCHANGED <<cbState, failures, successes, halfOpenReqs, timedOut>>
       \/ /\ cbState = "open" /\ timedOut
          /\ transitionTo("half-open")
       \/ /\ cbState = "half-open" /\ halfOpenReqs < HalfOpenMaxReqs
          /\ halfOpenReqs' = halfOpenReqs + 1
          /\ UNCHANGED <<cbState, failures, successes, timedOut>>

reportFailure ==
    \/ /\ cbState = "closed" /\ failures + 1 >= FailureThreshold
       /\ cbState' = "open" /\ timedOut' = FALSE
       /\ failures' = failures + 1
       /\ UNCHANGED <<successes, halfOpenReqs>>
    \/ /\ cbState = "closed" /\ failures + 1 < FailureThreshold
       /\ failures' = failures + 1
       /\ UNCHANGED <<cbState, successes, halfOpenReqs, timedOut>>
    \/ /\ cbState = "half-open"
       /\ transitionTo("open")
    \/ /\ cbState = "open"
       /\ UNCHANGED <<cbState, failures, successes, halfOpenReqs, timedOut>>

reportSuccess ==
    \/ /\ cbState = "closed"
       /\ failures' = 0
       /\ UNCHANGED <<cbState, successes, halfOpenReqs, timedOut>>
    \/ /\ cbState = "half-open" /\ successes + 1 < SuccessThreshold
       /\ successes' = successes + 1
       /\ UNCHANGED <<cbState, failures, halfOpenReqs, timedOut>>
    \/ /\ cbState = "half-open" /\ successes + 1 >= SuccessThreshold
       /\ cbState' = "closed" /\ timedOut' = FALSE /\ failures' = 0
       /\ successes' = successes + 1
       /\ UNCHANGED halfOpenReqs
    \/ /\ cbState = "open"
       /\ UNCHANGED <<cbState, failures, successes, halfOpenReqs, timedOut>>

afterRequest ==
    /\ inFlight > 0
    /\ inFlight' = inFlight - 1
    /\ reportFailure \/ reportSuccess

(* Reset leaves lastStateChange alone; requests in flight go on. *)
ResetBreaker ==
    /\ cbState' = "closed"
    /\ failures' = 0 /\ successes' = 0 /\ halfOpenReqs' = 0
    /\ UNCHANGED <<timedOut, inFlight>>

(* OpenTimeout passes. *)
OpenTimeoutPasses ==
    /\ ~timedOut
    /\ timedOut' = TRUE
    /\ UNCHANGED <<cbState, failures, successes, halfOpenReqs, inFlight>>

BreakerInit == NewCircuitBreaker
BreakerNext == beforeRequest \/ afterRequest \/ ResetBreaker \/ OpenTimeoutPasses
BreakerSpec == BreakerInit /\ [][BreakerNext]_cbVars

(***************************************************************************)
(* Properties.                                                             *)
(***************************************************************************)
(* The counters keep their ranges: a closed breaker has seen fewer than    *)
(* FailureThreshold failures in a row, and a trial has admitted at most    *)
(* HalfOpenMaxReqs counted requests.                                       *)
BreakerTypeOK ==
    /\ cbState \in {"closed", "open", "half-open"}
    /\ failures \in 0 .. FailureThreshold
    /\ successes \in 0 .. SuccessThreshold
    /\ halfOpenReqs \in 0 .. HalfOpenMaxReqs
    /\ timedOut \in BOOLEAN
    /\ inFlight \in 0 .. MaxInFlight
    /\ cbState = "closed" => failures < FailureThreshold
    /\ cbState = "half-open" => successes < SuccessThreshold

(* Every request a trial admitted has either not reported or has been      *)
(* counted as a success, whatever earlier requests reported meanwhile.     *)
TrialAccounted ==
    cbState = "half-open" => inFlight + successes >= halfOpenReqs + 1

(* A half-open breaker that turns requests away (beforeRequest, at most    *)
(* HalfOpenMaxReqs) is waiting for a request that will still report: no    *)
(* order of late reports and resets leaves it shut with nothing in flight, *)
(* which nothing but Reset could then undo.  True of configurations with   *)
(* TrialCanClose: in others a trial's successes cannot close the breaker.  *)
NeverStuckHalfOpen ==
    (cbState = "half-open" /\ halfOpenReqs >= HalfOpenMaxReqs) => inFlight > 0
=============================================================================
