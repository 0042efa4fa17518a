----------------------------- MODULE MCExecBreaker ----------------------------
(***************************************************************************)
(* MCExecEngine with a history of the calls that failed in a row.          *)
(***************************************************************************)
EXTENDS MCExecEngine

VARIABLES
    failedCalls,     \* calls in a row in which a leg failed
    lastFailure      \* instant of the last failed leg, or -1

breakerVars == <<mcVars, failedCalls, lastFailure>>

LegFails == pc = "outcome" /\ \E i \in Legs : status'[i] = "Failed"

BreakerInit == MCInit /\ failedCalls = 0 /\ lastFailure = -1

BreakerNext ==
    /\ MCNext
    /\ failedCalls' = IF LegFails THEN failedCalls + 1
                      ELSE IF pc' = "idle" /\ result' = "Filled" THEN 0
                      ELSE failedCalls
    /\ lastFailure' = IF LegFails THEN now ELSE lastFailure

BreakerSpec == BreakerInit /\ [][BreakerNext]_breakerVars

\* README: the circuit breaker "trips after 5 consecutive execution failures".
\* A leg that fills before the failing one resets the count.
BreakerTripsOnFailedCalls ==
    (failedCalls >= MaxConsecutiveFailures /\ now < lastFailure + Cooldown)
        => Risk!BreakerOpen
===============================================================================
