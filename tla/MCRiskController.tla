--------------------------- MODULE MCRiskController ---------------------------
(***************************************************************************)
(* RiskController under a client that records leg outcomes in any order,   *)
(* with the history of every outcome it recorded.                          *)
(***************************************************************************)
EXTENDS RiskController, Sequences

CONSTANTS
    Sizes,      \* sizes of the client's trades
    MaxTime,    \* bound on the clock
    MaxCalls    \* bound on the recorded outcomes

\* With a limit of zero there would be a run of failures without a failure.
ASSUME ClientAssumption ==
    /\ Sizes \subseteq Nat
    /\ MaxTime \in Nat /\ MaxCalls \in Nat
    /\ MaxConsecutiveFailures > 0

VARIABLE outcomes    \* every recorded outcome, in order: [ok |-> , at |-> ]

mcVars == <<now, riskState, outcomes>>

Record(ok) == outcomes' = Append(outcomes, [ok |-> ok, at |-> now])

MCInit ==
    /\ now = 0
    /\ RiskInit
    /\ outcomes = <<>>

Success ==
    /\ Len(outcomes) < MaxCalls
    /\ \E size \in Sizes, sym \in Symbols : RecordSuccess(size, sym)
    /\ Record(TRUE)
    /\ UNCHANGED now

Failure ==
    /\ Len(outcomes) < MaxCalls
    /\ RecordFailure
    /\ Record(FALSE)
    /\ UNCHANGED now

Tick ==
    /\ now < MaxTime
    /\ now' = now + 1
    /\ UNCHANGED <<riskState, outcomes>>

MCNext == Success \/ Failure \/ Tick

MCSpec == MCInit /\ [][MCNext]_mcVars

\* When the last MaxConsecutiveFailures recorded outcomes are all failures,
\* check() refuses until Cooldown has passed since the last of them, whether
\* or not the breaker had tripped and recovered before (record_failure keeps
\* counting).
FailureRunBlocks ==
    LET n == Len(outcomes)
    IN  (/\ n >= MaxConsecutiveFailures
         /\ \A i \in n - MaxConsecutiveFailures + 1 .. n : ~outcomes[i].ok
         /\ now < outcomes[n].at + Cooldown) => ~Admits

\* Dropping old timestamps in gc() never changes what check() counts: the
\* window holds exactly the successes of the last TradeWindow.
WindowCountsAllTrades ==
    Cardinality(Recent) =
        Cardinality({i \in DOMAIN outcomes :
                        outcomes[i].ok /\ outcomes[i].at > now - TradeWindow})

\* A success resets the failure count but leaves a tripped breaker open: it
\* closes only when the clock reaches its deadline.
BreakerClosesByClock ==
    [][BreakerOpen => (now' < breakerUntil' \/ now' > now)]_mcVars
===============================================================================
