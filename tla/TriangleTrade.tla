----------------------------- MODULE TriangleTrade ----------------------------
(***************************************************************************)
(* What ta-exec promises of the three legs of one opportunity: they are    *)
(* traded one at a time and in order, nothing is traded after a leg that   *)
(* failed, and a call ends only when all three legs are filled or when an  *)
(* unwinding order has been sent for every leg that was.  A crash may cut  *)
(* a trade short.                                                          *)
(***************************************************************************)
EXTENDS Integers

CONSTANT Legs

VARIABLES
    stage,     \* "ready", "trading", "unwinding" or "cut"
    legState   \* per leg: "pending", "filled", "failed" or "unwound"

tradeVars == <<stage, legState>>

Untraded == [i \in Legs |-> "pending"]

Init == stage = "ready" /\ legState = Untraded

Begin ==
    /\ stage = "ready"
    /\ stage' = "trading"
    /\ UNCHANGED legState

\* Leg i is the next to trade.
IsNext(i) ==
    /\ stage = "trading"
    /\ legState[i] = "pending"
    /\ \A j \in Legs : j < i => legState[j] = "filled"

FillLeg(i) ==
    /\ IsNext(i)
    /\ legState' = [legState EXCEPT ![i] = "filled"]
    /\ UNCHANGED stage

FailLeg(i) ==
    /\ IsNext(i)
    /\ legState' = [legState EXCEPT ![i] = "failed"]
    /\ stage' = "unwinding"

Unwind(i) ==
    /\ stage = "unwinding"
    /\ legState[i] = "filled"
    /\ \A j \in Legs : j < i => legState[j] # "filled"
    /\ legState' = [legState EXCEPT ![i] = "unwound"]
    /\ UNCHANGED stage

End ==
    /\ \/ stage = "trading" /\ \A i \in Legs : legState[i] = "filled"
       \/ stage = "unwinding" /\ \A i \in Legs : legState[i] # "filled"
    /\ stage' = "ready"
    /\ legState' = Untraded

\* A trade that is cut short is never resumed.
CutShort ==
    /\ stage # "cut"
    /\ stage' = "cut"
    /\ legState' = Untraded

Recover ==
    /\ stage = "cut"
    /\ stage' = "ready"
    /\ UNCHANGED legState

Next ==
    \/ Begin
    \/ \E i \in Legs : FillLeg(i) \/ FailLeg(i) \/ Unwind(i)
    \/ End
    \/ CutShort
    \/ Recover

TradeSpec == Init /\ [][Next]_tradeVars
===============================================================================
