---------------------------- MODULE RiskController ----------------------------
(***************************************************************************)
(* The RiskController of ta-exec/src/risk.rs: a circuit breaker over       *)
(* consecutive leg failures, a cap on the trades of a rolling window, and  *)
(* an accumulated notional per symbol.                                     *)
(*                                                                         *)
(* trade_timestamps is only ever filtered and counted, so the vector is a  *)
(* set of numbered trades.  The code's several readings of the clock       *)
(* within one call are one reading here.                                   *)
(***************************************************************************)
EXTENDS Integers, FiniteSets

CONSTANTS
    Symbols,
    MaxConsecutiveFailures,   \* RiskConfig::max_consecutive_failures
    Cooldown,                 \* RiskConfig::circuit_breaker_cooldown
    MaxTrades,                \* RiskConfig::max_trades_per_window
    TradeWindow,              \* RiskConfig::trade_window
    MaxNotional               \* RiskConfig::max_notional_per_symbol

ASSUME RiskAssumption ==
    /\ MaxConsecutiveFailures \in Nat
    /\ Cooldown \in Nat
    /\ MaxTrades \in Nat
    /\ TradeWindow \in Nat
    /\ MaxNotional \in Nat

VARIABLES
    now,
    consecutiveFailures,
    breakerUntil,     \* circuit_breaker_until, or NotTripped
    trades,           \* trade_timestamps: a set of [no |-> , at |-> ]
    tradeNo,          \* number of the next trade (tells equal instants apart)
    notional          \* symbol_notional, 0 for a symbol without an entry

riskState == <<consecutiveFailures, breakerUntil, trades, tradeNo, notional>>

NotTripped == -1
NoNotional == [s \in Symbols |-> 0]

\* Mutant: the window includes its cutoff.
WrongWithin(ts, t) == {tr \in ts : tr.at >= t - TradeWindow}

Within(ts, t) == {tr \in ts : tr.at > t - TradeWindow}
Recent == Within(trades, now)

RiskInit ==
    /\ consecutiveFailures = 0
    /\ breakerUntil = NotTripped
    /\ trades = {}
    /\ tradeNo = 0
    /\ notional = NoNotional

\* The controller of a process that starts again.
RiskReset ==
    /\ consecutiveFailures' = 0
    /\ breakerUntil' = NotTripped
    /\ trades' = {}
    /\ tradeNo' = 0
    /\ notional' = NoNotional

\* check(): the breaker first, then the cap.
BreakerOpen == now < breakerUntil

\* Mutant: the trade that reaches the cap is still admitted.
WrongCapReached == Cardinality(Recent) > MaxTrades
CapReached == Cardinality(Recent) >= MaxTrades
Admits == ~BreakerOpen /\ ~CapReached

\* Mutant: the size of the new trade is left out.
WrongNotionalAllows(sym, size) == notional[sym] <= MaxNotional

\* check_symbol_notional(symbol, additional)
NotionalAllows(sym, size) == notional[sym] + size <= MaxNotional

\* Mutant: the time stamped on a trade is when it leaves the window.
WrongTradeTime(size, sym) ==
    /\ consecutiveFailures' = 0
    /\ tradeNo' = tradeNo + 1
    /\ trades' = trades \cup {[no |-> tradeNo, at |-> now + TradeWindow]}
    /\ notional' = [notional EXCEPT ![sym] = @ + size]
    /\ UNCHANGED breakerUntil

\* Mutant: a success also closes the breaker.
WrongBreakerReset(size, sym) ==
    /\ consecutiveFailures' = 0
    /\ breakerUntil' = NotTripped
    /\ tradeNo' = tradeNo + 1
    /\ trades' = Within(trades \cup {[no |-> tradeNo, at |-> now]}, now)
    /\ notional' = [notional EXCEPT ![sym] = @ + size]

\* Mutant: the notionals are cleared as soon as the cap is passed.
WrongNotionalGc(size, sym) ==
    LET kept == Within(trades \cup {[no |-> tradeNo, at |-> now]}, now)
    IN  /\ consecutiveFailures' = 0
        /\ tradeNo' = tradeNo + 1
        /\ trades' = kept
        /\ notional' = IF Cardinality(kept) > MaxTrades
                       THEN NoNotional
                       ELSE [notional EXCEPT ![sym] = @ + size]
        /\ UNCHANGED breakerUntil

\* record_success: resets the failures, pushes the trade, adds the notional,
\* then gc(): drop the trades outside the window, clear every notional when
\* more than twice the cap remain.
RecordSuccess(size, sym) ==
    LET kept == Within(trades \cup {[no |-> tradeNo, at |-> now]}, now)
    IN  /\ consecutiveFailures' = 0
        /\ tradeNo' = tradeNo + 1
        /\ trades' = kept
        /\ notional' = IF Cardinality(kept) > 2 * MaxTrades
                       THEN NoNotional
                       ELSE [notional EXCEPT ![sym] = @ + size]
        /\ UNCHANGED breakerUntil

\* Mutant: only the failure that reaches the limit trips the breaker.
WrongRecordFailure ==
    /\ consecutiveFailures' = consecutiveFailures + 1
    /\ breakerUntil' = IF consecutiveFailures + 1 = MaxConsecutiveFailures
                       THEN now + Cooldown
                       ELSE breakerUntil
    /\ UNCHANGED <<trades, tradeNo, notional>>

\* record_failure: the count is not reset when the breaker trips.
RecordFailure ==
    /\ consecutiveFailures' = consecutiveFailures + 1
    /\ breakerUntil' = IF consecutiveFailures + 1 >= MaxConsecutiveFailures
                       THEN now + Cooldown
                       ELSE breakerUntil
    /\ UNCHANGED <<trades, tradeNo, notional>>

RiskTypeOK ==
    /\ consecutiveFailures \in Nat
    /\ breakerUntil \in Nat \cup {NotTripped}
    /\ trades \subseteq [no : Nat, at : Nat]
    /\ IsFiniteSet(trades)
    /\ tradeNo \in Nat
    /\ \A tr \in trades : tr.no < tradeNo /\ tr.at <= now
    /\ notional \in [Symbols -> Nat]
===============================================================================
