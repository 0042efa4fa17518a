----------------------------- MODULE MCFeedEngine -----------------------------
(***************************************************************************)
(* A small feed of two symbols that share a currency.  One has two levels  *)
(* of bids at prices that move and an ask that comes and goes; the other   *)
(* appears with both sides and may lose its ask.                           *)
(***************************************************************************)
EXTENDS FeedEngine

MCSymbols == {"BTCUSDT", "ETHUSDT"}
MCCurrencies == {"BTC", "ETH", "USDT"}
MCBase == [s \in MCSymbols |-> IF s = "BTCUSDT" THEN "BTC" ELSE "ETH"]
MCQuote == [s \in MCSymbols |-> "USDT"]
MCLog == [p \in Prices |-> p - 1]

Update(sym, side, level, action, price) ==
    [kind |-> "book", symbol |-> sym, side |-> side, level |-> level,
     action |-> action, price |-> price]

Moving ==
    {Update("BTCUSDT", "Bid", level, "Upsert", price) :
        level \in Levels, price \in Prices}
    \cup {Update("BTCUSDT", "Bid", level, "Delete", 1) : level \in Levels}
    \cup {Update("BTCUSDT", "Ask", 1, action, 2) : action \in {"Upsert", "Delete"}}

Both(sym) == <<Update(sym, "Bid", 0, "Upsert", 1), Update(sym, "Ask", 0, "Upsert", 1)>>

\* No event, one event, or the two sides of a new book at once.
MCBatches ==
    {<<>>, Both("ETHUSDT"), <<Update("ETHUSDT", "Ask", 0, "Delete", 1)>>,
     <<[kind |-> "trade", symbol |-> "BTCUSDT"]>>}
    \cup {<<e>> : e \in Moving}
-------------------------------------------------------------------------------
VARIABLES
    downFor,         \* how long the link has been down since it last went down
    sinceSchedule    \* how long ago the last reconnection was scheduled, or None

mcVars == <<vars, downFor, sinceSchedule>>

Later(t, bound) == IF t \in {None, bound} THEN t ELSE t + 1

Schedules == reconnectIn' # None /\ (PollFails \/ ReconnectFails \/ Connect)

MCInit == Init /\ downFor = 0 /\ sinceSchedule = None

MCNext ==
    /\ Next
    /\ downFor' = IF link' = "up" \/ link = "up" THEN 0
                  ELSE IF Tick THEN Later(downFor, MessageTimeout + 1) ELSE downFor
    /\ sinceSchedule' = IF Schedules THEN 0
                        ELSE IF reconnectIn' = None THEN None
                        ELSE IF Tick THEN Later(sinceSchedule, ReconnectMax + 1)
                        ELSE sinceSchedule

MCSpec == MCInit /\ [][MCNext]_mcVars

MCFairSpec == MCSpec /\ FeedFairness

\* A connection is retried no sooner than the backoff of the attempts made so
\* far, and the backoff doubles up to its maximum.
Expected == LET d == ReconnectBase * 2 ^ attempt
            IN  IF d < ReconnectMax THEN d ELSE ReconnectMax

BackoffRespected ==
    [][(ReconnectOk \/ ReconnectFails) =>
         sinceSchedule # None /\ sinceSchedule >= Expected]_mcVars

\* health() reports a dead link once it has been dead for longer than the message
\* timeout, even when nobody has polled it since.
DeadLinkReported == (link = "down" /\ downFor > MessageTimeout) => Degraded

\* README: "On reconnect, all previously subscribed symbols are re-subscribed."
\* A refusal is ignored, and the symbol stays silent until the link drops again.
ResubscribedAfterReconnect ==
    (connected /\ link = "up") => subscribed \subseteq streams
===============================================================================
