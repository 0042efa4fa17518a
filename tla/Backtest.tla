------------------------------- MODULE Backtest -------------------------------
(***************************************************************************)
(* BacktestEngine and SimulatedExchange of ta-sim/src/lib.rs, as           *)
(* run_backtest of ta-bin/src/backtest.rs uses them: ticks are replayed    *)
(* into the books and the graph, and every opportunity that detection      *)
(* finds is simulated at once.                                             *)
(*                                                                         *)
(* The file is any sequence of ticks; a line that cannot be parsed ends    *)
(* the program before the replay.  The replay is shorter than max_data_age *)
(* of wall-clock time, which is what the detector looks at.  The amounts   *)
(* of LegFill are always zero, and starting_capital, which is positive,    *)
(* only scales a profit: a trade keeps its return as a fraction.  The      *)
(* average, largest and total profit of a result are only displayed and    *)
(* left out.                                                               *)
(***************************************************************************)
EXTENDS DetectionEngine, FillModel, FiniteSets

CONSTANTS
    Prices,
    Base, Quote,          \* BacktestConfig::symbols
    Ticks,                \* the ticks a file may hold
    Configs,              \* home, orderSize, slippage, feeBps, interval
    Divisor,              \* price_divisor
    Depth,                \* i64::MAX / 2, the size of a simulated level
    MaxTicks              \* bound on the length of the file

\* BacktestConfig, without what is read nowhere.
ConfigType ==
    [home : Currencies \cup {None}, orderSize : Nat, slippage : SlippageModels,
     feeBps : 0 .. BpsScale, interval : Nat]

\* A line of the file; None is a symbol that is not configured.
TickType == [symbol : Symbols \cup {None}, bid : Prices, ask : Prices]

ASSUME BacktestAssumption ==
    /\ IsFiniteSet(Symbols)
    /\ Prices \subseteq Int       \* a line is not looked at, only parsed
    /\ Log \in [Prices -> Int]
    /\ Base \in [Symbols -> Currencies] /\ Quote \in [Symbols -> Currencies]
    /\ \A s \in Symbols : Base[s] # Quote[s]
    /\ Ticks \subseteq TickType
    /\ BpsScale \in Nat \ {0}
    /\ Configs \subseteq ConfigType
    /\ Divisor \in Nat \ {0} /\ Depth \in Nat /\ MaxTicks \in Nat

VARIABLES
    config,
    at,           \* "replay", "detect", "simulate" or "done"
    position,     \* current_idx: the ticks replayed
    books,        \* per symbol the simulated book, or None
    trades,
    result        \* BacktestResult with the rows written, or None

replayVars == <<position, books>>
backtestVars == <<config, at, replayVars, trades, result>>
vars == <<backtestVars, graphState, detectionVars>>

\* The symbols come from a hash map, in any order.
Orders == {order \in [1 .. Cardinality(Symbols) -> Symbols] :
             \A i, j \in DOMAIN order : order[i] = order[j] => i = j}

\* BacktestEngine::new: base and quote of each symbol become nodes.
NodesOf(order) ==
    LET nodes[k \in 0 .. Len(order)] ==
          IF k = 0 THEN <<>>
          ELSE AddOnce(AddOnce(nodes[k - 1], Base[order[k]]), Quote[order[k]])
    IN  nodes[Len(order)]

Init ==
    /\ currencies \in {NodesOf(order) : order \in Orders}
    /\ neighbours = [c \in Currencies |-> <<>>]
    /\ weight = [p \in Pairs |-> None] /\ symbolMap = [p \in Pairs |-> None]
    /\ DetectionInit
    /\ config \in Configs
    /\ at = "replay" /\ position = 0
    /\ books = [s \in Symbols |-> None]
    /\ trades = <<>> /\ result = None

\* Mutant: the two prices of a tick are swapped.
WrongBookOf(tick) ==
    [bids |-> <<[price |-> tick.ask, size |-> Depth]>>,
     asks |-> <<[price |-> tick.bid, size |-> Depth]>>]

\* The book of a tick: one level on each side, large enough for any order.
BookOf(tick) ==
    [bids |-> <<[price |-> tick.bid, size |-> Depth]>>,
     asks |-> <<[price |-> tick.ask, size |-> Depth]>>]

\* is_multiple_of: with an interval of zero nothing is ever detected.
DetectNow == config.interval # 0 /\ position' % config.interval = 0

\* SimulatedExchange::advance, and the rates of a symbol that is configured.
Replay(tick) ==
    /\ at = "replay" /\ position < MaxTicks
    /\ position' = position + 1
    /\ IF tick.symbol \in Symbols
       THEN /\ books' = [books EXCEPT ![tick.symbol] = BookOf(tick)]
            /\ SetRate(Base[tick.symbol], Quote[tick.symbol], tick.bid, tick.ask)
            /\ SetSymbolFor(Base[tick.symbol], Quote[tick.symbol], tick.symbol)
            /\ age' = 0
       ELSE UNCHANGED <<books, graphState, age>>
    /\ at' = IF DetectNow THEN "detect" ELSE "replay"
    /\ UNCHANGED <<config, trades, result, searchVars, opportunities>>

Advance == \E tick \in Ticks : Replay(tick)

Detect ==
    /\ at = "detect"
    /\ BeginDetect \/ DetectStep
    /\ UNCHANGED <<backtestVars, graphState>>

Detected ==
    /\ at = "detect"
    /\ EndDetect
    /\ at' = IF opportunities = <<>> THEN "replay" ELSE "simulate"
    /\ UNCHANGED <<config, replayVars, trades, result, graphState>>

\* Mutant: every leg spends its base currency.
WrongInputOf(leg) == Base[leg.symbol]

InputOf(leg) == IF leg.side = "Buy" THEN Quote[leg.symbol] ELSE Base[leg.symbol]

OutputOf(leg) == IF leg.side = "Buy" THEN Base[leg.symbol] ELSE Quote[leg.symbol]

\* normalize_routes: the route from the first leg that spends the home currency
\* round to the one before it.
Normalized(legs) ==
    LET start == CHOOSE i \in 1 .. 3 :
                    InputOf(legs[i]) = config.home
                    /\ \A j \in 1 .. i - 1 : InputOf(legs[j]) # config.home
    IN  [i \in 1 .. 3 |-> legs[((start + i - 2) % 3) + 1]]

\* Some leg spends the home currency, and the leg before it earns it.
ReturnsHome(legs) ==
    /\ \E i \in 1 .. 3 : InputOf(legs[i]) = config.home
    /\ OutputOf(Normalized(legs)[3]) = config.home

\* Mutant: a leg is filled against the orders of its own side.
WrongLegFill(leg) ==
    [symbol |-> leg.symbol, side |-> leg.side, input |-> InputOf(leg), output |-> OutputOf(leg),
     fill |-> FillOrder(IF leg.side = "Buy" THEN "Sell" ELSE "Buy", config.orderSize,
                        books[leg.symbol], config.slippage, config.feeBps)]

LegFill(leg) ==
    [symbol |-> leg.symbol, side |-> leg.side, input |-> InputOf(leg), output |-> OutputOf(leg),
     fill |-> FillOrder(leg.side, config.orderSize, books[leg.symbol], config.slippage,
                        config.feeBps)]

\* What one unit of the input currency becomes, after the fee: a numerator and a
\* denominator, which is zero for a purchase at a price of zero and never negative.
LegReturn(leg) ==
    LET kept == BpsScale - config.feeBps
        price == leg.fill.avgPrice
        sign == IF price < 0 THEN -1 ELSE 1
    IN  IF leg.side = "Buy"
        THEN [num |-> sign * (Divisor * kept), den |-> (sign * price) * BpsScale]
        ELSE [num |-> price * kept, den |-> Divisor * BpsScale]

\* The trade that simulate_trade makes of filled legs.
TradeOf(legs) ==
    [legs |-> legs,
     num |-> LegReturn(legs[1]).num * LegReturn(legs[2]).num * LegReturn(legs[3]).num,
     den |-> LegReturn(legs[1]).den * LegReturn(legs[2]).den * LegReturn(legs[3]).den]

Profitable(trade) == trade.num > trade.den

\* Infinity times zero: not a number, and neither above zero nor not.
Undefined(trade) == trade.num = 0 /\ trade.den = 0

Unprofitable(trade) == ~Profitable(trade) /\ ~Undefined(trade)

\* simulate_trade: no trade for a route that does not come home, a symbol without
\* a book, or a leg that is not filled at all.
SimulateTrade(opp) ==
    LET route == Normalized(opp.legs)
        legs == [i \in 1 .. 3 |-> LegFill(route[i])]
    IN  IF /\ ReturnsHome(opp.legs)
           /\ \A i \in 1 .. 3 : books[route[i].symbol] # None
           /\ \A i \in 1 .. 3 : legs[i].fill.totalQty # 0
        THEN <<TradeOf(legs)>> ELSE <<>>

NextOpportunity ==
    /\ opportunities' = Tail(opportunities)
    /\ at' = IF opportunities' = <<>> THEN "replay" ELSE "simulate"
    /\ UNCHANGED <<config, replayVars, result, graphState, searchVars, age>>

\* An opportunity that only pays its fees is passed over.
PassOver ==
    /\ at = "simulate"
    /\ Head(opportunities).expected # None /\ Head(opportunities).expected <= 0
    /\ NextOpportunity
    /\ UNCHANGED trades

Simulate ==
    /\ at = "simulate"
    /\ Head(opportunities).expected # None => Head(opportunities).expected > 0
    /\ trades' = trades \o SimulateTrade(Head(opportunities))
    /\ NextOpportunity

\* BacktestJsonRow::from_trade: the expected profit of a row is the realised one.
Row(trade) ==
    [symbols |-> [i \in 1 .. 3 |-> trade.legs[i].symbol],
     prices |-> [i \in 1 .. 3 |-> trade.legs[i].fill.avgPrice],
     profit |-> <<trade.num, trade.den>>, expected |-> <<trade.num, trade.den>>]

Fees(trade) == trade.legs[1].fill.feePaid + trade.legs[2].fill.feePaid + trade.legs[3].fill.feePaid

\* write_jsonl.
Rows == [k \in 1 .. Len(trades) |-> Row(trades[k])]

\* The end of the file: the totals of run() and the rows written.
Finish ==
    /\ at = "replay"
    /\ at' = "done"
    /\ result' =
         LET wins == {k \in 1 .. Len(trades) : Profitable(trades[k])}
             losses == {k \in 1 .. Len(trades) : Unprofitable(trades[k])}
         IN  [ticks |-> position, found |-> Len(trades), executed |-> Len(trades),
              profitable |-> Cardinality(wins), unprofitable |-> Cardinality(losses),
              fees |-> SumTo([k \in 1 .. Len(trades) |-> Fees(trades[k])], Len(trades)),
              rows |-> Rows]
    /\ UNCHANGED <<config, replayVars, trades, graphState, detectionVars>>

Next == Advance \/ Detect \/ Detected \/ PassOver \/ Simulate \/ Finish

Spec == Init /\ [][Next]_vars
-------------------------------------------------------------------------------
FillResults == [fills : Seq([price : Prices, qty : Nat]), avgPrice : Int, totalQty : Nat,
                slipped : Int, feePaid : Int]

LegFills == [symbol : Symbols, side : {"Buy", "Sell"}, input : Currencies, output : Currencies,
             fill : FillResults]

Trades == [legs : [1 .. 3 -> LegFills], num : Int, den : Nat]

BacktestTypeOK ==
    /\ GraphTypeOK
    /\ DetectionTypeOK
    /\ config \in Configs
    /\ at \in {"replay", "detect", "simulate", "done"}
    /\ at # "detect" => search = "idle"
    /\ at \in {"replay", "done"} => opportunities = <<>>
    /\ at = "simulate" => opportunities # <<>>
    /\ position \in 0 .. MaxTicks
    /\ trades \in Seq(Trades)
    /\ at # "done" => result = None
    /\ at = "done" =>
         /\ result.profitable + result.unprofitable
              + Cardinality({k \in 1 .. Len(trades) : Undefined(trades[k])}) = result.executed
         /\ result.fees \in Int

Chained(legs) ==
    /\ \A i \in 1 .. 2 : legs[i].output = legs[i + 1].input
    /\ legs[1].input = config.home /\ legs[3].output = config.home

Traded == Len(trades') > Len(trades)

Last == trades'[Len(trades')]

\* A trade spends the home currency, each leg spends what the one before it
\* earned, and the last earns the home currency, unless a pair is crossed: the
\* check after the rotation looks at the two ends only, and an open route that
\* detection makes of a crossed pair passes it.
TradeIsACycle == [][Traded => Chained(Last.legs) \/ Crossed]_vars

\* What a leg gains in logarithms at the price it was filled at.
LegGain(leg) == IF leg.side = "Sell" THEN Log[leg.fill.avgPrice] ELSE -Log[leg.fill.avgPrice]

\* No two symbols trade the same two currencies: they would share the edges of the graph,
\* but not the book.
OnePairEach ==
    \A s, t \in Symbols : {Base[s], Quote[s]} = {Base[t], Quote[t]} => s = t

\* Without fixed slippage a cycle is simulated at the prices it was detected with: at
\* those it gains what detection promised at least, and the fees detection took
\* off.  A tick with a price of zero or less moves the book and leaves the edge
\* as it was, so it may be traded at another price.  The fees of the simulated
\* fills are another matter: they multiply where those of detection add up, and
\* may turn the promise into a loss.
TradeKeepsPromise ==
    [][/\ Traded /\ Chained(Last.legs)
       /\ OnePairEach
       /\ config.slippage.kind # "Fixed"
       /\ \A i \in 1 .. 3 : Last.legs[i].fill.avgPrice > 0
       => /\ Head(opportunities).expected # None
          /\ LegGain(Last.legs[1]) + LegGain(Last.legs[2]) + LegGain(Last.legs[3])
               >= Head(opportunities).expected + FeeThreshold]_vars

\* Every leg of a trade was filled with the units of its book, at their price moved by
\* the slippage of the configuration, and paid the fee of that.
FillsAreWalks ==
    [][Traded => \A i \in 1 .. 3 :
         LET leg == Last.legs[i]
         IN  IsWalk(leg.fill, leg.side, config.orderSize, books[leg.symbol], config.slippage,
                    config.feeBps)]_vars
===============================================================================
