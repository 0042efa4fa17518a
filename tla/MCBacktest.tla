------------------------------ MODULE MCBacktest ------------------------------
(***************************************************************************)
(* Three currencies and the pairs between them, with a configuration for   *)
(* each kind of slippage, one whose home currency is never traded, one     *)
(* without an order size, one that never detects and one that detects at   *)
(* every second tick.                                                      *)
(*                                                                         *)
(* Prices and the divisor are powers of two, so that a logarithm is a      *)
(* whole number of ln 2.  The detector's fee is one of them, 0.6931 of the *)
(* amount; the simulated fee is nine of BpsScale = 13, which is 0.6923,    *)
(* so the two are as good as equal, and still a cycle that detection       *)
(* offers may lose: three times a factor of 4/13 takes more than 2^5.      *)
(***************************************************************************)
EXTENDS Backtest

MCCurrencies == {"BTC", "ETH", "USDT"}
MCSymbols == {"BTCUSDT", "ETHUSDT", "ETHBTC"}
MCBase == [s \in MCSymbols |-> IF s = "BTCUSDT" THEN "BTC" ELSE "ETH"]
MCQuote == [s \in MCSymbols |-> IF s = "ETHBTC" THEN "BTC" ELSE "USDT"]
MCPrices == {-1, 0, 1, 8, 16}
\* The logarithm of a price divided by the divisor, which is two; that of a price that
\* has none is never read.
MCLog == [p \in Prices |-> CASE p = 1 -> -1 [] p = 8 -> 2 [] p = 16 -> 3 [] OTHER -> 0]

Tick(symbol, bid, ask) == [symbol |-> symbol, bid |-> bid, ask |-> ask]

MCTicks ==
    {Tick("BTCUSDT", 1, 1), Tick("BTCUSDT", 1, 16), Tick("BTCUSDT", 16, 1),
     Tick("ETHUSDT", 16, 16), Tick("ETHUSDT", 8, 16), Tick("ETHUSDT", 0, 0),
     Tick("ETHBTC", 1, 1), Tick("ETHBTC", 1, 16), Tick("ETHBTC", -1, -1),
     Tick(None, 1, 1)}

Config(home, orderSize, kind, feeBps, interval) ==
    [home |-> home, orderSize |-> orderSize, slippage |-> [kind |-> kind, bps |-> 3],
     feeBps |-> feeBps, interval |-> interval]

MCConfigs ==
    {Config("USDT", 3, "Walk", 9, 1), Config("ETH", 3, "None", 0, 2), Config("USDT", 25, "Fixed", 2, 1),
     Config("BTC", 3, "None", BpsScale, 1), Config("USDT", 0, "Walk", 9, 1),
     Config(None, 3, "Walk", 9, 1), Config("USDT", 3, "Walk", 9, 0)}

\* Books for the fills: up to three levels, the best one first.
Side(prices, sizes, n) == [k \in 1 .. n |-> [price |-> prices[k], size |-> sizes[k]]]

SampleBooks ==
    {[bids |-> Side(<<9, 4, -7>>, sizes, n), asks |-> Side(<<10, 11, 15>>, sizes, n)] :
        sizes \in [1 .. 3 -> {0, 1, 3}], n \in 0 .. 3}

SampleModels == [kind : {"None", "Walk", "Fixed"}, bps : {3, 17}]

\* A test of the fills on books of several levels, which the replay never makes: those
\* of execute() are the reference's, for orders that leave the book a part of its
\* liquidity, all of it or nothing, and levels that are empty.
ASSUME SamplesAreWalks ==
    \A side \in {"Buy", "Sell"}, book \in SampleBooks, size \in {0, 1, 2, 4, 7, 10},
       slippage \in SampleModels, feeBps \in {0, 2} :
        FillIsWalk(side, size, book, slippage, feeBps)
===============================================================================
