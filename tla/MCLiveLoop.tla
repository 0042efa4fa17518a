------------------------------ MODULE MCLiveLoop ------------------------------
(***************************************************************************)
(* Four currencies and five pairs.  One book has prices that move, may     *)
(* cross and lose either side; two have both sides and two pairs of        *)
(* prices; the last two never change.                                      *)
(***************************************************************************)
EXTENDS LiveLoop

MCCurrencies == {"BTC", "ETH", "USDT", "BNB"}
MCSymbols == {"BTCUSDT", "ETHUSDT", "ETHBTC", "BNBUSDT", "BNBETH"}
MCBase == [s \in MCSymbols |->
             CASE s = "BTCUSDT" -> "BTC" [] s \in {"ETHUSDT", "ETHBTC"} -> "ETH" [] OTHER -> "BNB"]
MCQuote == [s \in MCSymbols |->
             CASE s = "ETHBTC" -> "BTC" [] s = "BNBETH" -> "ETH" [] OTHER -> "USDT"]
MCLog == [p \in Prices |-> CASE p = 1 -> 0 [] p = 2 -> 4 [] OTHER -> 7]
MCMoves ==
    [s \in MCSymbols |->
        CASE s = "BTCUSDT" -> {1, 2, None} \X {1, 2, None}
          [] s = "ETHUSDT" -> {<<2, 2>>, <<1, 2>>}
          [] s = "ETHBTC" -> {<<1, 1>>, <<2, 1>>}
          [] s = "BNBUSDT" -> {<<1, 1>>}
          [] OTHER -> {<<2, 2>>}]

\* The books that never change are the first to appear.
FixedFirst ==
    /\ tops["BNBETH"] # <<None, None>> => tops["BNBUSDT"] # <<None, None>>
    /\ \A s \in {"BTCUSDT", "ETHUSDT", "ETHBTC"} :
         tops[s] # <<None, None>> => tops["BNBETH"] # <<None, None>>

MCSpec == Init /\ [][Next /\ FixedFirst']_vars /\ WF_vars(Step)
===============================================================================
