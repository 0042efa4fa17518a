------------------------------- MODULE RateGraph -------------------------------
(***************************************************************************)
(* The ExchangeRateGraph of ta-core/src/lib.rs: currencies in the order    *)
(* they were added, a directed weighted edge per way of trading a pair,    *)
(* and the symbol that trades it.                                          *)
(*                                                                         *)
(* Log[p] stands for the logarithm of the natural-unit price made of the   *)
(* raw price p.  log_rates is written and never read; it is left out, and  *)
(* so is last_updated_at.                                                  *)
(***************************************************************************)
EXTENDS Integers, Sequences

CONSTANTS
    Currencies, Symbols,
    Log,     \* [Prices -> Int]
    None     \* no weight, no symbol

VARIABLES
    currencies,    \* the sequence of node names
    neighbours,    \* adjacency: per currency the sequence of its successors
    weight,        \* adjacency: the weight of an edge, or None
    symbolMap      \* symbol_map: per <<base, quote>> the symbol, or None

graphState == <<currencies, neighbours, weight, symbolMap>>

Pairs == Currencies \X Currencies

GraphInit ==
    /\ currencies = <<>>
    /\ neighbours = [c \in Currencies |-> <<>>]
    /\ weight = [p \in Pairs |-> None]
    /\ symbolMap = [p \in Pairs |-> None]

Listed(list, x) == \E k \in 1 .. Len(list) : list[k] = x

\* Mutant: what is in the list is appended again.
WrongAddOnce(list, x) == Append(list, x)

\* add_currency, and the edge that is replaced in place or pushed.
AddOnce(list, x) == IF Listed(list, x) THEN list ELSE Append(list, x)

\* set_rate(from, to, bid, ask).  A price of zero leaves its edge as it is.
SetRate(from, to, bid, ask) ==
    /\ currencies' = AddOnce(AddOnce(currencies, from), to)
    /\ weight' = [p \in Pairs |->
                    CASE p = <<from, to>> /\ bid > 0 -> -Log[bid]
                      [] p = <<to, from>> /\ ask > 0 -> Log[ask]
                      [] OTHER -> weight[p]]
    /\ neighbours' = [c \in Currencies |->
                        CASE c = from /\ bid > 0 -> AddOnce(neighbours[c], to)
                          [] c = to /\ ask > 0 -> AddOnce(neighbours[c], from)
                          [] OTHER -> neighbours[c]]

\* Mutant: the symbol is registered for the opposite direction.
WrongSetSymbolFor(from, to, symbol) ==
    symbolMap' = [symbolMap EXCEPT
                    ![<<to, from>>] = IF @ = None THEN symbol ELSE @]

\* set_symbol_for(from, to, symbol): the first symbol of a pair stays.
SetSymbolFor(from, to, symbol) ==
    symbolMap' = [symbolMap EXCEPT
                    ![<<from, to>>] = IF @ = None THEN symbol ELSE @]

\* Mutant: the direction the symbol is registered for is not looked at.
WrongSymbolAndSideFor(from, to) == [symbol |-> symbolMap[<<from, to>>], side |-> "Sell"]

\* symbol_and_side_for(from, to), for a pair that has a symbol.
SymbolAndSideFor(from, to) ==
    IF symbolMap[<<from, to>>] # None
    THEN [symbol |-> symbolMap[<<from, to>>], side |-> "Sell"]
    ELSE [symbol |-> symbolMap[<<to, from>>], side |-> "Buy"]
-------------------------------------------------------------------------------
GraphTypeOK ==
    /\ currencies \in Seq(Currencies)
    /\ neighbours \in [Currencies -> Seq(Currencies)]
    /\ weight \in [Pairs -> Int \cup {None}]
    /\ symbolMap \in [Pairs -> Symbols \cup {None}]

\* set_rate searches an adjacency list before it pushes: every edge with a
\* weight is in the list of its source exactly once, and its two ends are nodes.
EdgesListedOnce ==
    \A a \in Currencies :
        /\ \A j, k \in 1 .. Len(neighbours[a]) :
             neighbours[a][j] = neighbours[a][k] => j = k
        /\ \A b \in Currencies :
             /\ weight[<<a, b>>] # None <=> Listed(neighbours[a], b)
             /\ weight[<<a, b>>] # None =>
                   Listed(currencies, a) /\ Listed(currencies, b)
===============================================================================
