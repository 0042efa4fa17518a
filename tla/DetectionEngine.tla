---------------------------- MODULE DetectionEngine ----------------------------
(***************************************************************************)
(* DetectionEngine::detect of ta-detect/src/lib.rs: the search of the rate *)
(* graph while its data is fresh, and the filters that turn its routes     *)
(* into opportunities of three legs.                                       *)
(*                                                                         *)
(* A profit is a difference of logarithms, like the weights, and the fee   *)
(* and the minimum are in the same unit.  The age of last_updated_at is    *)
(* one for the whole graph, as in the code.                                *)
(***************************************************************************)
EXTENDS SpfaSearch

CONSTANTS
    MinProfit,      \* min_profit_bps
    Fee,            \* fee_taker_bps, of one leg
    MaxLegs,
    MaxDataAge

ASSUME DetectionAssumption ==
    /\ MinProfit \in Nat /\ Fee \in Nat /\ MaxLegs \in Nat /\ MaxDataAge \in Nat
    /\ None \notin Int /\ None \notin Currencies /\ None \notin Symbols

VARIABLES
    age,              \* time since last_updated_at, counted up to MaxDataAge + 1
    opportunities     \* what detect() returns, as far as not handled yet

detectionVars == <<searchVars, age, opportunities>>

DetectionInit == SearchInit /\ age = 0 /\ opportunities = <<>>

Fresh == age <= MaxDataAge

FeeThreshold == 3 * Fee

PaysFees(r) == r.profit = None \/ r.profit >= MinProfit + FeeThreshold

Tradable(a, b) == symbolMap[<<a, b>>] # None \/ symbolMap[<<b, a>>] # None

\* The routes that become opportunities; max_legs below three leaves none.
IsOpportunity(r) ==
    /\ PaysFees(r)
    /\ Len(r.cycle) <= MaxLegs + 1
    /\ Len(r.cycle) = 4
    /\ \A i \in 1 .. 3 : Tradable(r.cycle[i], r.cycle[i + 1])

\* triangle and routes of an ArbitrageOpportunity, leg by leg.
RouteLeg(a, b) ==
    LET order == SymbolAndSideFor(a, b)
    IN  [from |-> a, to |-> b, symbol |-> order.symbol, side |-> order.side]

Opportunity(r) ==
    [legs |-> [i \in 1 .. 3 |-> RouteLeg(r.cycle[i], r.cycle[i + 1])],
     expected |-> IF r.profit = None THEN None ELSE r.profit - FeeThreshold]

\* The search of an empty graph, or of stale data, finds nothing.
MayDetect == Fresh /\ currencies # <<>>

BeginDetect ==
    /\ search = "idle"
    /\ MayDetect
    /\ StartSearch
    /\ UNCHANGED <<age, opportunities>>

\* One turn of the loop over the routes found.
Filter ==
    /\ search = "done" /\ found # <<>>
    /\ found' = Tail(found)
    /\ opportunities' = IF IsOpportunity(Head(found))
                        THEN Append(opportunities, Opportunity(Head(found)))
                        ELSE opportunities
    /\ UNCHANGED <<search, dist, pred, count, queue, node, edges, unscanned, path, age>>

DetectStep == (SearchStep /\ UNCHANGED <<age, opportunities>>) \/ Filter

EndDetect ==
    /\ search = "done" /\ found = <<>>
    /\ SearchReset
    /\ UNCHANGED <<age, opportunities>>
-------------------------------------------------------------------------------
Legs == [from : Currencies, to : Currencies, symbol : Symbols, side : {"Buy", "Sell"}]

Opportunities == [legs : [1 .. 3 -> Legs], expected : Int \cup {None}]

DetectionTypeOK ==
    /\ SearchTypeOK
    /\ age \in 0 .. MaxDataAge + 1
    /\ opportunities \in Seq(Opportunities)
===============================================================================
