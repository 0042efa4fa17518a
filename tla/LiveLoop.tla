------------------------------- MODULE LiveLoop -------------------------------
(***************************************************************************)
(* The polling branch of run_loop in ta-bin/src/main.rs: a poll applies    *)
(* book updates, detection searches the graph, and every opportunity is    *)
(* given prices from the books, checked against the books and executed.    *)
(*                                                                         *)
(* A book is its two best prices; FeedEngine models how levels and events  *)
(* make them.  What poll() applies is any sequence of moves of Moves.      *)
(* Nothing changes the books between detection and the last execution: one *)
(* task does both.  execute_opportunity is seen from here as a refusal by  *)
(* deduplication or risk, the price check, or a trade of the three legs;   *)
(* ExecEngine models the rest of it.                                       *)
(***************************************************************************)
EXTENDS DetectionEngine

CONSTANTS
    Prices,
    Base, Quote,        \* parse_currency
    Moves,              \* per symbol the <<bid, ask>> its book may get
    MaxSlippageBps

ASSUME LoopAssumption ==
    /\ Prices \subseteq Nat \ {0}
    /\ Log \in [Prices -> Int]
    /\ Base \in [Symbols -> Currencies] /\ Quote \in [Symbols -> Currencies]
    /\ \A s \in Symbols : Base[s] # Quote[s]
    /\ \A s, t \in Symbols :
         {Base[s], Quote[s]} = {Base[t], Quote[t]} => s = t
    /\ Moves \in [Symbols -> SUBSET ((Prices \cup {None}) \X (Prices \cup {None}))]
    /\ MaxSlippageBps \in Nat

VARIABLES
    at,       \* "poll", "detect" or "execute"
    tops,     \* the reader's view of the books: per symbol <<bid, ask>>
    offer,    \* the enriched opportunity under execution, or None
    deal      \* what the last step of the loop traded or refused, or None

loopVars == <<at, tops, offer, deal>>
vars == <<loopVars, graphState, detectionVars>>

Init ==
    /\ GraphInit /\ DetectionInit
    /\ at = "poll"
    /\ tops = [s \in Symbols |-> <<None, None>>]
    /\ offer = None /\ deal = None

\* Mutant: the edges of a book that lost a side are computed from what is left.
WrongBookMoves(s, bid, ask) ==
    IF bid # None
    THEN SetRate(Base[s], Quote[s], bid, bid) /\ SetSymbolFor(Base[s], Quote[s], s) /\ age' = 0
    ELSE /\ currencies' = AddOnce(AddOnce(currencies, Base[s]), Quote[s])
         /\ UNCHANGED <<neighbours, weight, symbolMap, age>>

\* The end of apply_book_update: without two sides the graph and its timestamp
\* stay as they are.
BookMoves(s, bid, ask) ==
    IF bid # None /\ ask # None
    THEN SetRate(Base[s], Quote[s], bid, ask) /\ SetSymbolFor(Base[s], Quote[s], s) /\ age' = 0
    ELSE /\ currencies' = AddOnce(AddOnce(currencies, Base[s]), Quote[s])
         /\ UNCHANGED <<neighbours, weight, symbolMap, age>>

\* feed.poll() applies an update.
Poll ==
    /\ at = "poll"
    /\ \E s \in Symbols : \E top \in Moves[s] :
         /\ tops' = [tops EXCEPT ![s] = top]
         /\ BookMoves(s, top[1], top[2])
    /\ deal' = None
    /\ UNCHANGED <<at, offer, searchVars, opportunities>>

Wait ==
    /\ at = "poll"
    /\ age <= MaxDataAge
    /\ age' = age + 1
    /\ deal' = None
    /\ UNCHANGED <<at, tops, offer, graphState, searchVars, opportunities>>

\* detect.detect(&graph_snap)
Detect ==
    /\ at = "poll"
    /\ BeginDetect
    /\ at' = "detect"
    /\ deal' = None
    /\ UNCHANGED <<tops, offer, graphState>>

Searching ==
    /\ at = "detect"
    /\ DetectStep
    /\ UNCHANGED <<loopVars, graphState>>

Detected ==
    /\ at = "detect"
    /\ EndDetect
    /\ at' = IF opportunities = <<>> THEN "poll" ELSE "execute"
    /\ UNCHANGED <<tops, offer, deal, graphState>>

\* Mutant: both sides are priced at the bid.
WrongTopFor(leg) == tops[leg.symbol][1]

\* The best price a leg can trade at, which is missing when its side is empty.
TopFor(leg) == tops[leg.symbol][IF leg.side = "Buy" THEN 2 ELSE 1]

\* enrich_opportunity.  A leg that cannot be priced keeps the price 0.
Enriched(opp) ==
    [legs |-> opp.legs, expected |-> opp.expected,
     prices |-> [i \in 1 .. 3 |->
                   IF TopFor(opp.legs[i]) = None THEN 0 ELSE TopFor(opp.legs[i])]]

Unpriced(enriched) == \E i \in 1 .. 3 : enriched.prices[i] = 0

Advance ==
    /\ opportunities' = Tail(opportunities)
    /\ at' = IF opportunities' = <<>> THEN "poll" ELSE "execute"

\* Mutant: an opportunity without prices is left for the next turn.
WrongSkipUnpriced ==
    /\ at = "execute" /\ offer = None
    /\ Unpriced(Enriched(Head(opportunities)))
    /\ UNCHANGED <<at, tops, offer, deal, graphState, searchVars, age, opportunities>>

SkipUnpriced ==
    /\ at = "execute" /\ offer = None
    /\ Unpriced(Enriched(Head(opportunities)))
    /\ Advance
    /\ UNCHANGED <<tops, offer, deal, graphState, searchVars, age>>

Offer ==
    /\ at = "execute" /\ offer = None
    /\ ~Unpriced(Enriched(Head(opportunities)))
    /\ offer' = Enriched(Head(opportunities))
    /\ UNCHANGED <<at, tops, deal, graphState, searchVars, age, opportunities>>

\* check_leg: the book has the side, at a price within the tolerance.
CheckLeg(leg, expected) ==
    LET current == IF leg.side = "Buy" THEN tops[leg.symbol][2] ELSE tops[leg.symbol][1]
        diff == IF current >= expected THEN current - expected ELSE expected - current
    IN  current # None /\ diff * 10000 <= MaxSlippageBps * expected

\* check_opportunity
PriceCheck == \A i \in 1 .. 3 : CheckLeg(offer.legs[i], offer.prices[i])

\* What execute_opportunity does: refused by deduplication or risk, refused by
\* the price check, or the three legs are sent.
Outcomes == {"refused", IF PriceCheck THEN "traded" ELSE "price"}

Execute ==
    /\ at = "execute" /\ offer # None
    /\ \E outcome \in Outcomes :
         deal' = [outcome |-> outcome, legs |-> offer.legs, prices |-> offer.prices,
                  expected |-> offer.expected]
    /\ offer' = None
    /\ Advance
    /\ UNCHANGED <<tops, graphState, searchVars, age>>

Step == Searching \/ Detected \/ SkipUnpriced \/ Offer \/ Execute

Next == Poll \/ Wait \/ Detect \/ Step

Spec == Init /\ [][Next]_vars

\* The branch is one call: once it has begun, the task runs it to its end.
FairSpec == Spec /\ WF_vars(Step)
-------------------------------------------------------------------------------
Offers == [legs : [1 .. 3 -> Legs], expected : Int \cup {None},
           prices : [1 .. 3 -> Prices]]

LoopTypeOK ==
    /\ GraphTypeOK
    /\ DetectionTypeOK
    /\ at \in {"poll", "detect", "execute"}
    /\ at = "detect" <=> search # "idle"
    /\ at = "poll" => opportunities = <<>>
    /\ at = "execute" => opportunities # <<>>
    /\ tops \in [Symbols -> (Prices \cup {None}) \X (Prices \cup {None})]
    /\ offer \in Offers \cup {None}
    /\ deal \in {None} \cup
                  [outcome : {"traded", "refused", "price"}, legs : [1 .. 3 -> Legs],
                   prices : [1 .. 3 -> Prices], expected : Int \cup {None}]

\* The price check compares the prices of the books with the books they were
\* taken from, so it refuses nothing: whatever happened to a pair since its rates
\* were detected, the loop trades at the price of now.
PriceCheckNeverRefuses == deal # None => deal.outcome # "price"

\* What a leg gains in logarithms when it trades at a price.
LegGain(leg, price) == IF leg.side = "Sell" THEN Log[price] ELSE -Log[price]

ClosedLegs(legs) ==
    legs[1].to = legs[2].from /\ legs[2].to = legs[3].from /\ legs[3].to = legs[1].from

TwoSided(s) == tops[s][1] # None /\ tops[s][2] # None

\* The safeguard that is left: a triangle traded in books that have both sides
\* gains what detection promised at least, fees included.  Without the condition
\* it fails: a book that loses a side keeps its edges, and the side that is left
\* may move away from them before it is traded.
TwoSidedTradePays ==
    /\ deal # None
    /\ ClosedLegs(deal.legs)
    /\ \A i \in 1 .. 3 : TwoSided(deal.legs[i].symbol)
    => /\ deal.expected # None
       /\ LegGain(deal.legs[1], deal.prices[1]) + LegGain(deal.legs[2], deal.prices[2])
            + LegGain(deal.legs[3], deal.prices[3]) >= deal.expected + FeeThreshold

\* Once detection has begun, the loop comes back to polling: the search ends
\* although a negative cycle has no shortest path, the walks end, and every
\* opportunity is dealt with.
EveryPollEnds == (at # "poll") ~> (at = "poll")
===============================================================================
