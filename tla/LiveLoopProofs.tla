---------------------------- MODULE LiveLoopProofs ----------------------------
(***************************************************************************)
(* Theorems about the polling branch: what it promises of a triangle when  *)
(* detection reports it, when it is offered and when it is traded, and     *)
(* which cycles detection finds.                                           *)
(***************************************************************************)
EXTENDS LiveLoop, SearchProofs

\* The invariant of the graph: the symbol of a pair trades that pair, and the
\* rates of a book with two sides are those of its two best prices.
SymbolTradesPair ==
    \A a, b \in Currencies :
        symbolMap[<<a, b>>] # None =>
            Base[symbolMap[<<a, b>>]] = a /\ Quote[symbolMap[<<a, b>>]] = b

BooksInGraph ==
    \A s \in Symbols :
        TwoSided(s) => /\ weight[<<Base[s], Quote[s]>>] = -Log[tops[s][1]]
                       /\ weight[<<Quote[s], Base[s]>>] = Log[tops[s][2]]

GraphInv == GraphSound /\ SymbolTradesPair /\ BooksInGraph

\* A leg trades the pair it is on, in the direction of its edge.
LegSound(leg) ==
    /\ weight[<<leg.from, leg.to>>] # None
    /\ leg.side = "Sell" => Base[leg.symbol] = leg.from /\ Quote[leg.symbol] = leg.to
    /\ leg.side = "Buy" => Base[leg.symbol] = leg.to /\ Quote[leg.symbol] = leg.from

LegsWeight(legs) ==
    weight[<<legs[1].from, legs[1].to>>] + weight[<<legs[2].from, legs[2].to>>]
        + weight[<<legs[3].from, legs[3].to>>]

\* A closed triangle promises no more than its rates make after fees.
LegsSound(legs, expected) ==
    /\ \A i \in 1 .. 3 : LegSound(legs[i])
    /\ ClosedLegs(legs) => expected # None /\ expected + FeeThreshold <= -LegsWeight(legs)

OpportunitiesSound ==
    \A k \in 1 .. Len(opportunities) :
        LegsSound(opportunities[k].legs, opportunities[k].expected)

\* The prices of an offer are those of the books now.
OfferSound ==
    offer # None =>
        /\ at = "execute"
        /\ LegsSound(offer.legs, offer.expected)
        /\ \A i \in 1 .. 3 : TopFor(offer.legs[i]) # None
                             /\ offer.prices[i] = TopFor(offer.legs[i])

LiveInv ==
    /\ LoopTypeOK
    /\ GraphInv
    /\ SearchInv
    /\ OpportunitiesSound
    /\ OfferSound
    /\ PriceCheckNeverRefuses
    /\ TwoSidedTradePays
-------------------------------------------------------------------------------
LEMMA SymbolEnds ==
    \A s \in Symbols : /\ Base[s] \in Currencies /\ Quote[s] \in Currencies
                       /\ Base[s] # Quote[s]
    BY LoopAssumption

LEMMA PriceFacts ==
    /\ None \notin Prices
    /\ \A p \in Prices : p \in Nat \ {0} /\ Log[p] \in Int /\ Quotable(p)
<1>1. Prices \subseteq Nat \ {0} /\ Log \in [Prices -> Int]
    BY LoopAssumption
<1>2. None \notin Int
    BY DetectionAssumption
<1>3. None \notin Prices
  <2>1. \A p \in Prices : p \in Nat
      BY <1>1
  <2>2. \A p \in Nat : p \in Int
      OBVIOUS
  <2> QED
      BY <2>1, <2>2, <1>2, Zenon
<1>4. ASSUME NEW p \in Prices
      PROVE  p \in Nat \ {0} /\ Log[p] \in Int /\ Quotable(p)
    BY <1>1 DEF Quotable
<1> QED
    BY <1>3, <1>4

\* The graph stays sound when a book moves.
LEMMA BookMovesSound ==
    ASSUME LoopTypeOK, GraphInv,
           NEW s \in Symbols, NEW top \in Moves[s],
           tops' = [tops EXCEPT ![s] = top], BookMoves(s, top[1], top[2])
    PROVE  /\ GraphInv' /\ age' \in 0 .. MaxDataAge + 1
           /\ tops' \in [Symbols -> (Prices \cup {None}) \X (Prices \cup {None})]
<1> USE DetectionAssumption
<1> DEFINE b == Base[s]
           q == Quote[s]
<1>1. b \in Currencies /\ q \in Currencies /\ b # q
    BY SymbolEnds
<1>2. top \in (Prices \cup {None}) \X (Prices \cup {None})
    BY LoopAssumption
<1>3. tops \in [Symbols -> (Prices \cup {None}) \X (Prices \cup {None})]
    BY DEF LoopTypeOK
<1>4. /\ tops' \in [Symbols -> (Prices \cup {None}) \X (Prices \cup {None})]
      /\ tops'[s] = top /\ \A t \in Symbols : t # s => tops'[t] = tops[t]
    BY <1>2, <1>3
<1>5. symbolMap \in [Pairs -> Symbols \cup {None}] /\ currencies \in Seq(Currencies)
    BY DEF GraphInv, GraphSound, GraphTypeOK
<1>6. CASE top[1] # None /\ top[2] # None
  <2>1. top[1] \in Prices /\ top[2] \in Prices
      BY <1>2, <1>6
  <2>2. SetRate(b, q, top[1], top[2]) /\ SetSymbolFor(b, q, s) /\ age' = 0
      BY <1>6 DEF BookMoves
  <2>3. /\ currencies' \in Seq(Currencies) /\ neighbours' \in [Currencies -> Seq(Currencies)]
        /\ weight' \in [Pairs -> Int \cup {None}] /\ EdgesWeighted'
        /\ weight'[<<b, q>>] = -Log[top[1]] /\ weight'[<<q, b>>] = Log[top[2]]
        /\ \A p \in Pairs : p # <<b, q>> /\ p # <<q, b>> => weight'[p] = weight[p]
    <3> HIDE DEF b, q
    <3> QED
        BY <2>1, <2>2, <1>1, PriceFacts, SetRateSound DEF GraphInv
  <2>4. /\ symbolMap' \in [Pairs -> Symbols \cup {None}]
        /\ \A p \in Pairs : symbolMap'[p] = IF p = <<b, q>> /\ symbolMap[p] = None
                                            THEN s ELSE symbolMap[p]
      BY <2>2, <1>1, <1>5 DEF SetSymbolFor, Pairs
  <2>5. GraphSound'
      BY <2>3, <2>4 DEF GraphSound, GraphTypeOK
  <2>6. SymbolTradesPair'
    <3> SUFFICES ASSUME NEW x \in Currencies, NEW y \in Currencies, symbolMap'[<<x, y>>] # None
                 PROVE  Base[symbolMap'[<<x, y>>]] = x /\ Quote[symbolMap'[<<x, y>>]] = y
        BY DEF SymbolTradesPair
    <3>1. <<x, y>> \in Pairs
        BY DEF Pairs
    <3>2. CASE <<x, y>> = <<b, q>> /\ symbolMap[<<x, y>>] = None
        BY <3>1, <3>2, <2>4
    <3>3. CASE ~(<<x, y>> = <<b, q>> /\ symbolMap[<<x, y>>] = None)
      <4>1. symbolMap'[<<x, y>>] = symbolMap[<<x, y>>]
          BY <3>1, <3>3, <2>4
      <4> QED
          BY <4>1 DEF GraphInv, SymbolTradesPair
    <3> QED
        BY <3>2, <3>3
  <2>7. BooksInGraph'
    <3> SUFFICES ASSUME NEW t \in Symbols, TwoSided(t)'
                 PROVE  /\ weight'[<<Base[t], Quote[t]>>] = -Log[tops'[t][1]]
                        /\ weight'[<<Quote[t], Base[t]>>] = Log[tops'[t][2]]
        BY DEF BooksInGraph
    <3>1. CASE t = s
        BY <3>1, <2>3, <1>4
    <3>2. CASE t # s
      <4>1. {b, q} # {Base[t], Quote[t]}
          BY <3>2, LoopAssumption
      <4>2. /\ <<Base[t], Quote[t]>> \notin {<<b, q>>, <<q, b>>}
            /\ <<Quote[t], Base[t]>> \notin {<<b, q>>, <<q, b>>}
            /\ <<Base[t], Quote[t]>> \in Pairs /\ <<Quote[t], Base[t]>> \in Pairs
          BY <4>1, SymbolEnds DEF Pairs
      <4>3. /\ weight'[<<Base[t], Quote[t]>>] = weight[<<Base[t], Quote[t]>>]
            /\ weight'[<<Quote[t], Base[t]>>] = weight[<<Quote[t], Base[t]>>]
          BY <2>3, <4>2
      <4>4. tops'[t] = tops[t] /\ TwoSided(t)
          BY <3>2, <1>4 DEF TwoSided
      <4> QED
          BY <4>3, <4>4 DEF GraphInv, BooksInGraph
    <3> QED
        BY <3>1, <3>2
  <2> QED
      BY <2>2, <2>5, <2>6, <2>7, <1>4 DEF GraphInv
<1>7. CASE ~(top[1] # None /\ top[2] # None)
  <2>1. /\ currencies' = AddOnce(AddOnce(currencies, b), q)
        /\ neighbours' = neighbours /\ weight' = weight /\ symbolMap' = symbolMap /\ age' = age
      BY <1>7 DEF BookMoves
  <2>2. currencies' \in Seq(Currencies)
    <3>1. AddOnce(currencies, b) \in Seq(Currencies)
        BY <1>1, <1>5, AddOnceSound
    <3> HIDE DEF b, q
    <3> QED
        BY <2>1, <3>1, <1>1, AddOnceSound
  <2>3. GraphSound' /\ SymbolTradesPair'
      BY <2>1, <2>2 DEF GraphInv, GraphSound, GraphTypeOK, EdgesWeighted, SymbolTradesPair
  <2>4. BooksInGraph'
    <3> SUFFICES ASSUME NEW t \in Symbols, TwoSided(t)'
                 PROVE  /\ weight'[<<Base[t], Quote[t]>>] = -Log[tops'[t][1]]
                        /\ weight'[<<Quote[t], Base[t]>>] = Log[tops'[t][2]]
        BY DEF BooksInGraph
    <3>1. t # s
        BY <1>4, <1>7 DEF TwoSided
    <3>2. tops'[t] = tops[t] /\ TwoSided(t)
        BY <3>1, <1>4 DEF TwoSided
    <3> QED
        BY <2>1, <3>2 DEF GraphInv, BooksInGraph
  <2>5. age' \in 0 .. MaxDataAge + 1
      BY <2>1 DEF LoopTypeOK, DetectionTypeOK
  <2> QED
      BY <2>3, <2>4, <2>5, <1>4 DEF GraphInv
<1> QED
    BY <1>6, <1>7

\* A leg of a route trades the pair of its two currencies.
LEMMA RouteLegSound ==
    ASSUME GraphInv, NEW a \in Currencies, NEW b \in Currencies,
           Tradable(a, b), weight[<<a, b>>] # None
    PROVE  /\ RouteLeg(a, b) \in Legs /\ LegSound(RouteLeg(a, b))
           /\ RouteLeg(a, b).from = a /\ RouteLeg(a, b).to = b
<1>1. /\ symbolMap[<<a, b>>] \in Symbols \cup {None}
      /\ symbolMap[<<b, a>>] \in Symbols \cup {None}
    BY DEF GraphInv, GraphSound, GraphTypeOK, Pairs
<1>2. CASE symbolMap[<<a, b>>] # None
  <2>1. RouteLeg(a, b) = [from |-> a, to |-> b, symbol |-> symbolMap[<<a, b>>], side |-> "Sell"]
      BY <1>2 DEF RouteLeg, SymbolAndSideFor
  <2>2. Base[symbolMap[<<a, b>>]] = a /\ Quote[symbolMap[<<a, b>>]] = b
      BY <1>2 DEF GraphInv, SymbolTradesPair
  <2> QED
      BY <1>1, <1>2, <2>1, <2>2 DEF Legs, LegSound
<1>3. CASE symbolMap[<<a, b>>] = None
  <2>1. RouteLeg(a, b) = [from |-> a, to |-> b, symbol |-> symbolMap[<<b, a>>], side |-> "Buy"]
      BY <1>3 DEF RouteLeg, SymbolAndSideFor
  <2>2. symbolMap[<<b, a>>] # None
      BY <1>3 DEF Tradable
  <2>3. Base[symbolMap[<<b, a>>]] = b /\ Quote[symbolMap[<<b, a>>]] = a
      BY <2>2 DEF GraphInv, SymbolTradesPair
  <2> QED
      BY <1>1, <2>1, <2>2, <2>3 DEF Legs, LegSound
<1> QED
    BY <1>2, <1>3

\* What the filters make of a sound report.
LEMMA OpportunitySound ==
    ASSUME GraphInv, NEW r \in Reports, ReportSound(r), IsOpportunity(r)
    PROVE  /\ Opportunity(r) \in Opportunities
           /\ LegsSound(Opportunity(r).legs, Opportunity(r).expected)
<1> USE DetectionAssumption
<1> DEFINE c == r.cycle
           leg(i) == RouteLeg(c[i], c[i + 1])
           opp == Opportunity(r)
<1>1. c \in Seq(Currencies) /\ Len(c) = 4 /\ r.profit \in Int \cup {None}
    BY DEF Reports, IsOpportunity
<1>2. \A i \in 1 .. 3 :
        /\ c[i] \in Currencies /\ c[i + 1] \in Currencies
        /\ Tradable(c[i], c[i + 1]) /\ weight[<<c[i], c[i + 1]>>] # None
  <2> TAKE i \in 1 .. 3
  <2>1. i \in 1 .. Len(c) /\ i + 1 \in 1 .. Len(c) /\ i \in 1 .. Len(c) - 1
      BY <1>1
  <2>2. Tradable(c[i], c[i + 1])
      BY DEF IsOpportunity
  <2>3. weight[<<c[i], c[i + 1]>>] # None
      BY <2>1 DEF ReportSound, Weighted
  <2> QED
      BY <2>1, <2>2, <2>3, <1>1
<1>3. \A i \in 1 .. 3 : /\ leg(i) \in Legs /\ LegSound(leg(i))
                        /\ leg(i).from = c[i] /\ leg(i).to = c[i + 1]
    BY <1>2, RouteLegSound
<1>4. /\ opp.legs = [i \in 1 .. 3 |-> leg(i)]
      /\ opp.expected = IF r.profit = None THEN None ELSE r.profit - FeeThreshold
      /\ opp = [legs |-> opp.legs, expected |-> opp.expected]
    BY DEF Opportunity
<1> HIDE DEF opp, leg
<1>5. FeeThreshold \in Int
    BY DEF FeeThreshold
<1>6. opp.legs \in [1 .. 3 -> Legs] /\ opp.expected \in Int \cup {None}
    BY <1>1, <1>3, <1>4, <1>5
<1>7. \A i \in 1 .. 3 : opp.legs[i] = leg(i)
    BY <1>4
<1>8. 1 \in 1 .. 3 /\ 2 \in 1 .. 3 /\ 3 \in 1 .. 3 /\ 1 + 1 = 2 /\ 2 + 1 = 3 /\ 3 + 1 = 4
    OBVIOUS
<1>9. /\ opp.legs[1].from = c[1] /\ opp.legs[1].to = c[2]
      /\ opp.legs[2].from = c[2] /\ opp.legs[2].to = c[3]
      /\ opp.legs[3].from = c[3] /\ opp.legs[3].to = c[4]
    BY <1>3, <1>7, <1>8
<1>10. ASSUME ClosedLegs(opp.legs)
       PROVE  opp.expected # None /\ opp.expected + FeeThreshold <= -LegsWeight(opp.legs)
  <2>1. c[1] = c[4]
      BY <1>9, <1>10 DEF ClosedLegs
  <2>2. Closed(c)
      BY <2>1, <1>1 DEF Closed
  <2>3. r.profit # None /\ r.profit <= TriangleGain(c)
      BY <2>2, <1>1 DEF ReportSound
  <2>4. LegsWeight(opp.legs)
          = weight[<<c[1], c[2]>>] + weight[<<c[2], c[3]>>] + weight[<<c[3], c[4]>>]
      BY <1>9 DEF LegsWeight
  <2>5. TriangleGain(c) = -LegsWeight(opp.legs)
      BY <2>4 DEF TriangleGain
  <2>6. opp.expected = r.profit - FeeThreshold /\ r.profit \in Int
      BY <2>3, <1>1, <1>4
  <2> QED
      BY <2>3, <2>5, <2>6, <1>5
<1>11. LegsSound(opp.legs, opp.expected)
    BY <1>3, <1>7, <1>10 DEF LegsSound
<1>12. opp \in Opportunities
    BY <1>4, <1>6 DEF Opportunities
<1> QED
    BY <1>11, <1>12 DEF opp

LEMMA FilterOpportunities ==
    ASSUME GraphInv, SearchInv, opportunities \in Seq(Opportunities), OpportunitiesSound,
           Filter, UNCHANGED graphState
    PROVE  opportunities' \in Seq(Opportunities) /\ OpportunitiesSound'
<1> DEFINE r == Head(found)
<1>1. found \in Seq(Reports) /\ found # <<>> /\ weight' = weight
    BY DEF SearchInv, SearchTypeOK, Filter, graphState
<1>2. r \in Reports /\ r = found[1] /\ Len(found) \in Nat \ {0}
    BY <1>1, HeadTailOf
<1>3. ReportSound(r)
  <2>1. 1 \in 1 .. Len(found)
      BY <1>2
  <2> QED
      BY <2>1, <1>2 DEF SearchInv, FoundSound
<1>4. opportunities' = IF IsOpportunity(r) THEN Append(opportunities, Opportunity(r))
                       ELSE opportunities
    BY DEF Filter
<1> HIDE DEF r
<1>5. CASE IsOpportunity(r)
  <2> DEFINE opp == Opportunity(r)
  <2>1. opp \in Opportunities /\ LegsSound(opp.legs, opp.expected)
      BY <1>2, <1>3, <1>5, OpportunitySound DEF r
  <2>2. opportunities' = Append(opportunities, opp)
      BY <1>4, <1>5
  <2> HIDE DEF opp
  <2>3. /\ opportunities' \in Seq(Opportunities)
        /\ Len(opportunities') = Len(opportunities) + 1 /\ Len(opportunities) \in Nat
        /\ opportunities'[Len(opportunities) + 1] = opp
        /\ \A k \in 1 .. Len(opportunities) : opportunities'[k] = opportunities[k]
      BY <2>1, <2>2, AppendOf
  <2>4. ASSUME NEW k \in 1 .. Len(opportunities')
        PROVE  LegsSound(opportunities'[k].legs, opportunities'[k].expected)
    <3>1. k = Len(opportunities) + 1 \/ k \in 1 .. Len(opportunities)
        BY <2>3
    <3> QED
        BY <2>1, <2>3, <3>1 DEF OpportunitiesSound
  <2> QED
      BY <2>3, <2>4, <1>1 DEF OpportunitiesSound, LegsSound, LegSound, LegsWeight, ClosedLegs
<1>6. CASE ~IsOpportunity(r)
    BY <1>1, <1>4, <1>6 DEF OpportunitiesSound, LegsSound, LegSound, LegsWeight, ClosedLegs
<1> QED
    BY <1>5, <1>6

\* A leg of a book with two sides gains what its edge weighs.
LEMMA LegGainIsWeight ==
    ASSUME LoopTypeOK, GraphInv, NEW leg \in Legs, LegSound(leg), TwoSided(leg.symbol)
    PROVE  /\ weight[<<leg.from, leg.to>>] \in Int
           /\ LegGain(leg, TopFor(leg)) = -weight[<<leg.from, leg.to>>]
<1> DEFINE s == leg.symbol
<1>1. /\ s \in Symbols /\ leg.side \in {"Buy", "Sell"}
      /\ leg.from \in Currencies /\ leg.to \in Currencies
    BY DEF Legs
<1>2. tops[s][1] \in Prices /\ tops[s][2] \in Prices
    BY <1>1 DEF LoopTypeOK, TwoSided
<1>3. Log[tops[s][1]] \in Int /\ Log[tops[s][2]] \in Int
    BY <1>2, PriceFacts
<1>4. /\ weight[<<Base[s], Quote[s]>>] = -Log[tops[s][1]]
      /\ weight[<<Quote[s], Base[s]>>] = Log[tops[s][2]]
    BY <1>1 DEF GraphInv, BooksInGraph
<1>5. CASE leg.side = "Sell"
  <2>1. Base[s] = leg.from /\ Quote[s] = leg.to
      BY <1>5 DEF LegSound
  <2> QED
      BY <2>1, <1>3, <1>4, <1>5 DEF LegGain, TopFor
<1>6. CASE leg.side = "Buy"
  <2>1. Base[s] = leg.to /\ Quote[s] = leg.from
      BY <1>6 DEF LegSound
  <2> QED
      BY <2>1, <1>3, <1>4, <1>6 DEF LegGain, TopFor
<1> QED
    BY <1>1, <1>5, <1>6

\* The check of prices that were just read passes.
LEMMA PriceCheckPasses ==
    ASSUME LoopTypeOK, OfferSound, offer # None
    PROVE  PriceCheck
<1> SUFFICES ASSUME NEW i \in 1 .. 3
             PROVE  CheckLeg(offer.legs[i], offer.prices[i])
    BY DEF PriceCheck
<1> DEFINE p == offer.prices[i]
           current == TopFor(offer.legs[i])
<1>1. p \in Prices
    BY DEF LoopTypeOK, Offers
<1>2. current # None /\ current = p
    BY DEF OfferSound
<1>3. CheckLeg(offer.legs[i], p) <=>
        /\ current # None
        /\ (IF current >= p THEN current - p ELSE p - current) * 10000 <= MaxSlippageBps * p
    BY DEF CheckLeg, TopFor
<1> HIDE DEF p, current
<1>4. p \in Nat /\ MaxSlippageBps \in Nat
    BY <1>1, PriceFacts, LoopAssumption
<1>5. MaxSlippageBps * p \in Nat
    BY <1>4
<1>6. (IF current >= p THEN current - p ELSE p - current) = 0
    BY <1>2, <1>4
<1>7. 0 * 10000 = 0
    OBVIOUS
<1> QED
    BY <1>2, <1>3, <1>5, <1>6, <1>7 DEF p

LEMMA TailOpportunities ==
    ASSUME opportunities \in Seq(Opportunities), OpportunitiesSound, opportunities # <<>>,
           opportunities' = Tail(opportunities), UNCHANGED weight
    PROVE  opportunities' \in Seq(Opportunities) /\ OpportunitiesSound'
<1>1. /\ opportunities' \in Seq(Opportunities)
      /\ Len(opportunities') = Len(opportunities) - 1 /\ Len(opportunities) \in Nat
      /\ \A k \in 1 .. Len(opportunities') : opportunities'[k] = opportunities[k + 1]
    BY HeadTailOf
<1>2. ASSUME NEW k \in 1 .. Len(opportunities')
      PROVE  LegsSound(opportunities'[k].legs, opportunities'[k].expected)
  <2>1. k + 1 \in 1 .. Len(opportunities) /\ opportunities'[k] = opportunities[k + 1]
      BY <1>1
  <2> QED
      BY <2>1 DEF OpportunitiesSound
<1> QED
    BY <1>1, <1>2 DEF OpportunitiesSound, LegsSound, LegSound, LegsWeight, ClosedLegs

\* What a step that leaves books and graph alone keeps.
LEMMA StillSound ==
    ASSUME LiveInv, UNCHANGED <<tops, graphState>>
    PROVE  /\ GraphInv' /\ GraphTypeOK'
           /\ weight' = weight /\ currencies' = currencies
           /\ opportunities' = opportunities => OpportunitiesSound'
           /\ deal' \in {deal, None} => PriceCheckNeverRefuses' /\ TwoSidedTradePays'
<1>1. /\ currencies' = currencies /\ neighbours' = neighbours /\ weight' = weight
      /\ symbolMap' = symbolMap /\ tops' = tops
    BY DEF graphState
<1>2. GraphInv' /\ GraphTypeOK'
    BY <1>1 DEF LiveInv, LoopTypeOK, GraphInv, GraphSound, GraphTypeOK, EdgesWeighted,
                SymbolTradesPair, BooksInGraph, TwoSided
<1>3. opportunities' = opportunities => OpportunitiesSound'
  <2> SUFFICES ASSUME opportunities' = opportunities, NEW k \in 1 .. Len(opportunities)
               PROVE  LegsSound(opportunities[k].legs, opportunities[k].expected)'
      BY DEF OpportunitiesSound
  <2>1. LegsSound(opportunities[k].legs, opportunities[k].expected)
      BY DEF LiveInv, OpportunitiesSound
  <2>2. opportunities'[k] = opportunities[k]
      OBVIOUS
  <2>3. (\A i \in 1 .. 3 : LegSound(opportunities[k].legs[i]))'
      BY <2>1, <2>2, <1>1 DEF LegsSound, LegSound
  <2>4. (ClosedLegs(opportunities[k].legs) =>
           /\ opportunities[k].expected # None
           /\ opportunities[k].expected + FeeThreshold <= -LegsWeight(opportunities[k].legs))'
      BY <2>1, <2>2, <1>1 DEF LegsSound, LegsWeight, ClosedLegs, FeeThreshold
  <2> QED
      BY <2>3, <2>4 DEF LegsSound
<1>4. deal' \in {deal, None} => PriceCheckNeverRefuses' /\ TwoSidedTradePays'
  <2>1. CASE deal' = None
      BY <2>1 DEF PriceCheckNeverRefuses, TwoSidedTradePays
  <2>2. CASE deal' = deal
    <3>1. PriceCheckNeverRefuses'
        BY <2>2 DEF LiveInv, PriceCheckNeverRefuses
    <3>2. TwoSidedTradePays'
        BY <2>2, <1>1 DEF LiveInv, TwoSidedTradePays, TwoSided, ClosedLegs, LegGain, FeeThreshold
    <3> QED
        BY <3>1, <3>2
  <2> QED
      BY <2>1, <2>2
<1> QED
    BY <1>1, <1>2, <1>3, <1>4

LEMMA PollKeeps ==
    ASSUME LiveInv, Poll
    PROVE  LiveInv'
<1>1. /\ at = "poll" /\ at' = at /\ deal' = None /\ offer' = offer
      /\ UNCHANGED searchVars /\ opportunities' = opportunities
    BY DEF Poll
<1>2. PICK s \in Symbols :
        \E top \in Moves[s] : tops' = [tops EXCEPT ![s] = top] /\ BookMoves(s, top[1], top[2])
    BY DEF Poll
<1> PICK top \in Moves[s] : tops' = [tops EXCEPT ![s] = top] /\ BookMoves(s, top[1], top[2])
    BY <1>2
<1>3. /\ GraphInv' /\ age' \in 0 .. MaxDataAge + 1
      /\ tops' \in [Symbols -> (Prices \cup {None}) \X (Prices \cup {None})]
    BY BookMovesSound DEF LiveInv
<1>4. /\ search = "idle" /\ opportunities = <<>> /\ offer = None
    BY <1>1 DEF LiveInv, LoopTypeOK, OfferSound
<1>5. SearchInv'
    BY <1>1, <1>4, IdleSound DEF LiveInv
<1>6. search' = search
    BY <1>1 DEF searchVars
<1>7. DetectionTypeOK'
    BY <1>1, <1>3, <1>5 DEF DetectionTypeOK, SearchInv, LiveInv, LoopTypeOK
<1>8. LoopTypeOK'
    BY <1>1, <1>3, <1>4, <1>6, <1>7 DEF LoopTypeOK, GraphInv, GraphSound, LiveInv
<1>9. OpportunitiesSound' /\ OfferSound' /\ PriceCheckNeverRefuses' /\ TwoSidedTradePays'
    BY <1>1, <1>4, EmptySound DEF OpportunitiesSound, OfferSound, PriceCheckNeverRefuses, TwoSidedTradePays
<1> QED
    BY <1>3, <1>5, <1>8, <1>9 DEF LiveInv

LEMMA WaitKeeps ==
    ASSUME LiveInv, Wait
    PROVE  LiveInv'
<1>1. /\ at = "poll" /\ at' = at /\ deal' = None /\ offer' = offer /\ UNCHANGED searchVars
      /\ opportunities' = opportunities /\ tops' = tops /\ UNCHANGED graphState
      /\ age <= MaxDataAge /\ age' = age + 1
    BY DEF Wait
<1>2. /\ search = "idle" /\ offer = None
    BY <1>1 DEF LiveInv, LoopTypeOK, OfferSound
<1>3. SearchInv' /\ search' = search
    BY <1>1, <1>2, IdleSound DEF LiveInv, searchVars
<1>4. age' \in 0 .. MaxDataAge + 1
    BY <1>1, DetectionAssumption DEF LiveInv, LoopTypeOK, DetectionTypeOK
<1>5. /\ GraphInv' /\ GraphTypeOK' /\ OpportunitiesSound'
      /\ PriceCheckNeverRefuses' /\ TwoSidedTradePays'
    BY <1>1, StillSound
<1>6. LoopTypeOK'
    BY <1>1, <1>2, <1>3, <1>4, <1>5 DEF LoopTypeOK, DetectionTypeOK, SearchInv, LiveInv
<1> QED
    BY <1>1, <1>2, <1>3, <1>5, <1>6 DEF LiveInv, OfferSound

LEMMA DetectKeeps ==
    ASSUME LiveInv, Detect
    PROVE  LiveInv'
<1>1. /\ at = "poll" /\ at' = "detect" /\ deal' = None /\ offer' = offer /\ StartSearch
      /\ search = "idle" /\ currencies # <<>>
      /\ opportunities' = opportunities /\ tops' = tops /\ UNCHANGED graphState /\ age' = age
    BY DEF Detect, BeginDetect, MayDetect
<1>2. offer = None
    BY <1>1 DEF LiveInv, OfferSound
<1>3. SearchInv' /\ search' = "relax"
    BY <1>1, StartSearchSound DEF LiveInv, GraphInv, StartSearch
<1>4. /\ GraphInv' /\ GraphTypeOK' /\ OpportunitiesSound'
      /\ PriceCheckNeverRefuses' /\ TwoSidedTradePays'
    BY <1>1, StillSound
<1>5. LoopTypeOK'
    BY <1>1, <1>2, <1>3, <1>4 DEF LoopTypeOK, DetectionTypeOK, SearchInv, LiveInv
<1> QED
    BY <1>1, <1>2, <1>3, <1>4, <1>5 DEF LiveInv, OfferSound

LEMMA SearchingKeeps ==
    ASSUME LiveInv, Searching
    PROVE  LiveInv'
<1>1. /\ at = "detect" /\ at' = at /\ tops' = tops /\ offer' = offer /\ deal' = deal
      /\ UNCHANGED graphState /\ age' = age
      /\ (SearchStep /\ opportunities' = opportunities) \/ Filter
    BY DEF Searching, DetectStep, Filter, loopVars
<1>2. /\ offer = None /\ GraphSound /\ search \in Searches \cup {"done"}
    BY <1>1 DEF LiveInv, OfferSound, GraphInv, LoopTypeOK, DetectionTypeOK, SearchTypeOK, Searches
<1>3. SearchInv'
    BY <1>1, <1>2, SearchStepSound, FilterSound DEF LiveInv
<1>4. search' # "idle"
    BY <1>1, <1>2 DEF SearchStep, PopNode, RelaxEdge, StartScan, ScanNode, ScanEdge, WalkBack,
                      Report, EndScan, Filter, Searches
<1>5. opportunities' \in Seq(Opportunities) /\ OpportunitiesSound'
  <2>1. CASE opportunities' = opportunities
      BY <2>1, <1>1, StillSound DEF LiveInv, LoopTypeOK, DetectionTypeOK
  <2>2. CASE Filter
      BY <2>2, <1>1, FilterOpportunities DEF LiveInv, LoopTypeOK, DetectionTypeOK
  <2> QED
      BY <2>1, <2>2, <1>1
<1>6. GraphInv' /\ GraphTypeOK' /\ PriceCheckNeverRefuses' /\ TwoSidedTradePays'
    BY <1>1, StillSound
<1>7. LoopTypeOK'
    BY <1>1, <1>2, <1>3, <1>4, <1>5, <1>6 DEF LoopTypeOK, DetectionTypeOK, SearchInv, LiveInv
<1> QED
    BY <1>1, <1>2, <1>3, <1>5, <1>6, <1>7 DEF LiveInv, OfferSound

LEMMA DetectedKeeps ==
    ASSUME LiveInv, Detected
    PROVE  LiveInv'
<1>1. /\ at = "detect" /\ at' = (IF opportunities = <<>> THEN "poll" ELSE "execute")
      /\ tops' = tops /\ offer' = offer /\ deal' = deal /\ UNCHANGED graphState
      /\ SearchReset /\ age' = age /\ opportunities' = opportunities
    BY DEF Detected, EndDetect
<1>2. offer = None
    BY <1>1 DEF LiveInv, OfferSound
<1>3. SearchInv' /\ search' = "idle"
    BY <1>1, ResetSound DEF SearchReset
<1>4. /\ GraphInv' /\ GraphTypeOK' /\ OpportunitiesSound'
      /\ PriceCheckNeverRefuses' /\ TwoSidedTradePays'
    BY <1>1, StillSound
<1>5. LoopTypeOK'
  <2>1. DetectionTypeOK'
      BY <1>1, <1>3 DEF DetectionTypeOK, SearchInv, LiveInv, LoopTypeOK
  <2>2. CASE opportunities = <<>>
      BY <2>1, <2>2, <1>1, <1>2, <1>3, <1>4 DEF LoopTypeOK, LiveInv
  <2>3. CASE opportunities # <<>>
      BY <2>1, <2>3, <1>1, <1>2, <1>3, <1>4 DEF LoopTypeOK, LiveInv
  <2> QED
      BY <2>2, <2>3
<1> QED
    BY <1>1, <1>2, <1>3, <1>4, <1>5 DEF LiveInv, OfferSound

DealTyped ==
    deal \in {None} \cup [outcome : {"traded", "refused", "price"}, legs : [1 .. 3 -> Legs],
                          prices : [1 .. 3 -> Prices], expected : Int \cup {None}]

\* The steps of "execute" leave books, graph and search alone.
LEMMA ExecutingSound ==
    ASSUME LiveInv, at = "execute", UNCHANGED <<tops, graphState, searchVars, age>>,
           \/ opportunities' = opportunities /\ at' = at
           \/ Advance
    PROVE  /\ GraphInv' /\ SearchInv' /\ OpportunitiesSound'
           /\ offer' \in Offers \cup {None} /\ DealTyped' => LoopTypeOK'
<1>1. /\ search = "idle" /\ opportunities # <<>> /\ opportunities \in Seq(Opportunities)
      /\ OpportunitiesSound
    BY DEF LiveInv, LoopTypeOK, DetectionTypeOK
<1>2. /\ GraphInv' /\ GraphTypeOK' /\ UNCHANGED weight /\ tops' = tops
      /\ opportunities' = opportunities => OpportunitiesSound'
    BY StillSound
<1>3. SearchInv' /\ search' = search
    BY <1>1, IdleSound DEF LiveInv, searchVars
<1>4. /\ opportunities' \in Seq(Opportunities) /\ OpportunitiesSound'
      /\ at' = "execute" => opportunities' # <<>>
      /\ at' = "poll" => opportunities' = <<>>
      /\ at' \in {"poll", "execute"}
  <2>1. CASE opportunities' = opportunities /\ at' = at
      BY <2>1, <1>1, <1>2
  <2>2. CASE Advance
    <3>1. /\ opportunities' = Tail(opportunities)
          /\ at' = IF opportunities' = <<>> THEN "poll" ELSE "execute"
        BY <2>2 DEF Advance
    <3>2. opportunities' \in Seq(Opportunities) /\ OpportunitiesSound'
        BY <3>1, <1>1, <1>2, TailOpportunities
    <3> QED
        BY <3>1, <3>2
  <2> QED
      BY <2>1, <2>2
<1>5. DetectionTypeOK'
    BY <1>3, <1>4 DEF DetectionTypeOK, SearchInv, LiveInv, LoopTypeOK
<1>6. ASSUME offer' \in Offers \cup {None}, DealTyped'
      PROVE  LoopTypeOK'
    BY <1>1, <1>2, <1>3, <1>4, <1>5, <1>6 DEF LoopTypeOK, LiveInv, DealTyped
<1> QED
    BY <1>2, <1>3, <1>4, <1>6

LEMMA SkipUnpricedKeeps ==
    ASSUME LiveInv, SkipUnpriced
    PROVE  LiveInv'
<1>1. /\ at = "execute" /\ offer = None /\ offer' = offer /\ deal' = deal /\ Advance
      /\ UNCHANGED <<tops, graphState, searchVars, age>>
    BY DEF SkipUnpriced
<1>2. GraphInv' /\ SearchInv' /\ OpportunitiesSound' /\ LoopTypeOK'
  <2>1. DealTyped' /\ offer' \in Offers \cup {None}
      BY <1>1 DEF LiveInv, LoopTypeOK, DealTyped
  <2> QED
      BY <2>1, <1>1, ExecutingSound
<1>3. PriceCheckNeverRefuses' /\ TwoSidedTradePays'
    BY <1>1, StillSound
<1> QED
    BY <1>1, <1>2, <1>3 DEF LiveInv, OfferSound

\* An offer carries the prices of the books.
LEMMA OfferKeeps ==
    ASSUME LiveInv, Offer
    PROVE  LiveInv'
<1> DEFINE opp == Head(opportunities)
<1>1. /\ at = "execute" /\ at' = at /\ offer = None /\ offer' = Enriched(opp)
      /\ ~Unpriced(Enriched(opp)) /\ deal' = deal /\ opportunities' = opportunities
      /\ UNCHANGED <<tops, graphState, searchVars, age>>
    BY DEF Offer
<1>2. /\ opp \in Opportunities /\ opp = opportunities[1] /\ Len(opportunities) \in Nat \ {0}
    BY <1>1, HeadTailOf DEF LiveInv, LoopTypeOK, DetectionTypeOK
<1>3. LegsSound(opp.legs, opp.expected)
  <2>1. 1 \in 1 .. Len(opportunities)
      BY <1>2
  <2> QED
      BY <2>1, <1>2 DEF LiveInv, OpportunitiesSound
<1> HIDE DEF opp
<1>4. opp.legs \in [1 .. 3 -> Legs] /\ opp.expected \in Int \cup {None}
    BY <1>2 DEF Opportunities
<1>5. /\ offer'.legs = opp.legs /\ offer'.expected = opp.expected
      /\ offer'.prices = [i \in 1 .. 3 |-> IF TopFor(opp.legs[i]) = None THEN 0
                                           ELSE TopFor(opp.legs[i])]
      /\ offer' = [legs |-> offer'.legs, expected |-> offer'.expected,
                   prices |-> offer'.prices]
    BY <1>1 DEF Enriched
<1>6. ASSUME NEW i \in 1 .. 3
      PROVE  /\ TopFor(opp.legs[i]) \in Prices /\ TopFor(opp.legs[i]) # None
             /\ offer'.prices[i] = TopFor(opp.legs[i])
  <2>1. offer'.prices[i] # 0
      BY <1>1 DEF Unpriced
  <2>2. TopFor(opp.legs[i]) # None
      BY <2>1, <1>5
  <2>3. opp.legs[i].symbol \in Symbols
      BY <1>4 DEF Legs
  <2>4. TopFor(opp.legs[i]) \in Prices \cup {None}
      BY <2>3 DEF TopFor, LiveInv, LoopTypeOK
  <2> QED
      BY <2>2, <2>4, <1>5
<1>7. offer' \in Offers
  <2>1. offer'.prices \in [1 .. 3 -> Prices]
      BY <1>5, <1>6
  <2> QED
      BY <2>1, <1>4, <1>5 DEF Offers
<1>8. GraphInv' /\ SearchInv' /\ OpportunitiesSound' /\ LoopTypeOK'
  <2>1. DealTyped'
      BY <1>1 DEF LiveInv, LoopTypeOK, DealTyped
  <2> QED
      BY <2>1, <1>1, <1>7, ExecutingSound
<1>9. PriceCheckNeverRefuses' /\ TwoSidedTradePays' /\ weight' = weight
    BY <1>1, StillSound
<1>10. OfferSound'
  <2>1. LegsSound(offer'.legs, offer'.expected)
      BY <1>3, <1>5
  <2>2. LegsSound(offer.legs, offer.expected)'
      BY <2>1, <1>9 DEF LegsSound, LegSound, LegsWeight, ClosedLegs, FeeThreshold
  <2>3. ASSUME NEW i \in 1 .. 3
        PROVE  TopFor(offer.legs[i])' # None /\ offer'.prices[i] = TopFor(offer.legs[i])'
    <3>1. offer'.legs[i] = opp.legs[i] /\ tops' = tops
        BY <1>1, <1>5
    <3>2. TopFor(offer.legs[i])' = TopFor(opp.legs[i])
        BY <3>1 DEF TopFor
    <3> QED
        BY <3>2, <1>6
  <2> QED
      BY <2>2, <2>3, <1>1 DEF OfferSound
<1> QED
    BY <1>8, <1>9, <1>10 DEF LiveInv

\* A trade pays what detection promised, because the prices it is made at are
\* those of the rates as long as the books have both sides.
LEMMA TradePays ==
    ASSUME LoopTypeOK, GraphInv, OfferSound, offer # None, ClosedLegs(offer.legs),
           \A i \in 1 .. 3 : TwoSided(offer.legs[i].symbol)
    PROVE  /\ offer.expected # None
           /\ LegGain(offer.legs[1], offer.prices[1]) + LegGain(offer.legs[2], offer.prices[2])
                + LegGain(offer.legs[3], offer.prices[3]) >= offer.expected + FeeThreshold
<1> USE DetectionAssumption
<1> DEFINE w(i) == weight[<<offer.legs[i].from, offer.legs[i].to>>]
           g(i) == LegGain(offer.legs[i], offer.prices[i])
<1>1. offer \in Offers
    BY DEF LoopTypeOK
<1>2. ASSUME NEW i \in 1 .. 3
      PROVE  w(i) \in Int /\ g(i) = -w(i)
  <2>1. offer.legs[i] \in Legs /\ LegSound(offer.legs[i])
      BY <1>1 DEF Offers, OfferSound, LegsSound
  <2>2. offer.prices[i] = TopFor(offer.legs[i])
      BY DEF OfferSound
  <2> QED
      BY <2>1, <2>2, LegGainIsWeight
<1>3. /\ offer.expected # None
      /\ offer.expected + FeeThreshold <= -(w(1) + w(2) + w(3))
    BY DEF OfferSound, LegsSound, LegsWeight
<1>4. offer.expected \in Int /\ FeeThreshold \in Int
    BY <1>1, <1>3 DEF Offers, FeeThreshold
<1>5. /\ w(1) \in Int /\ w(2) \in Int /\ w(3) \in Int
      /\ g(1) = -w(1) /\ g(2) = -w(2) /\ g(3) = -w(3)
    BY <1>2
<1> HIDE DEF w, g
<1>6. g(1) + g(2) + g(3) >= offer.expected + FeeThreshold
    BY <1>3, <1>4, <1>5
<1> QED
    BY <1>3, <1>6 DEF g

LEMMA ExecuteKeeps ==
    ASSUME LiveInv, Execute
    PROVE  LiveInv'
<1>1. /\ at = "execute" /\ offer # None /\ offer' = None /\ Advance
      /\ tops' = tops /\ UNCHANGED <<tops, graphState, searchVars, age>>
    BY DEF Execute
<1>2. PICK outcome \in Outcomes :
        deal' = [outcome |-> outcome, legs |-> offer.legs, prices |-> offer.prices,
                 expected |-> offer.expected]
    BY DEF Execute
<1>3. outcome \in {"refused", "traded"}
    BY <1>1, PriceCheckPasses DEF Outcomes, LiveInv
<1>4. offer \in Offers
    BY <1>1 DEF LiveInv, LoopTypeOK
<1>5. GraphInv' /\ SearchInv' /\ OpportunitiesSound'
    BY <1>1, ExecutingSound
<1>6. /\ deal'.outcome = outcome /\ deal'.legs = offer.legs /\ deal'.prices = offer.prices
      /\ deal'.expected = offer.expected
    BY <1>2
<1>7. LoopTypeOK'
  <2>1. DealTyped'
      BY <1>2, <1>3, <1>4 DEF Offers, DealTyped
  <2> QED
      BY <2>1, <1>1, ExecutingSound
<1>8. PriceCheckNeverRefuses'
    BY <1>3, <1>6 DEF PriceCheckNeverRefuses
<1>9. TwoSidedTradePays'
    BY <1>1, <1>6, TradePays DEF LiveInv, TwoSidedTradePays, TwoSided, ClosedLegs, LegGain, FeeThreshold
<1> QED
    BY <1>1, <1>5, <1>7, <1>8, <1>9 DEF LiveInv, OfferSound

LEMMA InitLive == Init => LiveInv
<1> SUFFICES ASSUME Init
             PROVE  LiveInv
    OBVIOUS
<1>1. /\ currencies = <<>> /\ neighbours = [c \in Currencies |-> <<>>]
      /\ weight = [p \in Pairs |-> None] /\ symbolMap = [p \in Pairs |-> None]
      /\ SearchInit /\ age = 0 /\ opportunities = <<>>
      /\ at = "poll" /\ tops = [s \in Symbols |-> <<None, None>>] /\ offer = None /\ deal = None
    BY DEF Init, GraphInit, DetectionInit
<1>2. SearchInv /\ search = "idle"
    BY <1>1, InitSound DEF SearchInit
<1>3. GraphTypeOK
    BY <1>1, EmptySound DEF GraphTypeOK
<1>4. DetectionTypeOK
    BY <1>1, <1>2, EmptySound, DetectionAssumption DEF DetectionTypeOK, SearchInv
<1>5. LoopTypeOK
    BY <1>1, <1>2, <1>3, <1>4 DEF LoopTypeOK
<1>6. \A s \in Symbols : ~TwoSided(s)
    BY <1>1 DEF TwoSided
<1>7. EdgesWeighted
    BY <1>1, EmptySound DEF EdgesWeighted
<1>8. SymbolTradesPair
    BY <1>1 DEF SymbolTradesPair, Pairs
<1>9. GraphInv
    BY <1>3, <1>6, <1>7, <1>8 DEF GraphInv, GraphSound, BooksInGraph
<1> QED
    BY <1>1, <1>2, <1>5, <1>9, EmptySound DEF LiveInv, OpportunitiesSound, OfferSound,
       PriceCheckNeverRefuses, TwoSidedTradePays

LEMMA StutterLive == LiveInv /\ UNCHANGED vars => LiveInv'
<1> SUFFICES ASSUME LiveInv, UNCHANGED vars
             PROVE  LiveInv'
    OBVIOUS
<1>1. /\ UNCHANGED <<at, tops, offer, deal, age, opportunities>>
      /\ UNCHANGED graphState /\ UNCHANGED searchVars
    BY DEF vars, loopVars, detectionVars
<1>2. UNCHANGED <<currencies, neighbours, weight, symbolMap>>
    BY <1>1 DEF graphState
<1>3. UNCHANGED <<search, dist, pred, count, queue, node, edges, unscanned, path, found>>
    BY <1>1 DEF searchVars
<1>4. SearchInv'
    BY <1>1, StillSearch DEF LiveInv
<1>5. /\ GraphInv' /\ GraphTypeOK' /\ OpportunitiesSound'
      /\ PriceCheckNeverRefuses' /\ TwoSidedTradePays'
    BY <1>1, StillSound
<1>6. LoopTypeOK'
    BY <1>1, <1>3, <1>4, <1>5 DEF LiveInv, LoopTypeOK, DetectionTypeOK, SearchInv
<1>7. OfferSound'
    BY <1>1, <1>2 DEF LiveInv, OfferSound, LegsSound, LegSound, LegsWeight, ClosedLegs, TopFor
<1> QED
    BY <1>4, <1>5, <1>6, <1>7 DEF LiveInv

\* The inductive invariant holds of every behaviour of the loop.
THEOREM LiveInvariant == Spec => []LiveInv
<1>1. LiveInv /\ [Next]_vars => LiveInv'
  <2> SUFFICES ASSUME LiveInv, [Next]_vars
               PROVE  LiveInv'
      OBVIOUS
  <2>1. CASE UNCHANGED vars
      BY <2>1, StutterLive
  <2>2. CASE Poll
      BY <2>2, PollKeeps
  <2>3. CASE Wait
      BY <2>3, WaitKeeps
  <2>4. CASE Detect
      BY <2>4, DetectKeeps
  <2>5. CASE Searching
      BY <2>5, SearchingKeeps
  <2>6. CASE Detected
      BY <2>6, DetectedKeeps
  <2>7. CASE SkipUnpriced
      BY <2>7, SkipUnpricedKeeps
  <2>8. CASE Offer
      BY <2>8, OfferKeeps
  <2>9. CASE Execute
      BY <2>9, ExecuteKeeps
  <2> QED
      BY <2>1, <2>2, <2>3, <2>4, <2>5, <2>6, <2>7, <2>8, <2>9 DEF Next, Step
<1> QED
    BY <1>1, InitLive, PTL DEF Spec

\* The state of detection and of the loop is well formed at every step.
THEOREM LoopTypesHold == Spec => []LoopTypeOK
<1>1. LiveInv => LoopTypeOK
    BY DEF LiveInv
<1> QED
    BY <1>1, LiveInvariant, PTL

\* ExchangeRateGraph::detect never reports a triangle with more profit than its
\* rates make, for any number of currencies and any rates, although it may stop
\* before its distances are the shortest.
THEOREM ProfitIsNotOverstated == Spec => []ProfitNotOverstated
<1>1. LiveInv => ProfitNotOverstated
    BY ProfitSound DEF LiveInv
<1> QED
    BY <1>1, LiveInvariant, PTL

\* check_opportunity refuses nothing that run_loop gives it.
THEOREM PriceCheckIsVacuous == Spec => []PriceCheckNeverRefuses
<1>1. LiveInv => PriceCheckNeverRefuses
    BY DEF LiveInv
<1> QED
    BY <1>1, LiveInvariant, PTL

\* What run_loop trades in books with both sides pays the fees and the profit it
\* was detected with.
THEOREM TwoSidedTradesPay == Spec => []TwoSidedTradePays
<1>1. LiveInv => TwoSidedTradePays
    BY DEF LiveInv
<1> QED
    BY <1>1, LiveInvariant, PTL
-------------------------------------------------------------------------------
LEMMA BookMovesWhole ==
    ASSUME GraphSound, EdgesWhole, NEW s \in Symbols, NEW top \in Moves[s],
           BookMoves(s, top[1], top[2])
    PROVE  EdgesWhole'
<1>1. Base[s] \in Currencies /\ Quote[s] \in Currencies /\ Base[s] # Quote[s]
    BY SymbolEnds
<1>2. top \in (Prices \cup {None}) \X (Prices \cup {None})
    BY LoopAssumption
<1>3. CASE top[1] # None /\ top[2] # None
  <2>1. top[1] \in Prices /\ top[2] \in Prices
      BY <1>2, <1>3
  <2>2. SetRate(Base[s], Quote[s], top[1], top[2])
      BY <1>3 DEF BookMoves
  <2> QED
      BY <2>1, <2>2, <1>1, PriceFacts, SetRateWhole
<1>4. CASE ~(top[1] # None /\ top[2] # None)
  <2>1. /\ currencies' = AddOnce(AddOnce(currencies, Base[s]), Quote[s])
        /\ neighbours' = neighbours /\ weight' = weight
      BY <1>4 DEF BookMoves
  <2>2. currencies \in Seq(Currencies)
      BY DEF GraphSound, GraphTypeOK
  <2>3. \A y : Listed(currencies, y) => Listed(currencies', y)
      BY <2>1, <2>2, <1>1, AddTwoKeeps
  <2> QED
      BY <2>1, <2>3 DEF EdgesWhole
<1> QED
    BY <1>3, <1>4

\* The invariant of what detection finds.
FindInv == EdgesWhole /\ CompleteInv

LEMMA InitFind == Init => FindInv
<1> SUFFICES ASSUME Init
             PROVE  FindInv
    OBVIOUS
<1>1. SearchInit /\ weight = [p \in Pairs |-> None]
    BY DEF Init, GraphInit, DetectionInit
<1>2. CompleteInv
    BY <1>1, InitComplete
<1> QED
    BY <1>1, <1>2 DEF FindInv, EdgesWhole, Pairs

\* A step that leaves the graph alone.
LEMMA WholeStill ==
    ASSUME EdgesWhole, UNCHANGED graphState
    PROVE  EdgesWhole'
    BY DEF EdgesWhole, graphState

LEMMA StutterFind ==
    ASSUME FindInv, UNCHANGED vars
    PROVE  FindInv'
<1>1. UNCHANGED graphState /\ UNCHANGED searchVars
    BY DEF vars, detectionVars
<1> QED
    BY <1>1, WholeStill, StillComplete DEF FindInv

LEMMA NextFind ==
    ASSUME LiveInv, FindInv, Next
    PROVE  FindInv'
<1>1. GraphSound /\ GraphTypeOK /\ SearchInv /\ EdgesWhole /\ CompleteInv
    BY DEF LiveInv, GraphInv, GraphSound, FindInv
<1>2. CASE Poll
  <2>1. UNCHANGED <<search, found>> /\ search = "idle"
      BY <1>2 DEF Poll, searchVars, LiveInv, LoopTypeOK
  <2>2. PICK s \in Symbols :
          \E top \in Moves[s] : BookMoves(s, top[1], top[2])
      BY <1>2 DEF Poll
  <2>3. EdgesWhole'
      BY <2>2, <1>1, BookMovesWhole
  <2> QED
      BY <2>1, <2>3, <1>1, IdleComplete DEF FindInv
<1>3. CASE Wait
  <2>1. UNCHANGED <<search, found>> /\ search = "idle" /\ UNCHANGED graphState
      BY <1>3 DEF Wait, searchVars, LiveInv, LoopTypeOK
  <2> QED
      BY <2>1, <1>1, IdleComplete, WholeStill DEF FindInv
<1>4. CASE Detect
  <2>1. search = "idle" /\ currencies # <<>> /\ StartSearch /\ UNCHANGED graphState
      BY <1>4 DEF Detect, BeginDetect, MayDetect
  <2> QED
      BY <2>1, <1>1, StartComplete, DetectionAssumption, WholeStill DEF FindInv
<1>5. CASE Searching
  <2>1. UNCHANGED graphState /\ (SearchStep \/ Filter)
      BY <1>5 DEF Searching, DetectStep
  <2> QED
      BY <2>1, <1>1, SearchStepComplete, FilterComplete, DetectionAssumption, WholeStill DEF FindInv
<1>6. CASE Detected
  <2>1. UNCHANGED graphState /\ SearchReset
      BY <1>6 DEF Detected, EndDetect
  <2> QED
      BY <2>1, <1>1, ResetComplete, WholeStill DEF FindInv
<1>7. CASE SkipUnpriced \/ Offer \/ Execute
  <2>1. UNCHANGED <<search, found>> /\ search = "idle" /\ UNCHANGED graphState
      BY <1>7 DEF SkipUnpriced, Offer, Execute, searchVars, LiveInv, LoopTypeOK
  <2> QED
      BY <2>1, <1>1, IdleComplete, WholeStill DEF FindInv
<1> QED
    BY <1>2, <1>3, <1>4, <1>5, <1>6, <1>7 DEF Next, Step

THEOREM FindInvariant == Spec => []FindInv
<1>1. LiveInv /\ FindInv /\ [Next]_vars => FindInv'
    BY NextFind, StutterFind
<1> QED
    BY <1>1, InitFind, LiveInvariant, PTL DEF Spec

\* ExchangeRateGraph::detect reports something if and only if a cycle of rates
\* within reach of the first node gains, for any number of currencies and any
\* rates, although it gives up when a node was queued as often as there are nodes;
\* and it reports no infinite profit.
THEOREM DetectionIsComplete == Spec => []DetectionComplete
<1>1. LiveInv /\ FindInv => DetectionComplete
    BY CompleteFound, DetectionAssumption DEF LiveInv, GraphInv, GraphSound, FindInv
<1> QED
    BY <1>1, LiveInvariant, FindInvariant, PTL

\* A route of three legs that does not return to its start is only reported while
\* the two rates of some pair gain on each other.
THEOREM OpenRoutesNeedCrossedPairs == Spec => []OpenRouteNeedsCrossedPair
<1>1. FindInv => OpenRouteNeedsCrossedPair
    BY DEF FindInv, CompleteInv
<1> QED
    BY <1>1, FindInvariant, PTL
===============================================================================
