------------------------------ MODULE FeedProofs ------------------------------
(***************************************************************************)
(* Theorems about FeedEngine, for every set of symbols no two of which     *)
(* trade the same currencies, every batch of events and every              *)
(* configuration.                                                          *)
(***************************************************************************)
EXTENDS MCFeedEngine, FiniteSetTheorems, TLAPS

-------------------------------------------------------------------------------
\* Powers of two are natural numbers: they count the subsets of a set.
LEMMA PowerOfTwo ==
    ASSUME NEW n \in Nat
    PROVE  2 ^ n \in Nat
<1>1. IsFiniteSet(1 .. n) /\ Cardinality(1 .. n) = n
    BY FS_Interval
<1>2. IsFiniteSet(SUBSET (1 .. n)) /\ Cardinality(SUBSET (1 .. n)) = 2 ^ n
    BY <1>1, FS_SUBSET
<1> QED
    BY <1>2, FS_CardinalityType

\* A delay never exceeds the configured maximum.
LEMMA DelayBounded ==
    ASSUME NEW n \in Nat
    PROVE  Delay(n) \in 0 .. ReconnectMax
<1> DEFINE doublings == IF n < MaxDoublings THEN n ELSE MaxDoublings
           power == 2 ^ doublings
<1>1. doublings \in Nat
    BY FeedAssumption
<1>2. power \in Nat
    BY <1>1, PowerOfTwo
<1>3. Delay(n) = IF ReconnectBase * power < ReconnectMax
                 THEN ReconnectBase * power ELSE ReconnectMax
    BY DEF Delay
<1> HIDE DEF power
<1>4. ReconnectBase * power \in Nat
    BY <1>2, FeedAssumption
<1> QED
    BY <1>3, <1>4, FeedAssumption

\* schedule_reconnect keeps the types of what it writes.
LEMMA ScheduleType ==
    ASSUME attempt \in 0 .. MaxAttempt, ScheduleReconnect
    PROVE  attempt' \in 0 .. MaxAttempt /\ reconnectIn' \in 0 .. ReconnectMax
<1>1. attempt' \in 0 .. MaxAttempt
    BY FeedAssumption DEF ScheduleReconnect
<1>2. Delay(attempt') \in 0 .. ReconnectMax
    BY <1>1, DelayBounded
<1> QED
    BY <1>1, <1>2 DEF ScheduleReconnect

\* Every pair of currencies of a symbol is a pair of nodes.
LEMMA SymbolPairs ==
    ASSUME NEW s \in Symbols
    PROVE  /\ Base[s] \in Currencies /\ Quote[s] \in Currencies
           /\ Base[s] # Quote[s]
           /\ <<Base[s], Quote[s]>> \in Graph!Pairs
           /\ <<Quote[s], Base[s]>> \in Graph!Pairs
BY PairAssumption DEF Graph!Pairs

\* A list stays a list when something is added to it.
LEMMA AddOnceType ==
    ASSUME NEW S, NEW list \in Seq(S), NEW x \in S
    PROVE  Graph!AddOnce(list, x) \in Seq(S)
BY DEF Graph!AddOnce

\* The first level of a side has one of the prices, and None is not a number.
LEMMA TopType ==
    ASSUME NEW side \in [Levels -> Prices \cup {None}]
    PROVE  /\ Top(side) \in Prices \cup {None}
           /\ None \notin Int
<1> DEFINE occupied == {l \in Levels : side[l] # None}
<1>1. CASE occupied = {}
    BY <1>1, FeedAssumption DEF Top
<1>2. CASE occupied # {}
  <2>1. PICK l \in occupied : \A m \in occupied : l <= m
      BY <1>2, FeedAssumption
  <2>2. Top(side) = side[CHOOSE k \in occupied : \A m \in occupied : k <= m]
      BY <1>2 DEF Top
  <2> QED
      BY <2>1, <2>2, FeedAssumption
<1> QED
    BY <1>1, <1>2

\* set_rate and set_symbol_for keep the types of the graph, and so does adding
\* the currencies of a new book.
LEMMA GraphType ==
    ASSUME FeedTypeOK, NEW e \in Events, UpdateGraph(e),
           books' \in [Symbols -> [Sides -> [Levels -> Prices \cup {None}]]],
           e.symbol \in Symbols
    PROVE  Graph!GraphTypeOK'
<1> DEFINE base == Base[e.symbol]
           quote == Quote[e.symbol]
           bid == Top(books'[e.symbol]["Bid"])
           ask == Top(books'[e.symbol]["Ask"])
<1>1. base \in Currencies /\ quote \in Currencies
    BY SymbolPairs
<1>2. bid \in Prices \cup {None} /\ ask \in Prices \cup {None}
    BY TopType DEF Sides
<1>3. Graph!GraphTypeOK
    BY DEF FeedTypeOK
<1>4. Graph!AddOnce(Graph!AddOnce(currencies, base), quote) \in Seq(Currencies)
    BY <1>1, <1>3, AddOnceType DEF Graph!GraphTypeOK
<1>5. CASE bid # None /\ ask # None
  <2>1. Graph!SetRate(base, quote, bid, ask)
        /\ Graph!SetSymbolFor(base, quote, e.symbol)
      BY <1>5 DEF UpdateGraph
  <2>2. bid \in Prices /\ ask \in Prices /\ -Log[bid] \in Int /\ Log[ask] \in Int
    <3>1. bid \in Prices /\ ask \in Prices
        BY <1>2, <1>5
    <3> HIDE DEF bid, ask
    <3>2. Log[bid] \in Int /\ Log[ask] \in Int
        BY <3>1, FeedAssumption
    <3> QED
        BY <3>1, <3>2
  <2>3. currencies' \in Seq(Currencies)
      BY <2>1, <1>4 DEF Graph!SetRate
  <2>4. weight' \in [Graph!Pairs -> Int \cup {None}]
      BY <2>1, <2>2, <1>3 DEF Graph!SetRate, Graph!GraphTypeOK
  <2>5. \A c, d \in Currencies : Graph!AddOnce(neighbours[c], d) \in Seq(Currencies)
      BY <1>3, AddOnceType DEF Graph!GraphTypeOK
  <2>6. neighbours' \in [Currencies -> Seq(Currencies)]
      BY <2>1, <2>5, <1>1, <1>3 DEF Graph!SetRate, Graph!GraphTypeOK
  <2>7. symbolMap' \in [Graph!Pairs -> Symbols \cup {None}]
      BY <2>1, <1>3 DEF Graph!SetSymbolFor, Graph!GraphTypeOK
  <2> QED
      BY <2>3, <2>4, <2>6, <2>7 DEF Graph!GraphTypeOK, Graph!Pairs
<1>6. CASE ~(bid # None /\ ask # None)
  <2>1. currencies' \in Seq(Currencies) /\ UNCHANGED <<neighbours, weight, symbolMap>>
      BY <1>4, <1>6 DEF UpdateGraph
  <2> QED
      BY <2>1, <1>3 DEF Graph!GraphTypeOK, Graph!Pairs
<1> QED
    BY <1>5, <1>6

\* The initial state has the types.
LEMMA InitType == Init => FeedTypeOK
<1> SUFFICES ASSUME Init PROVE FeedTypeOK
    OBVIOUS
<1>1. Graph!GraphTypeOK
    BY DEF Init, Graph!GraphInit, Graph!GraphTypeOK
<1>2. books \in [Symbols -> [Sides -> [Levels -> Prices \cup {None}]]]
    BY DEF Init, EmptySide
<1>3. /\ attempt \in 0 .. MaxAttempt /\ errors \in 0 .. ErrorCap
      /\ inbox \in Seq(Events)
    BY FeedAssumption DEF Init
<1> QED
    BY <1>1, <1>2, <1>3 DEF Init, FeedTypeOK

\* Every step keeps the types.
LEMMA StepType ==
    ASSUME FeedTypeOK, [Next]_vars
    PROVE  FeedTypeOK'
<1> USE FeedAssumption
<1>1. OneMoreError \in 0 .. ErrorCap
    BY DEF FeedTypeOK, OneMoreError
<1>2. ASSUME NEW s \in Symbols, Subscribe(s) PROVE FeedTypeOK'
    BY <1>1, <1>2 DEF Subscribe, FeedTypeOK, dataVars, graphVars,
         Graph!GraphTypeOK, Graph!Pairs
<1>3. ASSUME ScheduleReconnect
      PROVE  attempt' \in 0 .. MaxAttempt /\ reconnectIn' \in 0 .. ReconnectMax
    BY <1>3, ScheduleType DEF FeedTypeOK
<1>4. CASE Connect
  <2>1. CASE Connected /\ UNCHANGED <<streams, refused>>
      BY <1>4, <2>1 DEF Connect, Connected, FeedTypeOK, dataVars, graphVars,
           Graph!GraphTypeOK, Graph!Pairs
  <2>2. CASE ConnectFailed
      BY <1>1, <1>3, <1>4, <2>2 DEF Connect, ConnectFailed, FeedTypeOK, dataVars,
           graphVars, Graph!GraphTypeOK, Graph!Pairs
  <2> QED
      BY <1>4, <2>1, <2>2 DEF Connect
<1>5. CASE ReconnectOk
    BY <1>5 DEF ReconnectOk, Connected, FeedTypeOK, startVars, dataVars, graphVars,
         Graph!GraphTypeOK, Graph!Pairs
<1>6. CASE ReconnectFails
    BY <1>1, <1>3, <1>6 DEF ReconnectFails, ConnectFailed, FeedTypeOK, startVars,
         dataVars, graphVars, Graph!GraphTypeOK, Graph!Pairs
<1>7. CASE PollOk
    BY <1>7 DEF PollOk, FeedTypeOK, startVars, graphVars, adapterVars,
         Graph!GraphTypeOK, Graph!Pairs
<1>8. CASE PollFails
    BY <1>1, <1>3, <1>8 DEF PollFails, FeedTypeOK, startVars, dataVars, graphVars,
         adapterVars, Graph!GraphTypeOK, Graph!Pairs
<1>9. CASE ApplyBook
  <2> DEFINE e == Head(inbox)
  <2>1. e \in Events /\ Tail(inbox) \in Seq(Events)
      BY <1>9 DEF ApplyBook, FeedTypeOK
  <2>2. e.kind = "book" /\ UpdateGraph(e)
        /\ books' = [books EXCEPT ![e.symbol][e.side][e.level] =
                       IF e.action = "Upsert" THEN e.price ELSE None]
      BY <1>9 DEF ApplyBook
  <2>3. e.symbol \in Symbols /\ e.side \in Sides /\ e.level \in Levels
        /\ e.price \in Prices
      BY <2>1, <2>2 DEF Events
  <2>4. books' \in [Symbols -> [Sides -> [Levels -> Prices \cup {None}]]]
    <3> DEFINE price == IF e.action = "Upsert" THEN e.price ELSE None
               side == [books[e.symbol][e.side] EXCEPT ![e.level] = price]
               book == [books[e.symbol] EXCEPT ![e.side] = side]
    <3>1. books' = [books EXCEPT ![e.symbol] = book]
        BY <2>2
    <3>2. price \in Prices \cup {None}
        BY <2>3
    <3>3. books \in [Symbols -> [Sides -> [Levels -> Prices \cup {None}]]]
        BY DEF FeedTypeOK
    <3> HIDE DEF e, price
    <3>4. side \in [Levels -> Prices \cup {None}]
        BY <2>3, <3>2, <3>3
    <3> HIDE DEF side
    <3>5. book \in [Sides -> [Levels -> Prices \cup {None}]]
        BY <2>3, <3>3, <3>4
    <3> HIDE DEF book
    <3> QED
        BY <2>3, <3>1, <3>3, <3>5
  <2>5. Graph!GraphTypeOK'
      BY <2>1, <2>2, <2>3, <2>4, GraphType
  <2> QED
      BY <1>9, <2>1, <2>4, <2>5 DEF ApplyBook, FeedTypeOK, startVars, connVars,
           adapterVars
<1>10. CASE ApplyTrade
    BY <1>10 DEF ApplyTrade, FeedTypeOK, startVars, connVars, graphVars, adapterVars,
         Graph!GraphTypeOK, Graph!Pairs
<1>11. CASE LinkDrops
    BY <1>11 DEF LinkDrops, FeedTypeOK, startVars, connVars, dataVars, graphVars,
         Graph!GraphTypeOK, Graph!Pairs
<1>12. CASE Tick
    BY <1>12 DEF Tick, FeedTypeOK, startVars, graphVars, adapterVars,
         Graph!GraphTypeOK, Graph!Pairs
<1>13. CASE UNCHANGED vars
    BY <1>13 DEF vars, FeedTypeOK, startVars, connVars, dataVars, graphVars,
         adapterVars, Graph!GraphTypeOK, Graph!Pairs
<1> QED
    BY <1>2, <1>4, <1>5, <1>6, <1>7, <1>8, <1>9, <1>10, <1>11, <1>12, <1>13
    DEF Next, Startup, Poll, Apply

\* Every variable of the feed and of the graph keeps its type; in particular no
\* delay exceeds reconnect_max_ms and every weight is the logarithm of a price.
THEOREM FeedTypeCorrect == Spec => []FeedTypeOK
<1>1. FeedTypeOK /\ [Next]_vars => FeedTypeOK'
    BY StepType
<1> QED
    BY <1>1, InitType, PTL DEF Spec

-------------------------------------------------------------------------------
\* What the connection's variables are before connect(): subscribe may count
\* errors then, but nothing reads them, and the adapter has refused nothing yet.
NotStarted ==
    ~started => /\ ~connected
                /\ link = "down"
                /\ streams = subscribed
                /\ refused = {}

\* The inductive invariant of the connection.
LinkInv == ConnectedIsClean /\ NotStarted /\ StreamsUnlessRefused

LEMMA LinkInvInit == Init => LinkInv
BY DEF Init, LinkInv, ConnectedIsClean, NotStarted, StreamsUnlessRefused

\* Every step keeps the invariant of the connection.
LEMMA LinkInvStep ==
    ASSUME FeedTypeOK, LinkInv, [Next]_vars
    PROVE  LinkInv'
<1> USE DEF LinkInv, ConnectedIsClean, NotStarted, StreamsUnlessRefused
<1>1. ASSUME NEW s \in Symbols, Subscribe(s) PROVE LinkInv'
    BY <1>1 DEF Subscribe
<1>2. CASE Connect
  <2>1. CASE Connected /\ UNCHANGED <<streams, refused>>
    <3>1. 0 < MaxPollErrors
        BY FeedAssumption
    <3> QED
        BY <1>2, <2>1, <3>1 DEF Connect, Connected
  <2>2. CASE ConnectFailed
      BY <1>2, <2>2 DEF Connect, ConnectFailed
  <2> QED
      BY <1>2, <2>1, <2>2 DEF Connect
<1>3. CASE ReconnectOk
  <2>1. 0 < MaxPollErrors
      BY FeedAssumption
  <2> QED
      BY <1>3, <2>1 DEF ReconnectOk, Connected, startVars, dataVars, Polling
<1>4. CASE ReconnectFails
    BY <1>4 DEF ReconnectFails, ConnectFailed, startVars, Polling
<1>5. CASE PollOk
  <2>1. errors' < MaxPollErrors
      BY <1>5, FeedAssumption DEF PollOk
  <2> QED
      BY <1>5, <2>1 DEF PollOk, startVars, adapterVars, Polling
<1>6. CASE PollFails
  <2>1. CASE errors' >= MaxPollErrors
      BY <1>6, <2>1 DEF PollFails, startVars, adapterVars, Polling
  <2>2. CASE ~(errors' >= MaxPollErrors)
    <3>1. errors' < MaxPollErrors
        BY <1>6, <2>2, FeedAssumption DEF PollFails, OneMoreError, FeedTypeOK
    <3> QED
        BY <1>6, <2>2, <3>1 DEF PollFails, startVars, adapterVars, Polling
  <2> QED
      BY <2>1, <2>2
<1>7. CASE ApplyBook
    BY <1>7 DEF ApplyBook, startVars, connVars, adapterVars
<1>8. CASE ApplyTrade
    BY <1>8 DEF ApplyTrade, startVars, connVars, adapterVars
<1>9. CASE LinkDrops
    BY <1>9 DEF LinkDrops, startVars, connVars
<1>10. CASE Tick
    BY <1>10 DEF Tick, startVars, adapterVars
<1>11. CASE UNCHANGED vars
    BY <1>11 DEF vars, startVars, connVars, adapterVars
<1> QED
    BY <1>1, <1>2, <1>3, <1>4, <1>5, <1>6, <1>7, <1>8, <1>9, <1>10, <1>11
    DEF Next, Startup, Poll, Apply

LEMMA LinkInvHolds == Spec => []LinkInv
<1>1. FeedTypeOK /\ LinkInv /\ [Next]_vars => LinkInv'
    BY LinkInvStep
<1> QED
    BY <1>1, LinkInvInit, FeedTypeCorrect, PTL DEF Spec

\* connect and try_reconnect reset all that failures left behind, and poll
\* disconnects before a fifth error can stay: a connected feed is clean.
THEOREM ConnectedIsCleanHolds == Spec => []ConnectedIsClean
<1>1. LinkInv => ConnectedIsClean
    BY DEF LinkInv
<1> QED
    BY <1>1, LinkInvHolds, PTL

\* subscribe and try_reconnect are the only ways to change what is streamed on a
\* live link: only a refusal at a reconnection loses a symbol.
THEOREM StreamsUnlessRefusedHolds == Spec => []StreamsUnlessRefused
<1>1. LinkInv => StreamsUnlessRefused
    BY DEF LinkInv
<1> QED
    BY <1>1, LinkInvHolds, PTL

-------------------------------------------------------------------------------
\* While the link is down nothing arrives, so the silence is at least as long.
SilentSinceDown ==
    /\ downFor \in 0 .. MessageTimeout + 1
    /\ link = "down" => messageAge = None \/ messageAge >= downFor

LEMMA SilenceStep ==
    ASSUME FeedTypeOK, FeedTypeOK', SilentSinceDown, [MCNext]_mcVars
    PROVE  SilentSinceDown'
<1>1. CASE UNCHANGED mcVars
    BY <1>1 DEF mcVars, vars, dataVars, adapterVars, SilentSinceDown
<1>2. CASE MCNext /\ (link' = "up" \/ link = "up")
  <2>1. downFor' = 0
      BY <1>2 DEF MCNext
  <2>2. messageAge' \in Int \cup {None} /\ (messageAge' # None => messageAge' >= 0)
      BY FeedAssumption DEF FeedTypeOK
  <2> QED
      BY <2>1, <2>2, FeedAssumption DEF SilentSinceDown
<1>3. CASE MCNext /\ link' = "down" /\ link = "down"
  <2>1. downFor' = IF Tick THEN Later(downFor, MessageTimeout + 1) ELSE downFor
      BY <1>3 DEF MCNext
  <2>2. CASE Tick
    <3>1. messageAge' = IF messageAge \in {None, MessageTimeout + 1} THEN messageAge
                        ELSE messageAge + 1
        BY <2>2 DEF Tick
    <3>2. messageAge \in 0 .. MessageTimeout + 1 \cup {None} /\ MessageTimeout \in Nat
        BY FeedAssumption DEF FeedTypeOK
    <3>3. downFor' = IF downFor = MessageTimeout + 1 THEN downFor ELSE downFor + 1
        BY <2>1, <2>2, FeedAssumption DEF Later, SilentSinceDown
    <3> QED
        BY <1>3, <3>1, <3>2, <3>3, FeedAssumption DEF SilentSinceDown
  <2>3. CASE ~Tick
    <3>1. messageAge' = messageAge
      <4>1. Startup \/ Poll \/ Apply \/ LinkDrops
          BY <1>3, <2>3 DEF MCNext, Next
      <4>2. CASE Startup
          BY <4>2 DEF Startup, Connect, Subscribe, dataVars
      <4>3. CASE Poll
          BY <1>3, <4>3 DEF Poll, ReconnectOk, ReconnectFails, PollOk, PollFails, dataVars
      <4>4. CASE Apply \/ LinkDrops
          BY <4>4 DEF Apply, ApplyBook, ApplyTrade, LinkDrops, dataVars
      <4> QED
          BY <4>1, <4>2, <4>3, <4>4
    <3> QED
        BY <1>3, <2>1, <2>3, <3>1 DEF SilentSinceDown
  <2> QED
      BY <2>2, <2>3
<1>4. link' \in {"up", "down"} /\ link \in {"up", "down"}
    BY DEF FeedTypeOK
<1> QED
    BY <1>1, <1>2, <1>3, <1>4

\* DeadLinkReported: once the link has been down for longer than the message timeout,
\* health() says so, whether or not poll() has failed since.
THEOREM DeadLinkReportedHolds == MCSpec => []DeadLinkReported
<1>1. MCInit => Init /\ SilentSinceDown
    BY FeedAssumption DEF MCInit, Init, SilentSinceDown
<1>2. [MCNext]_mcVars => [Next]_vars
    BY DEF MCNext, mcVars
<1>3. FeedTypeOK /\ SilentSinceDown => DeadLinkReported
    BY FeedAssumption DEF FeedTypeOK, SilentSinceDown, DeadLinkReported, Degraded
<1>4. MCInit => FeedTypeOK
    BY <1>1, InitType
<1>5. FeedTypeOK /\ [Next]_vars => FeedTypeOK'
    BY StepType
<1>6. FeedTypeOK /\ FeedTypeOK' /\ SilentSinceDown /\ [MCNext]_mcVars => SilentSinceDown'
    BY SilenceStep
<1> QED
    BY <1>1, <1>2, <1>3, <1>4, <1>5, <1>6, PTL DEF MCSpec

-------------------------------------------------------------------------------
\* The backoff.  What has passed since a reconnection was scheduled and what is
\* left until it make up the delay that was scheduled, until the clock of the
\* history is full; a connected feed has nothing scheduled.
DelayRuns ==
    started /\ ~connected =>
        /\ reconnectIn \in Nat
        /\ sinceSchedule \in 0 .. ReconnectMax + 1
        /\ sinceSchedule + reconnectIn >= Delay(attempt) \/ sinceSchedule > ReconnectMax

\* Every step keeps the sum.
LEMMA DelayRunsStep ==
    ASSUME FeedTypeOK, LinkInv, DelayRuns, [MCNext]_mcVars
    PROVE  DelayRuns'
<1>1. /\ ReconnectMax \in Nat /\ None \notin Int
      /\ attempt \in 0 .. MaxAttempt /\ attempt \in Nat
    BY FeedAssumption DEF FeedTypeOK
<1>2. CASE UNCHANGED mcVars
    BY <1>2 DEF mcVars, vars, startVars, connVars, DelayRuns
<1>3. CASE MCNext /\ connected'
    BY <1>3 DEF DelayRuns
<1>4. CASE MCNext /\ ~started'
    BY <1>4 DEF DelayRuns
<1>5. CASE MCNext /\ ~connected' /\ Schedules
  <2>1. ScheduleReconnect
      BY <1>5
      DEF Schedules, PollFails, ReconnectFails, Connect, Connected, ConnectFailed,
          LinkInv, ConnectedIsClean
  <2>2. attempt' \in Nat /\ reconnectIn' \in 0 .. ReconnectMax
      BY <1>1, <2>1, ScheduleType, FeedAssumption
  <2>3. sinceSchedule' = 0 /\ reconnectIn' = Delay(attempt')
      BY <1>5, <2>1 DEF MCNext, ScheduleReconnect
  <2> QED
      BY <1>1, <2>2, <2>3 DEF DelayRuns
<1>6. CASE MCNext /\ ~connected' /\ started' /\ ~Schedules /\ Tick
  <2>1. /\ started /\ ~connected /\ attempt' = attempt
        /\ reconnectIn' = IF reconnectIn \in {None, 0} THEN reconnectIn ELSE reconnectIn - 1
      BY <1>6 DEF Tick, startVars
  <2>2. /\ reconnectIn \in Nat /\ reconnectIn # None
        /\ sinceSchedule \in 0 .. ReconnectMax + 1 /\ sinceSchedule # None
        /\ sinceSchedule + reconnectIn >= Delay(attempt) \/ sinceSchedule > ReconnectMax
      BY <1>1, <2>1 DEF DelayRuns
  <2>3. reconnectIn' \in Nat /\ reconnectIn' >= reconnectIn - 1 /\ reconnectIn' # None
      BY <1>1, <2>1, <2>2
  <2>4. sinceSchedule' = IF sinceSchedule = ReconnectMax + 1 THEN sinceSchedule
                         ELSE sinceSchedule + 1
      BY <1>6, <2>2, <2>3 DEF MCNext, Later
  <2>5. Delay(attempt) \in Int
      BY <1>1, DelayBounded
  <2> QED
      BY <1>1, <2>1, <2>2, <2>3, <2>4, <2>5 DEF DelayRuns
<1>7. CASE MCNext /\ ~connected' /\ started' /\ ~Schedules /\ ~Tick
  <2>1. ASSUME ScheduleReconnect PROVE reconnectIn' # None
      BY <1>1, <2>1, ScheduleType, FeedAssumption
  <2>2. started /\ ~connected /\ reconnectIn' = reconnectIn /\ attempt' = attempt
    <3>1. ASSUME NEW s \in Symbols, Subscribe(s) PROVE FALSE
        BY <1>7, <3>1 DEF Subscribe
    <3>2. ASSUME Connect \/ ReconnectFails PROVE FALSE
      <4>1. ConnectFailed
          BY <1>7, <3>2 DEF Connect, ReconnectFails, Connected
      <4> QED
          BY <1>7, <2>1, <3>2, <4>1 DEF ConnectFailed, Schedules
    <3>3. ASSUME ReconnectOk \/ PollOk PROVE FALSE
        BY <1>7, <3>3 DEF ReconnectOk, Connected, PollOk
    <3>4. ASSUME PollFails PROVE FALSE
        BY <1>7, <2>1, <3>4 DEF PollFails, Schedules
    <3>5. Apply \/ LinkDrops
        BY <1>7, <3>1, <3>2, <3>3, <3>4 DEF MCNext, Next, Startup, Poll
    <3>6. UNCHANGED <<startVars, connVars>>
        BY <3>5 DEF Apply, ApplyBook, ApplyTrade, LinkDrops
    <3> QED
        BY <1>7, <3>6 DEF startVars, connVars
  <2>3. reconnectIn \in Nat /\ reconnectIn # None
      BY <1>1, <2>2 DEF DelayRuns
  <2>4. sinceSchedule' = sinceSchedule
      BY <1>7, <2>2, <2>3 DEF MCNext
  <2> QED
      BY <2>2, <2>4 DEF DelayRuns
<1> QED
    BY <1>2, <1>3, <1>4, <1>5, <1>6, <1>7

\* Where seven doublings of the base reach the maximum, as they do in the default
\* configuration (250 ms and 30 s), every attempt to reconnect comes no sooner than
\* the doubled delay of the attempts before it.
THEOREM BackoffRespectedHolds ==
    ASSUME ReconnectMax <= ReconnectBase * 2 ^ MaxDoublings
    PROVE  MCSpec => BackoffRespected
<1>1. MCInit => Init /\ DelayRuns
    BY DEF MCInit, Init, DelayRuns
<1>2. [MCNext]_mcVars => [Next]_vars
    BY DEF MCNext, mcVars
<1>3. ASSUME NEW n \in Nat
      PROVE  LET d == ReconnectBase * 2 ^ n
             IN  (IF d < ReconnectMax THEN d ELSE ReconnectMax) <= Delay(n)
  <2> DEFINE power == 2 ^ n
             capped == 2 ^ MaxDoublings
  <2>1. /\ power \in Nat /\ capped \in Nat
        /\ ReconnectBase \in Nat /\ ReconnectMax \in Nat
      BY PowerOfTwo, FeedAssumption
  <2>2. ReconnectMax <= ReconnectBase * capped
      OBVIOUS
  <2>3. Delay(n) = LET delay == ReconnectBase * (IF n < MaxDoublings THEN power ELSE capped)
                   IN  IF delay < ReconnectMax THEN delay ELSE ReconnectMax
      BY DEF Delay
  <2> HIDE DEF power, capped
  <2>4. ReconnectBase * power \in Nat /\ ReconnectBase * capped \in Nat
      BY <2>1
  <2>5. (IF ReconnectBase * power < ReconnectMax THEN ReconnectBase * power ELSE ReconnectMax)
            <= Delay(n)
      BY <2>1, <2>2, <2>3, <2>4
  <2> QED
      BY <2>5 DEF power
<1>4. ASSUME FeedTypeOK, LinkInv, DelayRuns, ReconnectOk \/ ReconnectFails
      PROVE  sinceSchedule # None /\ sinceSchedule >= Expected
  <2>1. started /\ ~connected /\ reconnectIn \in {None, 0}
      BY <1>4 DEF ReconnectOk, ReconnectFails, Polling, Due
  <2>2. /\ reconnectIn = 0 /\ sinceSchedule \in 0 .. ReconnectMax + 1
        /\ sinceSchedule + reconnectIn >= Delay(attempt) \/ sinceSchedule > ReconnectMax
      BY <1>4, <2>1, FeedAssumption DEF DelayRuns
  <2>3. attempt \in Nat
      BY <1>4, FeedAssumption DEF FeedTypeOK
  <2>4. Delay(attempt) \in 0 .. ReconnectMax /\ Expected <= Delay(attempt)
      BY <1>3, <2>3, DelayBounded DEF Expected
  <2>5. Expected \in Int
    <3> DEFINE power == 2 ^ attempt
    <3>1. power \in Nat
        BY <2>3, PowerOfTwo
    <3>2. Expected = IF ReconnectBase * power < ReconnectMax THEN ReconnectBase * power
                     ELSE ReconnectMax
        BY DEF Expected
    <3> HIDE DEF power
    <3>3. ReconnectBase * power \in Int
        BY <3>1, FeedAssumption
    <3> QED
        BY <3>2, <3>3, FeedAssumption
  <2> QED
      BY <2>2, <2>4, <2>5, FeedAssumption
<1>5. FeedTypeOK /\ LinkInv /\ DelayRuns /\ [MCNext]_mcVars =>
        [(ReconnectOk \/ ReconnectFails) =>
           sinceSchedule # None /\ sinceSchedule >= Expected]_mcVars
    BY <1>4
<1>6. FeedTypeOK /\ LinkInv /\ DelayRuns /\ [MCNext]_mcVars => DelayRuns'
    BY DelayRunsStep
<1>7. FeedTypeOK /\ [Next]_vars => FeedTypeOK'
    BY StepType
<1>8. FeedTypeOK /\ LinkInv /\ [Next]_vars => LinkInv'
    BY LinkInvStep
<1> QED
    BY <1>1, <1>2, <1>5, <1>6, <1>7, <1>8, InitType, LinkInvInit, PTL
    DEF MCSpec, BackoffRespected

-------------------------------------------------------------------------------
\* The exchange rate graph that the feed builds: its edges agree with the books,
\* with the symbols that trade them and with its own lists.

\* The invariant of the symbols: a pair's symbol trades that pair, and an edge
\* has a symbol one way or the other.
SymbolTradesPair ==
    \A a, b \in Currencies :
        symbolMap[<<a, b>>] # None =>
            /\ symbolMap[<<a, b>>] \in Symbols
            /\ Base[symbolMap[<<a, b>>]] = a
            /\ Quote[symbolMap[<<a, b>>]] = b

EdgeHasSymbol ==
    \A a, b \in Currencies :
        weight[<<a, b>>] # None =>
            symbolMap[<<a, b>>] # None \/ symbolMap[<<b, a>>] # None

\* The inductive invariant of the graph.
EdgeInv == EdgeIsTopOfBook /\ SymbolTradesPair /\ EdgeHasSymbol /\ EdgesListedOnce
-------------------------------------------------------------------------------
\* What a list lists after something was added, and that nothing is in it twice.
LEMMA AddOnceLists ==
    ASSUME NEW S, NEW list \in Seq(S), NEW x \in S
    PROVE  \A y : Graph!Listed(Graph!AddOnce(list, x), y)
                    <=> Graph!Listed(list, y) \/ y = x
<1>1. CASE Graph!Listed(list, x)
    BY <1>1 DEF Graph!AddOnce, Graph!Listed
<1>2. CASE ~Graph!Listed(list, x)
  <2>1. Graph!AddOnce(list, x) = Append(list, x)
      BY <1>2 DEF Graph!AddOnce
  <2>2. /\ Len(Append(list, x)) = Len(list) + 1
        /\ Append(list, x)[Len(list) + 1] = x
        /\ \A k \in 1 .. Len(list) : Append(list, x)[k] = list[k]
        /\ Len(list) \in Nat
      OBVIOUS
  <2> QED
      BY <2>1, <2>2 DEF Graph!Listed
<1> QED
    BY <1>1, <1>2

LEMMA AddOnceKeepsOnce ==
    ASSUME NEW S, NEW list \in Seq(S), NEW x \in S,
           \A j, k \in 1 .. Len(list) : list[j] = list[k] => j = k
    PROVE  LET longer == Graph!AddOnce(list, x)
           IN  \A j, k \in 1 .. Len(longer) : longer[j] = longer[k] => j = k
<1>1. CASE Graph!Listed(list, x)
    BY <1>1 DEF Graph!AddOnce
<1>2. CASE ~Graph!Listed(list, x)
  <2>1. Graph!AddOnce(list, x) = Append(list, x)
      BY <1>2 DEF Graph!AddOnce
  <2>2. /\ Len(Append(list, x)) = Len(list) + 1
        /\ Append(list, x)[Len(list) + 1] = x
        /\ \A k \in 1 .. Len(list) : Append(list, x)[k] = list[k]
        /\ Len(list) \in Nat
      OBVIOUS
  <2>3. \A k \in 1 .. Len(list) : list[k] # x
      BY <1>2 DEF Graph!Listed
  <2> QED
      BY <2>1, <2>2, <2>3
<1> QED
    BY <1>1, <1>2

\* What set_rate does to the weight of a pair.
LEMMA SetRateWeight ==
    ASSUME NEW from \in Currencies, NEW to \in Currencies, from # to,
           NEW bid \in Nat, NEW ask \in Nat, Graph!SetRate(from, to, bid, ask)
    PROVE  /\ bid > 0 => weight'[<<from, to>>] = -Log[bid]
           /\ ask > 0 => weight'[<<to, from>>] = Log[ask]
           /\ \A p \in Graph!Pairs :
                ~(p = <<from, to>> /\ bid > 0) /\ ~(p = <<to, from>> /\ ask > 0)
                  => weight'[p] = weight[p]
<1>1. <<from, to>> \in Graph!Pairs /\ <<to, from>> \in Graph!Pairs
      /\ <<from, to>> # <<to, from>>
    BY DEF Graph!Pairs
<1>2. weight' = [p \in Graph!Pairs |->
                   IF p = <<from, to>> /\ bid > 0 THEN -Log[bid]
                   ELSE IF p = <<to, from>> /\ ask > 0 THEN Log[ask]
                   ELSE weight[p]]
    BY <1>1 DEF Graph!SetRate
<1> QED
    BY <1>1, <1>2

\* ... and to the adjacency list of a currency.
LEMMA SetRateNeighbours ==
    ASSUME NEW from \in Currencies, NEW to \in Currencies, from # to,
           NEW bid \in Nat, NEW ask \in Nat, Graph!SetRate(from, to, bid, ask)
    PROVE  \A c \in Currencies :
             neighbours'[c] = IF c = from /\ bid > 0
                              THEN Graph!AddOnce(neighbours[c], to)
                              ELSE IF c = to /\ ask > 0
                              THEN Graph!AddOnce(neighbours[c], from)
                              ELSE neighbours[c]
BY DEF Graph!SetRate

\* The update of one event, in the terms of the invariant: who changes a book
\* either sets both rates of its pair or leaves the edges alone.
LEMMA ApplyBookStep ==
    ASSUME FeedTypeOK, FeedTypeOK', ApplyBook
    PROVE  \E s \in Symbols :
             LET bid == Top(books'[s]["Bid"])
                 ask == Top(books'[s]["Ask"])
             IN  /\ \A t \in Symbols \ {s} : books'[t] = books[t]
                 /\ bid \in Prices \cup {None} /\ ask \in Prices \cup {None}
                 /\ \/ /\ bid \in Prices /\ ask \in Prices
                       /\ Graph!SetRate(Base[s], Quote[s], bid, ask)
                       /\ Graph!SetSymbolFor(Base[s], Quote[s], s)
                    \/ /\ bid = None \/ ask = None
                       /\ currencies' = Graph!AddOnce(
                            Graph!AddOnce(currencies, Base[s]), Quote[s])
                       /\ UNCHANGED <<neighbours, weight, symbolMap>>
<1> DEFINE e == Head(inbox)
<1>1. e \in Events /\ e.kind = "book"
    BY DEF ApplyBook, FeedTypeOK
<1>2. e.symbol \in Symbols
    BY <1>1 DEF Events
<1>3. \A t \in Symbols \ {e.symbol} : books'[t] = books[t]
    BY <1>2 DEF ApplyBook, FeedTypeOK
<1>4. Top(books'[e.symbol]["Bid"]) \in Prices \cup {None}
      /\ Top(books'[e.symbol]["Ask"]) \in Prices \cup {None}
    BY <1>2, TopType DEF FeedTypeOK, Sides
<1>5. UpdateGraph(e)
    BY DEF ApplyBook
<1> HIDE DEF e
<1> WITNESS e.symbol \in Symbols
<1> QED
    BY <1>3, <1>4, <1>5 DEF UpdateGraph

\* Both edges of the pair that changed carry its new prices; the other pairs
\* keep their books and, having other currencies, their edges.
LEMMA TopOfBookStep ==
    ASSUME FeedTypeOK, FeedTypeOK', EdgeIsTopOfBook, ApplyBook
    PROVE  EdgeIsTopOfBook'
<1>1. PICK s \in Symbols :
        LET bid == Top(books'[s]["Bid"])
            ask == Top(books'[s]["Ask"])
        IN  /\ \A t \in Symbols \ {s} : books'[t] = books[t]
            /\ bid \in Prices \cup {None} /\ ask \in Prices \cup {None}
            /\ \/ /\ bid \in Prices /\ ask \in Prices
                  /\ Graph!SetRate(Base[s], Quote[s], bid, ask)
                  /\ Graph!SetSymbolFor(Base[s], Quote[s], s)
               \/ /\ bid = None \/ ask = None
                  /\ currencies' = Graph!AddOnce(
                       Graph!AddOnce(currencies, Base[s]), Quote[s])
                  /\ UNCHANGED <<neighbours, weight, symbolMap>>
    BY ApplyBookStep
<1> DEFINE bid == Top(books'[s]["Bid"])
           ask == Top(books'[s]["Ask"])
           Agree(t) == LET b == Top(books[t]["Bid"])
                           a == Top(books[t]["Ask"])
                       IN  b # None /\ a # None =>
                             /\ b > 0 => weight[<<Base[t], Quote[t]>>] = -Log[b]
                             /\ a > 0 => weight[<<Quote[t], Base[t]>>] = Log[a]
           AgreeNext(t) == LET b == Top(books'[t]["Bid"])
                               a == Top(books'[t]["Ask"])
                           IN  b # None /\ a # None =>
                                 /\ b > 0 => weight'[<<Base[t], Quote[t]>>] = -Log[b]
                                 /\ a > 0 => weight'[<<Quote[t], Base[t]>>] = Log[a]
<1>2. \A t \in Symbols : Agree(t)
    BY DEF EdgeIsTopOfBook, TwoSided
<1>3. SUFFICES ASSUME NEW t \in Symbols PROVE AgreeNext(t)
    BY DEF EdgeIsTopOfBook, TwoSided, Top
<1>4. CASE bid \in Prices /\ ask \in Prices
           /\ Graph!SetRate(Base[s], Quote[s], bid, ask)
  <2>1. bid \in Nat /\ ask \in Nat
      BY <1>4, FeedAssumption
  <2>2. /\ bid > 0 => weight'[<<Base[s], Quote[s]>>] = -Log[bid]
        /\ ask > 0 => weight'[<<Quote[s], Base[s]>>] = Log[ask]
        /\ \A p \in Graph!Pairs :
             p # <<Base[s], Quote[s]>> /\ p # <<Quote[s], Base[s]>>
               => weight'[p] = weight[p]
    <3> HIDE DEF bid, ask
    <3> QED
        BY <1>4, <2>1, SymbolPairs, SetRateWeight
  <2>3. CASE t = s
      BY <2>2, <2>3
  <2>4. CASE t # s
    <3>1. {Base[s], Quote[s]} # {Base[t], Quote[t]}
        BY <2>4, PairAssumption
    <3>2. /\ <<Base[t], Quote[t]>> \notin {<<Base[s], Quote[s]>>, <<Quote[s], Base[s]>>}
          /\ <<Quote[t], Base[t]>> \notin {<<Base[s], Quote[s]>>, <<Quote[s], Base[s]>>}
        BY <3>1
    <3>3. /\ weight'[<<Base[t], Quote[t]>>] = weight[<<Base[t], Quote[t]>>]
          /\ weight'[<<Quote[t], Base[t]>>] = weight[<<Quote[t], Base[t]>>]
        BY <2>2, <3>2, SymbolPairs
    <3>4. books'[t] = books[t] /\ Agree(t)
        BY <1>1, <1>2, <2>4
    <3> QED
        BY <3>3, <3>4
  <2> QED
      BY <2>3, <2>4
<1>5. CASE (bid = None \/ ask = None) /\ UNCHANGED weight
  <2>1. CASE t = s
      BY <1>5, <2>1
  <2>2. CASE t # s
    <3>1. books'[t] = books[t] /\ Agree(t)
        BY <1>1, <1>2, <2>2
    <3> QED
        BY <1>5, <3>1
  <2> QED
      BY <2>1, <2>2
<1> QED
    BY <1>1, <1>4, <1>5

\* set_symbol_for keeps the first symbol of a pair, which trades it.
LEMMA SymbolStep ==
    ASSUME FeedTypeOK, FeedTypeOK', SymbolTradesPair, EdgeHasSymbol, ApplyBook
    PROVE  SymbolTradesPair' /\ EdgeHasSymbol'
<1>1. PICK s \in Symbols :
        LET bid == Top(books'[s]["Bid"])
            ask == Top(books'[s]["Ask"])
        IN  \/ /\ bid \in Prices /\ ask \in Prices
               /\ Graph!SetRate(Base[s], Quote[s], bid, ask)
               /\ Graph!SetSymbolFor(Base[s], Quote[s], s)
            \/ UNCHANGED <<neighbours, weight, symbolMap>>
    BY ApplyBookStep
<1> DEFINE bid == Top(books'[s]["Bid"])
           ask == Top(books'[s]["Ask"])
           pair == <<Base[s], Quote[s]>>
<1>2. CASE UNCHANGED <<neighbours, weight, symbolMap>>
    BY <1>2 DEF SymbolTradesPair, EdgeHasSymbol
<1>3. CASE /\ bid \in Prices /\ ask \in Prices
           /\ Graph!SetRate(Base[s], Quote[s], bid, ask)
           /\ Graph!SetSymbolFor(Base[s], Quote[s], s)
  <2>1. bid \in Nat /\ ask \in Nat
      BY <1>3, FeedAssumption
  <2> HIDE DEF bid, ask
  <2>2. \A p \in Graph!Pairs :
          p # pair /\ p # <<Quote[s], Base[s]>> => weight'[p] = weight[p]
    <3>1. Base[s] \in Currencies /\ Quote[s] \in Currencies /\ Base[s] # Quote[s]
        BY SymbolPairs
    <3>2. Graph!SetRate(Base[s], Quote[s], bid, ask)
        BY <1>3
    <3>3. /\ bid > 0 => weight'[<<Base[s], Quote[s]>>] = -Log[bid]
          /\ ask > 0 => weight'[<<Quote[s], Base[s]>>] = Log[ask]
          /\ \A p \in Graph!Pairs :
               ~(p = <<Base[s], Quote[s]>> /\ bid > 0)
               /\ ~(p = <<Quote[s], Base[s]>> /\ ask > 0)
                 => weight'[p] = weight[p]
        BY <2>1, <3>1, <3>2, SetRateWeight
    <3> QED
        BY <3>3
  <2>3. \A p \in Graph!Pairs :
          symbolMap'[p] = IF p = pair /\ symbolMap[p] = None THEN s ELSE symbolMap[p]
      BY <1>3, SymbolPairs DEF Graph!SetSymbolFor, FeedTypeOK, Graph!GraphTypeOK
  <2>4. symbolMap'[pair] # None
      BY <2>3, SymbolPairs, FeedAssumption
  <2>5. SymbolTradesPair'
    <3> SUFFICES ASSUME NEW a \in Currencies, NEW b \in Currencies,
                        symbolMap'[<<a, b>>] # None
                 PROVE  /\ symbolMap'[<<a, b>>] \in Symbols
                        /\ Base[symbolMap'[<<a, b>>]] = a
                        /\ Quote[symbolMap'[<<a, b>>]] = b
        BY DEF SymbolTradesPair
    <3>1. <<a, b>> \in Graph!Pairs
        BY DEF Graph!Pairs
    <3>2. CASE <<a, b>> = pair /\ symbolMap[<<a, b>>] = None
        BY <2>3, <3>1, <3>2
    <3>3. CASE ~(<<a, b>> = pair /\ symbolMap[<<a, b>>] = None)
      <4>1. symbolMap'[<<a, b>>] = symbolMap[<<a, b>>]
          BY <2>3, <3>1, <3>3
      <4> QED
          BY <4>1 DEF SymbolTradesPair
    <3> QED
        BY <3>2, <3>3
  <2>6. EdgeHasSymbol'
    <3> SUFFICES ASSUME NEW a \in Currencies, NEW b \in Currencies,
                        weight'[<<a, b>>] # None
                 PROVE  symbolMap'[<<a, b>>] # None \/ symbolMap'[<<b, a>>] # None
        BY DEF EdgeHasSymbol
    <3>1. <<a, b>> \in Graph!Pairs /\ <<b, a>> \in Graph!Pairs
        BY DEF Graph!Pairs
    <3>2. CASE <<a, b>> = pair \/ <<b, a>> = pair
        BY <2>4, <3>2
    <3>3. CASE <<a, b>> # pair /\ <<b, a>> # pair
      <4>1. weight'[<<a, b>>] = weight[<<a, b>>]
          BY <2>2, <3>1, <3>3
      <4>2. symbolMap'[<<a, b>>] = symbolMap[<<a, b>>]
            /\ symbolMap'[<<b, a>>] = symbolMap[<<b, a>>]
          BY <2>3, <3>1, <3>3
      <4> QED
          BY <4>1, <4>2 DEF EdgeHasSymbol
    <3> QED
        BY <3>2, <3>3
  <2> QED
      BY <2>5, <2>6
<1> QED
    BY <1>1, <1>2, <1>3

\* An edge is pushed to the list of its source with its first weight.
LEMMA ListedOnceStep ==
    ASSUME FeedTypeOK, FeedTypeOK', EdgesListedOnce, ApplyBook
    PROVE  EdgesListedOnce'
<1>1. PICK s \in Symbols :
        LET bid == Top(books'[s]["Bid"])
            ask == Top(books'[s]["Ask"])
        IN  \/ /\ bid \in Prices /\ ask \in Prices
               /\ Graph!SetRate(Base[s], Quote[s], bid, ask)
            \/ /\ currencies' = Graph!AddOnce(
                    Graph!AddOnce(currencies, Base[s]), Quote[s])
               /\ UNCHANGED <<neighbours, weight, symbolMap>>
    BY ApplyBookStep
<1> DEFINE bid == Top(books'[s]["Bid"])
           ask == Top(books'[s]["Ask"])
           base == Base[s]
           quote == Quote[s]
<1>2. base \in Currencies /\ quote \in Currencies /\ base # quote
    BY SymbolPairs
<1>3. currencies' = Graph!AddOnce(Graph!AddOnce(currencies, base), quote)
    BY <1>1 DEF Graph!SetRate
<1>4. \A c : Graph!Listed(currencies', c)
               <=> Graph!Listed(currencies, c) \/ c = base \/ c = quote
  <2>1. currencies \in Seq(Currencies)
      BY DEF FeedTypeOK, Graph!GraphTypeOK
  <2>2. Graph!AddOnce(currencies, base) \in Seq(Currencies)
      BY <1>2, <2>1, AddOnceType
  <2>3. \A c : Graph!Listed(Graph!AddOnce(currencies, base), c)
                 <=> Graph!Listed(currencies, c) \/ c = base
      BY <1>2, <2>1, AddOnceLists
  <2>4. \A c : Graph!Listed(Graph!AddOnce(Graph!AddOnce(currencies, base), quote), c)
                 <=> Graph!Listed(Graph!AddOnce(currencies, base), c) \/ c = quote
      BY <1>2, <2>2, AddOnceLists
  <2> QED
      BY <1>3, <2>3, <2>4
<1>5. SUFFICES ASSUME NEW a \in Currencies
               PROVE  /\ \A j, k \in 1 .. Len(neighbours'[a]) :
                           neighbours'[a][j] = neighbours'[a][k] => j = k
                      /\ \A b \in Currencies :
                           /\ weight'[<<a, b>>] # None
                                <=> Graph!Listed(neighbours'[a], b)
                           /\ weight'[<<a, b>>] # None =>
                                 /\ Graph!Listed(currencies', a)
                                 /\ Graph!Listed(currencies', b)
    BY DEF EdgesListedOnce, Graph!EdgesListedOnce, Graph!Listed
<1>6. /\ \A j, k \in 1 .. Len(neighbours[a]) :
           neighbours[a][j] = neighbours[a][k] => j = k
      /\ \A b \in Currencies :
           /\ weight[<<a, b>>] # None <=> Graph!Listed(neighbours[a], b)
           /\ weight[<<a, b>>] # None =>
                 Graph!Listed(currencies, a) /\ Graph!Listed(currencies, b)
      /\ neighbours[a] \in Seq(Currencies)
    BY DEF EdgesListedOnce, Graph!EdgesListedOnce, FeedTypeOK, Graph!GraphTypeOK
<1>7. CASE UNCHANGED <<neighbours, weight, symbolMap>>
    BY <1>4, <1>6, <1>7
<1>8. CASE bid \in Prices /\ ask \in Prices /\ Graph!SetRate(base, quote, bid, ask)
  <2>1. bid \in Nat /\ ask \in Nat /\ -Log[bid] # None /\ Log[ask] # None
    <3>1. bid \in Prices /\ ask \in Prices
        BY <1>8
    <3> HIDE DEF bid, ask
    <3>2. Log[bid] \in Int /\ Log[ask] \in Int
        BY <3>1, FeedAssumption
    <3> QED
        BY <3>1, <3>2, FeedAssumption
  <2> HIDE DEF bid, ask, base, quote
  <2>2. /\ bid > 0 => weight'[<<base, quote>>] = -Log[bid]
        /\ ask > 0 => weight'[<<quote, base>>] = Log[ask]
        /\ \A p \in Graph!Pairs :
             ~(p = <<base, quote>> /\ bid > 0) /\ ~(p = <<quote, base>> /\ ask > 0)
               => weight'[p] = weight[p]
      BY <1>2, <1>8, <2>1, SetRateWeight
  <2>3. neighbours'[a] = IF a = base /\ bid > 0
                         THEN Graph!AddOnce(neighbours[a], quote)
                         ELSE IF a = quote /\ ask > 0
                         THEN Graph!AddOnce(neighbours[a], base)
                         ELSE neighbours[a]
      BY <1>2, <1>8, <2>1, SetRateNeighbours
  <2>4. \A x \in Currencies :
          /\ \A b : Graph!Listed(Graph!AddOnce(neighbours[a], x), b)
                      <=> Graph!Listed(neighbours[a], b) \/ b = x
          /\ \A j, k \in 1 .. Len(Graph!AddOnce(neighbours[a], x)) :
               Graph!AddOnce(neighbours[a], x)[j] = Graph!AddOnce(neighbours[a], x)[k]
                 => j = k
      BY <1>6, AddOnceLists, AddOnceKeepsOnce
  <2>5. \A j, k \in 1 .. Len(neighbours'[a]) :
          neighbours'[a][j] = neighbours'[a][k] => j = k
      BY <1>2, <1>6, <2>3, <2>4
  <2>6. ASSUME NEW b \in Currencies
        PROVE  /\ weight'[<<a, b>>] # None <=> Graph!Listed(neighbours'[a], b)
               /\ weight'[<<a, b>>] # None =>
                     Graph!Listed(currencies', a) /\ Graph!Listed(currencies', b)
    <3>1. <<a, b>> \in Graph!Pairs
        BY DEF Graph!Pairs
    <3>2. CASE a = base /\ bid > 0
        BY <1>2, <1>4, <1>6, <2>1, <2>2, <2>3, <2>4, <3>1, <3>2
    <3>3. CASE a = quote /\ ask > 0
        BY <1>2, <1>4, <1>6, <2>1, <2>2, <2>3, <2>4, <3>1, <3>3
    <3>4. CASE ~(a = base /\ bid > 0) /\ ~(a = quote /\ ask > 0)
        BY <1>2, <1>4, <1>6, <2>2, <2>3, <3>1, <3>4
    <3> QED
        BY <3>2, <3>3, <3>4
  <2> QED
      BY <2>5, <2>6
<1> QED
    BY <1>1, <1>7, <1>8
-------------------------------------------------------------------------------
LEMMA EdgeInvInit == Init => EdgeInv
<1> SUFFICES ASSUME Init PROVE EdgeInv
    OBVIOUS
<1>1. \A p \in Graph!Pairs : weight[p] = None /\ symbolMap[p] = None
    BY DEF Init, Graph!GraphInit
<1>2. \A a, b \in Currencies : <<a, b>> \in Graph!Pairs
    BY DEF Graph!Pairs
<1>3. SymbolTradesPair /\ EdgeHasSymbol
    BY <1>1, <1>2 DEF SymbolTradesPair, EdgeHasSymbol
<1>4. \A s \in Symbols : Top(books[s]["Bid"]) = None
  <2>1. \A s \in Symbols : books[s]["Bid"] = EmptySide
      BY DEF Init, Sides
  <2>2. {l \in Levels : EmptySide[l] # None} = {}
      BY DEF EmptySide
  <2> QED
      BY <2>1, <2>2 DEF Top
<1>5. EdgeIsTopOfBook
    BY <1>4 DEF EdgeIsTopOfBook, TwoSided
<1>6. EdgesListedOnce
  <2>1. \A a, b \in Currencies : neighbours[a] = <<>> /\ ~Graph!Listed(neighbours[a], b)
      BY DEF Init, Graph!GraphInit, Graph!Listed
  <2> QED
      BY <1>1, <1>2, <2>1 DEF EdgesListedOnce, Graph!EdgesListedOnce
<1> QED
    BY <1>3, <1>5, <1>6 DEF EdgeInv

\* Only the update of a book touches the graph.
LEMMA EdgeInvStep ==
    ASSUME FeedTypeOK, FeedTypeOK', EdgeInv, [Next]_vars
    PROVE  EdgeInv'
<1>1. CASE ApplyBook
    BY <1>1, TopOfBookStep, SymbolStep, ListedOnceStep DEF EdgeInv
<1>2. CASE UNCHANGED <<books, graphVars>>
  <2>1. EdgeIsTopOfBook'
      BY <1>2 DEF graphVars, EdgeInv, EdgeIsTopOfBook, TwoSided
  <2>2. SymbolTradesPair' /\ EdgeHasSymbol'
      BY <1>2 DEF graphVars, EdgeInv, SymbolTradesPair, EdgeHasSymbol
  <2>3. EdgesListedOnce'
    <3>1. neighbours' = neighbours /\ weight' = weight /\ currencies' = currencies
        BY <1>2 DEF graphVars
    <3> QED
        BY <3>1 DEF EdgeInv, EdgesListedOnce, Graph!EdgesListedOnce, Graph!Listed
  <2> QED
      BY <2>1, <2>2, <2>3 DEF EdgeInv
<1>3. ApplyBook \/ UNCHANGED <<books, graphVars>>
    BY DEF Next, Startup, Poll, Apply, vars, dataVars, Connect, Subscribe, ReconnectOk,
         ReconnectFails, PollOk, PollFails, ApplyTrade, LinkDrops, Tick
<1> QED
    BY <1>1, <1>2, <1>3

LEMMA EdgeInvHolds == Spec => []EdgeInv
<1>1. FeedTypeOK /\ FeedTypeOK' /\ EdgeInv /\ [Next]_vars => EdgeInv'
    BY EdgeInvStep
<1> QED
    BY <1>1, EdgeInvInit, FeedTypeCorrect, PTL DEF Spec

\* apply_book_update sets both edges of a pair to the best prices of a book that
\* has two sides, and nothing else sets them.
THEOREM EdgeIsTopOfBookHolds == Spec => []EdgeIsTopOfBook
<1>1. EdgeInv => EdgeIsTopOfBook
    BY DEF EdgeInv
<1> QED
    BY <1>1, EdgeInvHolds, PTL

\* symbol_and_side_for gives a symbol and a side for every edge of the graph, and
\* they trade the source of the edge for its target.
THEOREM EdgeIsTradableHolds == Spec => []EdgeIsTradable
<1>1. EdgeInv => EdgeIsTradable
  <2> SUFFICES ASSUME EdgeInv, NEW a \in Currencies, NEW b \in Currencies,
                      weight[<<a, b>>] # None
               PROVE  LET order == Graph!SymbolAndSideFor(a, b)
                      IN  /\ order.symbol \in Symbols
                          /\ <<a, b>> =
                               IF order.side = "Sell"
                               THEN <<Base[order.symbol], Quote[order.symbol]>>
                               ELSE <<Quote[order.symbol], Base[order.symbol]>>
      BY DEF EdgeIsTradable
  <2>1. symbolMap[<<a, b>>] # None \/ symbolMap[<<b, a>>] # None
      BY DEF EdgeInv, EdgeHasSymbol
  <2>2. CASE symbolMap[<<a, b>>] # None
      BY <2>2 DEF EdgeInv, SymbolTradesPair, Graph!SymbolAndSideFor
  <2>3. CASE symbolMap[<<a, b>>] = None
      BY <2>1, <2>3 DEF EdgeInv, SymbolTradesPair, Graph!SymbolAndSideFor
  <2> QED
      BY <2>2, <2>3
<1> QED
    BY <1>1, EdgeInvHolds, PTL

\* set_rate never lists an edge twice, and never weighs one it does not list.
THEOREM EdgesListedOnceHolds == Spec => []EdgesListedOnce
<1>1. EdgeInv => EdgesListedOnce
    BY DEF EdgeInv
<1> QED
    BY <1>1, EdgeInvHolds, PTL
===============================================================================
