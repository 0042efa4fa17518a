------------------------------ MODULE FeedEngine ------------------------------
(***************************************************************************)
(* The FeedEngine of ta-feed/src/lib.rs as the live loop of ta-bin uses    *)
(* it: subscribe to every configured symbol, connect once, then poll.      *)
(*                                                                         *)
(* The market data adapter is external: its link may drop at any time,     *)
(* which ends its streams; it may refuse a connection or a subscription;   *)
(* a poll of a dead link fails, one of a live link returns events of the   *)
(* streams or fails.                                                       *)
(*                                                                         *)
(* Instants are ages and remaining times, so that time needs no bound.  A  *)
(* side of a book is a function of the level: the code keeps a list sorted *)
(* by level with at most one entry for each.  Sizes and the timestamps     *)
(* inside a book play no part here.                                        *)
(***************************************************************************)
EXTENDS Integers, Sequences

CONSTANTS
    Symbols, Currencies,
    Base, Quote,          \* parse_currency
    Levels, Prices, Log,
    Batches,              \* the event lists a poll may return
    None,                 \* nothing there
    MessageTimeout,       \* FeedConfig::message_timeout
    ReconnectBase, ReconnectMax,
    MaxDoublings,         \* the 7 of schedule_reconnect
    MaxAttempt,           \* where reconnect_attempt saturates
    MaxPollErrors,        \* the 5 of poll
    ErrorCap              \* bound on the count of consecutive errors

Sides == {"Bid", "Ask"}

Events ==
    [kind : {"book"}, symbol : Symbols, side : Sides, level : Levels,
     action : {"Upsert", "Delete"}, price : Prices]
    \cup [kind : {"trade"}, symbol : Symbols]

ASSUME FeedAssumption ==
    /\ Batches \subseteq Seq(Events)
    /\ Levels \subseteq Nat
    /\ \A S \in SUBSET Levels : S # {} => \E l \in S : \A m \in S : l <= m
    /\ Prices \subseteq Nat
    /\ Log \in [Prices -> Int]
    /\ None \notin Int /\ None \notin Symbols
    /\ MessageTimeout \in Nat
    /\ ReconnectBase \in Nat /\ ReconnectMax \in Nat
    /\ MaxDoublings \in Nat /\ MaxAttempt \in Nat
    /\ MaxPollErrors \in Nat \ {0}
    /\ ErrorCap \in Nat /\ ErrorCap >= MaxPollErrors

\* No two symbols trade the same two currencies.
ASSUME PairAssumption ==
    /\ Base \in [Symbols -> Currencies] /\ Quote \in [Symbols -> Currencies]
    /\ \A s \in Symbols : Base[s] # Quote[s]
    /\ \A s, t \in Symbols :
         {Base[s], Quote[s]} = {Base[t], Quote[t]} => s = t

VARIABLES
    todo,                \* configured symbols the loop has not subscribed yet
    started,             \* connect() was called
    subscribed,          \* FeedEngine::subscribed
    connected,
    errors,              \* consecutive_errors
    attempt,             \* reconnect_attempt
    reconnectIn,         \* time until next_reconnect_at, or None
    messageAge,          \* time since last_message_at, or None
    inbox,               \* events of the running poll still to be applied
    books,               \* per symbol, side and level the price, or None
    currencies, neighbours, weight, symbolMap,      \* ExchangeRateGraph
    link,                \* adapter: "up" or "down"
    streams,             \* adapter: the symbols it streams
    refused              \* adapter: what it refused at the last reconnect

Graph == INSTANCE RateGraph

startVars == <<todo, started, subscribed>>
connVars == <<connected, errors, attempt, reconnectIn>>
graphVars == <<currencies, neighbours, weight, symbolMap>>
dataVars == <<messageAge, inbox, books, graphVars>>
adapterVars == <<link, streams, refused>>
vars == <<startVars, connVars, dataVars, adapterVars>>

EmptySide == [l \in Levels |-> None]

\* consecutive_errors + 1; what matters is whether it reaches MaxPollErrors.
OneMoreError == IF errors < ErrorCap THEN errors + 1 ELSE errors

\* Mutant: the delay is not capped.
WrongDelay(n) == ReconnectBase * 2 ^ n

\* schedule_reconnect's delay for the n-th attempt.
Delay(n) ==
    LET doublings == IF n < MaxDoublings THEN n ELSE MaxDoublings
        delay == ReconnectBase * 2 ^ doublings
    IN  IF delay < ReconnectMax THEN delay ELSE ReconnectMax

ScheduleReconnect ==
    /\ attempt' = IF attempt < MaxAttempt THEN attempt + 1 ELSE attempt
    /\ reconnectIn' = Delay(attempt')

\* Mutant: next_reconnect_at is not cleared.
WrongConnected ==
    /\ connected' = TRUE
    /\ errors' = 0
    /\ attempt' = 0
    /\ UNCHANGED reconnectIn
    /\ link' = "up"

\* What connect and try_reconnect do when the adapter connects.
Connected ==
    /\ connected' = TRUE
    /\ errors' = 0
    /\ attempt' = 0
    /\ reconnectIn' = None
    /\ link' = "up"

\* ... and when it does not.
ConnectFailed ==
    /\ connected' = FALSE
    /\ errors' = OneMoreError
    /\ ScheduleReconnect
    /\ link' = "down" /\ streams' = {} /\ refused' = {}
-------------------------------------------------------------------------------
Init ==
    /\ todo = Symbols /\ started = FALSE /\ subscribed = {}
    /\ connected = FALSE /\ errors = 0 /\ attempt = 0 /\ reconnectIn = None
    /\ messageAge = None /\ inbox = <<>>
    /\ books = [s \in Symbols |-> [side \in Sides |-> EmptySide]]
    /\ Graph!GraphInit
    /\ link = "down" /\ streams = {} /\ refused = {}

\* subscribe(s), before the connection is made.  The adapter keeps what it
\* accepted for the connection; what it refused is not tried again.
Subscribe(s) ==
    /\ ~started
    /\ s \in todo
    /\ todo' = todo \ {s}
    /\ \/ /\ subscribed' = subscribed \cup {s}
          /\ streams' = streams \cup {s}
          /\ UNCHANGED errors
       \/ /\ errors' = OneMoreError
          /\ UNCHANGED <<subscribed, streams>>
    /\ UNCHANGED <<started, connected, attempt, reconnectIn, dataVars, link,
                   refused>>

\* connect()
Connect ==
    /\ ~started
    /\ todo = {}
    /\ started' = TRUE
    /\ \/ Connected /\ UNCHANGED <<streams, refused>>
       \/ ConnectFailed
    /\ UNCHANGED <<todo, subscribed, dataVars>>

Polling == started /\ inbox = <<>>

\* Mutant: every poll tries to reconnect.
WrongDue == TRUE

Due == reconnectIn \in {None, 0}

\* Mutant: nothing is subscribed again.
WrongReconnectOk ==
    /\ Polling
    /\ ~connected
    /\ Due
    /\ Connected
    /\ UNCHANGED <<startVars, dataVars, streams, refused>>

\* poll() while disconnected: try_reconnect().  The answers to the
\* subscriptions are dropped.
ReconnectOk ==
    /\ Polling
    /\ ~connected
    /\ Due
    /\ Connected
    /\ \E r \in SUBSET subscribed : refused' = r /\ streams' = subscribed \ r
    /\ UNCHANGED <<startVars, dataVars>>

ReconnectFails ==
    /\ Polling
    /\ ~connected
    /\ Due
    /\ ConnectFailed
    /\ UNCHANGED <<startVars, dataVars>>

\* poll() while connected.
PollOk ==
    /\ Polling
    /\ connected
    /\ link = "up"
    /\ errors' = 0
    /\ \E batch \in Batches :
         /\ \A k \in 1 .. Len(batch) : batch[k].symbol \in streams
         /\ inbox' = batch
         /\ messageAge' = IF batch = <<>> THEN messageAge ELSE 0
    /\ UNCHANGED <<startVars, connected, attempt, reconnectIn, books, graphVars,
                   adapterVars>>

\* Mutant: the errors in a row are not added up.
WrongPollFails ==
    /\ Polling
    /\ connected
    /\ errors' = 1
    /\ IF errors' >= MaxPollErrors
       THEN connected' = FALSE /\ ScheduleReconnect
       ELSE UNCHANGED <<connected, attempt, reconnectIn>>
    /\ UNCHANGED <<startVars, dataVars, adapterVars>>

PollFails ==
    /\ Polling
    /\ connected
    /\ errors' = OneMoreError
    /\ IF errors' >= MaxPollErrors
       THEN connected' = FALSE /\ ScheduleReconnect
       ELSE UNCHANGED <<connected, attempt, reconnectIn>>
    /\ UNCHANGED <<startVars, dataVars, adapterVars>>

\* first() of a list sorted by level.
Top(side) ==
    LET occupied == {l \in Levels : side[l] # None}
    IN  IF occupied = {} THEN None
        ELSE side[CHOOSE l \in occupied : \A m \in occupied : l <= m]

TwoSided(s) == Top(books[s]["Bid"]) # None /\ Top(books[s]["Ask"]) # None

\* Mutant: a deleted level leaves the edges as they are.
WrongUpdateGraph(e) ==
    LET base == Base[e.symbol]
        quote == Quote[e.symbol]
        bid == Top(books'[e.symbol]["Bid"])
        ask == Top(books'[e.symbol]["Ask"])
    IN  IF bid # None /\ ask # None /\ e.action = "Upsert"
        THEN Graph!SetRate(base, quote, bid, ask)
             /\ Graph!SetSymbolFor(base, quote, e.symbol)
        ELSE /\ currencies' = Graph!AddOnce(Graph!AddOnce(currencies, base), quote)
             /\ UNCHANGED <<neighbours, weight, symbolMap>>

\* The end of apply_book_update.  Without two sides only the currencies of a
\* new book are added.
UpdateGraph(e) ==
    LET base == Base[e.symbol]
        quote == Quote[e.symbol]
        bid == Top(books'[e.symbol]["Bid"])
        ask == Top(books'[e.symbol]["Ask"])
    IN  IF bid # None /\ ask # None
        THEN Graph!SetRate(base, quote, bid, ask)
             /\ Graph!SetSymbolFor(base, quote, e.symbol)
        ELSE /\ currencies' = Graph!AddOnce(Graph!AddOnce(currencies, base), quote)
             /\ UNCHANGED <<neighbours, weight, symbolMap>>

\* The loop of poll over the events, which holds the locks of books and graph.
ApplyBook ==
    /\ inbox # <<>>
    /\ LET e == Head(inbox)
       IN  /\ e.kind = "book"
           /\ books' = [books EXCEPT ![e.symbol][e.side][e.level] =
                          IF e.action = "Upsert" THEN e.price ELSE None]
           /\ UpdateGraph(e)
    /\ inbox' = Tail(inbox)
    /\ UNCHANGED <<startVars, connVars, messageAge, adapterVars>>

\* apply_trade only copies timestamps.
ApplyTrade ==
    /\ inbox # <<>>
    /\ Head(inbox).kind = "trade"
    /\ inbox' = Tail(inbox)
    /\ UNCHANGED <<startVars, connVars, messageAge, books, graphVars, adapterVars>>

\* Mutant: silence is not reported.
WrongDegraded == ~connected \/ errors >= MaxPollErrors

\* health(): degraded
Degraded ==
    \/ ~connected
    \/ errors >= MaxPollErrors
    \/ messageAge \in {None, MessageTimeout + 1}

LinkDrops ==
    /\ link = "up"
    /\ link' = "down" /\ streams' = {} /\ refused' = {}
    /\ UNCHANGED <<startVars, connVars, dataVars>>

Tick ==
    /\ reconnectIn' = IF reconnectIn \in {None, 0} THEN reconnectIn
                      ELSE reconnectIn - 1
    /\ messageAge' = IF messageAge \in {None, MessageTimeout + 1} THEN messageAge
                     ELSE messageAge + 1
    /\ UNCHANGED <<startVars, connected, errors, attempt, inbox, books, graphVars,
                   adapterVars>>

Startup == Connect \/ \E s \in Symbols : Subscribe(s)
Poll == ReconnectOk \/ ReconnectFails \/ PollOk \/ PollFails
Apply == ApplyBook \/ ApplyTrade

Next == Startup \/ Poll \/ Apply \/ LinkDrops \/ Tick

Spec == Init /\ [][Next]_vars

\* The loop starts, polls at every interval and applies what it received; time
\* passes; a venue that is asked to connect again and again answers at some point.
FeedFairness ==
    /\ WF_vars(Startup)
    /\ WF_vars(Poll)
    /\ WF_vars(Apply)
    /\ WF_vars(Tick)
    /\ SF_vars(ReconnectOk)

FairSpec == Spec /\ FeedFairness
-------------------------------------------------------------------------------
FeedTypeOK ==
    /\ todo \subseteq Symbols
    /\ started \in BOOLEAN
    /\ subscribed \subseteq Symbols
    /\ connected \in BOOLEAN
    /\ errors \in 0 .. ErrorCap
    /\ attempt \in 0 .. MaxAttempt
    /\ reconnectIn \in 0 .. ReconnectMax \cup {None}
    /\ messageAge \in 0 .. MessageTimeout + 1 \cup {None}
    /\ inbox \in Seq(Events)
    /\ books \in [Symbols -> [Sides -> [Levels -> Prices \cup {None}]]]
    /\ Graph!GraphTypeOK
    /\ link \in {"up", "down"}
    /\ streams \subseteq Symbols
    /\ refused \subseteq Symbols

\* A feed that is connected has failed fewer than five times in a row and has
\* no reconnection scheduled, whatever failed before it connected.
ConnectedIsClean ==
    connected => errors < MaxPollErrors /\ attempt = 0 /\ reconnectIn = None

\* While the link lives, every symbol that was subscribed is streamed, except
\* those that the adapter refused when it reconnected: no other path loses one.
StreamsUnlessRefused ==
    (started /\ link = "up") => streams = subscribed \ refused

\* Both edges of a pair carry the best prices of its book whenever the book has
\* two sides, whatever levels were inserted, deleted and inserted again, and
\* whatever happened to other symbols and to the link.
EdgeIsTopOfBook ==
    \A s \in Symbols :
        LET bid == Top(books[s]["Bid"])
            ask == Top(books[s]["Ask"])
        IN  TwoSided(s) =>
              /\ bid > 0 => weight[<<Base[s], Quote[s]>>] = -Log[bid]
              /\ ask > 0 => weight[<<Quote[s], Base[s]>>] = Log[ask]

\* Every edge can be traded: the symbol and the side that detection gets for it
\* sell the source for the target, or buy the target with the source.
EdgeIsTradable ==
    \A a, b \in Currencies :
        weight[<<a, b>>] # None =>
            LET order == Graph!SymbolAndSideFor(a, b)
            IN  /\ order.symbol \in Symbols
                /\ <<a, b>> = IF order.side = "Sell"
                             THEN <<Base[order.symbol], Quote[order.symbol]>>
                             ELSE <<Quote[order.symbol], Base[order.symbol]>>

\* The graph's lists agree with its weights.
EdgesListedOnce == Graph!EdgesListedOnce

\* A link that died is replaced by a new one.
DeadLinkReplaced == (started /\ link = "down") ~> (connected /\ link = "up")
===============================================================================
