# A TLA+ development of triarb

triarb looks for triangular arbitrage (three currency pairs whose rates multiply
to a profit), trades the three legs through an order engine, and unwinds what it
bought when a leg fails.  This directory models the program's own core logic,
model-checks it on small instances with TLC, and proves its main invariants with
TLAPS.  The modules are translated from the Rust sources; where the documentation
and the code disagree, the model follows the code and a run shows the difference.

`PROJECT.json` is the machine-readable index: components, runs, the source lines
each definition models, findings, hazards and theorems.

## The system

| Component | State it keeps | Operations | What makes it correct |
|---|---|---|---|
| `DedupTable` (ta-core) | opportunity id -> instant of insertion, ttl | `check_and_insert`, `gc` | an opportunity is not executed twice within its ttl, and can be executed again after it |
| `FillState`, `OpportunityId` (ta-core) | three leg statuses; a hash of the triangle | `new`, `apply`-style updates, `needs_rollback` | a rollback is needed exactly when some, but not all, legs are filled |
| `ExchangeRateGraph` (ta-core) | edges (rate, log weight, symbol), timestamp | `add_currency`, `set_rate`, `set_symbol_for`, `symbol_and_side_for`, `is_fresh`, `detect` (SPFA from node 0) | what is reported is a profitable cycle of the current rates |
| `DetectionEngine` (ta-detect) | configuration | `detect`: freshness, profit, length filters; symbols and prices of the legs | only fresh three-leg cycles with a symbol for each leg come out |
| `RiskController` (ta-exec) | failure count, breaker deadline, trade instants, notional per symbol | `check`, `check_symbol_notional`, `record_success` (with `gc`), `record_failure` | the breaker, the trade cap and the notional limit hold |
| `PriceChecker` (ta-exec) | none | `check_opportunity` against the books | no leg is traded at a price that moved |
| `OrderTimeoutTracker` (ta-exec) | opportunity id -> submitted legs with instants | `record_submission`, `resolve_*`, `check_timeouts` | a leg without an answer is reported, one with an answer never is |
| `FileOrderLog` (ta-exec) | entries in memory, a JSONL file behind a `BufWriter` | `open`, `record_*`, `find_unacknowledged`, `report_unacknowledged` | after a crash it tells which orders were sent and never answered |
| `ExecEngine` (ta-exec) | the above, `pending_fills`, order numbering | `execute_opportunity`, `check_order_timeouts`, `new` | sequential legs, hedged on failure, nothing forgotten |
| `FeedEngine` (ta-feed) | adapter, subscriptions, books, backoff, health | `connect`, `try_reconnect`, `subscribe`, `poll`, `apply_*`, `health` | a dead link is noticed and replaced with the right backoff, no symbol gets lost; books and graph agree |
| run loop (ta-bin) | all of the above | poll, detect, enrich, execute, periodic checks, ctrl-c | what is traded pays what was detected |
| backtest (ta-sim, ta-bin) | simulated books, graph, trades | `run`, `normalize_routes`, `simulate_trade`, `execute`, `write_jsonl` | fills are what the book offers, a trade is a cycle from the home currency |
| dashboard (ta-dashboard, Java) | list of trades | `computeSummary`, `recentTrades`, concurrent writers | summaries of a list that grows while it is read |
| configuration, metrics, clock skew, benchmarks, analysis | none or write-only | parsing, counters, one SNTP exchange | not modelled (see the end) |

How they interact.  The program is one process.  The run loop is a single task: it
polls the feed, which updates books and rate graph; detects; enriches the
opportunities with sizes and prices; and calls `execute_opportunity`
synchronously, once per opportunity.  Inside that call the engine asks the dedup
table, the risk controller and the price checker, then for each leg writes an
intent to the journal, tells the timeout tracker, and submits to the order engine
(a trait object from another repository), which answers at once with success or an
error.  `check_order_timeouts` is called by the loop between calls.  Only the
journal file survives the process.

What is hard here is therefore not threads but: the order of the side effects
inside one call relative to a crash; a check made once and used for three legs;
counters that are reset in the middle of a call; cleanup that only happens on some
paths; a file whose failed writes surface later; and the clock, which advances
between any two steps of a call.  `PROJECT.json` lists each hazard at its line.

## Modules

| Module | Models | Correspondence |
|---|---|---|
| `DedupTable` | `DedupTable` | `dedup[id]` is the map's instant or `Absent`; `Insert` is `check_and_insert` returning true, with the `gc()` that may follow |
| `RiskController` | `risk.rs` | one operator per method; `trade_timestamps` is a set of numbered trades, since the code only filters and counts it |
| `OrderTimeoutTracker` | `order_timeout.rs` | the map of lists as a set of triples |
| `OrderJournal` | `journal.rs` | `entries`, the file (`disk`, plus the `piece` after its last newline) and the `BufWriter` (`unwritten`); a flush may write any prefix of what is buffered |
| `ExecEngine` | `ta-exec/src/lib.rs`, `hedge.rs`, the loop's calls | composes the four above by `INSTANCE`; one action per step of `execute_opportunity`, cut where the journal, the order engine, the clock or a crash can matter |
| `TriangleTrade` | what ta-exec promises about three legs | the abstract specification; `ExecEngine` maps `pc`, `status`, `reply`, `hedges` to its `stage` and `legState` |
| `MCRiskController`, `MCOrderJournal` | clients of one component | any order of operations, with a history to state properties against |
| `MCExecEngine`, `MCExecBreaker` | instances of `ExecEngine` | both directions of one triangle, a route through a crossed pair, and histories |
| `RateGraph` | the graph's updates and lookups (`ta-core/src/lib.rs`) | currencies and successors as sequences in the code's order, an edge's weight and a pair's symbol as functions; `Log` gives the logarithm of a price |
| `SpfaSearch` | `ExchangeRateGraph::detect` | its locals as variables, one action per turn of each of its loops: an edge relaxed (`RelaxEdge`), an edge tested again (`ScanEdge`), a predecessor followed (`WalkBack`), a route reported (`Report`) |
| `DetectionEngine` | `ta-detect/src/lib.rs` | extends `SpfaSearch` with the freshness test and the loop that filters routes (`Filter`) |
| `LiveLoop` | the polling branch of `run_loop`, `enrich_opportunity`, `price_check.rs` | extends `DetectionEngine` with the best prices of every book; poll, detect, then each opportunity priced, checked and executed |
| `FillModel` | `FillModel::execute` of `ta-sim/src/lib.rs` | a pure function, with a reference definition (`IsWalk`) that takes the book unit by unit |
| `Backtest` | `BacktestEngine`, `SimulatedExchange`, `run_backtest` | extends `DetectionEngine` and `FillModel`; one action per tick, per opportunity, and for the end of the file |
| `FeedEngine` | `ta-feed/src/lib.rs`, the loop's subscribe, connect and poll | one action per outcome of a method; owns a `RateGraph` by `INSTANCE`; the market data adapter is `link`, `streams`, `refused` |
| `MCFeedEngine` | an instance of `FeedEngine` | two symbols that share a currency, and histories of the link and of the backoff |
| `MCLiveLoop` | an instance of `LiveLoop` | four currencies and five pairs; the reference definition of what the search should find (all simple cycles) is in `SpfaSearch` |
| `MCBacktest` | an instance of `Backtest` | three currencies, seven configurations, and books for a test of the fills |
| `RiskProofs`, `JournalProofs`, `ExecProofs`, `FeedProofs`, `SearchProofs`, `LiveLoopProofs`, `BacktestProofs` | theorems, each about the module it extends | see below |
| `Induction` | facts about recursive functions and sums that the proofs share | |

Operators and actions whose name starts with `Wrong` are not part of any
specification.  Each is a plausible mistake in the definition that follows it; with
it in place some property fails, which is how the properties are shown to depend
on the code.

Choices in `ExecEngine` worth knowing:

* The order engine is external.  An answer is `filled`, `rejected`, or `unbuilt`
  when `build_order_req` fails before anything is sent.  As in the code, `Ok` means
  a full fill: the execution events are not inspected.  What the venue did is kept
  apart from what the engine knows (`moved`, `unconfirmed`, `abandoned`), so the
  position can be compared with the engine's belief.
* The code reads the clock several times within a step; a step here is one
  instant.  `Tick` may happen between any two steps, so a slow order is covered.
* The price check is a free choice here, where there are no books; `LiveLoop` has them
  and shows that it never refuses.
* `Crash` may strike between any two steps and loses everything but the file;
  `Shutdown` is ctrl-c, which the loop notices only between calls and which drops
  the log (a `BufWriter` flushes when dropped).  `Restart` is `ExecEngine::new`.
* Opportunities have three legs, as `ta-detect` leaves them
  (`OpportunityAssumption`); sizes are positive because `ta-bin` skips others.  The
  legs need not close a cycle, nor trade three different symbols: book updates
  arrive one level at a time and books survive a reconnect, so a book can be
  crossed (bid above ask), and then `detect()` may walk through one pair and back
  and report an open route such as ETH, BTC, ETH, USDT.
* Opening the journal succeeds.  When it fails, `ExecEngine::new` tries once more and the
  process does not start (ta-exec/src/lib.rs:104-112), which leaves everything as it was.
* Quantities are small naturals; the code's fixed-point `Decimal`s are added and
  compared only, never rounded, on the modelled paths.

Choices in `FeedEngine` worth knowing:

* The market data adapter is external.  What the code in src/ relies on is assumed:
  a subscription made before the connection is honoured by it, a lost link ends its
  streams, and a poll of a dead link fails.  It may refuse any connection and any
  subscription, and a poll of a live link may fail too.
* Instants are kept as ages and remaining times (`messageAge`, `reconnectIn`), which
  saturate where the code can no longer tell the difference, so time is unbounded.
  So do `errors` (at `ErrorCap`, read only against 5) and `attempt` (at `MaxAttempt`;
  the code saturates it at 2^32 - 1 and reads it only through the capped delay).
* A poll's events are applied one per step, in order, before the next poll; the
  connection may drop and time may pass in between.  In the code the locks of books
  and graph are held for the whole list.
* A side of a book maps levels to prices: the code's list is sorted by level and has
  each level once.  Sizes, counters and the timestamps that trades copy into a
  book are left out; `last_updated_at` of the graph is the `age` of `DetectionEngine`.
* `parse_currency` is the pair of constants `Base` and `Quote`; that no two symbols
  trade the same two currencies is an assumption (`PairAssumption`), true of the
  symbols of one venue.

Choices in `SpfaSearch`, `DetectionEngine`, `LiveLoop` and `Backtest` worth knowing:

* Weights, profits, fees and thresholds are integers in one unit, so sums are exact;
  the code's tolerance of 1e-12 has nothing to absorb.  The factor 10000 of the basis
  points disappears with the unit.
* `in_queue` is what the queue contains; the only place where the code lets the two
  differ is the early exit, after which neither is read.
* Nothing changes graph or books between the start of detection and the last
  execution of a poll: one task does it all, and only `feed.poll()` writes.  The search
  is still a sequence of steps, because its invariants are about its middle.
* `LiveLoop` sees a book as its best bid and ask and lets a poll apply any moves;
  `FeedEngine` models how they come about.  The size of a leg is left out: a leg whose
  price is there but whose level has size 0 is skipped in the code like one without a price.
* `execute_opportunity` is seen from `LiveLoop` as three outcomes in the code's order:
  refused by deduplication or risk, refused by the price check, or the legs are sent.
* In `Backtest` a trade's return is a fraction (`num`, `den`), so that fees and three
  conversions are exact; `starting_capital` only scales it.  The average, largest and total
  profit of a result are only displayed and left out.  A tick of a symbol without a mapping
  advances the replay and nothing else.
* The prices of a file are any integers, as nothing looks at them before the replay.  A price of
  zero or less moves the simulated book, while `set_rate` leaves the edge at its last rate.  A
  purchase at a price of zero has a return with denominator 0; if the numerator is 0 too,
  the code's profit is not a number, and the trade counts neither as profitable nor as unprofitable
  (`Undefined`).
* Detection takes its fee three times off the logarithm of a cycle's gain, the simulation
  multiplies by what the fee leaves.  The model keeps both as they are, each in its own unit.

## Runs

| Run | Shows |
|---|---|
| `risk_controller` | outcomes recorded in any order: a run of failures blocks for the whole cooldown even when the breaker had recovered before (`FailureRunBlocks`), dropping timestamps in `gc` never loses a trade `check` should count (`WindowCountsAllTrades`), and a success does not close a tripped breaker (`BreakerClosesByClock`) |
| `order_journal` | with failing flushes, crashes and shutdowns, readable lines never repeat or change order (`ReadableInOrder`), and a later flush makes up for failed ones but for a line glued to an orphaned piece (`FlushHeals`) |
| `exec_safety` | a triangle and a route through a crossed pair, every combination of answers: limits (`NotionalBound`, `TradeCapSlack`, `NotionalNeverShrinks`), position (`MovedIsOpenLegs`, `CallSettles`), tracker (`NothingTimesOut`), dedup (`ReacceptAfterTtl`), and refinement of `TriangleTrade` |
| `exec_crash` | journal, up to two crashes or shutdowns at any step: `UnansweredHasIntent`, `LostOrderRevealed`, the refinement across restarts, and the liveness property `EveryCallEnds` |
| `feed` | a link that drops at any time, refused connections and subscriptions, books that gain and lose levels: streams (`StreamsUnlessRefused`), a connection that leaves nothing of earlier failures behind (`ConnectedIsClean`), edges against books and symbols (`EdgeIsTopOfBook`, `EdgeIsTradable`, `EdgesListedOnce`), backoff (`BackoffRespected`), and a dead link that `health()` reports (`DeadLinkReported`) and that is replaced (`DeadLinkReplaced`, liveness) |
| `live_loop` | books that move, cross and lose either side: the search finds something exactly when some cycle in reach gains (`DetectionComplete`), never overstates a triangle (`ProfitNotOverstated`), reports an open route only when a pair is crossed (`OpenRouteNeedsCrossedPair`); the price check refuses nothing (`PriceCheckNeverRefuses`), triangles traded in two-sided books pay what was promised (`TwoSidedTradePays`), and every poll ends (`EveryPollEnds`, liveness) |
| `backtest` | any file of up to four ticks, seven configurations: every leg of a trade is filled with the first units of its book, under its slippage and fee (`FillsAreWalks`), trades go round from the home currency unless a pair is crossed (`TradeIsACycle`), and without fixed slippage a cycle is simulated at prices that gain, before the simulated fees, what detection promised and the fees detection took off (`TradeKeepsPromise`) |
| `doc_resubscribe` | documented: on reconnect all symbols are re-subscribed; a refusal is dropped without a trace |
| `doc_breaker` | documented: the breaker trips after consecutive execution failures; a leg that fills first resets the count, so it may not |
| `doc_lost_order` | documented: the journal reveals orders sent but never confirmed; a confirmation of another leg hides them |
| `doc_quiet_report` | a restart may log "no recovery needed" with a leg open and unhedged |
| `doc_dedup_ttl` | documented: periodic gc evicts stale entries; duplicates do not count towards the period, so an id can stay for ever |

Bounds.  `exec_safety` has two opportunities that share two symbols, one of them a
route that sells and buys the same pair in different sizes, so that notionals are
shared and a leg may partly undo another; `doc_breaker` has both directions of a
triangle; five instants (`MaxTime = 4`) with a window of 3, a ttl and a
cooldown of 2 let every deadline be reached and passed, and a tripped breaker
recover; a cap of 2 trades is reached within one call; a notional limit of 4 is
reached by the second call; `GcPeriod = 2` stands for 100 and makes both kinds of
calls happen.  `exec_crash` has one opportunity and two crashes or shutdowns, the
least with which a restarted process can crash again; `GcPeriod = 1` lets the
opportunity be executed again within one life.  `risk_controller` records up to
five outcomes, more than twice the failure limit; `order_journal` appends up to
five entries over up to three sessions.  The clock and the number of crashes are
the only bounds on behaviours of `ExecEngine`; the proofs hold for every value of
both.  `feed` has a
symbol with two levels of bids at two prices and an ask that comes and goes, and a
second symbol that appears with both sides in one poll and may lose its ask; two
failed polls in a row stand for five, a maximum delay of 3 cuts the second doubling of
a base of 1, and a message timeout of 1 is passed by a single step of the clock.
Nothing bounds its behaviours.  `live_loop` has four currencies and
five pairs, so that there is a triangle through the first node and one apart from it.  One book takes every combination of two prices and a missing side, crossed
included; two more alternate between two tops; the last two give the fourth
currency its edges, and `FixedFirst` lets them appear first, which fixes the order of the
nodes and of some successors.  The two prices have logarithms 0 and 4, so that the
smallest gain of a cycle just reaches the fees of three legs and the minimum (`Fee = 1`,
`MinProfit = 1`).  Time is one step past the maximum age.  Nothing
else bounds its behaviours.  `backtest` replays four ticks, one more than it takes
to fill the three books.  Prices are -1, 0 and three powers of two, whose logarithms after the
division by `Divisor` are integers; a file may give a book a price of zero or less after its
edge was set.  The detector's fee of 1 stands for a factor of two; of the simulated fees, 9 of
`BpsScale = 13` is as good as the same amount (0.6923 against ln 2 = 0.6931), and still an offered
cycle may lose, as three times 4/13 takes more than 2^5.  The other configurations have no fee, a
small one, and one that takes everything, which makes undefined trades.  `Depth = 20` is passed by
one configuration's order of 25 and by no other; one configuration orders nothing, one never
detects and one detects at every second tick.  Books of several levels do not come up in a
replay, so `SamplesAreWalks`, which TLC evaluates before it starts, tests the fill model on
books of up to three levels with sizes 0, 1 and 3 and a negative price, with every kind of slippage,
fees of 0 and 2, and orders from nothing to more than the book.
Deadlock checking is off in the two component runs, whose
clients stop at their bounds, and in `backtest`, which ends with the file; in the others it is on:
the loop can always check the timeouts, or poll again.

Fairness.  `CallFairness` is weak fairness of the steps of a running call: it is one
synchronous function, and the order engine's trait returns an answer.  It is all
`EveryCallEnds` needs.  `OfferFairness` says that the loop keeps offering every
opportunity that would be accepted, keeps checking timeouts, and that time passes.
It makes `doc_dedup_ttl` meaningful: the entry stays although the loop keeps
running.  No fairness is assumed of crashes or restarts.
`live_loop` assumes weak fairness of `Step`, the steps of the branch once detection has
begun: they are one task that nothing else can keep from going on.  No fairness is
assumed of polls or of time, and none in `backtest`.
`FeedFairness` is weak fairness of the loop (it starts, polls at every interval and
applies what it received) and of time, and strong fairness of `ReconnectOk`: the loop
asks the venue to connect again and again, and a venue that is asked again and again
answers at some point.  The last part is an assumption about the venue; without it no
link is ever replaced, and with it `DeadLinkReplaced` still needs the code to notice the
dead link and to let every delay end.

## Theorems

Assumptions on the constants are named in the modules that declare them and are the only
ones used, but for one hypothesis stated in the theorem about the backoff.  None of the
theorems depends on the bounds of the runs.

### Execution (`ExecProofs`)

For any set of opportunities, any configuration and any bound, from `OpportunityAssumption`
(three legs with positive sizes), `ConfigAssumption` (natural numbers, `GcPeriod > 0`) and
`BoundAssumption`.

* `TypeCorrect` - every variable keeps its type (`TypeOK`; the journal's variables
  are typed in the proof of `UnansweredHasIntent`).
* `TradeCapSlackHolds` - by `CapInv`: inside the leg loop the window holds at most
  `MaxTrades + leg - 2` trades.  `TradeCapSlack` alone is not inductive, since a
  fill at the bound would break it; `CapInv` says that the loop starts below the cap
  and each leg adds one.  `WithinAddsOne` and `RecentShrinks` are the counting facts.
* `NotionalNeverShrinksHolds` - from `CapInv`: `gc()` clears the notionals only above
  twice the cap, and `MaxTrades + 2 <= 2 * MaxTrades`.
* `NotionalBoundHolds` - by `NotionalInv`: the legs still to be filled fit under the
  limit.  It is kept because, for a symbol that no route trades twice, filling one
  leg leaves the symbols of the others alone.
* `MovedIsOpenLegsHolds`, `CallSettlesHolds` - by `ProgressInv`, which says for each
  place in the call which legs are filled and which hedged, and `PositionInv`.
* `NothingTimesOutHolds` - by `PendingInv`: the tracker only holds legs of the running
  call.
* `ReacceptAfterTtlHolds` - by `Remembered`: an id that this process accepted less than a time
  to live ago is in the table under the instant of that call.  It is about `MCSpec`, whose
  history `acceptedAt` is that instant.
* `ImplementsTriangleTradeHolds` - the refinement.  `View` states what `TriangleTrade`
  sees at each place in a call; `StepImplements` takes each action to its abstract
  step (`SubmitLeg` to `FillLeg` or `FailLeg`, `HedgeLeg` to `Unwind`, the two ends of a
  call to `End`, crash and shutdown to `CutShort`) or to a stutter.
* `UnansweredHasIntentHolds` - by `JournalInv`: with a file that accepts every write
  nothing stays buffered, and the intent of the current order is in the file from
  `submit` on.
* `LostOrderRevealedHolds` - from the same invariant: the list that `read_all` gives
  back holds every well-formed line (`Collects`), so the intent is in the list that
  `find_unacknowledged` searches.

### The journal (`JournalProofs`)

For any number of ids, entries, crashes and restarts, from `ClientAssumption`.  A failing flush
moves some prefix of what is buffered and may leave a piece of a line, so one invariant,
`JournalInv`, relates all three places an entry can be: the buffer holds the last entries of the
session (`BufferIsTail`), the lines of the file carry increasing numbers that are none of the
buffered ones (`DiskInOrder`), and what was written in this session is on the disk,
except a first entry glued to an orphan (`SessionOnDisk`).  `FlushIsMove` reduces every outcome of
a flush to "the first k buffered lines moved".

* `ReadableInOrderHolds` - with `ReadAllKeepsOrder`: leaving out malformed lines keeps the order.
* `FlushHealsHolds`, `JournalTypesHold`.

### The risk controller (`RiskProofs`)

About `MCRiskController`, for any client, configuration and bounds, from `RiskAssumption` and its
`ClientAssumption` (types; a failure limit above zero, since a limit of zero makes every history end
in a run of failures).

* `FailureRunBlocksHolds` - by `RunCounted` (the count is the length of the failures at the end
  of the history) and `TrippedByLast` (at the limit, the last failure set the deadline).
* `WindowCountsAllTradesHolds` - the property is not inductive, as it speaks of the window
  that ends now; `WindowsComplete` says it of every window that ends now or later, and
  what `gc()` drops is in none of those.
* `BreakerClosesByClockHolds` - a failure may replace the deadline, and `DeadlineNear` (none is
  further away than a cooldown) is why the new one lies ahead too.
* `RiskTypesHold`.

### The feed (`FeedProofs`)

For any symbols, levels, prices, lists of events and configuration, from `FeedAssumption`
(types; sets of levels have a least one) and `PairAssumption`.

* `FeedTypeCorrect` - every variable of the feed and of its graph keeps its type.  The
  delay is the interesting part: `DelayBounded` shows that none exceeds the maximum.
* `ConnectedIsCleanHolds`, `StreamsUnlessRefusedHolds` - by `LinkInv`, which adds what holds
  before `connect()` (`NotStarted`): subscriptions made then are all streamed once the link
  is up, and the errors they count are not those of a connected feed.
* `DeadLinkReportedHolds` - by `SilentSinceDown`: nothing arrives over a dead link, so the
  silence `health()` measures is at least as long as the outage.  It is about `MCSpec`,
  whose history variable `downFor` is the outage, for any symbols and batches.
* `BackoffRespectedHolds` - by `DelayRuns`: what has passed since a reconnection was scheduled
  and what is left until it make up its delay.  The theorem's hypothesis is that seven doublings
  of the base reach the maximum, as they do by default (250 ms, 30 s); with a larger maximum the
  code stops doubling before it, and the property as stated would be false.
* `EdgeIsTopOfBookHolds`, `EdgeIsTradableHolds`, `EdgesListedOnceHolds` - by `EdgeInv`.
  `ApplyBookStep` reduces an update to "one book changed, and its pair's rates were set or
  the edges stayed"; that other pairs keep their edges is where `PairAssumption` is
  needed.  `EdgeIsTradable` is not inductive: `SymbolTradesPair` and `EdgeHasSymbol` say
  why a symbol registered in one direction serves both edges.

### Detection and the live loop (`SearchProofs`, `LiveLoopProofs`)

For any currencies, symbols, prices, logarithms, moves of the books and thresholds, from
`DetectionAssumption` and `LoopAssumption` (types; a symbol has two different currencies, and no two
symbols the same two).  `SearchProofs` holds the invariants of a search, one lemma per action, while
the graph stays as it is; `LiveLoopProofs` and `BacktestProofs` join them to what changes the graph.

* `ProfitIsNotOverstated` - by `SearchInv`.  A distance is set to its predecessor's plus
  the edge's weight, and afterwards distances are only lowered, so for every node
  `dist[pred] + weight <= dist` (`Tight`).  A reported route is read off predecessors; along
  it these inequalities telescope, and for a closed route what remains is the profit of
  the relaxing edge.  Walks stay inside reached nodes (`WalkSupported`), and each
  report is proved sound when it is made (`ReportSound`), since the graph cannot
  change while reports are waiting.  The same argument shows that a profit is never
  infinite on a triangle.
* `DetectionIsComplete` - the search reports something exactly when some cycle in reach of
  the first node gains, by `CompleteInv`.  A search ends in one of two ways (`Outcome`).
  Either no edge can lower a distance (`Settled`); then the weights around a cycle
  telescope to at least zero (`SettledDoesNotGain`), and no edge is reported.  Or it was cut
  short, and two facts decide.  Predecessors only ever form cycles that gain
  (`PredCyclesGain`), because the edge that closes one has just lowered a distance.  And a node
  lowered in as many rounds as there are nodes has a chain of that many predecessors before
  it, which by the pigeonhole principle contains such a cycle (`LateLoweringGains`, `Crowded`);
  an edge of it can still be relaxed, and the scan reports it.
* `OpenRoutesNeedCrossedPairs` - an open route of three legs comes from a walk that stopped at the
  first node, which has no predecessor, or at a node it had met (`OpenRouteCrossed`).  The first
  cannot be: such a short chain was looked at before the search was cut short (`ChainsDone`), and its
  last edge lowers nothing.  In the second the walk met two nodes that are each other's predecessors;
  they form a cycle, so it gains, and that is a crossed pair (`MutualCrossed`).
* `LoopTypesHold` - the interesting part is that a leg has a symbol and a side and an
  offer three prices: every edge of a reported route has a weight (`ReportSound`), and
  a weighted edge has a symbol in one of its directions (`SymbolTradesPair`).
* `PriceCheckIsVacuous` - `OfferSound`: the prices of an offer are the tops of the books,
  from the moment it is made until it is executed.
* `TwoSidedTradesPay` - `BooksInGraph` says that a two-sided book and its two edges agree,
  so the gain of a leg at the traded price is minus its weight; with
  `ProfitNotOverstated` the three gains pay the promise and the fees.

### The backtest (`BacktestProofs`)

For any ticks, configurations, currencies and prices (of zero or less too), from
`DetectionAssumption` and `BacktestAssumption` (types; finitely many symbols, as they are the keys
of a map; two different currencies for each).

* `FillsFollowTheBook` - for every book with its best price first, every side, size, slippage model
  and fee, what `execute` fills satisfies `FillIsWalk`: it has the first units of the book at their
  average price, moved by the slippage of the model, pays the fee of that, and reports a slippage
  that is no gain and grows with the order.  The book is cut into units (`UnitsBlocks`); what a
  level takes is the part of its block that the order reaches (`LeftOfBlocks`), so the cost of the
  fills is that of the first units, block by block (`FillsCostUnits`).  The average of the first n of
  numbers that rise, or that fall, moves one way with n (`AverageRises`), and truncation keeps
  this (`TruncatedRises`).
* `FillsAreWalksHolds` - the same of every leg of every trade of a replay, against the book
  at that moment.  A trade is three legs that `LegFill` made of books of ticks (`MadeOf`).
* `BacktestTypesHold` - `BacktestInv` also says what each place of the replay allows; the totals
  of the report add up because profitable, unprofitable and undefined trades split the rows.
* `TradesAreCycles` - an opportunity's legs follow each other and close unless a pair is crossed
  (`OpportunityJoined`, from `OpenRouteCrossed`); a rotation to the home currency keeps
  that (`Rotated`), and no step between detection and the last trade changes the graph.
* `TradeKeepsPromiseHolds` - by `PromiseInv`: a book whose prices are both positive has the
  rates of its two edges, as long as no two symbols share them (`BooksInGraph`), and the edges of
  a waiting opportunity pay its promise and the fees (`OpportunitiesPay`, from `ReportSound` when the
  opportunity is made).  A book of one level is filled at its price whatever the size
  (`FlatFill`), so a leg gains the rate of its edge.

### How the proofs reason about recursion

Sums, `read_all` and the walk through the book are recursive functions.  `Induction` shows what such
functions compute: induction over an interval, the existence of functions defined by recursion, sums
that telescope, and collecting the elements of a sequence in order.  Where an argument needs a largest or
least index it is taken from the well-foundedness of the naturals.

### Only model-checked

* `EveryCallEnds`, `DeadLinkReplaced`, `EveryPollEnds` - liveness under fairness is
  outside the proof system.  So are the counterexamples of the `doc_` runs.
* What a simulated trade returns after its fees: it relates products to sums of logarithms, and
  no property claims more than the gain before fees (`TradeKeepsPromise`).

## What the code does that its documentation does not say

Shown by the five `doc_` runs above, and by properties that hold:

* A subscription refused after a reconnection is ignored, and one refused at the start
  is never asked for again; the feed counts as healthy as long as other symbols send.
* A book that loses a side keeps its edges at the last rates.
* The notional limit is checked for each leg alone, so a route that trades one
  symbol twice can exceed it (`NotionalBound` excepts the symbols such a route
  trades); the test of `detect()` at ta-core/src/lib.rs:516 expects closed cycles only.
* The trade cap can be exceeded by two (`TradeCapSlack`); risk.rs calls it a maximum.
* A notional is never released, not even for a hedged leg, and the clearing in `gc()`
  is dead code (`NotionalNeverShrinks`): a symbol that reaches its limit stays
  refused until the process restarts, when everything is forgotten.  The notional is
  the leg's size in the base currency.
* `check_order_timeouts` never reports anything (`NothingTimesOut`), because answers
  are synchronous and it runs between calls.
* A call whose hedges were rejected returns `RolledBack` like any other
  (`CallSettles` has that exception).
* `detect()` may report routes that are no cycles.  Such a route needs a pair whose two
  rates gain on each other (`OpenRouteNeedsCrossedPair`), which a crossed book makes;
  the backtest simulates those whose two ends are the home currency (`TradeIsACycle`).
* The price check compares the books with themselves (`PriceCheckNeverRefuses`).  What
  protects a trade is that edges follow two-sided books; a book that lost a side keeps
  its old edges, and the side that is left is traded at whatever price it has now.
  So the loop can trade a triangle that loses: `TwoSidedTradePays` needs its condition.
* README.md:105 says that the search runs on every node; it runs from the first node
  only, and finds the cycles within its reach (`DetectionComplete`).
* The search says that there is a gain, not which triangles gain: when a longer cycle or
  a crossed pair is found first, a triangle that gains may stay unreported.
* The legs enter an opportunity's id in the order of the walk, so one triangle met from two
  nodes has two ids; one detection may offer it twice and deduplication (whose ids
  README.md:106 describes as the same for the same triangle) does not notice.
* `SlippageModel::None` is documented as a fill at the top of the book whatever the size; `execute`
  walks the book for it as for `Walk`.  `latency_ns` is not read.
* The fees of a backtest multiply where those of detection add up in logarithms.  Three fees of
  10 bps are 30 bps for the detector, while a cycle needs about 30.015 bps in logarithms to win in the
  simulation; so with equal fees and a `min_profit` near zero a backtest may show losing cycles
  even without fixed slippage.  Before fees a cycle gains what was promised (`TradeKeepsPromise`).
* A trade whose return is not a number (bought at zero, sold for nothing) counts neither as
  profitable nor as unprofitable.  `total_opportunities_found` counts the trades executed, the
  expected profit of a row is the realised one, and `detect_interval_ticks = 0` never detects.
* Write errors of the journal are ignored, so with failing writes an order can go
  out without its intent in the file: `UnansweredHasIntent` needs `~IoFaults`.
* The dedup table, the risk counters and the order numbers start afresh after a
  restart, although the ids are documented to work across restarts:
  `ReacceptAfterTtl` speaks of what one process accepted.

## Plan

Done: the execution path (`DedupTable`, `RiskController`, `OrderTimeoutTracker`,
`OrderJournal`, `ExecEngine`, `TriangleTrade`), the feed (`FeedEngine`, `RateGraph`), detection
(`SpfaSearch`, `DetectionEngine`), the loop that joins them (`LiveLoop`) and the backtest
(`FillModel`, `Backtest`), each with its runs and theorems.  Every invariant the passing runs check is a
theorem, and so is every action property.

Next, in order of importance:

1. The ids of rotated triangles in `ExecEngine`, with two offers of one triangle in one poll.
2. The dashboard's readers while trades are appended.

## Not modelled, and why

* `ta-config`, the command line and credentials: parsing without state.
* The dashboard: a separate Java program that displays recorded trades; it takes no part
  in trading.
* The identity of an opportunity: ids are model values, their hash is not modelled.
* The sizes of the live loop's legs and the branch that writes health to the metrics.
* Overflow of amounts in the fill model: configured sizes and prices are far from 2^63.
* Metrics: counters that nothing reads back.
* `clock_skew.rs`: one UDP exchange, called from nowhere.
* `ta-bench`, `ta-analysis`: offline tools.
* The order engine and the exchange adapters live in another repository and are
  modelled as the environment that the code here calls.
* Loss of the operating system's file cache (the log never calls fsync), the text of
  JSON lines and timestamps in them.
