----------------------------- MODULE MCExecEngine -----------------------------
(***************************************************************************)
(* Small instances of ExecEngine: both directions of one triangle and a    *)
(* route through a crossed pair, with a history of the calls that were not *)
(* duplicates.                                                             *)
(***************************************************************************)
EXTENDS ExecEngine

Pairs == {"BTCUSDT", "ETHBTC", "ETHUSDT"}

Order(sym, side, size) == [symbol |-> sym, side |-> side, size |-> size]

Forward ==
    [id |-> "forward",
     legs |-> <<Order("BTCUSDT", "Buy", 1), Order("ETHBTC", "Buy", 2),
                Order("ETHUSDT", "Sell", 3)>>]

Backward ==
    [id |-> "backward",
     legs |-> <<Order("ETHUSDT", "Buy", 1), Order("ETHBTC", "Sell", 1),
                Order("BTCUSDT", "Sell", 2)>>]

\* What detect() makes of a crossed ETHBTC book: a route through it and back.
Crossed ==
    [id |-> "crossed",
     legs |-> <<Order("ETHBTC", "Sell", 1), Order("ETHBTC", "Buy", 2),
                Order("ETHUSDT", "Sell", 2)>>]

OneTriangle == {Forward}
ForwardAndCrossed == {Forward, Crossed}
BothDirections == {Forward, Backward}
-------------------------------------------------------------------------------
VARIABLE acceptedAt    \* instant at which this process last accepted each id, or -1

mcVars == <<vars, acceptedAt>>

Accepts(id) == pc = "idle" /\ pc' = "admit" /\ opp'.id = id

MCInit == Init /\ acceptedAt = [id \in Ids |-> -1]

MCNext ==
    /\ Next
    /\ acceptedAt' = [id \in Ids |-> IF pc' = "down" THEN -1
                                    ELSE IF Accepts(id) THEN now ELSE acceptedAt[id]]

MCSpec == MCInit /\ [][MCNext]_mcVars

MCFairSpec == MCSpec /\ CallFairness /\ OfferFairness

\* One process executes an opportunity again only when its time to live has passed
\* since the last time: what the dedup table is for.  Collections happen when other
\* ids are accepted; a restart forgets everything.
ReacceptAfterTtl ==
    [][\A id \in Ids :
         (Accepts(id) /\ acceptedAt[id] # -1) => now - acceptedAt[id] >= Ttl]_mcVars
-------------------------------------------------------------------------------
(***************************************************************************)
(* What the repository says and the code does not do.  Each is refuted by  *)
(* a run of its own.                                                       *)
(***************************************************************************)

\* FileOrderLog: find_unacknowledged "reveals orders that were sent but never
\* confirmed".  A confirmation of another leg hides them.
LostOrdersRevealed ==
    (pc = "idle" /\ result = "None") =>
        \A u \in unconfirmed :
            Journal!Intent(u.id, u.symbol, u.side)
                \in Journal!FindUnacknowledged(entries)

\* report_unacknowledged: "all orders acknowledged, no recovery needed".  A
\* crash between two legs leaves filled legs open that it does not look for.
QuietReportMeansNothingOpen ==
    (pc = "idle" /\ result = "None" /\ Journal!FindUnacknowledged(entries) = {})
        => abandoned = {}

\* README: "TTL-backed HashMap for opportunity deduplication. Periodic gc()
\* evicts stale entries."  Duplicates do not advance gc_counter, so an id can
\* be refused forever after its time to live.
ExpiredIdEvicted ==
    \A id \in Ids :
        (Dedup!Known(dedup, id) /\ now - dedup[id] >= Ttl)
            ~> ~Dedup!Known(dedup, id)
===============================================================================
