------------------------------ MODULE ExecEngine ------------------------------
(***************************************************************************)
(* The ExecEngine of ta-exec/src/lib.rs with the components it owns.       *)
(*                                                                         *)
(* execute_opportunity is one synchronous call, cut here at the points     *)
(* where something outside it matters: the journal file, the order engine  *)
(* (external: it fills or rejects an order), the clock, and a crash of the *)
(* process.  pc names the next step; the engine is "idle" between calls    *)
(* and "down" between a crash and ExecEngine::new.                         *)
(*                                                                         *)
(* Opportunities have exactly three legs (ta-detect drops the others) and  *)
(* positive sizes (ta-bin skips a leg of size 0).  Two legs may trade the  *)
(* same symbol: a crossed book makes detect() return such a route.  The    *)
(* result of the price check depends on books this module does not model:  *)
(* either may happen.                                                      *)
(***************************************************************************)
EXTENDS Integers, Sequences, FiniteSets

CONSTANTS
    Ids, Symbols,
    Opportunities,          \* [id |-> , legs |-> three [symbol, side, size]]
    Ttl, GcPeriod,          \* DedupTable's ttl; the 100 of periodic_gc
    MaxConsecutiveFailures, Cooldown, MaxTrades, TradeWindow, MaxNotional,
    OrderTimeout,
    Journaled,              \* ExecConfig::journal_path is Some
    IoFaults,               \* writes to the journal may fail
    MaxTime,                \* bound on the clock
    MaxCrashes              \* bound on crashes and shutdowns

Legs == 1 .. 3
Sides == {"Buy", "Sell"}
Leg == [symbol : Symbols, side : Sides, size : Nat \ {0}]

ASSUME OpportunityAssumption ==
    Opportunities \subseteq [id : Ids, legs : [Legs -> Leg]]

ASSUME ConfigAssumption ==
    /\ Ttl \in Nat
    /\ GcPeriod \in Nat \ {0}
    /\ MaxConsecutiveFailures \in Nat
    /\ Cooldown \in Nat
    /\ MaxTrades \in Nat
    /\ TradeWindow \in Nat
    /\ MaxNotional \in Nat
    /\ OrderTimeout \in Nat
    /\ Journaled \in BOOLEAN
    /\ IoFaults \in BOOLEAN

ASSUME BoundAssumption == MaxTime \in Nat /\ MaxCrashes \in Nat

VARIABLES
    now,
    dedup, gcCounter,                                    \* DedupTable
    consecutiveFailures, breakerUntil, trades, tradeNo, notional,
    pending,                                             \* OrderTimeoutTracker
    entries, disk, piece, unwritten,                     \* FileOrderLog
    pendingFills,     \* keys of ExecEngine::pending_fills
    nextOrderSeq,     \* ExecEngine::next_order_seq
    pc,
    opp,              \* the opportunity of the current or last call
    leg,              \* leg_idx of the leg loop, then of the hedge loop
    status,           \* FillState::legs
    result,           \* what the last call returned
    timedOut,         \* every leg check_order_timeouts ever reported
    reply,            \* the order engine's answer to the order of leg
    hedges,           \* its answer to the hedge of each leg
    moved,            \* venue: net quantity bought since the legs began
    unconfirmed,      \* venue: orders whose answer no engine has processed
    abandoned,        \* venue: ids left partly open by a crash
    crashes

Dedup == INSTANCE DedupTable
Risk == INSTANCE RiskController
Tracker == INSTANCE OrderTimeoutTracker
Journal == INSTANCE OrderJournal

dedupVars == <<dedup, gcCounter>>
riskVars == <<consecutiveFailures, breakerUntil, trades, tradeNo, notional>>
journalVars == <<entries, disk, piece, unwritten>>
callVars == <<pc, opp, leg, status, result>>
venueVars == <<reply, hedges, moved, unconfirmed, abandoned>>
otherVars == <<pendingFills, nextOrderSeq, timedOut, crashes>>
vars == <<now, dedupVars, riskVars, pending, journalVars, callVars, venueVars,
          otherVars>>

NoReplies == [i \in Legs |-> "none"]
AllPending == [i \in Legs |-> "Pending"]
Flat == [s \in Symbols |-> 0]

\* FillState
IsFullyFilled == \A i \in Legs : status[i] = "Filled"

\* Mutant: one filled leg alone is not unwound.
WrongNeedsRollback ==
    /\ \E i, j \in Legs : i # j /\ status[i] = "Filled" /\ status[j] = "Filled"
    /\ ~IsFullyFilled
NeedsRollback == (\E i \in Legs : status[i] = "Filled") /\ ~IsFullyFilled

\* The change of position an order of this side and size makes.
Signed(side, size) == IF side = "Buy" THEN size ELSE -size

\* Mutant: the hedge repeats the side of the leg.
WrongReverse(side) == side
Reverse(side) == IF side = "Buy" THEN "Sell" ELSE "Buy"

\* What identifies an order to the venue and in the journal.
CurrentOrder ==
    [id |-> opp.id, symbol |-> opp.legs[leg].symbol, side |-> opp.legs[leg].side]

\* record_* of an engine without a journal does nothing.
Log(entry) ==
    IF Journaled THEN Journal!AppendEntry(entry) ELSE UNCHANGED journalVars

-------------------------------------------------------------------------------
Init ==
    /\ now = 0
    /\ dedup = Dedup!EmptyTable /\ gcCounter = 0
    /\ Risk!RiskInit
    /\ Tracker!TrackerInit
    /\ Journal!JournalInit
    /\ pendingFills = {}
    /\ nextOrderSeq = 1
    /\ pc = "idle"
    /\ opp \in Opportunities
    /\ leg = 1 /\ status = AllPending
    /\ result = "None"
    /\ timedOut = {}
    /\ reply = "none" /\ hedges = NoReplies
    /\ moved = Flat
    /\ unconfirmed = {}
    /\ abandoned = {}
    /\ crashes = 0

\* execute_opportunity(o), step 1: a known id returns at once ...
SkipDuplicate(o) ==
    /\ pc = "idle"
    /\ Dedup!Known(dedup, o.id)
    /\ opp' = o
    /\ result' = "Duplicate"
    /\ UNCHANGED <<now, dedupVars, riskVars, pending, journalVars, pc, leg,
                   status, venueVars, otherVars>>

\* ... and a new one is inserted before anything else is checked; only then
\* does periodic_gc count the call.
Accept(o) ==
    /\ pc = "idle"
    /\ gcCounter' = (gcCounter + 1) % GcPeriod
    /\ Dedup!Insert(o.id, (gcCounter + 1) % GcPeriod = 0)
    /\ opp' = o
    /\ pc' = "admit"
    /\ result' = "None"
    /\ UNCHANGED <<now, riskVars, pending, journalVars, leg, status, venueVars,
                   otherVars>>

\* Steps 2 and 3: the checks that return RiskRejected.
RiskAllows ==
    /\ Risk!Admits
    /\ \A i \in Legs : Risk!NotionalAllows(opp.legs[i].symbol, opp.legs[i].size)

RejectWith(reason) ==
    /\ pc' = "idle"
    /\ result' = reason
    /\ UNCHANGED <<now, dedupVars, riskVars, pending, journalVars, opp, leg,
                   status, venueVars, otherVars>>

RejectByRisk == pc = "admit" /\ ~RiskAllows /\ RejectWith("RiskRejected")

\* Step 4.
RejectByPrice == pc = "admit" /\ RiskAllows /\ RejectWith("PriceCheckFailed")

\* Step 5 begins: FillState::new, leg_idx = 0.
StartLegs ==
    /\ pc = "admit"
    /\ RiskAllows
    /\ pc' = "intent"
    /\ leg' = 1
    /\ status' = AllPending
    /\ reply' = "none"
    /\ hedges' = NoReplies
    /\ moved' = Flat
    /\ UNCHANGED <<now, dedupVars, riskVars, pending, journalVars, opp, result,
                   unconfirmed, abandoned, otherVars>>

\* Mutant: the order goes out without an intent.
WrongRecordIntent ==
    /\ pc = "intent"
    /\ pc' = "submit"
    /\ UNCHANGED <<now, dedupVars, riskVars, pending, journalVars, opp, leg,
                   status, result, venueVars, otherVars>>

RecordIntent ==
    /\ pc = "intent"
    /\ Log(Journal!Intent(opp.id, opp.legs[leg].symbol, opp.legs[leg].side))
    /\ pc' = "submit"
    /\ UNCHANGED <<now, dedupVars, riskVars, pending, opp, leg, status, result,
                   venueVars, otherVars>>

\* submit_leg: the tracker first, then the order.  build_order_req fails
\* before it takes an order number, and then nothing is sent.
SubmitLeg ==
    /\ pc = "submit"
    /\ Tracker!RecordSubmission(opp.id, leg)
    /\ pc' = "outcome"
    /\ \/ /\ reply' = "unbuilt"
          /\ UNCHANGED <<nextOrderSeq, moved, unconfirmed>>
       \/ /\ reply' \in {"filled", "rejected"}
          /\ nextOrderSeq' = nextOrderSeq + 1
          /\ unconfirmed' = unconfirmed \cup {CurrentOrder}
          /\ moved' = IF reply' = "filled"
                      THEN [moved EXCEPT ![opp.legs[leg].symbol] =
                              @ + Signed(opp.legs[leg].side, opp.legs[leg].size)]
                      ELSE moved
    /\ UNCHANGED <<now, dedupVars, riskVars, journalVars, opp, leg, status,
                   result, hedges, abandoned, pendingFills, timedOut, crashes>>

\* The Ok arm of the leg loop.
LegFilled ==
    /\ pc = "outcome"
    /\ reply = "filled"
    /\ status' = [status EXCEPT ![leg] = "Filled"]
    /\ Tracker!ResolveLeg(opp.id, leg)
    /\ Risk!RecordSuccess(opp.legs[leg].size, opp.legs[leg].symbol)
    /\ Log(Journal!Fill(opp.id, leg))
    /\ unconfirmed' = unconfirmed \ {CurrentOrder}
    /\ reply' = "none"
    /\ IF leg < 3
       THEN pc' = "intent" /\ leg' = leg + 1
       ELSE pc' = "decide" /\ leg' = leg
    /\ UNCHANGED <<now, dedupVars, opp, result, hedges, moved, abandoned,
                   otherVars>>

\* Mutant: the Err arm goes on with the next leg.
WrongLegFailed ==
    /\ pc = "outcome"
    /\ reply \in {"rejected", "unbuilt"}
    /\ status' = [status EXCEPT ![leg] = "Failed"]
    /\ Tracker!ResolveLeg(opp.id, leg)
    /\ Risk!RecordFailure
    /\ Log(Journal!Fail(opp.id, leg))
    /\ unconfirmed' = unconfirmed \ {CurrentOrder}
    /\ reply' = "none"
    /\ IF leg < 3
       THEN pc' = "intent" /\ leg' = leg + 1
       ELSE pc' = "decide" /\ leg' = leg
    /\ UNCHANGED <<now, dedupVars, opp, result, hedges, moved, abandoned,
                   otherVars>>

\* The Err arm, which leaves the loop.
LegFailed ==
    /\ pc = "outcome"
    /\ reply \in {"rejected", "unbuilt"}
    /\ status' = [status EXCEPT ![leg] = "Failed"]
    /\ Tracker!ResolveLeg(opp.id, leg)
    /\ Risk!RecordFailure
    /\ Log(Journal!Fail(opp.id, leg))
    /\ unconfirmed' = unconfirmed \ {CurrentOrder}
    /\ reply' = "none"
    /\ pc' = "decide"
    /\ UNCHANGED <<now, dedupVars, opp, leg, result, hedges, moved, abandoned,
                   otherVars>>

\* After the loop: everything or nothing was filled ...
ReportOutcome ==
    /\ pc = "decide"
    /\ ~NeedsRollback
    /\ Tracker!ResolveOpportunity(opp.id)
    /\ result' = IF IsFullyFilled THEN "Filled" ELSE "Failed"
    /\ pc' = "idle"
    /\ UNCHANGED <<now, dedupVars, riskVars, journalVars, opp, leg, status,
                   venueVars, otherVars>>

\* ... or the filled legs are hedged, in leg order.
StartRollback ==
    /\ pc = "decide"
    /\ NeedsRollback
    /\ pc' = "rollback"
    /\ leg' = 1
    /\ UNCHANGED <<now, dedupVars, riskVars, pending, journalVars, opp, status,
                   result, venueVars, otherVars>>

\* hedge_leg: the answer is only logged.
HedgeLeg ==
    /\ pc = "rollback"
    /\ leg \in Legs
    /\ status[leg] = "Filled"
    /\ nextOrderSeq' = nextOrderSeq + 1
    /\ \E answer \in {"filled", "rejected"} :
         /\ hedges' = [hedges EXCEPT ![leg] = answer]
         /\ moved' = IF answer = "filled"
                     THEN [moved EXCEPT ![opp.legs[leg].symbol] =
                             @ + Signed(Reverse(opp.legs[leg].side),
                                        opp.legs[leg].size)]
                     ELSE moved
    /\ pc' = "hedged"
    /\ UNCHANGED <<now, dedupVars, riskVars, pending, journalVars, opp, leg,
                   status, result, reply, unconfirmed, abandoned, pendingFills,
                   timedOut, crashes>>

\* record_hedge, whatever the answer was.
RecordHedge ==
    /\ pc = "hedged"
    /\ Log(Journal!Hedge(opp.id, leg))
    /\ pc' = "rollback"
    /\ leg' = leg + 1
    /\ UNCHANGED <<now, dedupVars, riskVars, pending, opp, status, result,
                   venueVars, otherVars>>

\* Mutant: the loop does not get past a leg without a fill.
WrongSkipUnfilledLeg ==
    /\ pc = "rollback"
    /\ leg \in Legs
    /\ status[leg] # "Filled"
    /\ UNCHANGED vars

SkipUnfilledLeg ==
    /\ pc = "rollback"
    /\ leg \in Legs
    /\ status[leg] # "Filled"
    /\ leg' = leg + 1
    /\ UNCHANGED <<now, dedupVars, riskVars, pending, journalVars, pc, opp,
                   status, result, venueVars, otherVars>>

FinishRollback ==
    /\ pc = "rollback"
    /\ leg = 4
    /\ pendingFills' = pendingFills \cup {opp.id}
    /\ Tracker!ResolveOpportunity(opp.id)
    /\ result' = "RolledBack"
    /\ pc' = "idle"
    /\ UNCHANGED <<now, dedupVars, riskVars, journalVars, opp, leg, status,
                   venueVars, nextOrderSeq, timedOut, crashes>>

\* Mutant: the timeouts are checked while a call is running.
WrongCheckOrderTimeouts ==
    /\ pc # "down"
    /\ timedOut' = timedOut \cup Tracker!TimedOut
    /\ Tracker!ResolveTimedOut
    /\ UNCHANGED <<now, dedupVars, riskVars, journalVars, callVars, venueVars,
                   pendingFills, nextOrderSeq, crashes>>

\* check_order_timeouts, called by the run loop between two calls.
CheckOrderTimeouts ==
    /\ pc = "idle"
    /\ timedOut' = timedOut \cup Tracker!TimedOut
    /\ Tracker!ResolveTimedOut
    /\ UNCHANGED <<now, dedupVars, riskVars, journalVars, callVars, venueVars,
                   pendingFills, nextOrderSeq, crashes>>

Tick ==
    /\ now < MaxTime
    /\ now' = now + 1
    /\ UNCHANGED <<dedupVars, riskVars, pending, journalVars, callVars,
                   venueVars, otherVars>>

\* The order of leg i is filled at the venue and no accepted hedge undid it.
OpenLeg(i) ==
    /\ status[i] = "Filled" \/ (leg = i /\ reply = "filled")
    /\ hedges[i] # "filled"

PartlyOpen ==
    /\ pc \notin {"idle", "admit", "down"}
    /\ \E i \in Legs : OpenLeg(i)
    /\ \E i \in Legs : ~OpenLeg(i)

\* The process dies at any point.
Crash ==
    /\ pc # "down"
    /\ crashes < MaxCrashes
    /\ pc' = "down"
    /\ crashes' = crashes + 1
    /\ abandoned' = IF PartlyOpen THEN abandoned \cup {opp.id} ELSE abandoned
    /\ Journal!LoseBuffer
    /\ UNCHANGED <<now, dedupVars, riskVars, pending, opp, leg, status, result,
                   reply, hedges, moved, unconfirmed, pendingFills,
                   nextOrderSeq, timedOut>>

\* ctrl-c: the run loop is dropped between two calls, the log with it.
Shutdown ==
    /\ pc = "idle"
    /\ crashes < MaxCrashes
    /\ pc' = "down"
    /\ crashes' = crashes + 1
    /\ Journal!DropLog
    /\ UNCHANGED <<now, dedupVars, riskVars, pending, opp, leg, status, result,
                   venueVars, pendingFills, nextOrderSeq, timedOut>>

\* ExecEngine::new; report_unacknowledged only logs what it finds.
Restart ==
    /\ pc = "down"
    /\ dedup' = Dedup!EmptyTable /\ gcCounter' = 0
    /\ Risk!RiskReset
    /\ pending' = {}
    /\ IF Journaled THEN Journal!Open ELSE UNCHANGED journalVars
    /\ pendingFills' = {}
    /\ nextOrderSeq' = 1
    /\ pc' = "idle"
    /\ leg' = 1 /\ status' = AllPending
    /\ result' = "None"
    /\ reply' = "none" /\ hedges' = NoReplies
    /\ moved' = Flat
    /\ UNCHANGED <<now, opp, timedOut, unconfirmed, abandoned, crashes>>

\* The steps of a call once it has started.
CallStep ==
    \/ RejectByRisk
    \/ RejectByPrice
    \/ StartLegs
    \/ RecordIntent
    \/ SubmitLeg
    \/ LegFilled
    \/ LegFailed
    \/ ReportOutcome
    \/ StartRollback
    \/ HedgeLeg
    \/ RecordHedge
    \/ SkipUnfilledLeg
    \/ FinishRollback

Next ==
    \/ \E o \in Opportunities : SkipDuplicate(o) \/ Accept(o)
    \/ CallStep
    \/ CheckOrderTimeouts
    \/ Tick
    \/ Crash
    \/ Shutdown
    \/ Restart

Spec == Init /\ [][Next]_vars

\* A call runs to its end: it awaits nothing, and the order engine answers.
CallFairness == WF_vars(CallStep)

\* The run loop keeps offering every opportunity and checking the timeouts,
\* and the clock runs.
OfferFairness ==
    /\ \A o \in Opportunities : WF_vars(Accept(o))
    /\ WF_vars(CheckOrderTimeouts)
    /\ WF_vars(Tick)

FairSpec == Spec /\ CallFairness /\ OfferFairness
-------------------------------------------------------------------------------
Calls == {"admit", "intent", "submit", "outcome", "decide", "rollback", "hedged"}

CallTypeOK ==
    /\ pc \in Calls \cup {"idle", "down"}
    /\ opp \in Opportunities
    /\ leg \in 1 .. 4
    /\ pc \in {"intent", "submit", "outcome", "hedged"} => leg \in Legs
    /\ status \in [Legs -> {"Pending", "Filled", "Failed"}]
    /\ result \in {"None", "Duplicate", "RiskRejected", "PriceCheckFailed",
                   "Filled", "RolledBack", "Failed"}

VenueTypeOK ==
    /\ reply \in {"none", "filled", "rejected", "unbuilt"}
    /\ hedges \in [Legs -> {"none", "filled", "rejected"}]
    /\ moved \in [Symbols -> Int]
    /\ unconfirmed \subseteq [id : Ids, symbol : Symbols, side : Sides]
    /\ abandoned \subseteq Ids

TypeOK ==
    /\ now \in Nat
    /\ Dedup!DedupTypeOK
    /\ gcCounter \in 0 .. GcPeriod - 1
    /\ Risk!RiskTypeOK
    /\ Tracker!TrackerTypeOK
    /\ CallTypeOK
    /\ VenueTypeOK
    /\ pendingFills \subseteq Ids
    /\ nextOrderSeq \in Nat
    /\ timedOut \subseteq [id : Ids, leg : Legs]
    /\ crashes \in 0 .. MaxCrashes

\* check_symbol_notional runs before the legs, on each of them alone, and
\* record_success adds the sizes one by one later: the limit on a symbol is
\* never exceeded all the same, unless a route trades the symbol twice.
TradedOnce(s) ==
    \A o \in Opportunities : \A i, j \in Legs :
        (o.legs[i].symbol = s /\ o.legs[j].symbol = s) => i = j

NotionalBound ==
    \A s \in Symbols : TradedOnce(s) => notional[s] <= MaxNotional

\* check() counts the window only before the first leg and each filled leg
\* adds a trade, so the cap can be overrun, but by two trades at most.
TradeCapSlack == Cardinality(Risk!Recent) <= MaxTrades + 2

\* The notionals are cleared when more than 2 * MaxTrades trades are in the
\* window.  The cap keeps them below that, so with MaxTrades >= 2 the clearing
\* is dead code: a notional only ever grows, even for a leg that was hedged.
NotionalNeverShrinks ==
    [][(MaxTrades >= 2 /\ pc # "down") =>
         \A s \in Symbols : notional'[s] >= notional[s]]_vars

\* The legs of opp have been traded, or are being traded.
Trading ==
    \/ pc \in Calls \ {"admit"}
    \/ pc = "idle" /\ result \in {"Filled", "RolledBack", "Failed"}

\* The venue's position in each symbol is exactly the sum of the legs that are
\* filled and not hedged: an order or a hedge of the wrong side, size or symbol
\* shows here.
Open(i, s) ==
    IF OpenLeg(i) /\ opp.legs[i].symbol = s
    THEN Signed(opp.legs[i].side, opp.legs[i].size)
    ELSE 0

MovedIsOpenLegs ==
    Trading => \A s \in Symbols : moved[s] = Open(1, s) + Open(2, s) + Open(3, s)

\* A call that traded leaves all three legs open, or none once its hedges were
\* accepted: "the hedge neutralizes the filled position".
CallSettles ==
    pc = "idle" =>
        /\ result = "Filled" => \A i \in Legs : OpenLeg(i)
        /\ result = "Failed" => moved = Flat
        /\ (result = "RolledBack" /\ \A i \in Legs : hedges[i] # "rejected")
             => moved = Flat

\* submit_leg and the leg loop leave nothing behind in the tracker, so the
\* periodic check_order_timeouts, which runs between calls, reports nothing,
\* however long an order took.
NothingTimesOut == timedOut = {} /\ (pc = "idle" => pending = {})

\* With a journal whose writes succeed, the intent of every order whose answer
\* is outstanding is in the file, also when a crash has lost the answer.
UnansweredHasIntent ==
    (Journaled /\ ~IoFaults) =>
        \A u \in unconfirmed :
            \E i \in DOMAIN disk : disk[i] = Journal!Intent(u.id, u.symbol, u.side)

\* What a restart reports with such a journal: every order whose answer was
\* lost, as long as no answer to any leg of its opportunity was ever logged.
LostOrderRevealed ==
    (Journaled /\ ~IoFaults /\ pc = "idle") =>
        \A u \in unconfirmed :
            \/ Journal!Confirmed(entries, u.id)
            \/ Journal!Intent(u.id, u.symbol, u.side)
                 \in Journal!FindUnacknowledged(entries)

\* Every call ends, unless the process does.
EveryCallEnds == pc \in Calls ~> pc \in {"idle", "down"}

\* The legs are traded as TriangleTrade says.
LegState(i) ==
    IF ~Trading \/ pc = "idle" THEN "pending"
    ELSE IF hedges[i] # "none" THEN "unwound"
    ELSE IF status[i] = "Filled" \/ (leg = i /\ reply = "filled") THEN "filled"
    ELSE IF status[i] = "Failed" \/ (leg = i /\ reply \in {"rejected", "unbuilt"})
         THEN "failed"
    ELSE "pending"

Stage ==
    IF pc = "down" THEN "cut"
    ELSE IF pc \in {"idle", "admit"} THEN "ready"
    ELSE IF \E i \in Legs : LegState(i) = "failed" THEN "unwinding"
    ELSE "trading"

Trade == INSTANCE TriangleTrade
            WITH stage <- Stage, legState <- [i \in Legs |-> LegState(i)]

\* ExecEngine implements TriangleTrade.
ImplementsTriangleTrade == Trade!TradeSpec
===============================================================================
