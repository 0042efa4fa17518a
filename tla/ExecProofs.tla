------------------------------ MODULE ExecProofs ------------------------------
(***************************************************************************)
(* Theorems about ExecEngine, for every value of its constants that meets  *)
(* the assumptions: every set of opportunities, every configuration and    *)
(* every bound.  First types and limits, then how the three legs are       *)
(* traded and that the engine implements TriangleTrade, then the journal   *)
(* across crashes.                                                         *)
(***************************************************************************)
EXTENDS MCExecEngine, FiniteSetTheorems, SequenceTheorems, Induction, TLAPS

-------------------------------------------------------------------------------
\* Facts about the trades of the rolling window.

\* The operators RiskController takes from FiniteSets are those of ExecEngine.
LEMMA SameFiniteSets ==
    ASSUME NEW S
    PROVE  /\ Risk!IsFiniteSet(S) <=> IsFiniteSet(S)
           /\ Risk!Cardinality(S) = Cardinality(S)
BY DEF Risk!IsFiniteSet, IsFiniteSet, Risk!Cardinality, Cardinality

\* Filtering by the window keeps a finite set finite.
LEMMA WithinFinite ==
    ASSUME NEW ts, NEW t, IsFiniteSet(ts)
    PROVE  /\ IsFiniteSet(Risk!Within(ts, t))
           /\ Risk!Within(ts, t) \subseteq ts
           /\ Cardinality(Risk!Within(ts, t)) \in Nat
           /\ Cardinality(Risk!Within(ts, t)) <= Cardinality(ts)
<1>1. Risk!Within(ts, t) \subseteq ts
    BY DEF Risk!Within
<1>2. QED
    BY <1>1, FS_Subset, FS_CardinalityType

\* One more trade adds at most one to what the window counts.
LEMMA WithinAddsOne ==
    ASSUME NEW ts, NEW t, NEW tr, IsFiniteSet(ts)
    PROVE  /\ IsFiniteSet(Risk!Within(ts \cup {tr}, t))
           /\ Cardinality(Risk!Within(ts \cup {tr}, t))
                <= Cardinality(Risk!Within(ts, t)) + 1
<1> DEFINE old == Risk!Within(ts, t)
           new == Risk!Within(ts \cup {tr}, t)
<1>1. IsFiniteSet(old) /\ Cardinality(old) \in Nat
    BY WithinFinite
<1>2. new \subseteq old \cup {tr}
    BY DEF Risk!Within
<1>3. /\ IsFiniteSet(old \cup {tr})
      /\ Cardinality(old \cup {tr}) = IF tr \in old THEN Cardinality(old)
                                      ELSE Cardinality(old) + 1
    BY <1>1, FS_AddElement
<1>4. /\ IsFiniteSet(new)
      /\ Cardinality(new) <= Cardinality(old \cup {tr})
    BY <1>2, <1>3, FS_Subset
<1>5. Cardinality(old \cup {tr}) <= Cardinality(old) + 1
    BY <1>1, <1>3
<1>6. Cardinality(new) \in Nat /\ Cardinality(old \cup {tr}) \in Nat
    BY <1>3, <1>4, FS_CardinalityType
<1> QED
    BY <1>1, <1>4, <1>5, <1>6

\* What record_success keeps of the controller's type.
LEMMA RecordSuccessType ==
    ASSUME now \in Nat, Risk!RiskTypeOK,
           NEW sym \in Symbols, NEW size \in Nat,
           Risk!RecordSuccess(size, sym),
           now' = now
    PROVE  Risk!RiskTypeOK'
<1> DEFINE trade == [no |-> tradeNo, at |-> now]
           kept == Risk!Within(trades \cup {trade}, now)
<1>1. trade \in [no : Nat, at : Nat] /\ tradeNo' = tradeNo + 1 /\ trades' = kept
    BY DEF Risk!RiskTypeOK, Risk!RecordSuccess
<1>2. kept \subseteq trades \cup {trade}
    BY DEF Risk!Within
<1>3. IsFiniteSet(kept)
    BY SameFiniteSets, WithinAddsOne DEF Risk!RiskTypeOK
<1>4. /\ trades' \subseteq [no : Nat, at : Nat]
      /\ IsFiniteSet(trades')
    BY <1>1, <1>2, <1>3 DEF Risk!RiskTypeOK
<1>5. \A tr \in trades' : tr.no < tradeNo' /\ tr.at <= now'
  <2> SUFFICES ASSUME NEW tr \in trades'
               PROVE  tr.no < tradeNo' /\ tr.at <= now'
      OBVIOUS
  <2>1. CASE tr = trade
      BY <2>1, <1>1 DEF Risk!RiskTypeOK
  <2>2. CASE tr \in trades
      BY <2>2, <1>1 DEF Risk!RiskTypeOK
  <2> QED
      BY <2>1, <2>2, <1>1, <1>2
<1>6. /\ consecutiveFailures' \in Nat
      /\ breakerUntil' \in Nat \cup {Risk!NotTripped}
      /\ tradeNo' \in Nat
      /\ notional' \in [Symbols -> Nat]
    BY DEF Risk!RiskTypeOK, Risk!RecordSuccess, Risk!NoNotional
<1> QED
    BY <1>4, <1>5, <1>6, SameFiniteSets DEF Risk!RiskTypeOK

\* An opportunity's legs are legs.
LEMMA OpportunityLegs ==
    ASSUME NEW o \in Opportunities
    PROVE  /\ o.id \in Ids
           /\ \A i \in Legs : /\ o.legs[i].symbol \in Symbols
                             /\ o.legs[i].side \in Sides
                             /\ o.legs[i].size \in Nat \ {0}
BY OpportunityAssumption DEF Leg

\* The parts of TypeOK that a step leaves alone keep their type.
LEMMA UnchangedTypes ==
    ASSUME TypeOK, now' = now
    PROVE  /\ UNCHANGED dedupVars =>
                Dedup!DedupTypeOK' /\ gcCounter' \in 0 .. GcPeriod - 1
           /\ UNCHANGED riskVars => Risk!RiskTypeOK'
           /\ UNCHANGED pending => Tracker!TrackerTypeOK'
           /\ UNCHANGED callVars => CallTypeOK'
           /\ UNCHANGED venueVars => VenueTypeOK'
           /\ UNCHANGED pendingFills => pendingFills' \subseteq Ids
           /\ UNCHANGED nextOrderSeq => nextOrderSeq' \in Nat
           /\ UNCHANGED timedOut => timedOut' \subseteq [id : Ids, leg : Legs]
           /\ UNCHANGED crashes => crashes' \in 0 .. MaxCrashes
BY DEF TypeOK, Dedup!DedupTypeOK, Dedup!Absent, Risk!RiskTypeOK,
       Tracker!TrackerTypeOK, CallTypeOK, VenueTypeOK, dedupVars, riskVars,
       callVars, venueVars

-------------------------------------------------------------------------------
\* The initial state has the types.
LEMMA InitTypeOK == Init => TypeOK
<1> SUFFICES ASSUME Init
             PROVE  TypeOK
    OBVIOUS
<1>1. now \in Nat /\ Dedup!DedupTypeOK /\ gcCounter \in 0 .. GcPeriod - 1
    BY ConfigAssumption
    DEF Init, Dedup!EmptyTable, Dedup!Absent, Dedup!DedupTypeOK
<1>2. Risk!RiskTypeOK
    BY FS_EmptySet, SameFiniteSets
    DEF Init, Risk!RiskInit, Risk!RiskTypeOK, Risk!NotTripped, Risk!NoNotional
<1>3. Tracker!TrackerTypeOK
    BY DEF Init, Tracker!TrackerInit, Tracker!TrackerTypeOK
<1>4. CallTypeOK
    BY DEF Init, CallTypeOK, Legs, AllPending
<1>5. VenueTypeOK
    BY DEF Init, VenueTypeOK, NoReplies, Flat
<1>6. /\ pendingFills \subseteq Ids
      /\ nextOrderSeq \in Nat
      /\ timedOut \subseteq [id : Ids, leg : Legs]
      /\ crashes \in 0 .. MaxCrashes
    BY BoundAssumption DEF Init
<1> QED
    BY <1>1, <1>2, <1>3, <1>4, <1>5, <1>6 DEF TypeOK

\* Every step of the engine keeps the types.
LEMMA NextTypeOK == TypeOK /\ [Next]_vars => TypeOK'
<1> SUFFICES ASSUME TypeOK, [Next]_vars
             PROVE  TypeOK'
    OBVIOUS
<1> USE DEF otherVars
<1>1. ASSUME NEW o \in Opportunities, SkipDuplicate(o)
      PROVE  TypeOK'
  <2>1. CallTypeOK'
      BY <1>1 DEF SkipDuplicate, TypeOK, CallTypeOK
  <2> QED
      BY <1>1, <2>1, UnchangedTypes DEF SkipDuplicate, TypeOK
<1>2. ASSUME NEW o \in Opportunities, Accept(o)
      PROVE  TypeOK'
  <2>1. CallTypeOK'
      BY <1>2 DEF Accept, TypeOK, CallTypeOK, Calls
  <2>2. Dedup!DedupTypeOK' /\ gcCounter' \in 0 .. GcPeriod - 1
    <3>1. o.id \in Ids
        BY OpportunityLegs
    <3>2. gcCounter' \in 0 .. GcPeriod - 1
        BY <1>2, ConfigAssumption DEF Accept, TypeOK
    <3>3. Dedup!DedupTypeOK'
        BY <1>2, <3>1 DEF Accept, TypeOK, Dedup!Insert, Dedup!Collected,
           Dedup!DedupTypeOK, Dedup!Absent
    <3> QED
        BY <3>2, <3>3
  <2> QED
      BY <1>2, <2>1, <2>2, UnchangedTypes DEF Accept, TypeOK
<1>3. CASE RejectByRisk \/ RejectByPrice
  <2>1. CallTypeOK'
      BY <1>3 DEF RejectByRisk, RejectByPrice, RejectWith, TypeOK, CallTypeOK
  <2> QED
      BY <1>3, <2>1, UnchangedTypes
      DEF RejectByRisk, RejectByPrice, RejectWith, TypeOK
<1>4. CASE StartLegs
  <2>1. CallTypeOK'
      BY <1>4 DEF StartLegs, TypeOK, CallTypeOK, Calls, Legs, AllPending
  <2>2. VenueTypeOK'
      BY <1>4 DEF StartLegs, TypeOK, VenueTypeOK, NoReplies, Flat
  <2> QED
      BY <1>4, <2>1, <2>2, UnchangedTypes DEF StartLegs, TypeOK
<1>5. CASE RecordIntent
  <2>1. CallTypeOK'
      BY <1>5 DEF RecordIntent, TypeOK, CallTypeOK, Calls
  <2> QED
      BY <1>5, <2>1, UnchangedTypes DEF RecordIntent, TypeOK
<1>6. CASE SubmitLeg
  <2> DEFINE order == opp.legs[leg]
  <2>1. /\ leg \in Legs
        /\ opp.id \in Ids
        /\ order.symbol \in Symbols /\ order.side \in Sides
        /\ order.size \in Nat
      BY <1>6, OpportunityLegs DEF SubmitLeg, TypeOK, CallTypeOK
  <2>2. CallTypeOK'
      BY <1>6, <2>1 DEF SubmitLeg, TypeOK, CallTypeOK, Calls
  <2>3. Tracker!TrackerTypeOK'
      BY <1>6, <2>1
      DEF SubmitLeg, TypeOK, Tracker!RecordSubmission, Tracker!TrackerTypeOK, Legs
  <2>4. VenueTypeOK'
      BY <1>6, <2>1
      DEF SubmitLeg, TypeOK, VenueTypeOK, CurrentOrder, Signed
  <2>5. nextOrderSeq' \in Nat
      BY <1>6 DEF SubmitLeg, TypeOK
  <2> QED
      BY <1>6, <2>2, <2>3, <2>4, <2>5, UnchangedTypes DEF SubmitLeg, TypeOK
<1>7. CASE LegFilled
  <2> DEFINE order == opp.legs[leg]
  <2>1. /\ leg \in Legs
        /\ order.symbol \in Symbols /\ order.size \in Nat
      BY <1>7, OpportunityLegs DEF LegFilled, TypeOK, CallTypeOK
  <2>2. CallTypeOK'
      BY <1>7, <2>1 DEF LegFilled, TypeOK, CallTypeOK, Calls, Legs
  <2>3. Tracker!TrackerTypeOK'
      BY <1>7 DEF LegFilled, TypeOK, Tracker!ResolveLeg, Tracker!TrackerTypeOK
  <2>4. VenueTypeOK'
      BY <1>7 DEF LegFilled, TypeOK, VenueTypeOK
  <2>5. Risk!RiskTypeOK'
      BY <1>7, <2>1, RecordSuccessType DEF LegFilled, TypeOK
  <2> QED
      BY <1>7, <2>2, <2>3, <2>4, <2>5, UnchangedTypes DEF LegFilled, TypeOK
<1>8. CASE LegFailed
  <2>1. CallTypeOK'
      BY <1>8 DEF LegFailed, TypeOK, CallTypeOK, Calls
  <2>2. Tracker!TrackerTypeOK'
      BY <1>8 DEF LegFailed, TypeOK, Tracker!ResolveLeg, Tracker!TrackerTypeOK
  <2>3. VenueTypeOK'
      BY <1>8 DEF LegFailed, TypeOK, VenueTypeOK
  <2>4. Risk!RiskTypeOK'
      BY <1>8, ConfigAssumption
      DEF LegFailed, TypeOK, Risk!RecordFailure, Risk!RiskTypeOK
  <2> QED
      BY <1>8, <2>1, <2>2, <2>3, <2>4, UnchangedTypes DEF LegFailed, TypeOK
<1>9. CASE ReportOutcome
  <2>1. CallTypeOK'
      BY <1>9 DEF ReportOutcome, TypeOK, CallTypeOK
  <2>2. Tracker!TrackerTypeOK'
      BY <1>9
      DEF ReportOutcome, TypeOK, Tracker!ResolveOpportunity, Tracker!TrackerTypeOK
  <2> QED
      BY <1>9, <2>1, <2>2, UnchangedTypes DEF ReportOutcome, TypeOK
<1>10. CASE StartRollback \/ SkipUnfilledLeg
  <2>1. CallTypeOK'
      BY <1>10
      DEF StartRollback, SkipUnfilledLeg, TypeOK, CallTypeOK, Calls, Legs
  <2> QED
      BY <1>10, <2>1, UnchangedTypes DEF StartRollback, SkipUnfilledLeg, TypeOK
<1>11. CASE HedgeLeg
  <2> DEFINE order == opp.legs[leg]
  <2>1. /\ leg \in Legs
        /\ order.symbol \in Symbols /\ order.size \in Nat
      BY <1>11, OpportunityLegs DEF HedgeLeg, TypeOK, CallTypeOK
  <2>2. CallTypeOK'
      BY <1>11 DEF HedgeLeg, TypeOK, CallTypeOK, Calls
  <2>3. VenueTypeOK'
      BY <1>11, <2>1 DEF HedgeLeg, TypeOK, VenueTypeOK, Signed
  <2>4. nextOrderSeq' \in Nat
      BY <1>11 DEF HedgeLeg, TypeOK
  <2> QED
      BY <1>11, <2>2, <2>3, <2>4, UnchangedTypes DEF HedgeLeg, TypeOK
<1>12. CASE RecordHedge
  <2>1. CallTypeOK'
      BY <1>12 DEF RecordHedge, TypeOK, CallTypeOK, Calls, Legs
  <2> QED
      BY <1>12, <2>1, UnchangedTypes DEF RecordHedge, TypeOK
<1>13. CASE FinishRollback
  <2>1. CallTypeOK'
      BY <1>13 DEF FinishRollback, TypeOK, CallTypeOK
  <2>2. Tracker!TrackerTypeOK'
      BY <1>13
      DEF FinishRollback, TypeOK, Tracker!ResolveOpportunity, Tracker!TrackerTypeOK
  <2>3. pendingFills' \subseteq Ids
      BY <1>13, OpportunityLegs DEF FinishRollback, TypeOK, CallTypeOK
  <2> QED
      BY <1>13, <2>1, <2>2, <2>3, UnchangedTypes DEF FinishRollback, TypeOK
<1>14. CASE CheckOrderTimeouts
  <2>1. Tracker!TrackerTypeOK'
      BY <1>14
      DEF CheckOrderTimeouts, TypeOK, Tracker!ResolveTimedOut, Tracker!TrackerTypeOK
  <2>2. timedOut' \subseteq [id : Ids, leg : Legs]
      BY <1>14
      DEF CheckOrderTimeouts, TypeOK, Tracker!TimedOut, Tracker!TrackerTypeOK, Legs
  <2> QED
      BY <1>14, <2>1, <2>2, UnchangedTypes DEF CheckOrderTimeouts, TypeOK
<1>15. CASE Tick
  <2>1. now' \in Nat /\ now' >= now
      BY <1>15 DEF Tick, TypeOK
  <2>2. Dedup!DedupTypeOK'
      BY <1>15, <2>1 DEF Tick, TypeOK, dedupVars, Dedup!DedupTypeOK, Dedup!Absent
  <2>3. Risk!RiskTypeOK'
      BY <1>15, <2>1 DEF Tick, TypeOK, riskVars, Risk!RiskTypeOK
  <2>4. Tracker!TrackerTypeOK' /\ CallTypeOK' /\ VenueTypeOK'
      BY <1>15
      DEF Tick, TypeOK, callVars, venueVars, Tracker!TrackerTypeOK, CallTypeOK,
          VenueTypeOK
  <2> QED
      BY <1>15, <2>1, <2>2, <2>3, <2>4 DEF Tick, TypeOK, dedupVars
<1>16. CASE Crash
  <2>1. CallTypeOK'
      BY <1>16 DEF Crash, TypeOK, CallTypeOK
  <2>2. VenueTypeOK'
      BY <1>16, OpportunityLegs DEF Crash, TypeOK, VenueTypeOK, CallTypeOK
  <2>3. crashes' \in 0 .. MaxCrashes
      BY <1>16, BoundAssumption DEF Crash, TypeOK
  <2> QED
      BY <1>16, <2>1, <2>2, <2>3, UnchangedTypes DEF Crash, TypeOK
<1>17. CASE Shutdown
  <2>1. CallTypeOK'
      BY <1>17 DEF Shutdown, TypeOK, CallTypeOK
  <2>2. crashes' \in 0 .. MaxCrashes
      BY <1>17, BoundAssumption DEF Shutdown, TypeOK
  <2> QED
      BY <1>17, <2>1, <2>2, UnchangedTypes DEF Shutdown, TypeOK
<1>18. CASE Restart
  <2>1. Dedup!DedupTypeOK' /\ gcCounter' \in 0 .. GcPeriod - 1
      BY <1>18, ConfigAssumption
      DEF Restart, TypeOK, Dedup!EmptyTable, Dedup!Absent, Dedup!DedupTypeOK
  <2>2. Risk!RiskTypeOK'
      BY <1>18, FS_EmptySet, SameFiniteSets
      DEF Restart, TypeOK, Risk!RiskReset, Risk!RiskTypeOK, Risk!NotTripped,
          Risk!NoNotional
  <2>3. CallTypeOK'
      BY <1>18 DEF Restart, TypeOK, CallTypeOK, Legs, AllPending
  <2>4. VenueTypeOK'
      BY <1>18 DEF Restart, TypeOK, VenueTypeOK, NoReplies, Flat
  <2>5. Tracker!TrackerTypeOK'
      BY <1>18 DEF Restart, Tracker!TrackerTypeOK
  <2> QED
      BY <1>18, <2>1, <2>2, <2>3, <2>4, <2>5, UnchangedTypes DEF Restart, TypeOK
<1>19. CASE UNCHANGED vars
    BY <1>19, UnchangedTypes DEF vars, TypeOK
<1> QED
    BY <1>1, <1>2, <1>3, <1>4, <1>5, <1>6, <1>7, <1>8, <1>9, <1>10, <1>11,
       <1>12, <1>13, <1>14, <1>15, <1>16, <1>17, <1>18, <1>19
    DEF Next, CallStep

\* Every variable of the engine has its type in every reachable state; the
\* journal's are left out (their lines are of several kinds).
THEOREM TypeCorrect == Spec => []TypeOK
<1> QED
    BY InitTypeOK, NextTypeOK, PTL DEF Spec

-------------------------------------------------------------------------------
\* The trade cap.  check() left room for one trade, and each filled leg since
\* has added at most one.
InLegLoop == pc \in {"intent", "submit", "outcome"}

CapInv ==
    /\ TypeOK
    /\ TradeCapSlack
    /\ InLegLoop => Cardinality(Risk!Recent) <= MaxTrades + leg - 2

\* The window is a finite set, and it loses trades as the clock advances.
LEMMA RecentShrinks ==
    ASSUME TypeOK, UNCHANGED trades, now' \in Nat, now' >= now
    PROVE  /\ Cardinality(Risk!Recent) \in Nat
           /\ Cardinality(Risk!Recent') \in Nat
           /\ Cardinality(Risk!Recent') <= Cardinality(Risk!Recent)
<1>1. IsFiniteSet(Risk!Recent) /\ Cardinality(Risk!Recent) \in Nat
    BY WithinFinite, SameFiniteSets DEF TypeOK, Risk!RiskTypeOK, Risk!Recent
<1>2. Risk!Recent' \subseteq Risk!Recent
    BY ConfigAssumption DEF Risk!Recent, Risk!Within, TypeOK, Risk!RiskTypeOK
<1> QED
    BY <1>1, <1>2, FS_Subset, FS_CardinalityType

\* What LegFilled does to the window and to the number that gc() compares
\* with twice the cap.
LEMMA LegFilledAddsOne ==
    ASSUME CapInv, LegFilled
    PROVE  LET kept == Risk!Within(trades \cup {[no |-> tradeNo, at |-> now]}, now)
           IN  /\ Cardinality(kept) \in Nat
               /\ Cardinality(kept) <= MaxTrades + leg - 1
               /\ Risk!Recent' = kept
<1> DEFINE trade == [no |-> tradeNo, at |-> now]
           kept == Risk!Within(trades \cup {trade}, now)
<1>1. /\ IsFiniteSet(trades) /\ leg \in Legs
      /\ now' = now /\ trades' = kept
    BY SameFiniteSets
    DEF CapInv, TypeOK, Risk!RiskTypeOK, CallTypeOK, LegFilled, Risk!RecordSuccess
<1>2. /\ Cardinality(Risk!Recent) \in Nat
      /\ Cardinality(kept) \in Nat
      /\ Cardinality(kept) <= Cardinality(Risk!Recent) + 1
    BY <1>1, WithinAddsOne, WithinFinite, FS_CardinalityType DEF Risk!Recent
<1>3. Cardinality(Risk!Recent) <= MaxTrades + leg - 2
    BY DEF CapInv, InLegLoop, LegFilled
<1>4. Risk!Recent' = kept
    BY <1>1 DEF Risk!Recent, Risk!Within
<1> QED
    BY <1>1, <1>2, <1>3, <1>4, ConfigAssumption DEF Legs

LEMMA CapInductive == CapInv /\ [Next]_vars => CapInv'
<1> SUFFICES ASSUME CapInv, [Next]_vars
             PROVE  CapInv'
    OBVIOUS
<1>1. TypeOK /\ TypeOK'
    BY NextTypeOK DEF CapInv
<1>2. leg \in Nat /\ MaxTrades \in Nat /\ now \in Nat /\ now' \in Nat
    BY <1>1, ConfigAssumption DEF TypeOK, CallTypeOK
<1>3. ASSUME UNCHANGED trades, now' >= now, InLegLoop' => InLegLoop /\ leg' = leg
      PROVE  CapInv'
    BY <1>1, <1>2, <1>3, RecentShrinks DEF CapInv, TradeCapSlack
<1>4. CASE LegFilled
  <2>1. leg \in Legs /\ (InLegLoop' => leg' = leg + 1)
      BY <1>1, <1>4 DEF LegFilled, TypeOK, CallTypeOK, InLegLoop
  <2>2. /\ Cardinality(Risk!Recent') \in Nat
        /\ Cardinality(Risk!Recent') <= MaxTrades + leg - 1
      BY <1>4, LegFilledAddsOne
  <2> QED
      BY <1>1, <1>2, <2>1, <2>2 DEF CapInv, TradeCapSlack, Legs
<1>5. CASE StartLegs
  <2>1. Cardinality(Risk!Recent) < MaxTrades
      BY <1>1, <1>2, <1>5, RecentShrinks, SameFiniteSets
      DEF StartLegs, RiskAllows, Risk!Admits, Risk!CapReached, riskVars
  <2>2. Risk!Recent' = Risk!Recent /\ leg' = 1
      BY <1>5 DEF StartLegs, riskVars, Risk!Recent, Risk!Within
  <2>3. Cardinality(Risk!Recent) \in Nat
      BY <1>1, <1>2, <1>5, RecentShrinks DEF StartLegs, riskVars
  <2> QED
      BY <1>1, <1>2, <2>1, <2>2, <2>3 DEF CapInv, TradeCapSlack
<1>6. CASE Restart
  <2>1. Risk!Recent' = {}
      BY <1>6 DEF Restart, Risk!RiskReset, Risk!Recent, Risk!Within
  <2>2. ~InLegLoop'
      BY <1>6 DEF Restart, InLegLoop
  <2> QED
      BY <1>1, <1>2, <2>1, <2>2, FS_EmptySet DEF CapInv, TradeCapSlack
<1>7. ASSUME NEW o \in Opportunities, SkipDuplicate(o) \/ Accept(o)
      PROVE  CapInv'
    BY <1>2, <1>3, <1>7 DEF SkipDuplicate, Accept, riskVars, InLegLoop
<1>8. CASE \/ RejectByRisk \/ RejectByPrice \/ RecordIntent \/ SubmitLeg
           \/ LegFailed \/ ReportOutcome
    BY <1>2, <1>3, <1>8
    DEF RejectByRisk, RejectByPrice, RejectWith, RecordIntent, SubmitLeg,
        LegFailed, ReportOutcome, Risk!RecordFailure, riskVars, InLegLoop
<1>9. CASE \/ StartRollback \/ HedgeLeg \/ RecordHedge \/ SkipUnfilledLeg
           \/ FinishRollback
    BY <1>2, <1>3, <1>9
    DEF StartRollback, HedgeLeg, RecordHedge, SkipUnfilledLeg, FinishRollback,
        riskVars, InLegLoop
<1>10. CASE CheckOrderTimeouts \/ Tick \/ Crash \/ Shutdown \/ UNCHANGED vars
    BY <1>2, <1>3, <1>10
    DEF CheckOrderTimeouts, Tick, Crash, Shutdown, vars, callVars, riskVars,
        InLegLoop
<1> QED
    BY <1>4, <1>5, <1>6, <1>7, <1>8, <1>9, <1>10 DEF Next, CallStep

LEMMA CapHolds == Spec => []CapInv
<1>1. Init => CapInv
  <2> SUFFICES ASSUME Init
               PROVE  CapInv
      OBVIOUS
  <2>1. Risk!Recent = {} /\ ~InLegLoop
      BY DEF Init, Risk!RiskInit, Risk!Recent, Risk!Within, InLegLoop
  <2> QED
      BY <2>1, InitTypeOK, FS_EmptySet, ConfigAssumption DEF CapInv, TradeCapSlack
<1> QED
    BY <1>1, CapInductive, PTL DEF Spec

\* However the calls, the answers and the clock interleave, the trades of a
\* window exceed max_trades_per_window by at most two.
THEOREM TradeCapSlackHolds == Spec => []TradeCapSlack
<1>1. CapInv => TradeCapSlack
    BY DEF CapInv
<1> QED
    BY <1>1, CapHolds, PTL

\* With a cap of two trades or more, gc() never clears the notionals: they only
\* grow until the process ends.
THEOREM NotionalNeverShrinksHolds == Spec => NotionalNeverShrinks
<1>1. ASSUME CapInv, [Next]_vars, MaxTrades >= 2, pc # "down"
      PROVE  \A s \in Symbols : notional'[s] >= notional[s]
  <2>1. notional \in [Symbols -> Nat] /\ MaxTrades \in Nat
      BY <1>1, ConfigAssumption DEF CapInv, TypeOK, Risk!RiskTypeOK
  <2>2. CASE LegFilled
    <3> DEFINE kept == Risk!Within(trades \cup {[no |-> tradeNo, at |-> now]}, now)
               order == opp.legs[leg]
    <3>1. /\ leg \in Legs /\ order.symbol \in Symbols /\ order.size \in Nat
        BY <1>1, OpportunityLegs, <2>2 DEF CapInv, TypeOK, CallTypeOK, LegFilled
    <3>2. ~(Risk!Cardinality(kept) > 2 * MaxTrades)
        BY <1>1, <2>1, <2>2, <3>1, LegFilledAddsOne, SameFiniteSets DEF Legs
    <3>3. notional' = [notional EXCEPT ![order.symbol] = @ + order.size]
        BY <2>2, <3>2 DEF LegFilled, Risk!RecordSuccess
    <3> QED
        BY <2>1, <3>1, <3>3
  <2>3. CASE ~LegFilled
    <3>1. notional' = notional
        BY <1>1, <2>3
        DEF Next, CallStep, SkipDuplicate, Accept, RejectByRisk, RejectByPrice,
            RejectWith, StartLegs, RecordIntent, SubmitLeg, LegFailed,
            ReportOutcome, StartRollback, HedgeLeg, RecordHedge,
            SkipUnfilledLeg, FinishRollback, CheckOrderTimeouts, Tick, Crash,
            Shutdown, Restart, Risk!RecordFailure, riskVars, vars
    <3> QED
        BY <2>1, <3>1
  <2> QED
      BY <2>2, <2>3
<1>2. CapInv /\ [Next]_vars =>
        [(MaxTrades >= 2 /\ pc # "down") =>
            \A s \in Symbols : notional'[s] >= notional[s]]_vars
    BY <1>1
<1> QED
    BY <1>2, CapHolds, PTL DEF Spec, NotionalNeverShrinks

-------------------------------------------------------------------------------
\* The notional limit.  It was checked for all the legs at once, so the legs
\* that are still to be filled fit under it, whatever gc() clears, unless one of
\* them trades a symbol again.
LegFits(i) ==
    TradedOnce(opp.legs[i].symbol) =>
        notional[opp.legs[i].symbol] + opp.legs[i].size <= MaxNotional

LegsFit == \A i \in leg .. 3 : LegFits(i)

NotionalInv ==
    /\ TypeOK
    /\ NotionalBound
    /\ InLegLoop => LegsFit

LEMMA NotionalInductive == NotionalInv /\ [Next]_vars => NotionalInv'
<1> SUFFICES ASSUME NotionalInv, [Next]_vars
             PROVE  NotionalInv'
    OBVIOUS
<1>1. TypeOK /\ TypeOK'
    BY NextTypeOK DEF NotionalInv
<1>2. /\ leg \in Nat /\ MaxNotional \in Nat /\ opp \in Opportunities
      /\ notional \in [Symbols -> Nat]
    BY <1>1, ConfigAssumption DEF TypeOK, CallTypeOK, Risk!RiskTypeOK
<1>3. ASSUME UNCHANGED notional,
             InLegLoop' => InLegLoop /\ UNCHANGED <<leg, opp>>
      PROVE  NotionalInv'
    BY <1>1, <1>3 DEF NotionalInv, NotionalBound, LegsFit, LegFits, TradedOnce
<1>4. CASE LegFilled
  <2> DEFINE order == opp.legs[leg]
  <2>1. /\ leg \in Legs /\ opp' = opp /\ (InLegLoop' => leg' = leg + 1)
        /\ order.symbol \in Symbols /\ order.size \in Nat
      BY <1>1, <1>2, <1>4, OpportunityLegs
      DEF LegFilled, TypeOK, CallTypeOK, InLegLoop
  <2>2. LegsFit
      BY <1>4 DEF NotionalInv, InLegLoop, LegFilled
  <2>3. CASE notional' = Risk!NoNotional
    <3>1. NotionalBound'
        BY <2>3, <1>2 DEF NotionalBound, Risk!NoNotional
    <3>2. ASSUME NEW i \in leg + 1 .. 3, TradedOnce(opp.legs[i].symbol)
          PROVE  notional'[opp.legs[i].symbol] + opp.legs[i].size <= MaxNotional
      <4>1. /\ opp.legs[i].symbol \in Symbols /\ opp.legs[i].size \in Nat
            /\ i \in leg .. 3
          BY <1>2, <2>1, <3>2, OpportunityLegs DEF Legs
      <4> QED
          BY <1>2, <2>2, <2>3, <3>2, <4>1 DEF LegsFit, LegFits, Risk!NoNotional
    <3> QED
        BY <1>1, <2>1, <3>1, <3>2 DEF NotionalInv, LegsFit, LegFits, TradedOnce
  <2>4. CASE notional' = [notional EXCEPT ![order.symbol] = @ + order.size]
    <3>1. NotionalBound'
      <4> SUFFICES ASSUME NEW s \in Symbols, TradedOnce(s)
                   PROVE  notional'[s] <= MaxNotional
          BY DEF NotionalBound, TradedOnce
      <4>1. notional[s] <= MaxNotional
          BY DEF NotionalInv, NotionalBound
      <4>2. s = order.symbol => notional[s] + order.size <= MaxNotional
          BY <2>1, <2>2 DEF LegsFit, LegFits, Legs
      <4> QED
          BY <1>2, <2>1, <2>4, <4>1, <4>2
    <3>2. ASSUME NEW i \in leg + 1 .. 3, TradedOnce(opp.legs[i].symbol)
          PROVE  notional'[opp.legs[i].symbol] + opp.legs[i].size <= MaxNotional
      <4>1. /\ opp.legs[i].symbol \in Symbols
            /\ opp.legs[i].symbol # order.symbol
            /\ i \in leg .. 3
          BY <1>2, <2>1, <3>2, OpportunityLegs DEF Legs, TradedOnce
      <4> QED
          BY <1>2, <2>1, <2>2, <2>4, <3>2, <4>1 DEF LegsFit, LegFits
    <3> QED
        BY <1>1, <2>1, <3>1, <3>2 DEF NotionalInv, LegsFit, LegFits, TradedOnce
  <2> QED
      BY <1>4, <2>3, <2>4 DEF LegFilled, Risk!RecordSuccess
<1>5. CASE StartLegs
  <2>1. UNCHANGED <<notional, opp>> /\ leg' = 1
      BY <1>5 DEF StartLegs, riskVars
  <2>2. LegsFit'
      BY <1>5, <2>1
      DEF StartLegs, RiskAllows, Risk!NotionalAllows, LegsFit, LegFits, Legs
  <2> QED
      BY <1>1, <2>1, <2>2 DEF NotionalInv, NotionalBound, TradedOnce
<1>6. CASE Restart
    BY <1>1, <1>2, <1>6
    DEF Restart, Risk!RiskReset, Risk!NoNotional, NotionalInv, NotionalBound,
        InLegLoop
<1>7. ASSUME NEW o \in Opportunities, SkipDuplicate(o) \/ Accept(o)
      PROVE  NotionalInv'
    BY <1>3, <1>7 DEF SkipDuplicate, Accept, riskVars, InLegLoop
<1>8. CASE \/ RejectByRisk \/ RejectByPrice \/ RecordIntent \/ SubmitLeg
           \/ LegFailed \/ ReportOutcome
    BY <1>3, <1>8
    DEF RejectByRisk, RejectByPrice, RejectWith, RecordIntent, SubmitLeg,
        LegFailed, ReportOutcome, Risk!RecordFailure, riskVars, InLegLoop
<1>9. CASE \/ StartRollback \/ HedgeLeg \/ RecordHedge \/ SkipUnfilledLeg
           \/ FinishRollback
    BY <1>3, <1>9
    DEF StartRollback, HedgeLeg, RecordHedge, SkipUnfilledLeg, FinishRollback,
        riskVars, InLegLoop
<1>10. CASE CheckOrderTimeouts \/ Tick \/ Crash \/ Shutdown \/ UNCHANGED vars
    BY <1>3, <1>10
    DEF CheckOrderTimeouts, Tick, Crash, Shutdown, vars, callVars, riskVars,
        InLegLoop
<1> QED
    BY <1>4, <1>5, <1>6, <1>7, <1>8, <1>9, <1>10 DEF Next, CallStep

\* The accumulated notional of a symbol that no route trades twice never exceeds
\* the configured limit, although it is checked before the legs and consumed one
\* leg at a time.
THEOREM NotionalBoundHolds == Spec => []NotionalBound
<1>1. Init => NotionalInv
    BY InitTypeOK, ConfigAssumption
    DEF Init, Risk!RiskInit, Risk!NoNotional, NotionalInv, NotionalBound, InLegLoop
<1>2. NotionalInv => NotionalBound
    BY DEF NotionalInv
<1> QED
    BY <1>1, <1>2, NotionalInductive, PTL DEF Spec

-------------------------------------------------------------------------------
\* How the three legs are traded: what the venue's position is, how a call
\* settles it, that no submission is left in the timeout tracker, and that the
\* engine implements TriangleTrade.

\* A leg loop that stopped, stopped at a leg that failed or after the last.
Stopped == IsFullyFilled \/ \E i \in Legs : status[i] = "Failed"

\* Where the call is determines which legs are filled and which are hedged.
Progress ==
    /\ pc # "down" => (reply # "none" <=> pc = "outcome")
    /\ InLegLoop =>
         \A i \in Legs : status[i] = IF i < leg THEN "Filled" ELSE "Pending"
    /\ InLegLoop \/ pc = "decide" => hedges = NoReplies
    /\ pc = "decide" => Stopped
    /\ pc \in {"rollback", "hedged"} => \E i \in Legs : status[i] = "Failed"
    /\ pc = "rollback" =>
         \A i \in Legs : hedges[i] # "none" <=> i < leg /\ status[i] = "Filled"
    /\ pc = "hedged" =>
         /\ status[leg] = "Filled"
         /\ \A i \in Legs : hedges[i] # "none" <=> i <= leg /\ status[i] = "Filled"
    /\ pc = "idle" =>
         /\ result = "Filled" => IsFullyFilled /\ hedges = NoReplies
         /\ result = "Failed" => \A i \in Legs : status[i] # "Filled"
         /\ result = "RolledBack" =>
              \A i \in Legs : hedges[i] # "none" <=> status[i] = "Filled"

ProgressInv == TypeOK /\ Progress

LEMMA InitProgress == Init => ProgressInv
BY InitTypeOK DEF Init, ProgressInv, Progress, InLegLoop

LEMMA ProgressInductive == ProgressInv /\ [Next]_vars => ProgressInv'
<1> SUFFICES ASSUME ProgressInv, [Next]_vars
             PROVE  Progress'
    BY NextTypeOK DEF ProgressInv
<1>1. Progress /\ CallTypeOK /\ VenueTypeOK /\ CallTypeOK'
    BY NextTypeOK DEF ProgressInv, TypeOK
<1> USE DEF Progress, InLegLoop, IsFullyFilled, Stopped
<1>2. ASSUME NEW o \in Opportunities, SkipDuplicate(o) \/ Accept(o)
      PROVE  Progress'
    BY <1>1, <1>2 DEF SkipDuplicate, Accept, venueVars
<1>3. CASE RejectByRisk \/ RejectByPrice
    BY <1>1, <1>3 DEF RejectByRisk, RejectByPrice, RejectWith, venueVars
<1>4. CASE StartLegs
    BY <1>1, <1>4 DEF StartLegs, AllPending, NoReplies, Legs
<1>5. CASE RecordIntent
    BY <1>1, <1>5 DEF RecordIntent, venueVars
<1>6. CASE SubmitLeg
    BY <1>1, <1>6 DEF SubmitLeg
<1>7. CASE LegFilled
    BY <1>1, <1>7 DEF LegFilled, CallTypeOK, Legs
<1>8. CASE LegFailed
    BY <1>1, <1>8 DEF LegFailed, CallTypeOK
<1>9. CASE ReportOutcome
    BY <1>1, <1>9 DEF ReportOutcome, NeedsRollback, venueVars
<1>10. CASE StartRollback
    BY <1>1, <1>10
    DEF StartRollback, NeedsRollback, venueVars, NoReplies, Legs
<1>11. CASE HedgeLeg
  <2>1. PICK answer \in {"filled", "rejected"} :
          hedges' = [hedges EXCEPT ![leg] = answer]
      BY <1>11 DEF HedgeLeg
  <2>2. \A i \in Legs : hedges'[i] # "none" <=> i <= leg /\ status[i] = "Filled"
      BY <1>1, <1>11, <2>1 DEF HedgeLeg, VenueTypeOK, Legs
  <2>3. /\ status[leg] = "Filled" /\ pc' = "hedged"
        /\ \E i \in Legs : status[i] = "Failed"
        /\ UNCHANGED <<leg, status, reply>> /\ reply = "none"
      BY <1>1, <1>11 DEF HedgeLeg
  <2> QED
      BY <2>2, <2>3
<1>12. CASE RecordHedge
    BY <1>1, <1>12 DEF RecordHedge, venueVars, CallTypeOK, Legs
<1>13. CASE SkipUnfilledLeg
    BY <1>1, <1>13 DEF SkipUnfilledLeg, venueVars, Legs
<1>14. CASE FinishRollback
    BY <1>1, <1>14 DEF FinishRollback, venueVars, Legs
<1>15. CASE CheckOrderTimeouts \/ Tick \/ UNCHANGED vars
    BY <1>1, <1>15 DEF CheckOrderTimeouts, Tick, vars, callVars, venueVars
<1>16. CASE Crash \/ Shutdown
    BY <1>1, <1>16 DEF Crash, Shutdown
<1>17. CASE Restart
    BY <1>1, <1>17 DEF Restart
<1> QED
    BY <1>2, <1>3, <1>4, <1>5, <1>6, <1>7, <1>8, <1>9, <1>10, <1>11, <1>12,
       <1>13, <1>14, <1>15, <1>16, <1>17
    DEF Next, CallStep

LEMMA ProgressHolds == Spec => []ProgressInv
BY InitProgress, ProgressInductive, PTL DEF Spec

-------------------------------------------------------------------------------
\* The venue's position.
PositionInv == ProgressInv /\ MovedIsOpenLegs

\* What a leg contributes is a number, and nothing to another symbol.
LEMMA OpenValue ==
    ASSUME TypeOK, NEW i \in Legs, NEW s
    PROVE  /\ Open(i, s) \in Int
           /\ s # opp.legs[i].symbol => Open(i, s) = 0
           /\ ~OpenLeg(i) => Open(i, s) = 0
BY OpportunityLegs DEF Open, Signed, TypeOK, CallTypeOK

\* A leg that is open or closed as before contributes what it did.
LEMMA OpenUnchanged ==
    ASSUME NEW i \in Legs, opp' = opp, OpenLeg(i)' <=> OpenLeg(i), NEW s
    PROVE  Open(i, s)' = Open(i, s)
BY DEF Open

\* A step that leaves the position and the open legs alone.
LEMMA SamePosition ==
    ASSUME MovedIsOpenLegs, UNCHANGED <<opp, moved>>, Trading' => Trading,
           \A i \in Legs : OpenLeg(i)' <=> OpenLeg(i)
    PROVE  MovedIsOpenLegs'
<1>1. ASSUME NEW s \in Symbols, NEW i \in Legs
      PROVE  Open(i, s)' = Open(i, s)
    BY OpenUnchanged
<1> QED
    BY <1>1 DEF MovedIsOpenLegs, Legs

\* A step that opens or closes one leg l alone, and moves its symbol alone.
LEMMA OneLegMoves ==
    ASSUME TypeOK, TypeOK', MovedIsOpenLegs, Trading, opp' = opp,
           NEW l \in Legs, NEW sym \in Symbols, sym = opp.legs[l].symbol,
           NEW change \in Int,
           moved' = [moved EXCEPT ![sym] = @ + change],
           \A i \in Legs \ {l} : OpenLeg(i)' <=> OpenLeg(i),
           Open(l, sym)' = Open(l, sym) + change
    PROVE  MovedIsOpenLegs'
<1> SUFFICES ASSUME NEW s \in Symbols
             PROVE  moved'[s] = Open(1, s)' + Open(2, s)' + Open(3, s)'
    BY DEF MovedIsOpenLegs
<1>1. \A i \in Legs \ {l} : Open(i, s)' = Open(i, s)
    BY OpenUnchanged
<1>2. \A i \in Legs : Open(i, s) \in Int
    BY OpenValue
<1>3. moved[s] = Open(1, s) + Open(2, s) + Open(3, s)
    BY DEF MovedIsOpenLegs
<1>4. Open(l, s)' = Open(l, s) + (IF s = sym THEN change ELSE 0)
  <2>1. s # sym => Open(l, s) = 0 /\ Open(l, s)' = 0
      BY DEF Open
  <2> QED
      BY <2>1
<1>5. moved'[s] = moved[s] + (IF s = sym THEN change ELSE 0)
  <2>1. moved \in [Symbols -> Int]
      BY DEF TypeOK, VenueTypeOK
  <2> QED
      BY <2>1
<1>6. CASE l = 1
    BY <1>1, <1>2, <1>3, <1>4, <1>5, <1>6 DEF Legs
<1>7. CASE l = 2
    BY <1>1, <1>2, <1>3, <1>4, <1>5, <1>7 DEF Legs
<1>8. CASE l = 3
    BY <1>1, <1>2, <1>3, <1>4, <1>5, <1>8 DEF Legs
<1> QED
    BY <1>6, <1>7, <1>8 DEF Legs

LEMMA PositionInductive == PositionInv /\ [Next]_vars => PositionInv'
<1> SUFFICES ASSUME PositionInv, [Next]_vars
             PROVE  MovedIsOpenLegs'
    BY ProgressInductive DEF PositionInv
<1>1. /\ Progress /\ TypeOK /\ CallTypeOK /\ VenueTypeOK /\ MovedIsOpenLegs
      /\ \A i \in Legs : /\ opp.legs[i].symbol \in Symbols
                        /\ opp.legs[i].side \in Sides
                        /\ opp.legs[i].size \in Nat
    BY OpportunityLegs DEF PositionInv, ProgressInv, TypeOK, CallTypeOK
<1>0. TypeOK'
    BY NextTypeOK DEF PositionInv, ProgressInv
<1>2. ASSUME NEW o \in Opportunities, SkipDuplicate(o) \/ Accept(o)
      PROVE  MovedIsOpenLegs'
    BY <1>2 DEF SkipDuplicate, Accept, MovedIsOpenLegs, Trading, Calls
<1>3. CASE RejectByRisk \/ RejectByPrice \/ Crash \/ Shutdown \/ Restart
    BY <1>3
    DEF RejectByRisk, RejectByPrice, RejectWith, Crash, Shutdown, Restart,
        MovedIsOpenLegs, Trading, Calls
<1>4. CASE StartLegs
  <2>1. /\ \A i \in Legs : ~OpenLeg(i)'
        /\ \A s \in Symbols : moved'[s] = 0
      BY <1>4 DEF StartLegs, OpenLeg, AllPending, Flat
  <2>2. \A s \in Symbols : \A i \in Legs : Open(i, s)' = 0
      BY <2>1 DEF Open
  <2> QED
      BY <2>1, <2>2 DEF MovedIsOpenLegs, Legs
<1>5. CASE SubmitLeg
  <2>0. PICK l \in Legs, sym \in Symbols : l = leg /\ sym = opp.legs[l].symbol
      BY <1>1, <1>5 DEF SubmitLeg, CallTypeOK
  <2> DEFINE order == opp.legs[l]
  <2>1. /\ Trading /\ reply = "none" /\ status[l] = "Pending"
        /\ \A i \in Legs : hedges[i] = "none"
      BY <1>1, <1>5, <2>0
      DEF SubmitLeg, CallTypeOK, Trading, Calls, Progress, InLegLoop, NoReplies
  <2>2. UNCHANGED <<opp, leg, status, hedges>>
      BY <1>5 DEF SubmitLeg
  <2>3. \A i \in Legs \ {l} : OpenLeg(i)' <=> OpenLeg(i)
      BY <2>0, <2>1, <2>2 DEF OpenLeg
  <2>4. CASE reply' = "filled"
    <3>1. OpenLeg(l)' /\ ~OpenLeg(l)
        BY <2>0, <2>1, <2>2, <2>4 DEF OpenLeg
    <3>2. moved' = [moved EXCEPT ![sym] = @ + Signed(order.side, order.size)]
        BY <1>5, <2>0, <2>4 DEF SubmitLeg
    <3>3. Signed(order.side, order.size) \in Int
        BY <1>1 DEF Signed
    <3>4. Open(l, sym)' = Open(l, sym) + Signed(order.side, order.size)
        BY <2>0, <2>2, <3>1, <3>3 DEF Open
    <3> QED
        BY <1>0, <1>1, <2>0, <2>1, <2>2, <2>3, <3>2, <3>3, <3>4, OneLegMoves
  <2>5. CASE reply' # "filled"
    <3>1. moved' = moved /\ ~OpenLeg(l)' /\ ~OpenLeg(l)
        BY <1>5, <2>0, <2>1, <2>2, <2>5 DEF SubmitLeg, OpenLeg
    <3> QED
        BY <1>1, <2>1, <2>2, <2>3, <3>1, SamePosition
  <2> QED
      BY <2>4, <2>5
<1>6. CASE HedgeLeg
  <2>0. PICK l \in Legs, sym \in Symbols : l = leg /\ sym = opp.legs[l].symbol
      BY <1>1, <1>6 DEF HedgeLeg, CallTypeOK
  <2> DEFINE order == opp.legs[l]
  <2>1. PICK answer \in {"filled", "rejected"} :
          /\ hedges' = [hedges EXCEPT ![l] = answer]
          /\ moved' = IF answer = "filled"
                      THEN [moved EXCEPT ![sym] =
                              @ + Signed(Reverse(order.side), order.size)]
                      ELSE moved
      BY <1>6, <2>0 DEF HedgeLeg
  <2>2. /\ Trading /\ reply = "none"
        /\ status[l] = "Filled" /\ hedges[l] = "none"
        /\ hedges \in [Legs -> {"none", "filled", "rejected"}]
      BY <1>1, <1>6, <2>0
      DEF HedgeLeg, CallTypeOK, VenueTypeOK, Trading, Calls, Progress, Legs
  <2>3. UNCHANGED <<opp, leg, status, reply>>
      BY <1>6 DEF HedgeLeg
  <2>4. \A i \in Legs \ {l} : OpenLeg(i)' <=> OpenLeg(i)
      BY <2>0, <2>1, <2>2, <2>3 DEF OpenLeg
  <2>5. OpenLeg(l) /\ (OpenLeg(l)' <=> answer # "filled")
      BY <2>0, <2>1, <2>2, <2>3 DEF OpenLeg
  <2>6. CASE answer = "filled"
    <3>1. /\ Signed(order.side, order.size) \in Int
          /\ Signed(Reverse(order.side), order.size) \in Int
          /\ Signed(order.side, order.size)
               + Signed(Reverse(order.side), order.size) = 0
        BY <1>1 DEF Signed, Reverse, Sides
    <3>2. moved' = [moved EXCEPT ![sym] = @ + Signed(Reverse(order.side), order.size)]
        BY <2>1, <2>6
    <3>3. Open(l, sym)' = Open(l, sym) + Signed(Reverse(order.side), order.size)
        BY <2>0, <2>3, <2>5, <2>6, <3>1 DEF Open
    <3> QED
        BY <1>0, <1>1, <2>0, <2>2, <2>3, <2>4, <3>1, <3>2, <3>3, OneLegMoves
  <2>7. CASE answer # "filled"
      BY <1>1, <2>1, <2>2, <2>3, <2>4, <2>5, <2>7, SamePosition
  <2> QED
      BY <2>6, <2>7
<1>7. CASE LegFilled \/ LegFailed
  <2>1. /\ leg \in Legs /\ Trading /\ status[leg] = "Pending"
        /\ UNCHANGED <<opp, moved, hedges>> /\ reply' = "none"
        /\ status' = [status EXCEPT ![leg] =
                        IF reply = "filled" THEN "Filled" ELSE "Failed"]
      BY <1>1, <1>7
      DEF LegFilled, LegFailed, CallTypeOK, Progress, InLegLoop, Trading, Calls
  <2>2. \A i \in Legs : OpenLeg(i)' <=> OpenLeg(i)
      BY <1>1, <2>1 DEF OpenLeg, CallTypeOK
  <2> QED
      BY <1>1, <2>1, <2>2, SamePosition
<1>8. CASE \/ RecordIntent \/ ReportOutcome \/ StartRollback \/ RecordHedge
           \/ SkipUnfilledLeg \/ FinishRollback
  <2>1. Trading /\ reply = "none" /\ UNCHANGED <<opp, moved, status, hedges, reply>>
      BY <1>1, <1>8
      DEF RecordIntent, ReportOutcome, StartRollback, RecordHedge,
          SkipUnfilledLeg, FinishRollback, Trading, Calls, Progress, venueVars
  <2>2. \A i \in Legs : OpenLeg(i)' <=> OpenLeg(i)
      BY <2>1 DEF OpenLeg
  <2> QED
      BY <1>1, <2>1, <2>2, SamePosition
<1>9. CASE CheckOrderTimeouts \/ Tick \/ UNCHANGED vars
  <2>1. UNCHANGED <<callVars, venueVars>>
      BY <1>9 DEF CheckOrderTimeouts, Tick, vars
  <2>2. /\ UNCHANGED <<opp, moved>> /\ (Trading' => Trading)
        /\ \A i \in Legs : OpenLeg(i)' <=> OpenLeg(i)
      BY <2>1 DEF callVars, venueVars, Trading, OpenLeg
  <2> QED
      BY <1>1, <2>2, SamePosition
<1> QED
    BY <1>2, <1>3, <1>4, <1>5, <1>6, <1>7, <1>8, <1>9 DEF Next, CallStep

LEMMA PositionHolds == Spec => []PositionInv
<1>1. Init => PositionInv
    BY InitProgress DEF Init, PositionInv, MovedIsOpenLegs, Trading, Calls
<1> QED
    BY <1>1, PositionInductive, PTL DEF Spec

\* At every step of a call the position is exactly the filled legs that no
\* accepted hedge has undone.
THEOREM MovedIsOpenLegsHolds == Spec => []MovedIsOpenLegs
<1>1. PositionInv => MovedIsOpenLegs
    BY DEF PositionInv
<1> QED
    BY <1>1, PositionHolds, PTL

\* A call ends with all three legs open, or flat once its hedges were accepted.
THEOREM CallSettlesHolds == Spec => []CallSettles
<1>1. PositionInv => CallSettles
  <2> SUFFICES ASSUME PositionInv, pc = "idle"
               PROVE  /\ result = "Filled" => \A i \in Legs : OpenLeg(i)
                      /\ result = "Failed" => moved = Flat
                      /\ (result = "RolledBack"
                           /\ \A i \in Legs : hedges[i] # "rejected")
                            => moved = Flat
      BY DEF CallSettles
  <2>1. /\ reply = "none" /\ moved \in [Symbols -> Int]
        /\ hedges \in [Legs -> {"none", "filled", "rejected"}]
        /\ opp \in Opportunities
      BY DEF PositionInv, ProgressInv, Progress, TypeOK, VenueTypeOK, CallTypeOK
  <2>2. result = "Filled" => \A i \in Legs : OpenLeg(i)
      BY DEF PositionInv, ProgressInv, Progress, IsFullyFilled, OpenLeg, NoReplies
  <2>3. ASSUME Trading, \A i \in Legs : ~OpenLeg(i)
        PROVE  moved = Flat
    <3>1. ASSUME NEW s \in Symbols
          PROVE  moved[s] = 0
      <4>1. \A i \in Legs : Open(i, s) = 0
          BY <2>3 DEF Open
      <4> QED
          BY <2>3, <4>1 DEF PositionInv, MovedIsOpenLegs, Legs
    <3> QED
        BY <2>1, <3>1 DEF Flat
  <2>4. result = "Failed" => Trading /\ \A i \in Legs : ~OpenLeg(i)
      BY <2>1 DEF PositionInv, ProgressInv, Progress, Trading, OpenLeg
  <2>5. (result = "RolledBack" /\ \A i \in Legs : hedges[i] # "rejected")
          => Trading /\ \A i \in Legs : ~OpenLeg(i)
      BY <2>1 DEF PositionInv, ProgressInv, Progress, Trading, OpenLeg
  <2> QED
      BY <2>2, <2>3, <2>4, <2>5
<1> QED
    BY <1>1, PositionHolds, PTL

-------------------------------------------------------------------------------
\* The timeout tracker holds submissions of the running call only, and none
\* between two calls, which is when the timeouts are checked.
PendingInv ==
    /\ TypeOK
    /\ timedOut = {}
    /\ pc \in {"idle", "admit"} => pending = {}
    /\ pc \in Calls => \A p \in pending : p.id = opp.id

LEMMA PendingInductive == PendingInv /\ [Next]_vars => PendingInv'
<1> SUFFICES ASSUME PendingInv, [Next]_vars
             PROVE  /\ timedOut' = {}
                    /\ pc' \in {"idle", "admit"} => pending' = {}
                    /\ pc' \in Calls => \A p \in pending' : p.id = opp'.id
    BY NextTypeOK DEF PendingInv
<1> USE DEF PendingInv, Calls, otherVars
<1>1. ASSUME NEW o \in Opportunities, SkipDuplicate(o) \/ Accept(o)
      PROVE  timedOut' = {} /\ pending' = {}
    BY <1>1 DEF SkipDuplicate, Accept
<1>2. CASE \/ RejectByRisk \/ RejectByPrice \/ StartLegs \/ RecordIntent
           \/ StartRollback \/ HedgeLeg \/ RecordHedge \/ SkipUnfilledLeg
    BY <1>2
    DEF RejectByRisk, RejectByPrice, RejectWith, StartLegs, RecordIntent,
        StartRollback, HedgeLeg, RecordHedge, SkipUnfilledLeg
<1>3. CASE SubmitLeg
    BY <1>3 DEF SubmitLeg, Tracker!RecordSubmission
<1>4. CASE LegFilled \/ LegFailed
    BY <1>4 DEF LegFilled, LegFailed, Tracker!ResolveLeg
<1>5. CASE ReportOutcome \/ FinishRollback
    BY <1>5 DEF ReportOutcome, FinishRollback, Tracker!ResolveOpportunity
<1>6. CASE CheckOrderTimeouts
    BY <1>6
    DEF CheckOrderTimeouts, callVars, Tracker!ResolveTimedOut, Tracker!TimedOut
<1>7. CASE Tick \/ Crash \/ Shutdown \/ Restart \/ UNCHANGED vars
    BY <1>7 DEF Tick, Crash, Shutdown, Restart, vars, callVars
<1> QED
    BY <1>1, <1>2, <1>3, <1>4, <1>5, <1>6, <1>7 DEF Next, CallStep

\* check_order_timeouts never reports a leg.
THEOREM NothingTimesOutHolds == Spec => []NothingTimesOut
<1>1. Init => PendingInv
    BY InitTypeOK DEF Init, PendingInv, Tracker!TrackerInit
<1>2. PendingInv => NothingTimesOut
    BY DEF PendingInv, NothingTimesOut
<1> QED
    BY <1>1, <1>2, PendingInductive, PTL DEF Spec

-------------------------------------------------------------------------------
\* What TriangleTrade sees of each step of a call.
AfterLoop(s) ==
    CASE s = "Filled" -> "filled" [] s = "Failed" -> "failed" [] OTHER -> "pending"

View ==
    /\ pc = "down" => Stage = "cut"
    /\ pc \in {"idle", "admit"} => Stage = "ready"
    /\ pc \in {"down", "idle", "admit"} => \A i \in Legs : LegState(i) = "pending"
    /\ pc \in {"intent", "submit"} =>
         /\ Stage = "trading"
         /\ \A i \in Legs : LegState(i) = IF i < leg THEN "filled" ELSE "pending"
    /\ pc = "outcome" /\ reply = "filled" =>
         /\ Stage = "trading"
         /\ \A i \in Legs : LegState(i) = IF i <= leg THEN "filled" ELSE "pending"
    /\ pc = "outcome" /\ reply # "filled" =>
         /\ Stage = "unwinding"
         /\ \A i \in Legs :
              LegState(i) = IF i < leg THEN "filled"
                            ELSE IF i = leg THEN "failed" ELSE "pending"
    /\ pc = "decide" =>
         /\ Stage = IF IsFullyFilled THEN "trading" ELSE "unwinding"
         /\ \A i \in Legs : LegState(i) = AfterLoop(status[i])
    /\ pc \in {"rollback", "hedged"} =>
         /\ Stage = "unwinding"
         /\ \A i \in Legs :
              LegState(i) = IF hedges[i] # "none" THEN "unwound"
                            ELSE AfterLoop(status[i])

LEMMA ViewHolds == ProgressInv => View
<1> SUFFICES ASSUME ProgressInv
             PROVE  View
    OBVIOUS
<1>1. Progress /\ CallTypeOK /\ VenueTypeOK
    BY DEF ProgressInv, TypeOK
<1>2. pc \in {"down", "idle", "admit"} =>
        /\ \A i \in Legs : LegState(i) = "pending"
        /\ Stage = IF pc = "down" THEN "cut" ELSE "ready"
    BY DEF LegState, Trading, Stage, Calls
<1>3. pc \in Calls \ {"admit"} =>
        /\ Trading /\ pc \notin {"down", "idle", "admit"}
        /\ Stage = IF \E i \in Legs : LegState(i) = "failed"
                   THEN "unwinding" ELSE "trading"
    BY DEF Trading, Stage, Calls
<1>4. pc \in {"intent", "submit"} =>
        /\ reply = "none"
        /\ \A i \in Legs : LegState(i) = IF i < leg THEN "filled" ELSE "pending"
    BY <1>1, <1>3 DEF Progress, InLegLoop, LegState, Calls, NoReplies
<1>5. pc = "outcome" /\ reply = "filled" =>
        \A i \in Legs : LegState(i) = IF i <= leg THEN "filled" ELSE "pending"
    BY <1>1, <1>3
    DEF Progress, InLegLoop, LegState, Calls, NoReplies, CallTypeOK, Legs
<1>6. pc = "outcome" /\ reply # "filled" =>
        \A i \in Legs :
          LegState(i) = IF i < leg THEN "filled"
                        ELSE IF i = leg THEN "failed" ELSE "pending"
    BY <1>1, <1>3
    DEF Progress, InLegLoop, LegState, Calls, NoReplies, CallTypeOK,
        VenueTypeOK, Legs
<1>7. pc = "decide" => \A i \in Legs : LegState(i) = AfterLoop(status[i])
    BY <1>1, <1>3
    DEF Progress, InLegLoop, LegState, Calls, NoReplies, CallTypeOK, AfterLoop
<1>8. pc \in {"rollback", "hedged"} =>
        \A i \in Legs :
          LegState(i) = IF hedges[i] # "none" THEN "unwound"
                        ELSE AfterLoop(status[i])
    BY <1>1, <1>3 DEF Progress, LegState, Calls, CallTypeOK, AfterLoop
<1>9. pc = "decide" => Stage = IF IsFullyFilled THEN "trading" ELSE "unwinding"
    BY <1>1, <1>3, <1>7
    DEF Progress, Stopped, IsFullyFilled, AfterLoop, Calls, Legs
<1>10. pc \in {"rollback", "hedged"} => Stage = "unwinding"
    BY <1>1, <1>3, <1>8 DEF Progress, AfterLoop, Calls
<1>11. pc \in {"intent", "submit"} \/ (pc = "outcome" /\ reply = "filled")
         => Stage = "trading"
    BY <1>3, <1>4, <1>5 DEF Calls
<1>12. pc = "outcome" /\ reply # "filled" => Stage = "unwinding"
  <2>1. pc = "outcome" /\ reply # "filled" => leg \in Legs /\ LegState(leg) = "failed"
      BY <1>1, <1>6 DEF CallTypeOK, Legs
  <2> QED
      BY <1>3, <2>1 DEF Calls
<1> QED
    BY <1>2, <1>4, <1>5, <1>6, <1>7, <1>8, <1>9, <1>10, <1>11, <1>12 DEF View

LEMMA ViewHoldsNext == ProgressInv' => View'
BY ViewHolds, PTL

\* A step that TriangleTrade does not see.
LEMMA Stutters ==
    ASSUME Stage' = Stage, \A i \in Legs : LegState(i)' = LegState(i)
    PROVE  UNCHANGED Trade!tradeVars
BY DEF Trade!tradeVars

\* A step of the engine is a step of TriangleTrade or none.
LEMMA StepImplements == ProgressInv /\ [Next]_vars => [Trade!Next]_(Trade!tradeVars)
<1> SUFFICES ASSUME ProgressInv, [Next]_vars
             PROVE  [Trade!Next]_(Trade!tradeVars)
    OBVIOUS
<1>1. /\ View /\ View' /\ Progress /\ CallTypeOK /\ VenueTypeOK
      /\ CallTypeOK' /\ VenueTypeOK'
    BY ProgressInductive, ViewHolds, ViewHoldsNext DEF ProgressInv, TypeOK
<1>2. ASSUME NEW o \in Opportunities, SkipDuplicate(o) \/ Accept(o)
      PROVE  UNCHANGED Trade!tradeVars
    BY <1>1, <1>2, Stutters DEF SkipDuplicate, Accept, View
<1>3. CASE RejectByRisk \/ RejectByPrice
    BY <1>1, <1>3, Stutters DEF RejectByRisk, RejectByPrice, RejectWith, View
<1>4. CASE StartLegs
  <2>1. Trade!Begin
      BY <1>1, <1>4 DEF StartLegs, View, Trade!Begin, Legs
  <2> QED
      BY <2>1 DEF Trade!Next
<1>5. CASE RecordIntent
    BY <1>1, <1>5, Stutters DEF RecordIntent, View
<1>6. CASE SubmitLeg
  <2>0. PICK l \in Legs : l = leg /\ l = leg'
      BY <1>1, <1>6 DEF SubmitLeg, CallTypeOK
  <2>1. /\ Stage = "trading"
        /\ \A i \in Legs : LegState(i) = IF i < l THEN "filled" ELSE "pending"
      BY <1>1, <1>6, <2>0 DEF SubmitLeg, View
  <2>2. Trade!IsNext(l)
      BY <2>1 DEF Trade!IsNext, Legs
  <2>3. CASE reply' = "filled"
    <3>1. /\ Stage' = "trading"
          /\ \A i \in Legs : LegState(i)' = IF i = l THEN "filled" ELSE LegState(i)
        BY <1>1, <1>6, <2>0, <2>1, <2>3 DEF SubmitLeg, View, Legs
    <3>2. Trade!FillLeg(l)
        BY <2>1, <2>2, <3>1 DEF Trade!FillLeg
    <3> QED
        BY <3>2 DEF Trade!Next
  <2>4. CASE reply' # "filled"
    <3>1. /\ Stage' = "unwinding"
          /\ \A i \in Legs : LegState(i)' = IF i = l THEN "failed" ELSE LegState(i)
        BY <1>1, <1>6, <2>0, <2>1, <2>4 DEF SubmitLeg, View, Legs
    <3>2. Trade!FailLeg(l)
        BY <2>1, <2>2, <3>1 DEF Trade!FailLeg
    <3> QED
        BY <3>2 DEF Trade!Next
  <2> QED
      BY <2>3, <2>4
<1>7. CASE LegFilled
  <2>1. /\ leg \in Legs /\ reply = "filled" /\ pc = "outcome"
        /\ status' = [status EXCEPT ![leg] = "Filled"]
        /\ \A i \in Legs : status[i] = IF i < leg THEN "Filled" ELSE "Pending"
      BY <1>1, <1>7 DEF LegFilled, CallTypeOK, Progress, InLegLoop
  <2>2. CASE leg < 3
    <3>1. pc' = "intent" /\ leg' = leg + 1
        BY <1>7, <2>2 DEF LegFilled
    <3>2. Stage' = Stage /\ \A i \in Legs : LegState(i)' = LegState(i)
        BY <1>1, <2>1, <3>1 DEF View, Legs
    <3> QED
        BY <3>2, Stutters
  <2>3. CASE leg = 3
    <3>1. pc' = "decide" /\ \A i \in Legs : status'[i] = "Filled"
        BY <1>1, <1>7, <2>1, <2>3 DEF LegFilled, CallTypeOK, Legs
    <3>2. Stage' = "trading" /\ \A i \in Legs : LegState(i)' = "filled"
        BY <1>1, <3>1 DEF View, IsFullyFilled, AfterLoop
    <3>3. Stage = "trading" /\ \A i \in Legs : LegState(i) = "filled"
        BY <1>1, <2>1, <2>3 DEF View, Legs
    <3> QED
        BY <3>2, <3>3, Stutters
  <2> QED
      BY <2>1, <2>2, <2>3 DEF Legs
<1>8. CASE LegFailed
  <2>1. /\ leg \in Legs /\ reply # "filled" /\ pc = "outcome" /\ pc' = "decide"
        /\ \A i \in Legs : status'[i] = IF i < leg THEN "Filled"
                                      ELSE IF i = leg THEN "Failed" ELSE "Pending"
      BY <1>1, <1>8 DEF LegFailed, CallTypeOK, Progress, InLegLoop
  <2>2. Stage = "unwinding"
        /\ \A i \in Legs : LegState(i) = IF i < leg THEN "filled"
                                      ELSE IF i = leg THEN "failed" ELSE "pending"
      BY <1>1, <2>1 DEF View
  <2>3. ~IsFullyFilled'
      BY <2>1 DEF IsFullyFilled, Legs
  <2>4. Stage' = "unwinding" /\ \A i \in Legs : LegState(i)' = AfterLoop(status'[i])
      BY <1>1, <2>1, <2>3 DEF View
  <2>5. \A i \in Legs : LegState(i)' = LegState(i)
      BY <2>1, <2>2, <2>4 DEF AfterLoop, Legs
  <2> QED
      BY <2>2, <2>4, <2>5, Stutters
<1>9. CASE ReportOutcome
  <2>1. /\ pc = "decide" /\ pc' = "idle" /\ (IsFullyFilled \/ Stopped)
        /\ IsFullyFilled \/ \A i \in Legs : status[i] # "Filled"
      BY <1>1, <1>9 DEF ReportOutcome, Progress, NeedsRollback
  <2>2. \/ Stage = "trading" /\ \A i \in Legs : LegState(i) = "filled"
        \/ Stage = "unwinding" /\ \A i \in Legs : LegState(i) # "filled"
      BY <1>1, <2>1 DEF View, IsFullyFilled, AfterLoop
  <2>3. Stage' = "ready" /\ \A i \in Legs : LegState(i)' = "pending"
      BY <1>1, <2>1 DEF View
  <2>4. Trade!End
      BY <2>2, <2>3 DEF Trade!End, Trade!Untraded
  <2> QED
      BY <2>4 DEF Trade!Next
<1>10. CASE StartRollback
  <2>1. /\ pc = "decide" /\ pc' = "rollback" /\ ~IsFullyFilled
        /\ status' = status /\ hedges' = hedges /\ hedges = NoReplies
      BY <1>1, <1>10 DEF StartRollback, NeedsRollback, Progress, venueVars
  <2>2. Stage' = Stage /\ \A i \in Legs : LegState(i)' = LegState(i)
      BY <1>1, <2>1 DEF View, NoReplies
  <2> QED
      BY <2>2, Stutters
<1>11. CASE HedgeLeg
  <2>0. PICK l \in Legs : l = leg /\ l = leg'
      BY <1>11 DEF HedgeLeg
  <2>1. PICK answer \in {"filled", "rejected"} :
          hedges' = [hedges EXCEPT ![l] = answer]
      BY <1>11, <2>0 DEF HedgeLeg
  <2>2. /\ pc = "rollback" /\ pc' = "hedged" /\ status' = status
        /\ status[l] = "Filled" /\ hedges \in [Legs -> {"none", "filled", "rejected"}]
        /\ \A i \in Legs : hedges[i] # "none" <=> i < l /\ status[i] = "Filled"
      BY <1>1, <1>11, <2>0 DEF HedgeLeg, Progress, VenueTypeOK
  <2>3. /\ Stage = "unwinding" /\ Stage' = "unwinding"
        /\ \A i \in Legs : LegState(i) = IF hedges[i] # "none" THEN "unwound"
                                       ELSE AfterLoop(status[i])
        /\ \A i \in Legs : LegState(i)' = IF hedges'[i] # "none" THEN "unwound"
                                        ELSE AfterLoop(status[i])
      BY <1>1, <2>2 DEF View
  <2>4. \A i \in Legs : LegState(i)' = IF i = l THEN "unwound" ELSE LegState(i)
      BY <2>1, <2>2, <2>3
  <2>5. LegState(l) = "filled" /\ \A i \in Legs : i < l => LegState(i) # "filled"
      BY <2>2, <2>3 DEF AfterLoop, Legs
  <2>6. Trade!Unwind(l)
      BY <2>3, <2>4, <2>5 DEF Trade!Unwind
  <2> QED
      BY <2>6 DEF Trade!Next
<1>12. CASE RecordHedge \/ SkipUnfilledLeg
    BY <1>1, <1>12, Stutters DEF RecordHedge, SkipUnfilledLeg, View, venueVars
<1>13. CASE FinishRollback
  <2>1. /\ pc = "rollback" /\ pc' = "idle"
        /\ \A i \in Legs : status[i] = "Filled" => hedges[i] # "none"
      BY <1>1, <1>13 DEF FinishRollback, Progress, Legs
  <2>2. Stage = "unwinding" /\ \A i \in Legs : LegState(i) # "filled"
      BY <1>1, <2>1 DEF View, AfterLoop
  <2>3. Stage' = "ready" /\ \A i \in Legs : LegState(i)' = "pending"
      BY <1>1, <2>1 DEF View
  <2>4. Trade!End
      BY <2>2, <2>3 DEF Trade!End, Trade!Untraded
  <2> QED
      BY <2>4 DEF Trade!Next
<1>14. CASE CheckOrderTimeouts \/ Tick \/ UNCHANGED vars
  <2>1. UNCHANGED <<callVars, venueVars>>
      BY <1>14 DEF CheckOrderTimeouts, Tick, vars
  <2>2. Stage' = Stage /\ \A i \in Legs : LegState(i)' = LegState(i)
      BY <2>1 DEF callVars, venueVars, Stage, LegState, Trading
  <2> QED
      BY <2>2, Stutters
<1>15. CASE Crash \/ Shutdown
  <2>1. /\ Stage # "cut" /\ Stage' = "cut"
        /\ \A i \in Legs : LegState(i)' = "pending"
      BY <1>1, <1>15 DEF Crash, Shutdown, View, Stage
  <2>2. Trade!CutShort
      BY <2>1 DEF Trade!CutShort, Trade!Untraded
  <2> QED
      BY <2>2 DEF Trade!Next
<1>16. CASE Restart
  <2>1. /\ Stage = "cut" /\ Stage' = "ready"
        /\ \A i \in Legs : LegState(i)' = LegState(i)
      BY <1>1, <1>16 DEF Restart, View
  <2>2. Trade!Recover
      BY <2>1 DEF Trade!Recover
  <2> QED
      BY <2>2 DEF Trade!Next
<1> QED
    BY <1>2, <1>3, <1>4, <1>5, <1>6, <1>7, <1>8, <1>9, <1>10, <1>11, <1>12,
       <1>13, <1>14, <1>15, <1>16
    DEF Next, CallStep

\* The engine implements TriangleTrade: the legs are traded one at a time and in
\* order, none after a failure, and a call ends with every filled leg kept or an
\* unwinding order sent for each.
THEOREM ImplementsTriangleTradeHolds == Spec => ImplementsTriangleTrade
<1>1. Init => Trade!Init
    BY DEF Init, Trade!Init, Trade!Untraded, Stage, LegState, Trading, Calls
<1> QED
    BY <1>1, StepImplements, ProgressHolds, PTL
    DEF Spec, ImplementsTriangleTrade, Trade!TradeSpec

-------------------------------------------------------------------------------
\* The journal across crashes.

JournalLines == [kind : {"Intent"}, id : Ids, symbol : Symbols, side : Sides]
           \cup [kind : {"Fill", "Fail", "Hedge"}, id : Ids, leg : Legs]

InFile(line) == \E i \in DOMAIN disk : disk[i] = line

Listed(line) == \E i \in DOMAIN entries : entries[i] = line

IntentOf(u) == Journal!Intent(u.id, u.symbol, u.side)

\* Every flush has written all it was given.
Flushed == disk \in Seq(JournalLines) /\ unwritten = <<>> /\ piece = "none"

\* What is in the file is in the list of a running process, and it was all read or
\* written as an entry.
FileListed ==
    /\ entries \in Seq(JournalLines)
    /\ pc # "down" => \A line \in JournalLines : InFile(line) => Listed(line)

JournalInv ==
    /\ TypeOK
    /\ FileListed
    /\ Flushed
    /\ \A u \in unconfirmed : InFile(IntentOf(u))
    /\ pc \in {"submit", "outcome"} => InFile(IntentOf(CurrentOrder))

\* record_* with a file that accepts every write puts its line into the file
\* and keeps the others.
LEMMA AppendKeepsLines ==
    ASSUME ~IoFaults, Flushed, NEW line \in JournalLines, Journal!AppendEntry(line)
    PROVE  /\ Flushed'
           /\ InFile(line)'
           /\ \A other : InFile(other) => InFile(other)'
           /\ \A other : InFile(other)' => InFile(other) \/ other = line
<1>1. Append(unwritten, line) = <<line>> /\ Len(<<line>>) = 1
    BY DEF Flushed
<1>2. Journal!FlushAll(<<line>>)
    BY <1>1 DEF Journal!AppendEntry, Journal!FlushFails
<1>3. Journal!Lines(<<line>>, 1) = <<line>>
    BY DEF Journal!Lines, Flushed
<1>4. disk' = disk \o <<line>> /\ unwritten' = <<>> /\ piece' = "none"
    BY <1>1, <1>2, <1>3 DEF Journal!FlushAll
<1>5. disk \in Seq(JournalLines) /\ disk' = Append(disk, line)
    BY <1>4 DEF Flushed
<1>6. /\ disk' \in Seq(JournalLines) /\ Len(disk') = Len(disk) + 1
      /\ \A i \in 1 .. Len(disk) : disk'[i] = disk[i]
      /\ disk'[Len(disk) + 1] = line
    BY <1>5, AppendProperties
<1>7. /\ Len(disk) \in Nat /\ DOMAIN disk = 1 .. Len(disk)
      /\ DOMAIN disk' = 1 .. Len(disk) + 1
    BY <1>5, <1>6
<1>8. DOMAIN disk \subseteq DOMAIN disk' /\ Len(disk) + 1 \in DOMAIN disk'
    BY <1>7
<1> QED
    BY <1>4, <1>6, <1>7, <1>8 DEF Flushed, InFile

\* The shutdown flush has nothing to write.
LEMMA DropKeepsLines ==
    ASSUME ~IoFaults, Flushed, Journal!DropLog
    PROVE  Flushed' /\ disk' = disk
<1>1. Journal!Lines(<<>>, 0) = <<>>
    BY DEF Journal!Lines
<1> QED
    BY <1>1 DEF Journal!DropLog, Flushed

\* The list of a process grows with the file.
LEMMA AppendLists ==
    ASSUME ~IoFaults, Flushed, NEW line \in JournalLines, Journal!AppendEntry(line),
           FileListed, pc # "down"
    PROVE  FileListed'
<1>1. entries' = Append(entries, line)
    BY DEF Journal!AppendEntry
<1>2. /\ entries' \in Seq(JournalLines) /\ Len(entries) \in Nat
      /\ DOMAIN entries = 1 .. Len(entries) /\ DOMAIN entries' = 1 .. Len(entries) + 1
      /\ \A i \in 1 .. Len(entries) : entries'[i] = entries[i]
      /\ entries'[Len(entries) + 1] = line
    BY <1>1, AppendProperties DEF FileListed
<1>3. ASSUME NEW other \in JournalLines, InFile(other)'
      PROVE  Listed(other)'
  <2>1. CASE other = line
      BY <1>2, <2>1 DEF Listed
  <2>2. CASE InFile(other)
    <3>1. PICK i \in DOMAIN entries : entries[i] = other
        BY <2>2 DEF FileListed, Listed
    <3> QED
        BY <1>2, <3>1 DEF Listed
  <2> QED
      BY <1>3, <2>1, <2>2, AppendKeepsLines
<1> QED
    BY <1>2, <1>3 DEF FileListed

\* A restart reads every line of a file whose lines are all well-formed.
LEMMA OpenLists ==
    ASSUME Flushed, Journal!Open
    PROVE  FileListed'
<1> DEFINE read == CHOOSE r : Collects(disk, Journal!Malformed, Len(disk), r)
<1>1. entries' = read[Len(disk)] /\ disk' = disk
    BY Zenon DEF Journal!Open, Journal!ReadAll, Collects, Journal!WellFormed
<1> HIDE DEF read
<1>2. disk \in Seq(JournalLines)
    BY DEF Flushed
<1>3. Collects(disk, Journal!Malformed, Len(disk), read)
  <2>1. Len(disk) \in 0 .. Len(disk)
      BY <1>2
  <2> QED
      BY <1>2, <2>1, CollectsExists DEF read
<1>4. OthersInOrder(entries', disk, Journal!Malformed, JournalLines)
    BY <1>1, <1>2, <1>3, CollectedKeepsOrder
<1>5. ASSUME NEW line \in JournalLines, InFile(line)'
      PROVE  Listed(line)'
  <2>1. PICK j \in 1 .. Len(disk) : disk[j] = line
      BY <1>1, <1>2, <1>5 DEF InFile
  <2>2. line # Journal!Malformed
      BY DEF JournalLines, Journal!Malformed
  <2> QED
      BY <1>4, <2>1, <2>2 DEF OthersInOrder, Listed
<1> QED
    BY <1>4, <1>5 DEF FileListed, OthersInOrder

LEMMA JournalInductive ==
    ASSUME Journaled, ~IoFaults
    PROVE  JournalInv /\ [Next]_vars => JournalInv'
<1> SUFFICES ASSUME JournalInv, [Next]_vars
             PROVE  /\ FileListed' /\ Flushed'
                    /\ \A u \in unconfirmed' : InFile(IntentOf(u))'
                    /\ pc' \in {"submit", "outcome"} => InFile(IntentOf(CurrentOrder))'
    BY NextTypeOK DEF JournalInv
<1>1. CallTypeOK /\ opp.id \in Ids
      /\ \A i \in Legs : opp.legs[i].symbol \in Symbols /\ opp.legs[i].side \in Sides
    BY OpportunityLegs DEF JournalInv, TypeOK, CallTypeOK
<1> USE DEF JournalInv
<1>2. ASSUME UNCHANGED journalVars, unconfirmed' \subseteq unconfirmed,
             pc # "down", pc' \notin {"submit", "outcome"}
      PROVE  /\ FileListed' /\ Flushed'
             /\ \A u \in unconfirmed' : InFile(IntentOf(u))'
    BY <1>2
    DEF journalVars, Flushed, FileListed, Listed, InFile, IntentOf, Journal!Intent
<1>3. ASSUME NEW line \in JournalLines, Journal!AppendEntry(line),
             unconfirmed' \subseteq unconfirmed, pc # "down"
      PROVE  /\ FileListed' /\ Flushed' /\ InFile(line)'
             /\ \A u \in unconfirmed' : InFile(IntentOf(u))'
  <2>1. Flushed' /\ InFile(line)' /\ \A other : InFile(other) => InFile(other)'
      BY <1>3, AppendKeepsLines
  <2>2. FileListed'
      BY <1>3, AppendLists
  <2> QED
      BY <1>3, <2>1, <2>2 DEF IntentOf, Journal!Intent
<1>4. ASSUME NEW o \in Opportunities, SkipDuplicate(o) \/ Accept(o)
      PROVE  UNCHANGED journalVars /\ UNCHANGED unconfirmed
             /\ pc # "down" /\ pc' \notin {"submit", "outcome"}
    BY <1>4 DEF SkipDuplicate, Accept, venueVars
<1>5. CASE RejectByRisk \/ RejectByPrice \/ StartLegs \/ ReportOutcome \/ StartRollback
    BY <1>2, <1>5
    DEF RejectByRisk, RejectByPrice, RejectWith, StartLegs, ReportOutcome,
        StartRollback, venueVars
<1>6. CASE HedgeLeg \/ SkipUnfilledLeg \/ FinishRollback
    BY <1>2, <1>6 DEF HedgeLeg, SkipUnfilledLeg, FinishRollback, venueVars
<1>14. CASE Restart
  <2>1. FileListed'
      BY <1>14, OpenLists DEF Restart
  <2>2. UNCHANGED <<disk, piece, unwritten, unconfirmed>> /\ pc' = "idle"
      BY <1>14 DEF Restart, Journal!Open
  <2> QED
      BY <2>1, <2>2 DEF Flushed, InFile, IntentOf, Journal!Intent
<1>7. CASE RecordIntent
  <2>1. PICK line \in JournalLines :
          line = Journal!Intent(opp.id, opp.legs[leg].symbol, opp.legs[leg].side)
      BY <1>1, <1>7 DEF RecordIntent, CallTypeOK, Journal!Intent, JournalLines
  <2>2. /\ Journal!AppendEntry(line) /\ UNCHANGED <<opp, leg, unconfirmed>>
      BY <1>7, <2>1 DEF RecordIntent, Log, venueVars
  <2>3. IntentOf(CurrentOrder)' = line
      BY <2>1, <2>2 DEF IntentOf, CurrentOrder, Journal!Intent
  <2>4. FileListed' /\ InFile(line)' /\ Flushed' /\ \A u \in unconfirmed' : InFile(IntentOf(u))'
      BY <1>3, <1>7, <2>1, <2>2 DEF RecordIntent
  <2>5. InFile(IntentOf(CurrentOrder))'
      BY <2>3, <2>4 DEF InFile
  <2> QED
      BY <2>4, <2>5
<1>8. CASE SubmitLeg
  <2>1. /\ UNCHANGED <<entries, disk, unwritten, piece, opp, leg>> /\ pc # "down"
        /\ unconfirmed' \subseteq unconfirmed \cup {CurrentOrder}
        /\ InFile(IntentOf(CurrentOrder))
      BY <1>8 DEF SubmitLeg, journalVars
  <2>2. ASSUME NEW u \in unconfirmed'
        PROVE  InFile(IntentOf(u))
      BY <2>1
  <2>3. \A line : InFile(line)' <=> InFile(line)
      BY <2>1 DEF InFile
  <2>4. CurrentOrder' = CurrentOrder
      BY <2>1 DEF CurrentOrder
  <2>5. FileListed'
      BY <2>1, <2>3 DEF FileListed, Listed
  <2> QED
      BY <2>1, <2>2, <2>3, <2>4, <2>5 DEF Flushed, InFile, IntentOf, Journal!Intent
<1>9. CASE LegFilled \/ LegFailed
  <2>1. PICK line \in JournalLines : Journal!AppendEntry(line)
    <3>1. leg \in Legs
        BY <1>1, <1>9 DEF LegFilled, LegFailed, CallTypeOK
    <3>2. Journal!Fill(opp.id, leg) \in JournalLines /\ Journal!Fail(opp.id, leg) \in JournalLines
        BY <1>1, <3>1 DEF Journal!Fill, Journal!Fail, JournalLines
    <3> QED
        BY <1>9, <3>2 DEF LegFilled, LegFailed, Log
  <2>2. unconfirmed' \subseteq unconfirmed /\ pc # "down" /\ pc' \notin {"submit", "outcome"}
      BY <1>9 DEF LegFilled, LegFailed
  <2> QED
      BY <1>3, <2>1, <2>2
<1>10. CASE RecordHedge
  <2>1. Journal!Hedge(opp.id, leg) \in JournalLines
      BY <1>1, <1>10 DEF RecordHedge, CallTypeOK, Journal!Hedge, JournalLines
  <2>2. /\ Journal!AppendEntry(Journal!Hedge(opp.id, leg))
        /\ unconfirmed' = unconfirmed /\ pc # "down" /\ pc' \notin {"submit", "outcome"}
      BY <1>10 DEF RecordHedge, Log, venueVars
  <2> QED
      BY <1>3, <2>1, <2>2
<1>11. CASE CheckOrderTimeouts \/ Tick \/ UNCHANGED vars
  <2>1. UNCHANGED <<journalVars, callVars, venueVars>>
      BY <1>11 DEF CheckOrderTimeouts, Tick, vars
  <2> QED
      BY <2>1
      DEF journalVars, callVars, venueVars, Flushed, FileListed, Listed, InFile, IntentOf,
          CurrentOrder, Journal!Intent
<1>12. CASE Crash
    BY <1>12
    DEF Crash, Journal!LoseBuffer, Flushed, FileListed, InFile, IntentOf, Journal!Intent
<1>13. CASE Shutdown
  <2>1. /\ Flushed' /\ disk' = disk /\ entries' = <<>>
        /\ unconfirmed' = unconfirmed /\ pc' = "down"
      BY <1>13, DropKeepsLines DEF Shutdown, venueVars, Journal!DropLog
  <2> QED
      BY <2>1 DEF FileListed, InFile, IntentOf, Journal!Intent
<1> QED
    BY <1>2, <1>4, <1>5, <1>6, <1>7, <1>8, <1>9, <1>10, <1>11, <1>12, <1>13, <1>14
    DEF Next, CallStep

\* The intent reaches the file before the order reaches the venue, and no crash
\* or restart takes it away.
THEOREM UnansweredHasIntentHolds == Spec => []UnansweredHasIntent
<1>1. CASE Journaled /\ ~IoFaults
  <2>1. Init => JournalInv
      BY InitTypeOK
      DEF Init, Journal!JournalInit, JournalInv, Flushed, FileListed, InFile
  <2>2. JournalInv => UnansweredHasIntent
      BY DEF JournalInv, UnansweredHasIntent, InFile, IntentOf
  <2>3. JournalInv /\ [Next]_vars => JournalInv'
      BY <1>1, JournalInductive
  <2> QED
      BY <2>1, <2>2, <2>3, PTL DEF Spec
<1>2. CASE ~(Journaled /\ ~IoFaults)
  <2>1. UnansweredHasIntent
      BY <1>2 DEF UnansweredHasIntent
  <2> QED
      BY <2>1, PTL
<1> QED
    BY <1>1, <1>2

\* What a restart reports contains every order whose answer was lost, unless an answer
\* to some leg of its opportunity is in the file: the list read back holds all lines.
THEOREM LostOrderRevealedHolds == Spec => []LostOrderRevealed
<1>1. CASE Journaled /\ ~IoFaults
  <2>1. Init => JournalInv
      BY InitTypeOK
      DEF Init, Journal!JournalInit, JournalInv, Flushed, FileListed, InFile
  <2>2. JournalInv => LostOrderRevealed
    <3> SUFFICES ASSUME JournalInv, pc = "idle", NEW u \in unconfirmed,
                        ~Journal!Confirmed(entries, u.id)
                 PROVE  IntentOf(u) \in Journal!FindUnacknowledged(entries)
        BY DEF LostOrderRevealed, IntentOf
    <3>1. IntentOf(u) \in JournalLines
      <4>1. InFile(IntentOf(u)) /\ disk \in Seq(JournalLines)
          BY DEF JournalInv, Flushed
      <4> QED
          BY <4>1 DEF InFile
    <3>2. PICK i \in DOMAIN entries : entries[i] = IntentOf(u)
        BY <3>1 DEF JournalInv, FileListed, Listed
    <3>3. entries[i].kind = "Intent" /\ entries[i].id = u.id
        BY <3>2 DEF IntentOf, Journal!Intent
    <3> QED
        BY <3>2, <3>3 DEF Journal!FindUnacknowledged
  <2>3. JournalInv /\ [Next]_vars => JournalInv'
      BY <1>1, JournalInductive
  <2> QED
      BY <2>1, <2>2, <2>3, PTL DEF Spec
<1>2. CASE ~(Journaled /\ ~IoFaults)
  <2>1. LostOrderRevealed
      BY <1>2 DEF LostOrderRevealed
  <2> QED
      BY <2>1, PTL
<1> QED
    BY <1>1, <1>2

-------------------------------------------------------------------------------
\* Deduplication.  The property speaks of the instant an id was accepted, the code
\* of what is still in its table: what this process accepted less than a time to
\* live ago is there, under the instant of that call, and a dead process has
\* accepted nothing.
Remembered ==
    \A id \in Ids :
        acceptedAt[id] # -1 =>
            /\ pc # "down"
            /\ acceptedAt[id] \in Nat
            /\ dedup[id] = acceptedAt[id] \/ now - acceptedAt[id] >= Ttl

\* An id is only accepted by check_and_insert, which then holds it and whatever
\* the collection keeps.
LEMMA AcceptRemembers ==
    ASSUME TypeOK, Remembered, NEW o \in Opportunities, Accept(o),
           acceptedAt' = [id \in Ids |-> IF pc' = "down" THEN -1
                                        ELSE IF Accepts(id) THEN now ELSE acceptedAt[id]]
    PROVE  Remembered'
<1> DEFINE table == [dedup EXCEPT ![o.id] = now]
<1>1. /\ dedup \in [Ids -> Nat \cup {-1}] /\ now \in Nat /\ Ttl \in Nat
      /\ o.id \in Ids
    BY OpportunityAssumption, ConfigAssumption DEF TypeOK, Dedup!DedupTypeOK, Dedup!Absent
<1>2. now' = now /\ pc' = "admit" /\ opp' = o /\ pc = "idle"
    BY DEF Accept
<1>3. dedup' = table \/ dedup' = Dedup!Collected(table)
    BY DEF Accept, Dedup!Insert
<1>4. \A id \in Ids : acceptedAt'[id] = IF id = o.id THEN now ELSE acceptedAt[id]
    BY <1>2 DEF Accepts
<1>5. table \in [Ids -> Nat \cup {-1}] /\ table[o.id] = now
      /\ \A id \in Ids \ {o.id} : table[id] = dedup[id]
    BY <1>1
<1>6. \A id \in Ids : dedup'[id] = table[id] \/ ~(table[id] > now - Ttl)
    BY <1>3 DEF Dedup!Collected
<1> HIDE DEF table
<1>7. ASSUME NEW id \in Ids, acceptedAt'[id] # -1
      PROVE  /\ acceptedAt'[id] \in Nat
             /\ dedup'[id] = acceptedAt'[id] \/ now - acceptedAt'[id] >= Ttl
  <2>1. acceptedAt'[id] \in Nat
      BY <1>1, <1>4, <1>7 DEF Remembered
  <2>2. table[id] = acceptedAt'[id] \/ now - acceptedAt'[id] >= Ttl
      BY <1>4, <1>5, <1>7 DEF Remembered
  <2> QED
      BY <1>1, <1>6, <2>1, <2>2
<1> QED
    BY <1>2, <1>7 DEF Remembered

\* Every step keeps what was accepted in memory.
LEMMA RememberedInductive ==
    ASSUME TypeOK, Remembered, [MCNext]_mcVars
    PROVE  Remembered'
<1>1. CASE UNCHANGED mcVars
    BY <1>1 DEF mcVars, vars, dedupVars, callVars, Remembered
<1>2. CASE MCNext /\ \E o \in Opportunities : Accept(o)
    BY <1>2, AcceptRemembers DEF MCNext
<1>3. CASE MCNext /\ pc' = "down"
    BY <1>3 DEF MCNext, Remembered
<1>4. CASE MCNext /\ Restart
  <2>1. \A id \in Ids : acceptedAt[id] = -1
      BY <1>4 DEF Restart, Remembered
  <2>2. \A id \in Ids : acceptedAt'[id] = -1
      BY <1>4, <2>1 DEF MCNext, Restart, Accepts
  <2> QED
      BY <2>2 DEF Remembered
<1>5. CASE MCNext /\ ~Restart /\ pc' # "down" /\ ~\E o \in Opportunities : Accept(o)
  <2>1. /\ dedup' = dedup
        /\ now' = now \/ now' = now + 1
        /\ pc # "down"
        /\ pc = "idle" => pc' # "admit"
      BY <1>5
      DEF MCNext, Next, CallStep, SkipDuplicate, RejectByRisk, RejectByPrice, RejectWith,
          StartLegs, RecordIntent, SubmitLeg, LegFilled, LegFailed, ReportOutcome,
          StartRollback, HedgeLeg, RecordHedge, SkipUnfilledLeg, FinishRollback,
          CheckOrderTimeouts, Tick, Crash, Shutdown, dedupVars, callVars
  <2>2. \A id \in Ids : acceptedAt'[id] = acceptedAt[id]
      BY <1>5, <2>1 DEF MCNext, Accepts
  <2>3. now \in Nat /\ Ttl \in Nat
      BY ConfigAssumption DEF TypeOK
  <2>4. ASSUME NEW id \in Ids, acceptedAt[id] # -1
        PROVE  dedup[id] = acceptedAt[id] \/ now' - acceptedAt[id] >= Ttl
      BY <2>1, <2>3, <2>4 DEF Remembered
  <2> QED
      BY <1>5, <2>1, <2>2, <2>4 DEF Remembered
<1> QED
    BY <1>1, <1>2, <1>3, <1>4, <1>5

\* No opportunity is executed a second time before its time to live has passed, in
\* whatever life of the process it is accepted, whichever other ids and
\* collections come in between.
THEOREM ReacceptAfterTtlHolds == MCSpec => ReacceptAfterTtl
<1>1. MCInit => Init /\ Remembered
    BY DEF MCInit, Remembered
<1>2. [MCNext]_mcVars => [Next]_vars
    BY DEF MCNext, mcVars
<1>3. TypeOK /\ Remembered /\ [MCNext]_mcVars => Remembered'
    BY RememberedInductive
<1>4. ASSUME TypeOK, Remembered, MCNext, NEW id \in Ids, Accepts(id), acceptedAt[id] # -1
      PROVE  now - acceptedAt[id] >= Ttl
  <2>1. PICK o \in Opportunities : Accept(o)
      BY <1>4
      DEF Accepts, MCNext, Next, CallStep, SkipDuplicate, RejectByRisk, RejectByPrice,
          RejectWith, StartLegs, RecordIntent, SubmitLeg, LegFilled, LegFailed,
          ReportOutcome, StartRollback, HedgeLeg, RecordHedge, SkipUnfilledLeg,
          FinishRollback, CheckOrderTimeouts, Tick, Crash, Shutdown, Restart, callVars
  <2>2. o.id = id /\ dedup[o.id] = -1
      BY <1>4, <2>1 DEF Accepts, Accept, Dedup!Insert, Dedup!Known, Dedup!Absent
  <2> QED
      BY <1>4, <2>2 DEF Remembered
<1>5. TypeOK /\ Remembered /\ [MCNext]_mcVars =>
        [\A id \in Ids :
           (Accepts(id) /\ acceptedAt[id] # -1) => now - acceptedAt[id] >= Ttl]_mcVars
    BY <1>4
<1>6. TypeOK /\ [Next]_vars => TypeOK'
    BY NextTypeOK
<1>7. MCInit => TypeOK
    BY <1>1, InitTypeOK
<1> QED
    BY <1>1, <1>2, <1>3, <1>5, <1>6, <1>7, PTL DEF MCSpec, ReacceptAfterTtl
===============================================================================
