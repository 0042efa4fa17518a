------------------------------ MODULE RiskProofs ------------------------------
(***************************************************************************)
(* What the risk controller guarantees about the whole history of recorded *)
(* outcomes, for every configuration, number of symbols and bound on time  *)
(* and calls.                                                              *)
(***************************************************************************)
EXTENDS MCRiskController, FiniteSetTheorems, TLAPS

\* Length of the history.
N == Len(outcomes)

\* The successes that a window ending at t should count.
SuccessesIn(t) == {i \in 1 .. N : outcomes[i].ok /\ outcomes[i].at > t - TradeWindow}

HistoryTypeOK ==
    /\ outcomes \in Seq([ok : BOOLEAN, at : Nat])
    /\ now \in Nat

\* consecutiveFailures is the length of the failures at the end of the history.
RunCounted ==
    /\ consecutiveFailures <= N
    /\ \A i \in N - consecutiveFailures + 1 .. N : ~outcomes[i].ok
    /\ consecutiveFailures < N => outcomes[N - consecutiveFailures].ok

\* A count at the limit means that the last failure tripped the breaker.
TrippedByLast ==
    consecutiveFailures >= MaxConsecutiveFailures =>
        breakerUntil = outcomes[N].at + Cooldown

\* No deadline is further away than a cooldown.
DeadlineNear == breakerUntil <= now + Cooldown

\* The timestamps kept are enough for every window that ends now or later.
WindowsComplete ==
    \A t \in Nat : t >= now =>
        Cardinality(Within(trades, t)) = Cardinality(SuccessesIn(t))

RiskInv ==
    /\ RiskTypeOK
    /\ HistoryTypeOK
    /\ RunCounted
    /\ TrippedByLast
    /\ DeadlineNear
    /\ WindowsComplete

-------------------------------------------------------------------------------
\* A recorded outcome comes after the others.
LEMMA RecordAppends ==
    ASSUME HistoryTypeOK, NEW ok \in BOOLEAN, Record(ok), UNCHANGED now
    PROVE  /\ HistoryTypeOK'
           /\ N \in Nat /\ N' = N + 1
           /\ outcomes'[N + 1] = [ok |-> ok, at |-> now]
           /\ \A i \in 1 .. N : outcomes'[i] = outcomes[i]
<1> DEFINE entry == [ok |-> ok, at |-> now]
<1>1. entry \in [ok : BOOLEAN, at : Nat]
    BY DEF HistoryTypeOK
<1>2. outcomes' = Append(outcomes, entry) /\ outcomes \in Seq([ok : BOOLEAN, at : Nat])
    BY DEF Record, HistoryTypeOK
<1> HIDE DEF entry
<1>3. /\ outcomes' \in Seq([ok : BOOLEAN, at : Nat])
      /\ Len(outcomes) \in Nat /\ Len(outcomes') = Len(outcomes) + 1
      /\ outcomes'[Len(outcomes) + 1] = entry
      /\ \A i \in 1 .. Len(outcomes) : outcomes'[i] = outcomes[i]
    BY <1>1, <1>2
<1> QED
    BY <1>3 DEF N, HistoryTypeOK, entry

\* Windows of a history are finite.
LEMMA SuccessesFinite ==
    ASSUME HistoryTypeOK, NEW t \in Nat
    PROVE  IsFiniteSet(SuccessesIn(t)) /\ Cardinality(SuccessesIn(t)) \in Nat
<1>1. N \in Nat
    BY DEF HistoryTypeOK, N
<1>2. IsFiniteSet(1 .. N)
    BY <1>1, FS_Interval
<1>3. SuccessesIn(t) \subseteq 1 .. N
    BY DEF SuccessesIn
<1> QED
    BY <1>2, <1>3, FS_Subset, FS_CardinalityType

LEMMA WithinFinite ==
    ASSUME RiskTypeOK, NEW t
    PROVE  IsFiniteSet(Within(trades, t)) /\ Cardinality(Within(trades, t)) \in Nat
<1>1. IsFiniteSet(trades) /\ Within(trades, t) \subseteq trades
    BY DEF RiskTypeOK, Within
<1> QED
    BY <1>1, FS_Subset, FS_CardinalityType

\* A failure leaves every window as it is.
LEMMA FailureCountsNothing ==
    ASSUME RiskInv, Failure, NEW t \in Nat
    PROVE  SuccessesIn(t)' = SuccessesIn(t)
<1>1. /\ N \in Nat /\ N' = N + 1 /\ ~outcomes'[N + 1].ok
      /\ \A i \in 1 .. N : outcomes'[i] = outcomes[i]
  <2>1. HistoryTypeOK /\ Record(FALSE) /\ UNCHANGED now
      BY DEF RiskInv, Failure
  <2>2. /\ N \in Nat /\ N' = N + 1 /\ outcomes'[N + 1] = [ok |-> FALSE, at |-> now]
        /\ \A i \in 1 .. N : outcomes'[i] = outcomes[i]
      BY <2>1, RecordAppends
  <2> QED
      BY <2>2
<1>2. SuccessesIn(t)' = {i \in 1 .. N' : outcomes'[i].ok /\ outcomes'[i].at > t - TradeWindow}
    BY DEF SuccessesIn
<1>3. \A i : i \in 1 .. N + 1 <=> i \in 1 .. N \/ i = N + 1
    BY <1>1
<1>4. \A i : i \in SuccessesIn(t)' <=> i \in SuccessesIn(t)
    BY <1>1, <1>2, <1>3 DEF SuccessesIn
<1> QED
    BY <1>4

LEMMA FailureKeeps ==
    ASSUME RiskInv, Failure
    PROVE  RiskInv'
<1>1. /\ consecutiveFailures' = consecutiveFailures + 1
      /\ breakerUntil' = IF consecutiveFailures + 1 >= MaxConsecutiveFailures
                         THEN now + Cooldown ELSE breakerUntil
      /\ trades' = trades /\ tradeNo' = tradeNo /\ notional' = notional /\ now' = now
    BY DEF Failure, RecordFailure
<1>2. /\ N \in Nat /\ N' = N + 1 /\ outcomes'[N + 1] = [ok |-> FALSE, at |-> now]
      /\ \A i \in 1 .. N : outcomes'[i] = outcomes[i]
      /\ HistoryTypeOK'
    BY <1>1, RecordAppends DEF RiskInv, Failure
<1>3. /\ consecutiveFailures \in Nat /\ now \in Nat /\ breakerUntil \in Int
      /\ Cooldown \in Nat /\ MaxConsecutiveFailures \in Nat
    BY RiskAssumption DEF RiskInv, RiskTypeOK, HistoryTypeOK, NotTripped
<1>4. RiskTypeOK'
    BY <1>1, <1>3 DEF RiskInv, RiskTypeOK
<1>5. RunCounted'
  <2>1. /\ N' - consecutiveFailures' = N - consecutiveFailures
        /\ consecutiveFailures' <= N'
      BY <1>1, <1>2, <1>3 DEF RiskInv, RunCounted
  <2>2. ASSUME NEW i \in N' - consecutiveFailures' + 1 .. N'
        PROVE  ~outcomes'[i].ok
    <3>1. CASE i = N + 1
        BY <3>1, <1>2
    <3>2. CASE i # N + 1
      <4>1. i \in N - consecutiveFailures + 1 .. N /\ i \in 1 .. N
          BY <3>2, <2>1, <1>2, <1>3 DEF RiskInv, RunCounted
      <4> QED
          BY <4>1, <1>2 DEF RiskInv, RunCounted
    <3> QED
        BY <3>1, <3>2
  <2>3. ASSUME consecutiveFailures' < N'
        PROVE  outcomes'[N' - consecutiveFailures'].ok
    <3>1. consecutiveFailures < N /\ N - consecutiveFailures \in 1 .. N
        BY <2>3, <1>1, <1>2, <1>3
    <3> QED
        BY <3>1, <2>1, <1>2 DEF RiskInv, RunCounted
  <2> QED
      BY <2>1, <2>2, <2>3 DEF RunCounted
<1>6. TrippedByLast'
    BY <1>1, <1>2 DEF TrippedByLast
<1>7. DeadlineNear'
    BY <1>1, <1>3 DEF RiskInv, DeadlineNear
<1>8. WindowsComplete'
  <2> SUFFICES ASSUME NEW t \in Nat, t >= now'
               PROVE  Cardinality(Within(trades', t)) = Cardinality(SuccessesIn(t)')
      BY DEF WindowsComplete, Within
  <2> QED
      BY <1>1, FailureCountsNothing DEF RiskInv, WindowsComplete
<1> QED
    BY <1>2, <1>4, <1>5, <1>6, <1>7, <1>8 DEF RiskInv

\* A success adds one to every window that it is in, and one timestamp with it;
\* what gc() drops is in none of the windows still to come.
LEMMA SuccessCounts ==
    ASSUME RiskInv, Success, NEW t \in Nat, t >= now
    PROVE  Cardinality(Within(trades', t)) = Cardinality(SuccessesIn(t)')
<1> DEFINE trade == [no |-> tradeNo, at |-> now]
           kept == Within(trades, t)
           counted == SuccessesIn(t)
           inWindow == now > t - TradeWindow
<1>1. /\ trades' = Within(trades \cup {trade}, now) /\ now' = now
      /\ Record(TRUE)
    BY DEF Success, RecordSuccess
<1>2. /\ N \in Nat /\ N' = N + 1 /\ outcomes'[N + 1] = [ok |-> TRUE, at |-> now]
      /\ \A i \in 1 .. N : outcomes'[i] = outcomes[i]
    BY <1>1, RecordAppends DEF RiskInv
<1>3. now \in Nat /\ TradeWindow \in Nat /\ tradeNo \in Nat /\ trades \subseteq [no : Nat, at : Nat]
    BY RiskAssumption DEF RiskInv, RiskTypeOK, HistoryTypeOK
<1>4. Cardinality(kept) = Cardinality(counted)
    BY DEF RiskInv, WindowsComplete
<1>5. /\ IsFiniteSet(kept) /\ IsFiniteSet(counted)
    BY WithinFinite, SuccessesFinite DEF RiskInv
<1>6. Within(trades', t) = IF inWindow THEN kept \cup {trade} ELSE kept
  <2>1. \A tr \in trades \cup {trade} : tr.at \in Nat
      BY <1>3
  <2>2. \A tr \in trades \cup {trade} : tr.at > t - TradeWindow => tr.at > now - TradeWindow
      BY <2>1, <1>3
  <2>3. Within(trades', t) = {tr \in trades \cup {trade} : tr.at > t - TradeWindow}
      BY <2>2, <1>1 DEF Within
  <2>4. trade.at = now
      OBVIOUS
  <2> QED
      BY <2>3, <2>4 DEF Within
<1>7. SuccessesIn(t)' = IF inWindow THEN counted \cup {N + 1} ELSE counted
  <2>1. SuccessesIn(t)' = {i \in 1 .. N + 1 : outcomes'[i].ok /\ outcomes'[i].at > t - TradeWindow}
      BY <1>2 DEF SuccessesIn
  <2>2. \A i : i \in 1 .. N + 1 <=> i \in 1 .. N \/ i = N + 1
      BY <1>2
  <2>3. \A i : i \in SuccessesIn(t)' <=> i \in counted \/ (i = N + 1 /\ inWindow)
      BY <2>1, <2>2, <1>2 DEF SuccessesIn
  <2> QED
      BY <2>3
<1>8. trade \notin kept /\ N + 1 \notin counted
  <2>1. \A tr \in trades : tr.no # tradeNo
      BY <1>3 DEF RiskInv, RiskTypeOK
  <2>2. trade.no = tradeNo /\ kept \subseteq trades /\ counted \subseteq 1 .. N
      BY DEF Within, SuccessesIn
  <2> QED
      BY <2>1, <2>2, <1>2
<1> HIDE DEF trade, kept, counted, inWindow
<1>9. /\ Cardinality(kept \cup {trade}) = Cardinality(kept) + 1
      /\ Cardinality(counted \cup {N + 1}) = Cardinality(counted) + 1
    BY <1>5, <1>8, FS_AddElement
<1> QED
    BY <1>4, <1>6, <1>7, <1>9

LEMMA SuccessKeeps ==
    ASSUME RiskInv, Success
    PROVE  RiskInv'
<1> DEFINE trade == [no |-> tradeNo, at |-> now]
<1>1. PICK size \in Sizes, sym \in Symbols : RecordSuccess(size, sym)
    BY DEF Success
<1>2. /\ consecutiveFailures' = 0 /\ breakerUntil' = breakerUntil /\ tradeNo' = tradeNo + 1
      /\ trades' = Within(trades \cup {trade}, now) /\ now' = now
      /\ notional' \in {NoNotional, [notional EXCEPT ![sym] = @ + size]}
    BY <1>1 DEF Success, RecordSuccess
<1>3. /\ N \in Nat /\ N' = N + 1 /\ outcomes'[N + 1] = [ok |-> TRUE, at |-> now]
      /\ \A i \in 1 .. N : outcomes'[i] = outcomes[i]
      /\ HistoryTypeOK'
    BY <1>2, RecordAppends DEF RiskInv, Success
<1>4. /\ now \in Nat /\ tradeNo \in Nat /\ trades \subseteq [no : Nat, at : Nat]
      /\ IsFiniteSet(trades) /\ notional \in [Symbols -> Nat] /\ size \in Nat
      /\ \A tr \in trades : tr.no < tradeNo /\ tr.at <= now
    BY ClientAssumption DEF RiskInv, RiskTypeOK, HistoryTypeOK
<1>5. RiskTypeOK'
  <2>1. trades' \subseteq trades \cup {trade}
      BY <1>2 DEF Within
  <2>2. IsFiniteSet(trades')
    <3>1. IsFiniteSet(trades \cup {trade})
        BY <1>4, FS_AddElement
    <3> QED
        BY <3>1, <2>1, FS_Subset
  <2>3. trades' \subseteq [no : Nat, at : Nat]
    <3>1. trade \in [no : Nat, at : Nat]
        BY <1>4
    <3> QED
        BY <3>1, <2>1, <1>4
  <2>4. \A tr \in trades' : tr.no < tradeNo' /\ tr.at <= now'
    <3>1. trade.no < tradeNo' /\ trade.at <= now'
        BY <1>2, <1>4
    <3>2. \A tr \in trades : tr.no < tradeNo' /\ tr.at <= now'
        BY <1>2, <1>4
    <3> QED
        BY <3>1, <3>2, <2>1
  <2>5. notional' \in [Symbols -> Nat]
    <3>1. NoNotional \in [Symbols -> Nat]
        BY DEF NoNotional
    <3>2. [notional EXCEPT ![sym] = @ + size] \in [Symbols -> Nat]
        BY <1>4
    <3> QED
        BY <3>1, <3>2, <1>2
  <2>6. consecutiveFailures' \in Nat /\ tradeNo' \in Nat /\ breakerUntil' \in Nat \cup {NotTripped}
      BY <1>2, <1>4 DEF RiskInv, RiskTypeOK
  <2> QED
      BY <2>2, <2>3, <2>4, <2>5, <2>6 DEF RiskTypeOK
<1>6. RunCounted'
    BY <1>2, <1>3 DEF RunCounted
<1>7. TrippedByLast' /\ DeadlineNear'
    BY <1>2, RiskAssumption, ClientAssumption DEF RiskInv, TrippedByLast, DeadlineNear
<1>8. WindowsComplete'
  <2> SUFFICES ASSUME NEW t \in Nat, t >= now'
               PROVE  Cardinality(Within(trades', t)) = Cardinality(SuccessesIn(t)')
      BY DEF WindowsComplete, Within
  <2> QED
      BY <1>2, SuccessCounts
<1> QED
    BY <1>3, <1>5, <1>6, <1>7, <1>8 DEF RiskInv

LEMMA TickKeeps ==
    ASSUME RiskInv, Tick
    PROVE  RiskInv'
<1>1. /\ now' = now + 1 /\ outcomes' = outcomes
      /\ consecutiveFailures' = consecutiveFailures /\ breakerUntil' = breakerUntil
      /\ trades' = trades /\ tradeNo' = tradeNo /\ notional' = notional
    BY DEF Tick, riskState
<1>2. /\ now \in Nat /\ Cooldown \in Nat /\ breakerUntil \in Int
      /\ trades \subseteq [no : Nat, at : Nat]
    BY RiskAssumption DEF RiskInv, RiskTypeOK, HistoryTypeOK, NotTripped
<1>3. RiskTypeOK'
    BY <1>1, <1>2 DEF RiskInv, RiskTypeOK
<1>4. HistoryTypeOK' /\ RunCounted' /\ TrippedByLast'
    BY <1>1, <1>2 DEF RiskInv, HistoryTypeOK, RunCounted, TrippedByLast, N
<1>5. DeadlineNear'
    BY <1>1, <1>2 DEF RiskInv, DeadlineNear
<1>6. WindowsComplete'
  <2> SUFFICES ASSUME NEW t \in Nat, t >= now'
               PROVE  Cardinality(Within(trades', t)) = Cardinality(SuccessesIn(t)')
      BY DEF WindowsComplete, Within
  <2>1. SuccessesIn(t)' = SuccessesIn(t) /\ t >= now
      BY <1>1, <1>2 DEF SuccessesIn, N
  <2> QED
      BY <2>1, <1>1 DEF RiskInv, WindowsComplete
<1> QED
    BY <1>3, <1>4, <1>5, <1>6 DEF RiskInv

LEMMA InitRisk == MCInit => RiskInv
<1> SUFFICES ASSUME MCInit PROVE RiskInv
    OBVIOUS
<1>1. /\ outcomes = <<>> /\ now = 0 /\ consecutiveFailures = 0 /\ trades = {} /\ tradeNo = 0
      /\ breakerUntil = NotTripped /\ notional = NoNotional
    BY DEF MCInit, RiskInit
<1>2. N = 0 /\ \A t : SuccessesIn(t) = {} /\ Within(trades, t) = {}
    BY <1>1 DEF N, SuccessesIn, Within
<1>3. RiskTypeOK
    BY <1>1, FS_EmptySet DEF RiskTypeOK, NoNotional
<1>4. HistoryTypeOK /\ RunCounted
    BY <1>1, <1>2 DEF HistoryTypeOK, RunCounted
<1>5. TrippedByLast /\ DeadlineNear
    BY <1>1, RiskAssumption, ClientAssumption DEF TrippedByLast, DeadlineNear, NotTripped
<1>6. WindowsComplete
    BY <1>2 DEF WindowsComplete
<1> QED
    BY <1>3, <1>4, <1>5, <1>6 DEF RiskInv

LEMMA NextRisk == RiskInv /\ [MCNext]_mcVars => RiskInv'
<1> SUFFICES ASSUME RiskInv, [MCNext]_mcVars PROVE RiskInv'
    OBVIOUS
<1>1. CASE Success
    BY <1>1, SuccessKeeps
<1>2. CASE Failure
    BY <1>2, FailureKeeps
<1>3. CASE Tick
    BY <1>3, TickKeeps
<1>4. CASE UNCHANGED mcVars
    BY <1>4 DEF mcVars, riskState, RiskInv, RiskTypeOK, HistoryTypeOK, RunCounted, TrippedByLast,
                DeadlineNear, WindowsComplete, Within, SuccessesIn, N
<1> QED
    BY <1>1, <1>2, <1>3, <1>4 DEF MCNext

LEMMA RiskInvariant == MCSpec => []RiskInv
    BY InitRisk, NextRisk, PTL DEF MCSpec

-------------------------------------------------------------------------------
\* RiskTypeOK: counts and notionals stay natural numbers and no timestamp is in
\* the future, for every client of the controller.
THEOREM RiskTypesHold == MCSpec => []RiskTypeOK
<1>1. RiskInv => RiskTypeOK
    BY DEF RiskInv
<1> QED
    BY <1>1, RiskInvariant, PTL

\* FailureRunBlocks: after a run of failures check() refuses for the whole
\* cooldown, however often the breaker tripped and recovered before: the count is
\* the run at the end of the history, so at the limit each failure trips it anew.
THEOREM FailureRunBlocksHolds == MCSpec => []FailureRunBlocks
<1>1. RiskInv => FailureRunBlocks
  <2> SUFFICES ASSUME RiskInv,
                      N >= MaxConsecutiveFailures,
                      \A i \in N - MaxConsecutiveFailures + 1 .. N : ~outcomes[i].ok,
                      now < outcomes[N].at + Cooldown
               PROVE  ~Admits
      BY DEF FailureRunBlocks, N
  <2>1. N \in Nat /\ consecutiveFailures \in Nat
        /\ MaxConsecutiveFailures \in Nat /\ MaxConsecutiveFailures > 0
      BY RiskAssumption, ClientAssumption DEF RiskInv, RiskTypeOK, HistoryTypeOK, N
  <2>2. consecutiveFailures >= MaxConsecutiveFailures
    <3> SUFFICES ASSUME consecutiveFailures < MaxConsecutiveFailures PROVE FALSE
        BY <2>1
    <3>1. /\ N - consecutiveFailures \in N - MaxConsecutiveFailures + 1 .. N
          /\ consecutiveFailures < N
        BY <2>1
    <3> QED
        BY <3>1 DEF RiskInv, RunCounted
  <2>3. breakerUntil = outcomes[N].at + Cooldown
      BY <2>2 DEF RiskInv, TrippedByLast
  <2> QED
      BY <2>3 DEF Admits, BreakerOpen
<1> QED
    BY <1>1, RiskInvariant, PTL

\* WindowCountsAllTrades: the timestamps that gc() drops are never missed by
\* check(), for any sequence of outcomes.
THEOREM WindowCountsAllTradesHolds == MCSpec => []WindowCountsAllTrades
<1>1. RiskInv => WindowCountsAllTrades
  <2> SUFFICES ASSUME RiskInv PROVE WindowCountsAllTrades
      OBVIOUS
  <2>1. now \in Nat /\ DOMAIN outcomes = 1 .. N
      BY DEF RiskInv, HistoryTypeOK, N
  <2>2. Cardinality(Within(trades, now)) = Cardinality(SuccessesIn(now))
      BY <2>1 DEF RiskInv, WindowsComplete
  <2> QED
      BY <2>1, <2>2 DEF WindowCountsAllTrades, Recent, SuccessesIn
<1> QED
    BY <1>1, RiskInvariant, PTL

\* BreakerClosesByClock: no recorded outcome closes an open breaker.  A failure
\* may set an earlier deadline only if none was further away than a cooldown.
THEOREM BreakerClosesByClockHolds == MCSpec => BreakerClosesByClock
<1>1. RiskInv /\ [MCNext]_mcVars
        => [BreakerOpen => (now' < breakerUntil' \/ now' > now)]_mcVars
  <2> SUFFICES ASSUME RiskInv, MCNext, BreakerOpen
               PROVE  now' < breakerUntil' \/ now' > now
      OBVIOUS
  <2>1. now \in Nat /\ breakerUntil \in Int /\ Cooldown \in Nat /\ breakerUntil <= now + Cooldown
        /\ now < breakerUntil
      BY RiskAssumption
      DEF RiskInv, RiskTypeOK, HistoryTypeOK, NotTripped, DeadlineNear, BreakerOpen
  <2>2. CASE Success
      BY <2>1, <2>2 DEF Success, RecordSuccess
  <2>3. CASE Failure
      BY <2>1, <2>3 DEF Failure, RecordFailure
  <2>4. CASE Tick
      BY <2>1, <2>4 DEF Tick
  <2> QED
      BY <2>2, <2>3, <2>4 DEF MCNext
<1> QED
    BY <1>1, RiskInvariant, PTL DEF MCSpec, BreakerClosesByClock
===============================================================================
