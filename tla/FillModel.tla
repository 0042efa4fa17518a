------------------------------- MODULE FillModel -------------------------------
(***************************************************************************)
(* FillModel::execute of ta-sim/src/lib.rs: a market order walks the       *)
(* levels of one side of a book.  latency_ns is configured and never read. *)
(*                                                                         *)
(* Divisions of i64 and casts from f64 to i64 truncate.  The amounts stay  *)
(* far below 2^63, where a level's notional would saturate.                *)
(***************************************************************************)
EXTENDS Integers, Sequences

CONSTANT BpsScale    \* 10000: what a fee or a slippage in basis points is of

\* SlippageModel; bps is only read for Fixed.  None walks the book like Walk,
\* whatever its comment says.
SlippageModels == [kind : {"None", "Walk", "Fixed"}, bps : Nat]

LevelsFor(side, book) == IF side = "Buy" THEN book.asks ELSE book.bids

Take(left, level) == IF left < level.size THEN left ELSE level.size

\* What is left of the order after each level; the walk stops at none.
Left(size, levels) ==
    LET left[k \in 0 .. Len(levels)] ==
          IF k = 0 THEN size
          ELSE IF left[k - 1] <= 0 THEN left[k - 1]
          ELSE left[k - 1] - Take(left[k - 1], levels[k])
    IN  left

\* The levels the walk comes to, each with what it takes there.
Fills(size, levels) ==
    LET left == Left(size, levels)
        visited == {k \in 1 .. Len(levels) : left[k - 1] > 0}
    IN  [k \in visited |-> [price |-> levels[k].price, qty |-> left[k - 1] - left[k]]]

\* The sum of the first n numbers of a sequence.
SumTo(numbers, n) ==
    LET sum[k \in 0 .. n] == IF k = 0 THEN 0 ELSE sum[k - 1] + numbers[k]
    IN  sum[n]

Notional(fills) ==
    SumTo([k \in 1 .. Len(fills) |-> fills[k].price * fills[k].qty], Len(fills))

\* A division or a cast to i64, which rounds toward zero.  Prices may be negative: those
\* of a file are not looked at, and a sale may slip by more than all of its price.
Truncated(n, d) == IF n >= 0 THEN n \div d ELSE -((-n) \div d)

\* The average price moved by the extra slippage of Fixed, against the order.
Adjusted(side, average, slippage) ==
    LET extra == IF slippage.kind = "Fixed" THEN Truncated(average * slippage.bps, BpsScale) ELSE 0
    IN  IF side = "Buy" THEN average + extra ELSE average - extra

\* slippage_bps before the division by the best price, which only scales it.
Slipped(side, average, top) ==
    IF top <= 0 THEN 0 ELSE IF side = "Buy" THEN average - top ELSE top - average

NoFill == [fills |-> <<>>, avgPrice |-> 0, totalQty |-> 0, slipped |-> 0, feePaid |-> 0]

\* execute(side, size, book) with a fee of feeBps and a slippage model.
FillOrder(side, size, book, slippage, feeBps) ==
    LET levels == LevelsFor(side, book)
        fills == Fills(size, levels)
        total == size - Left(size, levels)[Len(levels)]
        average == Truncated(Notional(fills), total)
        price == Adjusted(side, average, slippage)
    IN  IF total = 0 THEN NoFill
        ELSE [fills |-> fills, avgPrice |-> price, totalQty |-> total,
              slipped |-> Slipped(side, average, levels[1].price),
              feePaid |-> Truncated(price * total * feeBps, BpsScale)]
-------------------------------------------------------------------------------
\* The book unit by unit, in the order of its levels.
Units(levels) ==
    LET units[k \in 0 .. Len(levels)] ==
          IF k = 0 THEN <<>>
          ELSE units[k - 1] \o [i \in 1 .. levels[k].size |-> levels[k].price]
    IN  units[Len(levels)]

\* q is n / d without its fraction.
Rounds(q, n, d) ==
    IF n >= 0 THEN q * d <= n /\ n < q * d + d ELSE q * d - d < n /\ n <= q * d

\* An order gets the first units of its side and no others, at their average price,
\* which fixed slippage moves against it, and pays its fee of the result.
IsWalk(fill, side, size, book, slippage, feeBps) ==
    LET units == Units(LevelsFor(side, book))
        got == IF size > Len(units) THEN Len(units) ELSE size
        average == Truncated(SumTo(units, got), got)
        extra == IF side = "Buy" THEN fill.avgPrice - average ELSE average - fill.avgPrice
    IN  /\ fill.totalQty = got
        /\ got > 0 =>
             /\ IF slippage.kind = "Fixed" THEN Rounds(extra, average * slippage.bps, BpsScale)
                                          ELSE extra = 0
             /\ Rounds(fill.feePaid, fill.avgPrice * got * feeBps, BpsScale)

\* What execute() fills is such a walk; the slippage it reports is never a gain, and
\* never gets smaller when the order gets larger.
FillIsWalk(side, size, book, slippage, feeBps) ==
    LET fill(n) == FillOrder(side, n, book, slippage, feeBps)
    IN  /\ IsWalk(fill(size), side, size, book, slippage, feeBps)
        /\ fill(size).slipped >= 0
        /\ \A less \in 1 .. size : fill(less).slipped <= fill(size).slipped
===============================================================================
