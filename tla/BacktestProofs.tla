---------------------------- MODULE BacktestProofs ----------------------------
(***************************************************************************)
(* Theorems about the backtest: what an order gets from a book, for every  *)
(* book and size, and what detection hands to the simulated trades.        *)
(***************************************************************************)
EXTENDS Backtest, SearchProofs

-------------------------------------------------------------------------------
\* Sums of sorted numbers.
Summed(f, sum, n) ==
    /\ f \in [1 .. n -> Int] /\ sum \in [0 .. n -> Int] /\ sum[0] = 0
    /\ \A k \in 1 .. n : sum[k] = sum[k - 1] + f[k]

\* A stretch of numbers that are at most t, or at least t.
LEMMA StretchBounds ==
    ASSUME NEW n \in Nat, NEW f, NEW sum, Summed(f, sum, n),
           NEW a \in 0 .. n, NEW b \in a .. n, NEW t \in Int
    PROVE  /\ (\A i \in a + 1 .. b : f[i] <= t) => sum[b] - sum[a] <= (b - a) * t
           /\ (\A i \in a + 1 .. b : f[i] >= t) => sum[b] - sum[a] >= (b - a) * t
<1> DEFINE Below(c) == (\A i \in a + 1 .. c : f[i] <= t) => sum[c] - sum[a] <= (c - a) * t
           Above(c) == (\A i \in a + 1 .. c : f[i] >= t) => sum[c] - sum[a] >= (c - a) * t
           S == {j \in 0 .. b - a : Below(a + j) /\ Above(a + j)}
<1>1. \A k \in 0 .. n : sum[k] \in Int
    BY DEF Summed
<1>2. 0 \in S
  <2>1. sum[a + 0] - sum[a] = 0 /\ (a + 0 - a) * t = 0 /\ 0 \in 0 .. b - a
      BY <1>1
  <2> QED
      BY <2>1
<1>3. ASSUME NEW j \in 1 .. b - a, j - 1 \in S
      PROVE  j \in S
  <2> DEFINE k == a + j
  <2>1. k \in 1 .. n /\ k - 1 \in 0 .. n /\ k \in 0 .. n /\ k = a + j /\ k - 1 = a + (j - 1)
      BY <1>3
  <2> HIDE DEF k
  <2>2. sum[k] = sum[k - 1] + f[k] /\ f[k] \in Int
      BY <2>1 DEF Summed
  <2>3. (k - a) * t = (k - 1 - a) * t + t
      BY <2>1
  <2>4. (k - 1 - a) * t \in Int
      BY <2>1
  <2>5. Below(k - 1) /\ Above(k - 1)
      BY <2>1, <1>3
  <2>6. sum[k - 1] \in Int /\ sum[a] \in Int /\ k \in a + 1 .. k
      BY <1>1, <1>3, <2>1
  <2>7. \A i \in a + 1 .. k - 1 : i \in a + 1 .. k
      BY <2>1
  <2>8. Below(k)
    <3> SUFFICES ASSUME \A i \in a + 1 .. k : f[i] <= t
                 PROVE  sum[k] - sum[a] <= (k - a) * t
        OBVIOUS
    <3>1. f[k] <= t /\ sum[k - 1] - sum[a] <= (k - 1 - a) * t
        BY <2>5, <2>6, <2>7
    <3> QED
        BY <2>2, <2>3, <2>4, <2>6, <3>1
  <2>9. Above(k)
    <3> SUFFICES ASSUME \A i \in a + 1 .. k : f[i] >= t
                 PROVE  sum[k] - sum[a] >= (k - a) * t
        OBVIOUS
    <3>1. f[k] >= t /\ sum[k - 1] - sum[a] >= (k - 1 - a) * t
        BY <2>5, <2>6, <2>7
    <3> QED
        BY <2>2, <2>3, <2>4, <2>6, <3>1
  <2> QED
      BY <2>1, <2>8, <2>9
<1>4. 0 .. b - a \subseteq S
  <2> HIDE DEF S
  <2>1. b - a \in Nat
      OBVIOUS
  <2> QED
      BY <1>2, <1>3, <2>1, UpTo
<1>5. b - a \in S
  <2>1. b - a \in 0 .. b - a
      OBVIOUS
  <2> HIDE DEF S
  <2> QED
      BY <1>4, <2>1
<1>6. Below(a + (b - a)) /\ Above(a + (b - a))
    BY <1>5
<1>7. a + (b - a) = b
    OBVIOUS
<1> QED
    BY <1>6, <1>7

Ascending(f, n) == \A i, j \in 1 .. n : i <= j => f[i] <= f[j]

\* The average of the first numbers of an ascending sequence is not above that of more.
LEMMA AverageRises ==
    ASSUME NEW n \in Nat, NEW f, NEW sum, Summed(f, sum, n), Ascending(f, n),
           NEW l \in 1 .. n, NEW k \in 1 .. l
    PROVE  l * sum[k] <= k * sum[l]
<1>1. sum[k] \in Int /\ sum[l] \in Int /\ f[k] \in Int /\ sum[0] = 0
    BY DEF Summed
<1>2. sum[k] <= k * f[k]
  <2>1. \A i \in 0 + 1 .. k : f[i] <= f[k]
      BY DEF Ascending
  <2>2. 0 \in 0 .. n /\ k \in 0 .. n
      OBVIOUS
  <2>3. sum[k] - sum[0] <= (k - 0) * f[k]
      BY <1>1, <2>1, <2>2, StretchBounds
  <2> QED
      BY <1>1, <2>3
<1>3. sum[l] - sum[k] >= (l - k) * f[k]
  <2>1. \A i \in k + 1 .. l : f[i] >= f[k]
      BY DEF Ascending, Summed
  <2>2. k \in 0 .. n /\ l \in k .. n
      OBVIOUS
  <2> QED
      BY <1>1, <2>1, <2>2, StretchBounds
<1>4. k * (sum[l] - sum[k]) >= k * ((l - k) * f[k])
    BY <1>1, <1>3
<1>5. (l - k) * (k * f[k]) >= (l - k) * sum[k]
    BY <1>1, <1>2
<1>6. k * ((l - k) * f[k]) = (l - k) * (k * f[k])
    BY <1>1
<1> QED
    BY <1>1, <1>4, <1>5, <1>6

LEMMA SummedExists ==
    ASSUME NEW n \in Nat, NEW f \in [1 .. n -> Int]
    PROVE  \E sum : Summed(f, sum, n)
<1>1. AreInts(f, n)
    BY DEF AreInts
<1>2. PICK sum : Sums(f, n, sum)
    BY <1>1, SumsExist
<1>3. /\ sum \in [0 .. n -> Int] /\ sum[0] = 0
      /\ \A k \in 1 .. n : sum[k] = sum[k - 1] + f[k]
    BY <1>1, <1>2, SumsAre
<1> QED
    BY <1>3 DEF Summed

\* SumTo adds up the first numbers.
LEMMA SumToIs ==
    ASSUME NEW n \in Nat, NEW f, NEW sum, Summed(f, sum, n), NEW m \in 0 .. n
    PROVE  SumTo(f, m) = sum[m]
<1> DEFINE s == CHOOSE g : Sums(f, m, g)
           S == {k \in 0 .. m : s[k] = sum[k]}
<1>1. SumTo(f, m) = s[m]
    BY Zenon DEF SumTo, Sums
<1>2. AreInts(f, m) /\ m \in Nat
    BY DEF Summed, AreInts
<1>3. Sums(f, m, s)
    BY <1>2, SumsExist
<1> HIDE DEF s
<1>4. /\ s \in [0 .. m -> Int] /\ s[0] = 0
      /\ \A k \in 1 .. m : s[k] = s[k - 1] + f[k]
    BY <1>2, <1>3, SumsAre
<1>5. 0 \in S
    BY <1>2, <1>4 DEF Summed
<1>6. ASSUME NEW k \in 1 .. m, k - 1 \in S
      PROVE  k \in S
  <2>1. k \in 1 .. n /\ k \in 0 .. m
      OBVIOUS
  <2> QED
      BY <2>1, <1>4, <1>6 DEF Summed
<1>7. 0 .. m \subseteq S
  <2> HIDE DEF S
  <2> QED
      BY <1>2, <1>5, <1>6, UpTo
<1> QED
    BY <1>1, <1>2, <1>7

\* A function that never falls from one number to the next never falls.
LEMMA RisesThroughout ==
    ASSUME NEW n \in Nat, NEW f \in [0 .. n -> Int], \A k \in 1 .. n : f[k - 1] <= f[k],
           NEW j \in 0 .. n, NEW k \in j .. n
    PROVE  f[j] <= f[k]
<1> DEFINE S == {i \in 0 .. k - j : f[j] <= f[j + i]}
<1>1. 0 \in S
    OBVIOUS
<1>2. ASSUME NEW i \in 1 .. k - j, i - 1 \in S
      PROVE  i \in S
  <2>1. j + i \in 1 .. n /\ j + (i - 1) = (j + i) - 1 /\ j + i \in 0 .. n /\ (j + i) - 1 \in 0 .. n
      OBVIOUS
  <2>2. f[(j + i) - 1] <= f[j + i] /\ f[j] <= f[(j + i) - 1]
      BY <2>1, <1>2
  <2>3. f[(j + i) - 1] \in Int /\ f[j + i] \in Int /\ f[j] \in Int
      BY <2>1
  <2> QED
      BY <2>2, <2>3
<1>3. 0 .. k - j \subseteq S
  <2>1. k - j \in Nat
      OBVIOUS
  <2> HIDE DEF S
  <2> QED
      BY <1>1, <1>2, <2>1, UpTo
<1>4. k - j \in S
  <2>1. k - j \in 0 .. k - j
      OBVIOUS
  <2> HIDE DEF S
  <2> QED
      BY <1>3, <2>1
<1>5. j + (k - j) = k
    OBVIOUS
<1> QED
    BY <1>4, <1>5

\* Integer division.
LEMMA DivisionBounds ==
    ASSUME NEW x \in Int, NEW n \in Nat \ {0}
    PROVE  /\ x \div n \in Int
           /\ n * (x \div n) <= x /\ x < n * (x \div n) + n
    OBVIOUS

LEMMA DivisionAtMost ==
    ASSUME NEW x \in Int, NEW n \in Nat \ {0}, NEW t \in Int
    PROVE  /\ n * t <= x => t <= x \div n
           /\ x <= n * t => x \div n <= t
<1> DEFINE q == x \div n
<1>1. q \in Int /\ n * q <= x /\ x < n * q + n
    BY DivisionBounds
<1> HIDE DEF q
<1>2. ASSUME n * t <= x
      PROVE  t <= q
  <2> SUFFICES ASSUME t >= q + 1
               PROVE  FALSE
      BY <1>1
  <2>1. n * t >= n * (q + 1) /\ n * (q + 1) = n * q + n
      BY <1>1
  <2> QED
      BY <1>1, <1>2, <2>1
<1>3. ASSUME x <= n * t
      PROVE  q <= t
  <2> SUFFICES ASSUME q >= t + 1
               PROVE  FALSE
      BY <1>1
  <2>1. n * q >= n * (t + 1) /\ n * (t + 1) = n * t + n /\ n * t \in Int
      BY <1>1
  <2> QED
      BY <1>1, <1>3, <2>1
<1> QED
    BY <1>2, <1>3 DEF q

\* x / m <= y / n, and so for what is left when both are rounded down.
LEMMA DivisionRises ==
    ASSUME NEW x \in Int, NEW y \in Int, NEW m \in Nat \ {0}, NEW n \in Nat \ {0},
           n * x <= m * y
    PROVE  x \div m <= y \div n
<1> DEFINE q == x \div m
<1>1. q \in Int /\ m * q <= x
    BY DivisionBounds
<1> HIDE DEF q
<1>2. n * (m * q) <= n * x
    BY <1>1
<1>3. m * (n * q) <= m * y
    BY <1>1, <1>2
<1>4. n * q <= y
  <2> SUFFICES ASSUME n * q >= y + 1
               PROVE  FALSE
      BY <1>1
  <2>1. m * (n * q) >= m * (y + 1) /\ m * (y + 1) = m * y + m /\ m * y \in Int
      BY <1>1
  <2> QED
      BY <1>1, <1>3, <2>1
<1> QED
    BY <1>1, <1>4, DivisionAtMost DEF q

\* Division that rounds toward zero.
LEMMA TruncatedTyped ==
    ASSUME NEW n \in Int, NEW d \in Nat \ {0}
    PROVE  Truncated(n, d) \in Int
<1>1. n \div d \in Int /\ (-n) \div d \in Int
  <2>1. -n \in Int
      OBVIOUS
  <2> QED
      BY <2>1, DivisionBounds
<1> QED
    BY <1>1 DEF Truncated

LEMMA TruncatedRounds ==
    ASSUME NEW n \in Int, NEW d \in Nat \ {0}
    PROVE  Rounds(Truncated(n, d), n, d)
<1> DEFINE q == n \div d
           r == (-n) \div d
<1>1. q \in Int /\ d * q <= n /\ n < d * q + d
    BY DivisionBounds
<1>2. r \in Int /\ d * r <= -n /\ -n < d * r + d
  <2>1. -n \in Int
      OBVIOUS
  <2> QED
      BY <2>1, DivisionBounds
<1>3. Truncated(n, d) = IF n >= 0 THEN q ELSE -r
    BY DEF Truncated
<1> HIDE DEF q, r
<1>4. CASE n >= 0
  <2>1. q * d = d * q /\ d * q \in Int
      BY <1>1
  <2> QED
      BY <1>1, <1>3, <1>4, <2>1 DEF Rounds
<1>5. CASE ~(n >= 0)
  <2>1. (-r) * d = -(d * r) /\ d * r \in Int
      BY <1>2
  <2> QED
      BY <1>2, <1>3, <1>5, <2>1 DEF Rounds
<1> QED
    BY <1>4, <1>5

LEMMA TruncatedRises ==
    ASSUME NEW x \in Int, NEW y \in Int, NEW m \in Nat \ {0}, NEW n \in Nat \ {0},
           n * x <= m * y
    PROVE  Truncated(x, m) <= Truncated(y, n)
<1>1. /\ x \div m \in Int /\ y \div n \in Int
      /\ (-x) \div m \in Int /\ (-y) \div n \in Int /\ -x \in Int /\ -y \in Int
  <2>1. -x \in Int /\ -y \in Int
      OBVIOUS
  <2> QED
      BY <2>1, DivisionBounds
<1>2. CASE x >= 0 /\ y >= 0
  <2>1. x \div m <= y \div n
      BY DivisionRises
  <2> QED
      BY <1>2, <2>1 DEF Truncated
<1>3. CASE x >= 0 /\ y < 0
  <2>1. n * x >= 0
      BY <1>3
  <2>2. m * y < 0
      BY <1>3
  <2>3. n * x \in Int /\ m * y \in Int
      OBVIOUS
  <2> QED
      BY <2>1, <2>2, <2>3
<1>4. CASE x < 0 /\ y >= 0
  <2>1. (-x) \div m >= 0
    <3>1. m * 0 <= -x /\ 0 \in Int
        BY <1>4
    <3> QED
        BY <1>1, <3>1, DivisionAtMost
  <2>2. y \div n >= 0
    <3>1. n * 0 <= y /\ 0 \in Int
        BY <1>4
    <3> QED
        BY <3>1, DivisionAtMost
  <2>3. Truncated(x, m) = -((-x) \div m) /\ Truncated(y, n) = y \div n
      BY <1>4 DEF Truncated
  <2> QED
      BY <1>1, <2>1, <2>2, <2>3
<1>5. CASE x < 0 /\ y < 0
  <2>1. m * (-y) <= n * (-x)
    <3>1. m * (-y) = -(m * y) /\ n * (-x) = -(n * x) /\ m * y \in Int /\ n * x \in Int
        OBVIOUS
    <3> QED
        BY <3>1
  <2>2. (-y) \div n <= (-x) \div m
      BY <1>1, <2>1, DivisionRises
  <2>3. Truncated(x, m) = -((-x) \div m) /\ Truncated(y, n) = -((-y) \div n)
      BY <1>5 DEF Truncated
  <2> QED
      BY <1>1, <2>2, <2>3
<1> QED
    BY <1>2, <1>3, <1>4, <1>5

LEMMA TruncatedAtMost ==
    ASSUME NEW x \in Int, NEW n \in Nat \ {0}, NEW t \in Int
    PROVE  /\ n * t <= x => t <= Truncated(x, n)
           /\ x <= n * t => Truncated(x, n) <= t
<1>1. Truncated(t, 1) = t
  <2>1. t \div 1 = t /\ (-t) \div 1 = -t
      OBVIOUS
  <2> QED
      BY <2>1 DEF Truncated
<1>2. 1 \in Nat \ {0} /\ 1 * x = x
    OBVIOUS
<1>3. n * t <= x => Truncated(t, 1) <= Truncated(x, n)
    BY <1>2, TruncatedRises
<1>4. x <= n * t => Truncated(x, n) <= Truncated(t, 1)
    BY <1>2, TruncatedRises
<1> QED
    BY <1>1, <1>3, <1>4

-------------------------------------------------------------------------------
\* The walk along the levels.
Level == [price : Int, size : Nat]

Levels == Seq(Level)

Walks(size, levels, left) ==
    /\ left \in [0 .. Len(levels) -> Nat] /\ left[0] = size
    /\ \A k \in 1 .. Len(levels) :
         left[k] = left[k - 1] - Take(left[k - 1], levels[k]) /\ left[k] <= left[k - 1]

IsLeft(size, levels, n, left) ==
    left = [k \in 0 .. n |->
              IF k = 0 THEN size
              ELSE IF left[k - 1] <= 0 THEN left[k - 1]
              ELSE left[k - 1] - Take(left[k - 1], levels[k])]

LEMMA LeftWalks ==
    ASSUME NEW size \in Nat, NEW levels \in Levels
    PROVE  Walks(size, levels, Left(size, levels))
<1> DEFINE n == Len(levels)
           next(l, k) == IF l <= 0 THEN l ELSE l - Take(l, levels[k])
           step == [p \in (1 .. n) \X Nat |-> next(p[2], p[1])]
           left == Left(size, levels)
<1>1. n \in Nat /\ \A k \in 1 .. n : levels[k].size \in Nat
  <2>1. n \in Nat /\ \A k \in 1 .. n : levels[k] \in Level
      BY DEF Levels
  <2> QED
      BY <2>1 DEF Level
<1> HIDE DEF n, left, next, step
<1>2. \A k \in 1 .. n : \A l \in Nat :
        next(l, k) \in Nat /\ next(l, k) = l - Take(l, levels[k]) /\ next(l, k) <= l
    BY <1>1 DEF Take, next
<1>3. PICK f : MadeBy(f, n, Nat, size, step)
  <2>1. IsStep(step, n, Nat)
    <3>1. \A p \in (1 .. n) \X Nat : step[p] \in Nat
        BY <1>2 DEF step
    <3> QED
        BY <3>1 DEF IsStep, step
  <2> QED
      BY <1>1, <2>1, RecursionExists
<1>4. f \in [0 .. n -> Nat] /\ f[0] = size /\ \A k \in 1 .. n : f[k] = step[<<k, f[k - 1]>>]
    BY <1>3 DEF MadeBy
<1>5. \A k \in 1 .. n : k - 1 \in 0 .. n /\ k # 0 /\ f[k] = next(f[k - 1], k)
  <2> SUFFICES ASSUME NEW k \in 1 .. n
               PROVE  k - 1 \in 0 .. n /\ k # 0 /\ f[k] = next(f[k - 1], k)
      OBVIOUS
  <2>1. k - 1 \in 0 .. n /\ <<k, f[k - 1]>> \in (1 .. n) \X Nat
      BY <1>1, <1>4
  <2>2. step[<<k, f[k - 1]>>] = next(f[k - 1], k)
      BY <2>1 DEF step
  <2> QED
      BY <2>1, <2>2, <1>4
<1>6. IsLeft(size, levels, n, f)
  <2>1. \A k \in 0 .. n : k # 0 => k \in 1 .. n
      BY <1>1
  <2>2. \A k \in 0 .. n : f[k] = IF k = 0 THEN size ELSE next(f[k - 1], k)
      BY <1>4, <1>5, <2>1, Zenon
  <2>3. f = [k \in 0 .. n |-> f[k]]
      BY <1>4
  <2>4. f = [k \in 0 .. n |-> IF k = 0 THEN size ELSE next(f[k - 1], k)]
      BY <2>2, <2>3, Zenon
  <2> QED
      BY <2>4, Zenon DEF IsLeft, next
<1>7. left = CHOOSE g : IsLeft(size, levels, n, g)
    BY Zenon DEF Left, IsLeft, left, n
<1>8. IsLeft(size, levels, n, left)
    BY <1>6, <1>7, Zenon
<1>9. /\ DOMAIN left = 0 .. n
      /\ \A k \in 0 .. n : left[k] = IF k = 0 THEN size ELSE next(left[k - 1], k)
    BY <1>8, Zenon DEF IsLeft, next
<1>10. left = [k \in 0 .. n |-> left[k]]
    BY <1>8, Zenon DEF IsLeft
<1> DEFINE S == {k \in 0 .. n : left[k] \in Nat}
<1>11. 0 .. n \subseteq S
  <2>1. 0 \in S
      BY <1>1, <1>9
  <2>2. ASSUME NEW k \in 1 .. n, k - 1 \in S
        PROVE  k \in S
    <3>1. left[k] = next(left[k - 1], k) /\ left[k - 1] \in Nat /\ k \in 0 .. n
        BY <1>1, <1>9, <2>2
    <3> QED
        BY <1>2, <3>1
  <2> HIDE DEF S
  <2> QED
      BY <1>1, <2>1, <2>2, UpTo
<1>12. left \in [0 .. n -> Nat]
    BY <1>10, <1>11
<1>13. ASSUME NEW k \in 1 .. n
       PROVE  left[k] = left[k - 1] - Take(left[k - 1], levels[k]) /\ left[k] <= left[k - 1]
  <2>1. k - 1 \in 0 .. n /\ k \in 0 .. n /\ k # 0
      BY <1>1
  <2>2. left[k] = next(left[k - 1], k) /\ left[k - 1] \in Nat
      BY <1>9, <1>12, <2>1
  <2> QED
      BY <1>2, <2>2
<1> QED
    BY <1>1, <1>9, <1>12, <1>13 DEF Walks, left, n

\* The fills are those of the first m levels, the ones the walk comes to.
FillsTo(m, levels, left, fills) ==
    /\ fills = [k \in 1 .. m |-> [price |-> levels[k].price, qty |-> left[k - 1] - left[k]]]
    /\ \A k \in 1 .. Len(levels) : k <= m <=> left[k - 1] > 0

LEMMA FillsShape ==
    ASSUME NEW size \in Nat, NEW levels \in Levels
    PROVE  \E m \in 0 .. Len(levels) : FillsTo(m, levels, Left(size, levels), Fills(size, levels))
<1> DEFINE left == Left(size, levels)
           n == Len(levels)
           visited == {k \in 1 .. n : left[k - 1] > 0}
<1>1. /\ n \in Nat /\ left \in [0 .. n -> Nat]
      /\ \A k \in 1 .. n : left[k] <= left[k - 1]
    BY LeftWalks DEF Walks, Levels
<1>2. Fills(size, levels) =
        [k \in visited |-> [price |-> levels[k].price, qty |-> left[k - 1] - left[k]]]
    BY DEF Fills
<1> HIDE DEF left, n
<1>3. ASSUME NEW k \in visited, NEW j \in 1 .. k
      PROVE  j \in visited
  <2> DEFINE f == [i \in 0 .. n |-> -left[i]]
  <2>1. f \in [0 .. n -> Int] /\ \A i \in 0 .. n : f[i] = -left[i]
      BY <1>1
  <2>2. ASSUME NEW i \in 1 .. n
        PROVE  f[i - 1] <= f[i]
    <3>1. i - 1 \in 0 .. n /\ i \in 0 .. n
        BY <1>1
    <3> QED
        BY <2>1, <3>1, <1>1
  <2>3. j - 1 \in 0 .. n /\ k - 1 \in j - 1 .. n /\ k - 1 \in 0 .. n /\ j \in 1 .. n
      BY <1>1
  <2> HIDE DEF f
  <2>4. f[j - 1] <= f[k - 1]
      BY <1>1, <2>1, <2>2, <2>3, RisesThroughout
  <2>5. left[j - 1] \in Nat /\ left[k - 1] \in Nat /\ left[k - 1] > 0
      BY <1>1, <2>3
  <2>6. left[j - 1] >= left[k - 1]
      BY <2>1, <2>3, <2>4, <2>5
  <2>7. left[j - 1] > 0
      BY <2>5, <2>6
  <2> QED
      BY <2>3, <2>7
<1>4. \E m \in 0 .. n : visited = 1 .. m
  <2>1. CASE visited = {}
      BY <2>1, <1>1
  <2>2. CASE visited # {}
    <3>1. visited \subseteq 1 .. n
        OBVIOUS
    <3>2. PICK m \in visited : \A k \in visited : k <= m
      <4> HIDE DEF visited
      <4> QED
          BY <1>1, <2>2, <3>1, BoundedHasMax
    <3>3. visited = 1 .. m
      <4>1. \A j \in 1 .. m : j \in visited
          BY <1>3
      <4>2. \A k \in visited : k \in 1 .. m
          BY <3>1, <3>2
      <4> HIDE DEF visited
      <4> QED
          BY <4>1, <4>2
    <3>4. m \in 0 .. n
        BY <1>1, <3>1, <3>2
    <3> HIDE DEF visited
    <3> QED
        BY <3>3, <3>4
  <2> QED
      BY <2>1, <2>2
<1>5. PICK m \in 0 .. n : visited = 1 .. m
    BY <1>4
<1>6. \A k \in 1 .. n : k <= m <=> left[k - 1] > 0
  <2>1. \A k \in 1 .. n : k \in visited <=> left[k - 1] > 0
      OBVIOUS
  <2>2. \A k \in 1 .. n : k \in 1 .. m <=> k <= m
      BY <1>1
  <2> QED
      BY <1>5, <2>1, <2>2
<1>7. FillsTo(m, levels, left, Fills(size, levels))
    BY <1>2, <1>5, <1>6 DEF FillsTo, n
<1> QED
    BY <1>7 DEF left, n

-------------------------------------------------------------------------------
\* The book unit by unit: cum[k] units in the first k levels, each at its level's price.
Blocks(levels, units, cum) ==
    LET n == Len(levels)
    IN  /\ units \in Seq(Int)
        /\ cum \in [0 .. n -> Nat] /\ cum[0] = 0 /\ cum[n] = Len(units)
        /\ \A k \in 1 .. n :
             /\ cum[k] = cum[k - 1] + levels[k].size
             /\ \A i \in cum[k - 1] + 1 .. cum[k] : units[i] = levels[k].price
        /\ \A i \in 1 .. Len(units) : \E k \in 1 .. n : i \in cum[k - 1] + 1 .. cum[k]

Run(level) == [i \in 1 .. level.size |-> level.price]

IsUnits(levels, n, units) ==
    units = [k \in 0 .. n |-> IF k = 0 THEN <<>>
                             ELSE units[k - 1] \o [i \in 1 .. levels[k].size |-> levels[k].price]]

LEMMA RunShape ==
    ASSUME NEW level \in Level
    PROVE  /\ Run(level) \in Seq(Int) /\ Len(Run(level)) = level.size
           /\ \A i \in 1 .. level.size : Run(level)[i] = level.price
  BY DEF Level, Run

LEMMA ConcatShape ==
    ASSUME NEW S, NEW s \in Seq(S), NEW t \in Seq(S)
    PROVE  /\ s \o t \in Seq(S) /\ Len(s \o t) = Len(s) + Len(t)
           /\ \A i \in 1 .. Len(s) : (s \o t)[i] = s[i]
           /\ \A i \in Len(s) + 1 .. Len(s) + Len(t) : (s \o t)[i] = t[i - Len(s)]
    OBVIOUS

\* Every prefix of the levels has its units.
Grown(levels, n, u) ==
    /\ DOMAIN u = 0 .. n /\ u[0] = <<>> /\ \A k \in 0 .. n : u[k] \in Seq(Int)
    /\ \A k \in 1 .. n : u[k] = u[k - 1] \o Run(levels[k])

LEMMA UnitsGrow ==
    ASSUME NEW levels \in Levels
    PROVE  \E u : Grown(levels, Len(levels), u) /\ u[Len(levels)] = Units(levels)
<1> DEFINE n == Len(levels)
           V == Seq(Int)
           step == [p \in (1 .. n) \X V |-> p[2] \o Run(levels[p[1]])]
           u == CHOOSE g : IsUnits(levels, n, g)
<1>1. n \in Nat /\ \A k \in 1 .. n : levels[k] \in Level
    BY DEF Levels
<1> HIDE DEF n, step, u
<1>2. Units(levels) = u[n]
    BY Zenon DEF Units, IsUnits, u, n
<1>3. IsStep(step, n, V) /\ <<>> \in V
  <2>1. ASSUME NEW p \in (1 .. n) \X V
        PROVE  step[p] \in V
    <3>1. p[1] \in 1 .. n /\ p[2] \in V
        BY <2>1
    <3>2. Run(levels[p[1]]) \in V
        BY <3>1, <1>1, RunShape
    <3>3. p[2] \o Run(levels[p[1]]) \in V
        BY <3>1, <3>2, ConcatShape
    <3> QED
        BY <2>1, <3>3 DEF step
  <2>2. DOMAIN step = (1 .. n) \X V /\ step = [p \in (1 .. n) \X V |-> step[p]]
      BY Zenon DEF step
  <2>3. <<>> \in V
      BY EmptySound
  <2> HIDE DEF V
  <2> QED
      BY <2>1, <2>2, <2>3 DEF IsStep
<1> HIDE DEF V
<1>4. PICK f : MadeBy(f, n, V, <<>>, step)
    BY <1>1, <1>3, RecursionExists
<1>5. f \in [0 .. n -> V] /\ f[0] = <<>> /\ \A k \in 1 .. n : f[k] = step[<<k, f[k - 1]>>]
    BY <1>4 DEF MadeBy
<1>6. \A k \in 1 .. n : f[k] = f[k - 1] \o Run(levels[k])
  <2> SUFFICES ASSUME NEW k \in 1 .. n
               PROVE  f[k] = f[k - 1] \o Run(levels[k])
      OBVIOUS
  <2>1. k - 1 \in 0 .. n
      BY <1>1
  <2>2. <<k, f[k - 1]>> \in (1 .. n) \X V
      BY <2>1, <1>5
  <2>3. step[<<k, f[k - 1]>>] = f[k - 1] \o Run(levels[k])
      BY <2>2 DEF step
  <2> QED
      BY <2>3, <1>5
<1>7. IsUnits(levels, n, f)
  <2>1. \A k \in 0 .. n : k # 0 => k \in 1 .. n
      BY <1>1
  <2>2. \A k \in 0 .. n : f[k] = IF k = 0 THEN <<>> ELSE f[k - 1] \o Run(levels[k])
      BY <1>5, <1>6, <2>1, Zenon
  <2>3. f = [k \in 0 .. n |-> f[k]]
      BY <1>5
  <2>4. f = [k \in 0 .. n |-> IF k = 0 THEN <<>> ELSE f[k - 1] \o Run(levels[k])]
      BY <2>2, <2>3, Zenon
  <2> QED
      BY <2>4, Zenon DEF IsUnits, Run
<1>8. IsUnits(levels, n, u)
    BY <1>7, Zenon DEF u
<1>9. /\ \A k \in 0 .. n : u[k] = IF k = 0 THEN <<>> ELSE u[k - 1] \o Run(levels[k])
      /\ u = [k \in 0 .. n |-> u[k]]
    BY <1>8, Zenon DEF IsUnits, Run
<1>10. u[0] = <<>> /\ \A k \in 1 .. n : u[k] = u[k - 1] \o Run(levels[k])
  <2>1. 0 \in 0 .. n /\ \A k \in 1 .. n : k \in 0 .. n /\ k # 0
      BY <1>1
  <2> QED
      BY <2>1, <1>9, Zenon
<1> DEFINE S == {k \in 0 .. n : u[k] \in V}
<1>11. 0 .. n \subseteq S
  <2>1. 0 \in S
      BY <1>1, <1>3, <1>10
  <2>2. ASSUME NEW k \in 1 .. n, k - 1 \in S
        PROVE  k \in S
    <3>1. u[k - 1] \in V /\ k \in 0 .. n
        BY <1>1, <2>2
    <3>2. Run(levels[k]) \in V
        BY <1>1, RunShape DEF V
    <3>3. u[k - 1] \o Run(levels[k]) \in V
        BY <3>1, <3>2, ConcatShape DEF V
    <3> QED
        BY <3>1, <3>3, <1>10
  <2> HIDE DEF S
  <2> QED
      BY <1>1, <2>1, <2>2, UpTo
<1>12. Grown(levels, n, u)
  <2>1. DOMAIN u = 0 .. n
      BY <1>8, Zenon DEF IsUnits
  <2> QED
      BY <2>1, <1>10, <1>11 DEF V, Grown
<1> QED
    BY <1>2, <1>12 DEF n

LEMMA UnitsBlocks ==
    ASSUME NEW levels \in Levels
    PROVE  \E cum : Blocks(levels, Units(levels), cum)
<1> DEFINE n == Len(levels)
<1>1. n \in Nat /\ \A k \in 1 .. n : levels[k] \in Level /\ levels[k].size \in Nat
  <2>1. n \in Nat /\ \A k \in 1 .. n : levels[k] \in Level
      BY DEF Levels
  <2> QED
      BY <2>1 DEF Level
<1>0. PICK u : Grown(levels, n, u) /\ u[n] = Units(levels)
    BY UnitsGrow
<1>2. /\ u[0] = <<>> /\ \A k \in 0 .. n : u[k] \in Seq(Int)
      /\ \A k \in 1 .. n : u[k] = u[k - 1] \o Run(levels[k])
      /\ u[n] = Units(levels)
    BY <1>0 DEF Grown
<1> DEFINE cum == [k \in 0 .. n |-> Len(u[k])]
<1>3. cum \in [0 .. n -> Nat] /\ cum[0] = 0 /\ \A k \in 0 .. n : cum[k] = Len(u[k])
  <2>1. \A k \in 0 .. n : Len(u[k]) \in Nat
      BY <1>2
  <2> QED
      BY <1>1, <1>2, <2>1
<1> HIDE DEF cum, n
<1>4. ASSUME NEW k \in 1 .. n
      PROVE  /\ k - 1 \in 0 .. n /\ k \in 0 .. n /\ cum[k - 1] \in Nat
             /\ cum[k] = cum[k - 1] + levels[k].size
             /\ \A i \in 1 .. cum[k - 1] : u[k][i] = u[k - 1][i]
             /\ \A i \in cum[k - 1] + 1 .. cum[k] : u[k][i] = levels[k].price
  <2> DEFINE run == Run(levels[k])
             before == u[k - 1]
  <2>0. k - 1 \in 0 .. n /\ k \in 0 .. n
      BY <1>1
  <2>1. before \in Seq(Int) /\ u[k] = before \o run
      BY <1>2, <2>0, Zenon
  <2>2. /\ run \in Seq(Int) /\ Len(run) = levels[k].size
        /\ \A i \in 1 .. levels[k].size : run[i] = levels[k].price
      BY <1>1, RunShape
  <2> HIDE DEF run
  <2>3. /\ Len(u[k]) = Len(before) + Len(run)
        /\ \A i \in 1 .. Len(before) : u[k][i] = before[i]
        /\ \A i \in Len(before) + 1 .. Len(before) + Len(run) : u[k][i] = run[i - Len(before)]
    <3> HIDE DEF before
    <3>1. /\ Len(before \o run) = Len(before) + Len(run)
          /\ \A i \in 1 .. Len(before) : (before \o run)[i] = before[i]
          /\ \A i \in Len(before) + 1 .. Len(before) + Len(run) :
               (before \o run)[i] = run[i - Len(before)]
        BY <2>1, <2>2, ConcatShape, Zenon
    <3> QED
        BY <2>1, <3>1, Zenon
  <2>4. /\ cum[k - 1] = Len(before) /\ cum[k] = Len(u[k]) /\ cum[k - 1] \in Nat
        /\ levels[k].size \in Nat
      BY <2>0, <1>1, <1>3
  <2>5. \A i \in cum[k - 1] + 1 .. cum[k] : u[k][i] = levels[k].price
    <3> SUFFICES ASSUME NEW i \in cum[k - 1] + 1 .. cum[k]
                 PROVE  u[k][i] = levels[k].price
        OBVIOUS
    <3>1. i - cum[k - 1] \in 1 .. levels[k].size
        BY <2>2, <2>3, <2>4
    <3>2. u[k][i] = run[i - cum[k - 1]]
        BY <2>2, <2>3, <2>4
    <3> QED
        BY <2>2, <3>1, <3>2
  <2> QED
      BY <2>0, <2>2, <2>3, <2>4, <2>5
<1>5. \A k \in 1 .. n : cum[k - 1] <= cum[k]
    BY <1>1, <1>4
<1> DEFINE Good(k) ==
             /\ \A j \in 1 .. k : \A i \in cum[j - 1] + 1 .. cum[j] : u[k][i] = levels[j].price
             /\ \A i \in 1 .. cum[k] : \E j \in 1 .. k : i \in cum[j - 1] + 1 .. cum[j]
           S == {k \in 0 .. n : Good(k)}
<1>6. 0 \in S
    BY <1>1, <1>3
<1>7. ASSUME NEW k \in 1 .. n, k - 1 \in S
      PROVE  k \in S
  <2>1. Good(k - 1)
      BY <1>7
  <2>2. ASSUME NEW j \in 1 .. k, NEW i \in cum[j - 1] + 1 .. cum[j]
        PROVE  u[k][i] = levels[j].price
    <3>1. CASE j = k
        BY <3>1, <2>2, <1>4
    <3>2. CASE j # k
      <4>1. j \in 1 .. k - 1 /\ j \in 0 .. n /\ k - 1 \in j .. n /\ j \in 1 .. n /\ j - 1 \in 0 .. n
          BY <1>1, <3>2
      <4>2. cum[j] <= cum[k - 1] /\ cum[j] \in Nat /\ cum[j - 1] \in Nat /\ cum[k - 1] \in Nat
        <5>1. cum \in [0 .. n -> Int]
            BY <1>3
        <5>2. cum[j] <= cum[k - 1]
            BY <4>1, <5>1, <1>1, <1>5, RisesThroughout
        <5> QED
            BY <4>1, <5>2, <1>3, <1>4
      <4>3. i \in 1 .. cum[k - 1]
          BY <4>2
      <4>4. u[k - 1][i] = levels[j].price
          BY <2>1, <4>1
      <4> QED
          BY <4>3, <4>4, <1>4
    <3> QED
        BY <3>1, <3>2
  <2>3. ASSUME NEW i \in 1 .. cum[k]
        PROVE  \E j \in 1 .. k : i \in cum[j - 1] + 1 .. cum[j]
    <3>1. cum[k - 1] \in Nat /\ cum[k] \in Int /\ 1 .. k - 1 \subseteq 1 .. k /\ k \in 1 .. k
        BY <1>1, <1>4
    <3>2. i \in 1 .. cum[k - 1] \/ i \in cum[k - 1] + 1 .. cum[k]
        BY <3>1
    <3> QED
        BY <2>1, <3>1, <3>2
  <2>4. Good(k)
      BY <2>2, <2>3
  <2> HIDE DEF Good
  <2> QED
      BY <1>1, <2>4
<1>8. n \in S
  <2> HIDE DEF S
  <2>1. 0 .. n \subseteq S
      BY <1>1, <1>6, <1>7, UpTo
  <2> QED
      BY <1>1, <2>1
<1>9. Good(n)
    BY <1>8
<1>10. Len(Units(levels)) = cum[n] /\ Units(levels) \in Seq(Int)
    BY <1>1, <1>2, <1>3
<1>11. Blocks(levels, Units(levels), cum)
    BY <1>2, <1>3, <1>4, <1>9, <1>10 DEF Blocks, n
<1> QED
    BY <1>11

\* What is left of an order is what the units of the levels passed do not make up.
LEMMA LeftOfBlocks ==
    ASSUME NEW size \in Nat, NEW levels \in Levels, NEW units, NEW cum,
           Blocks(levels, units, cum), NEW k \in 0 .. Len(levels)
    PROVE  Left(size, levels)[k] = IF size > cum[k] THEN size - cum[k] ELSE 0
<1> DEFINE left == Left(size, levels)
           n == Len(levels)
           S == {j \in 0 .. n : left[j] = IF size > cum[j] THEN size - cum[j] ELSE 0}
<1>1. /\ n \in Nat /\ left \in [0 .. n -> Nat] /\ left[0] = size
      /\ \A j \in 1 .. n : left[j] = left[j - 1] - Take(left[j - 1], levels[j])
    BY LeftWalks DEF Walks, Levels
<1>2. /\ cum \in [0 .. n -> Nat] /\ cum[0] = 0
      /\ \A j \in 1 .. n : cum[j] = cum[j - 1] + levels[j].size
    BY DEF Blocks
<1>3. \A j \in 1 .. n : levels[j].size \in Nat
  <2>1. \A j \in 1 .. n : levels[j] \in Level
      BY DEF Levels
  <2> QED
      BY <2>1 DEF Level
<1> HIDE DEF left, n
<1>4. 0 \in S
    BY <1>1, <1>2
<1>5. ASSUME NEW j \in 1 .. n, j - 1 \in S
      PROVE  j \in S
  <2>1. /\ j \in 0 .. n /\ cum[j - 1] \in Nat /\ cum[j] = cum[j - 1] + levels[j].size
        /\ left[j] = left[j - 1] - Take(left[j - 1], levels[j])
        /\ left[j - 1] = IF size > cum[j - 1] THEN size - cum[j - 1] ELSE 0
      BY <1>1, <1>2, <1>5
  <2>2. left[j] = IF size > cum[j] THEN size - cum[j] ELSE 0
      BY <2>1, <1>3 DEF Take
  <2> QED
      BY <2>1, <2>2
<1>6. 0 .. n \subseteq S
  <2> HIDE DEF S
  <2> QED
      BY <1>1, <1>4, <1>5, UpTo
<1> QED
    BY <1>6 DEF left, n

Got(size, n) == IF size > n THEN n ELSE size

\* What the fills of an order cost is what the first units of the book cost.
LEMMA FillsCostUnits ==
    ASSUME NEW size \in Nat, NEW levels \in Levels, NEW units, NEW cum,
           Blocks(levels, units, cum), NEW cost, Summed(units, cost, Len(units))
    PROVE  /\ Got(size, Len(units)) \in 0 .. Len(units)
           /\ size - Left(size, levels)[Len(levels)] = Got(size, Len(units))
           /\ Notional(Fills(size, levels)) = cost[Got(size, Len(units))]
<1> DEFINE n == Len(levels)
           left == Left(size, levels)
           fills == Fills(size, levels)
           all == Len(units)
<1>1. /\ n \in Nat /\ left \in [0 .. n -> Nat] /\ left[0] = size
      /\ \A k \in 1 .. n : left[k] <= left[k - 1]
    BY LeftWalks DEF Walks, Levels
<1>2. PICK m \in 0 .. n : FillsTo(m, levels, left, fills)
    BY FillsShape
<1>3. \A k \in 0 .. n : left[k] = IF size > cum[k] THEN size - cum[k] ELSE 0
    BY LeftOfBlocks
<1>4. /\ units \in Seq(Int) /\ all \in Nat
      /\ cum \in [0 .. n -> Nat] /\ cum[0] = 0 /\ cum[n] = all
      /\ \A k \in 1 .. n : /\ cum[k] = cum[k - 1] + levels[k].size
                           /\ \A i \in cum[k - 1] + 1 .. cum[k] : units[i] = levels[k].price
  <2>1. units \in Seq(Int)
      BY Zenon DEF Blocks
  <2>2. all \in Nat
      BY <2>1
  <2> QED
      BY <2>1, <2>2, Zenon DEF Blocks
<1>5. \A k \in 1 .. n : levels[k].size \in Nat /\ levels[k].price \in Int
  <2>1. \A k \in 1 .. n : levels[k] \in Level
      BY DEF Levels
  <2> QED
      BY <2>1 DEF Level
<1>6. Summed(units, cost, all)
    OBVIOUS
<1> HIDE DEF n, left, all, fills
<1>7. /\ fills = [k \in 1 .. m |-> [price |-> levels[k].price, qty |-> left[k - 1] - left[k]]]
      /\ \A k \in 1 .. n : k <= m <=> left[k - 1] > 0
    BY <1>2 DEF FillsTo, n
<1>20. \A k \in 0 .. n : left[k] \in Nat /\ cum[k] \in Nat
    BY <1>1, <1>4
<1>21. \A k \in 1 .. n : k \in 0 .. n /\ k - 1 \in 0 .. n
    BY <1>1
<1>22. \A k \in 1 .. n : k <= m <=> left[k - 1] > 0
    BY <1>7
<1>8. \A k \in 0 .. n : cum[k] \in 0 .. all /\ cum[k] \in Nat
  <2> SUFFICES ASSUME NEW k \in 0 .. n
               PROVE  cum[k] \in 0 .. all
      BY <1>4
  <2>1. cum \in [0 .. n -> Int] /\ n \in k .. n /\ n \in 0 .. n
      BY <1>1, <1>4
  <2>2. \A j \in 1 .. n : cum[j - 1] <= cum[j]
    <3> SUFFICES ASSUME NEW j \in 1 .. n
                 PROVE  cum[j - 1] <= cum[j]
        OBVIOUS
    <3>1. j - 1 \in 0 .. n /\ cum[j - 1] \in Nat
        BY <1>1, <1>4
    <3> QED
      <4>1. cum[j] = cum[j - 1] + levels[j].size /\ levels[j].size \in Nat
          BY <1>4, <1>5
      <4> QED
          BY <3>1, <4>1
  <2>3. cum[k] <= cum[n]
      BY <1>1, <2>1, <2>2, RisesThroughout
  <2>4. cum[k] \in Nat /\ cum[n] = all
      BY <1>4, <1>20
  <2> QED
      BY <1>4, <2>3, <2>4
<1>9. size - left[n] = Got(size, all) /\ Got(size, all) \in 0 .. all
  <2>1. n \in 0 .. n
      BY <1>1
  <2> QED
      BY <1>3, <1>4, <2>1 DEF Got
<1>10. left[m] = left[n]
  <2>1. CASE m = n
      BY <2>1
  <2>2. CASE m # n
    <3>1. m + 1 \in 1 .. n /\ (m + 1) - 1 = m /\ m \in 0 .. n /\ n \in 0 .. n
        BY <1>1, <2>2
    <3>2. ~(left[m] > 0) /\ left[m] \in Nat
        BY <1>20, <1>22, <3>1
    <3>3. size <= cum[m] /\ left[m] = 0
      <4>1. left[m] = IF size > cum[m] THEN size - cum[m] ELSE 0
          BY <1>3
      <4>2. cum[m] \in Nat
          BY <1>20
      <4> QED
          BY <3>2, <4>1, <4>2
    <3>4. cum[m] <= cum[n] /\ cum[m] \in Nat /\ cum[n] \in Nat
        BY <1>4, <1>8, <1>20, <3>1
    <3>5. left[n] = IF size > cum[n] THEN size - cum[n] ELSE 0
        BY <1>3, <3>1
    <3> QED
        BY <3>3, <3>4, <3>5
  <2> QED
      BY <2>1, <2>2
<1> DEFINE paid == [k \in 1 .. m |-> fills[k].price * fills[k].qty]
<1>11. \A k \in 1 .. m : paid[k] = levels[k].price * (left[k - 1] - left[k]) /\ paid[k] \in Int
  <2> SUFFICES ASSUME NEW k \in 1 .. m
               PROVE  paid[k] = levels[k].price * (left[k - 1] - left[k]) /\ paid[k] \in Int
      OBVIOUS
  <2>1. k \in 1 .. n /\ k \in 0 .. n /\ k - 1 \in 0 .. n
      BY <1>1
  <2>2. fills[k] = [price |-> levels[k].price, qty |-> left[k - 1] - left[k]]
      BY <1>7
  <2>3. left[k - 1] - left[k] \in Int /\ levels[k].price \in Int
      BY <1>5, <1>20, <2>1
  <2>4. paid[k] = fills[k].price * fills[k].qty
      OBVIOUS
  <2>5. fills[k].price = levels[k].price /\ fills[k].qty = left[k - 1] - left[k]
      BY <2>2
  <2> HIDE DEF paid
  <2>6. paid[k] = levels[k].price * (left[k - 1] - left[k])
      BY <2>4, <2>5
  <2> QED
      BY <2>3, <2>6
<1>12. paid \in [1 .. m -> Int] /\ m \in Nat
    BY <1>1, <1>11
<1>13. Notional(fills) = SumTo(paid, m)
  <2>1. Len(fills) = m /\ DOMAIN fills = 1 .. m
      BY <1>7, <1>12
  <2> QED
      BY <2>1 DEF Notional
<1> HIDE DEF paid
<1>14. PICK sum : Summed(paid, sum, m)
    BY <1>12, SummedExists
<1>15. /\ sum[0] = 0 /\ \A k \in 1 .. m : sum[k] = sum[k - 1] + paid[k]
       /\ \A k \in 0 .. all : cost[k] \in Int
       /\ cost[0] = 0
    BY <1>6, <1>14 DEF Summed
<1> DEFINE S == {k \in 0 .. m : sum[k] = cost[size - left[k]]}
<1>16. 0 \in S
    BY <1>1, <1>15, <1>12
<1>17. ASSUME NEW k \in 1 .. m, k - 1 \in S
       PROVE  k \in S
  <2>1. k \in 1 .. n /\ k \in 0 .. n /\ k - 1 \in 0 .. n /\ k \in 0 .. m
      BY <1>1
  <2> DEFINE a == size - left[k - 1]
             b == size - left[k]
             t == levels[k].price
  <2>2. left[k - 1] > 0 /\ left[k - 1] \in Nat /\ left[k] \in Nat
    <3>1. k <= m
        OBVIOUS
    <3> QED
        BY <1>20, <1>22, <2>1, <3>1
  <2>3. a = cum[k - 1] /\ a \in 0 .. all
    <3>1. left[k - 1] = IF size > cum[k - 1] THEN size - cum[k - 1] ELSE 0
        BY <1>3, <2>1
    <3>2. cum[k - 1] \in 0 .. all /\ cum[k - 1] \in Nat
        BY <1>8, <2>1
    <3> QED
        BY <2>2, <3>1, <3>2
  <2>4. cum[k - 1] <= cum[k] /\ cum[k] \in 0 .. all
    <3>1. cum[k] = cum[k - 1] + levels[k].size /\ levels[k].size \in Nat
        BY <1>4, <1>5, <2>1
    <3>2. cum[k - 1] \in Nat /\ cum[k] \in 0 .. all
        BY <1>8, <2>1
    <3> QED
        BY <3>1, <3>2
  <2>5. b \in a .. all /\ b <= cum[k]
    <3>1. left[k] = IF size > cum[k] THEN size - cum[k] ELSE 0
        BY <1>3, <2>1
    <3> QED
        BY <1>4, <2>2, <2>3, <2>4, <3>1
  <2>6. \A i \in a + 1 .. b : units[i] = t
    <3>1. \A i \in a + 1 .. b : i \in cum[k - 1] + 1 .. cum[k]
      <4>1. a = cum[k - 1] /\ a \in Int /\ b \in Int /\ cum[k] \in Int /\ b <= cum[k]
          BY <1>4, <2>3, <2>4, <2>5
      <4> HIDE DEF a, b
      <4> QED
          BY <4>1
    <3> QED
        BY <3>1, <1>4, <2>1
  <2>7. t \in Int /\ b - a = left[k - 1] - left[k]
    <3>1. t \in Int
        BY <1>5, <2>1
    <3> QED
        BY <2>2, <3>1
  <2>8. sum[k] = sum[k - 1] + t * (left[k - 1] - left[k]) /\ sum[k - 1] = cost[a]
      BY <1>11, <1>15, <1>17
  <2>9. b \in 0 .. all /\ cost[a] \in Int /\ cost[b] \in Int
      BY <1>15, <2>3, <2>5
  <2> HIDE DEF a, b, t
  <2>10. cost[b] - cost[a] = (b - a) * t
    <3>1. (\A i \in a + 1 .. b : units[i] <= t) /\ (\A i \in a + 1 .. b : units[i] >= t) /\ t \in Int
        BY <2>6, <2>7
    <3>2. cost[b] - cost[a] <= (b - a) * t /\ cost[b] - cost[a] >= (b - a) * t
        BY <1>4, <1>6, <2>3, <2>5, <3>1, StretchBounds
    <3>3. (b - a) * t \in Int
      <4>1. a \in Int /\ b \in Int
          BY <1>4, <2>3, <2>5
      <4> QED
          BY <3>1, <4>1
    <3> QED
        BY <2>9, <3>2, <3>3
  <2>11. sum[k] = cost[a] + t * (b - a)
      BY <2>7, <2>8
  <2>12. cost[a] + t * (b - a) = cost[b]
    <3>1. a \in Int /\ b \in Int /\ t \in Int
        BY <1>4, <2>3, <2>5, <2>7
    <3>2. t * (b - a) = (b - a) * t /\ (b - a) * t \in Int
        BY <3>1
    <3> QED
        BY <2>9, <2>10, <3>2
  <2> QED
      BY <2>1, <2>11, <2>12 DEF b
<1>18. m \in S
  <2> HIDE DEF S
  <2>1. 0 .. m \subseteq S
      BY <1>12, <1>16, <1>17, UpTo
  <2> QED
      BY <1>12, <2>1
<1>19. SumTo(paid, m) = sum[m]
  <2>1. m \in 0 .. m
      BY <1>12
  <2> QED
      BY <1>12, <1>14, <2>1, SumToIs
<1> QED
    BY <1>9, <1>10, <1>13, <1>18, <1>19 DEF n, left, all, fills

\* What execute() fills, in terms of the units of the book.
FillsAs(side, size, book, units, cost, slippage, feeBps) ==
    LET got == Got(size, Len(units))
        average == Truncated(cost[got], got)
        fill == FillOrder(side, size, book, slippage, feeBps)
    IN  /\ got \in 0 .. Len(units) /\ fill.totalQty = got
        /\ got = 0 => fill = NoFill
        /\ got # 0 =>
             /\ average \in Int /\ Adjusted(side, average, slippage) \in Int
             /\ fill = [fills |-> Fills(size, LevelsFor(side, book)),
                        avgPrice |-> Adjusted(side, average, slippage), totalQty |-> got,
                        slipped |-> Slipped(side, average, LevelsFor(side, book)[1].price),
                        feePaid |-> Truncated(Adjusted(side, average, slippage) * got * feeBps,
                                              BpsScale)]

LEMMA FillIs ==
    ASSUME NEW side \in {"Buy", "Sell"}, NEW size \in Nat, NEW book,
           LevelsFor(side, book) \in Levels,
           NEW units, NEW cum, Blocks(LevelsFor(side, book), units, cum),
           NEW cost, Summed(units, cost, Len(units)),
           NEW slippage \in SlippageModels, NEW feeBps \in Int
    PROVE  FillsAs(side, size, book, units, cost, slippage, feeBps)
<1> DEFINE levels == LevelsFor(side, book)
           got == Got(size, Len(units))
           fill == FillOrder(side, size, book, slippage, feeBps)
           average == Truncated(cost[got], got)
           price == Adjusted(side, average, slippage)
<1>1. /\ got \in 0 .. Len(units)
      /\ size - Left(size, levels)[Len(levels)] = got
      /\ Notional(Fills(size, levels)) = cost[got]
    BY FillsCostUnits
<1>2. cost[got] \in Int
    BY <1>1 DEF Summed
<1>3. got # 0 => average \in Int
  <2>1. Len(units) \in Nat
      BY DEF Blocks
  <2>2. got # 0 => got \in Nat \ {0}
      BY <1>1, <2>1
  <2> HIDE DEF got
  <2> QED
      BY <1>2, <2>2, TruncatedTyped
<1> HIDE DEF levels, got, average
<1>4. got = 0 => fill = NoFill
    BY <1>1 DEF FillOrder, levels
<1>5. got # 0 => fill = [fills |-> Fills(size, levels), avgPrice |-> price, totalQty |-> got,
                         slipped |-> Slipped(side, average, levels[1].price),
                         feePaid |-> Truncated(price * got * feeBps, BpsScale)]
    BY <1>1, Zenon DEF FillOrder, levels, average
<1>6. got # 0 => price \in Int
  <2>1. slippage.bps \in Nat /\ BpsScale \in Nat \ {0}
      BY BacktestAssumption DEF SlippageModels
  <2>2. got # 0 => Truncated(average * slippage.bps, BpsScale) \in Int
    <3> SUFFICES ASSUME got # 0
                 PROVE  Truncated(average * slippage.bps, BpsScale) \in Int
        OBVIOUS
    <3>1. average * slippage.bps \in Int
        BY <1>3, <2>1
    <3> QED
        BY <2>1, <3>1, TruncatedTyped
  <2> QED
      BY <1>3, <2>2 DEF Adjusted
<1> HIDE DEF fill, price
<1>7. fill.totalQty = got
    BY <1>4, <1>5 DEF NoFill
<1> QED
    BY <1>1, <1>3, <1>4, <1>5, <1>6, <1>7, Zenon DEF FillsAs, levels, got, average, fill, price

\* The units of a side, and what the first of them cost.
LEMMA UnitsCost ==
    ASSUME NEW levels \in Levels
    PROVE  \E cum, cost : /\ Blocks(levels, Units(levels), cum)
                          /\ Summed(Units(levels), cost, Len(Units(levels)))
<1>1. PICK cum : Blocks(levels, Units(levels), cum)
    BY UnitsBlocks
<1> DEFINE units == Units(levels)
<1>2. units \in Seq(Int)
    BY <1>1, Zenon DEF Blocks
<1> HIDE DEF units
<1>3. Len(units) \in Nat /\ units \in [1 .. Len(units) -> Int]
    BY <1>2
<1>4. \E cost : Summed(units, cost, Len(units))
    BY <1>3, SummedExists
<1> QED
    BY <1>1, <1>4 DEF units

\* For every book and order: execute() fills the first units of its side.
LEMMA FillWalks ==
    ASSUME NEW side \in {"Buy", "Sell"}, NEW size \in Nat, NEW book,
           LevelsFor(side, book) \in Levels,
           NEW slippage \in SlippageModels, NEW feeBps \in Int
    PROVE  IsWalk(FillOrder(side, size, book, slippage, feeBps), side, size, book, slippage, feeBps)
<1> DEFINE levels == LevelsFor(side, book)
           units == Units(levels)
           n == Len(units)
           got == Got(size, n)
           fill == FillOrder(side, size, book, slippage, feeBps)
           average == Truncated(SumTo(units, got), got)
           price == Adjusted(side, average, slippage)
           extra == IF side = "Buy" THEN fill.avgPrice - average ELSE average - fill.avgPrice
<1>1. PICK cum, cost : Blocks(levels, units, cum) /\ Summed(units, cost, n)
    BY UnitsCost
<1>2. /\ got \in 0 .. n /\ fill.totalQty = got
      /\ got # 0 =>
           /\ Truncated(cost[got], got) \in Int
           /\ Adjusted(side, Truncated(cost[got], got), slippage) \in Int
           /\ fill.avgPrice = Adjusted(side, Truncated(cost[got], got), slippage)
           /\ fill.feePaid = Truncated(Adjusted(side, Truncated(cost[got], got), slippage) * got * feeBps,
                                       BpsScale)
    BY <1>1, FillIs DEF FillsAs
<1>3. n \in Nat
    BY <1>1 DEF Blocks
<1>4. SumTo(units, got) = cost[got]
  <2> HIDE DEF units, got, n
  <2> QED
      BY <1>1, <1>2, <1>3, SumToIs
<1>5. IsWalk(fill, side, size, book, slippage, feeBps) =
        /\ fill.totalQty = got
        /\ got > 0 =>
             /\ IF slippage.kind = "Fixed" THEN Rounds(extra, average * slippage.bps, BpsScale)
                                          ELSE extra = 0
             /\ Rounds(fill.feePaid, fill.avgPrice * got * feeBps, BpsScale)
    BY Zenon DEF IsWalk, Got
<1>6. got > 0 => got # 0
    BY <1>2, <1>3
<1> HIDE DEF levels, units, n, got, fill
<1>7. got > 0 => /\ average \in Int /\ price \in Int /\ fill.avgPrice = price
                 /\ fill.feePaid = Truncated(fill.avgPrice * got * feeBps, BpsScale)
    BY <1>2, <1>4, <1>6, Zenon
<1>8. got \in Int /\ BpsScale \in Nat \ {0} /\ slippage.bps \in Nat
    BY <1>2, <1>3, BacktestAssumption DEF SlippageModels
<1> DEFINE slip == Truncated(average * slippage.bps, BpsScale)
<1>9. price = IF side = "Buy" THEN average + (IF slippage.kind = "Fixed" THEN slip ELSE 0)
              ELSE average - (IF slippage.kind = "Fixed" THEN slip ELSE 0)
    BY Zenon DEF Adjusted
<1> HIDE DEF average, price
<1>10. got > 0 => slip \in Int /\ Rounds(slip, average * slippage.bps, BpsScale)
  <2> SUFFICES ASSUME got > 0
               PROVE  slip \in Int /\ Rounds(slip, average * slippage.bps, BpsScale)
      OBVIOUS
  <2>1. average * slippage.bps \in Int
      BY <1>7, <1>8
  <2> QED
      BY <2>1, <1>8, TruncatedTyped, TruncatedRounds
<1> HIDE DEF slip
<1>11. got > 0 => extra = IF slippage.kind = "Fixed" THEN slip ELSE 0
    BY <1>7, <1>9, <1>10
<1>12. got > 0 => Rounds(fill.feePaid, fill.avgPrice * got * feeBps, BpsScale)
  <2> SUFFICES ASSUME got > 0
               PROVE  Rounds(fill.feePaid, fill.avgPrice * got * feeBps, BpsScale)
      OBVIOUS
  <2>1. fill.avgPrice * got * feeBps \in Int
      BY <1>7, <1>8
  <2> QED
      BY <2>1, <1>7, <1>8, TruncatedRounds
<1> HIDE DEF extra
<1>13. IsWalk(fill, side, size, book, slippage, feeBps)
    BY <1>2, <1>5, <1>10, <1>11, <1>12
<1> QED
    BY <1>13 DEF fill

\* The side an order walks, the best price first: the lowest ask, the highest bid.
Signed(side, price) == IF side = "Buy" THEN price ELSE -price

BestFirst(side, levels) ==
    \A i, j \in 1 .. Len(levels) :
        i <= j => Signed(side, levels[i].price) <= Signed(side, levels[j].price)

LEMMA UnitsBestFirst ==
    ASSUME NEW side \in {"Buy", "Sell"}, NEW levels \in Levels, BestFirst(side, levels),
           NEW units, NEW cum, Blocks(levels, units, cum)
    PROVE  /\ \A i, j \in 1 .. Len(units) : i <= j => Signed(side, units[i]) <= Signed(side, units[j])
           /\ \A i \in 1 .. Len(units) : Signed(side, levels[1].price) <= Signed(side, units[i])
<1> DEFINE n == Len(levels)
           all == Len(units)
<1>1. n \in Nat /\ all \in Nat
  <2>1. units \in Seq(Int)
      BY Zenon DEF Blocks
  <2> QED
      BY <2>1 DEF Levels
<1>2. \A k \in 1 .. n : levels[k].size \in Nat
  <2>1. \A k \in 1 .. n : levels[k] \in Level
      BY DEF Levels
  <2> QED
      BY <2>1 DEF Level
<1>3. /\ cum \in [0 .. n -> Nat]
      /\ \A k \in 1 .. n : cum[k] = cum[k - 1] + levels[k].size
      /\ \A k \in 1 .. n : \A i \in cum[k - 1] + 1 .. cum[k] : units[i] = levels[k].price
      /\ \A i \in 1 .. all : \E k \in 1 .. n : i \in cum[k - 1] + 1 .. cum[k]
    BY Zenon DEF Blocks
<1>4. \A j, k \in 1 .. n : j <= k => Signed(side, levels[j].price) <= Signed(side, levels[k].price)
    BY DEF BestFirst
<1> HIDE DEF n, all
<1>5. \A k \in 1 .. n : k \in 0 .. n /\ k - 1 \in 0 .. n
    BY <1>1
<1>6. \A k \in 0 .. n : cum[k] \in Nat
    BY <1>3
<1>7. \A k \in 1 .. n : cum[k - 1] <= cum[k]
  <2> SUFFICES ASSUME NEW k \in 1 .. n
               PROVE  cum[k - 1] <= cum[k]
      OBVIOUS
  <2>1. cum[k] = cum[k - 1] + levels[k].size /\ levels[k].size \in Nat /\ cum[k - 1] \in Nat
      BY <1>2, <1>3, <1>5, <1>6
  <2> QED
      BY <2>1
<1>8. ASSUME NEW i \in 1 .. all, NEW j \in 1 .. all, i <= j
      PROVE  Signed(side, units[i]) <= Signed(side, units[j])
  <2>1. PICK a \in 1 .. n : i \in cum[a - 1] + 1 .. cum[a]
      BY <1>3
  <2>2. PICK b \in 1 .. n : j \in cum[b - 1] + 1 .. cum[b]
      BY <1>3
  <2>3. a <= b
    <3> SUFFICES ASSUME b < a
                 PROVE  FALSE
        OBVIOUS
    <3>1. b \in 0 .. n /\ a - 1 \in b .. n /\ a - 1 \in 0 .. n
        BY <1>1
    <3>2. cum \in [0 .. n -> Int]
        BY <1>3
    <3>3. cum[b] <= cum[a - 1]
        BY <1>1, <1>7, <3>1, <3>2, RisesThroughout
    <3>4. cum[b] \in Nat /\ cum[a - 1] \in Nat /\ cum[b - 1] \in Nat /\ cum[a] \in Nat
        BY <1>5, <1>6
    <3> QED
        BY <1>8, <2>1, <2>2, <3>3, <3>4
  <2>4. units[i] = levels[a].price /\ units[j] = levels[b].price
      BY <1>3, <2>1, <2>2
  <2> QED
      BY <1>4, <2>3, <2>4
<1>9. ASSUME NEW i \in 1 .. all
      PROVE  Signed(side, levels[1].price) <= Signed(side, units[i])
  <2>1. PICK a \in 1 .. n : i \in cum[a - 1] + 1 .. cum[a]
      BY <1>3
  <2>2. units[i] = levels[a].price /\ 1 \in 1 .. n /\ 1 <= a
      BY <1>1, <1>3, <2>1
  <2> QED
      BY <1>4, <2>2
<1> QED
    BY <1>8, <1>9 DEF all

\* The average price of more of the book is never better, and never better than the
\* best price.
LEMMA AverageSlips ==
    ASSUME NEW side \in {"Buy", "Sell"}, NEW units \in Seq(Int), NEW top \in Int,
           \A i, j \in 1 .. Len(units) : i <= j => Signed(side, units[i]) <= Signed(side, units[j]),
           \A i \in 1 .. Len(units) : Signed(side, top) <= Signed(side, units[i]),
           NEW cost, Summed(units, cost, Len(units)),
           NEW l \in 1 .. Len(units), NEW k \in 1 .. l
    PROVE  /\ Slipped(side, Truncated(cost[l], l), top) >= 0
           /\ Slipped(side, Truncated(cost[k], k), top) <= Slipped(side, Truncated(cost[l], l), top)
<1> DEFINE n == Len(units)
<1>1. n \in Nat /\ DOMAIN units = 1 .. n /\ \A i \in 1 .. n : units[i] \in Int
    OBVIOUS
<1>2. \A i, j \in 1 .. n : i <= j => Signed(side, units[i]) <= Signed(side, units[j])
    OBVIOUS
<1>3. \A i \in 1 .. n : Signed(side, top) <= Signed(side, units[i])
    OBVIOUS
<1>4. Summed(units, cost, n) /\ l \in 1 .. n
    OBVIOUS
<1> HIDE DEF n
<1>5. /\ \A i \in 0 .. n : cost[i] \in Int
      /\ cost[0] = 0 /\ \A i \in 1 .. n : cost[i] = cost[i - 1] + units[i]
      /\ cost \in [0 .. n -> Int]
    BY <1>4 DEF Summed
<1>6. l \in 0 .. n /\ k \in 0 .. n /\ k \in 1 .. n /\ 0 \in 0 .. n /\ l \in Nat \ {0} /\ k \in Nat \ {0}
    BY <1>1, <1>4
<1>7. cost[l] \in Int /\ cost[k] \in Int
    BY <1>5, <1>6
<1>8. Truncated(cost[l], l) \in Int /\ Truncated(cost[k], k) \in Int
    BY <1>6, <1>7, TruncatedTyped
<1>9. CASE side = "Buy"
  <2>1. \A i \in 0 + 1 .. l : units[i] >= top
    <3> SUFFICES ASSUME NEW i \in 1 .. l
                 PROVE  units[i] >= top
        OBVIOUS
    <3>1. i \in 1 .. n
        BY <1>1, <1>4
    <3> QED
        BY <1>1, <1>3, <1>9, <3>1 DEF Signed
  <2>2. cost[l] - cost[0] >= (l - 0) * top
    <3>1. top \in Int /\ l \in 0 .. n
        BY <1>6
    <3> QED
        BY <1>1, <1>4, <1>6, <2>1, <3>1, StretchBounds
  <2>3. l * top <= cost[l]
      BY <1>5, <1>6, <1>7, <2>2
  <2>4. top <= Truncated(cost[l], l)
    <3>1. top \in Int
        OBVIOUS
    <3> QED
        BY <1>6, <1>7, <2>3, <3>1, TruncatedAtMost
  <2>5. Ascending(units, n)
      BY <1>1, <1>2, <1>9 DEF Ascending, Signed
  <2>6. l * cost[k] <= k * cost[l]
      BY <1>1, <1>4, <2>5, AverageRises
  <2>7. Truncated(cost[k], k) <= Truncated(cost[l], l)
      BY <1>6, <1>7, <2>6, TruncatedRises
  <2> QED
      BY <1>8, <1>9, <2>4, <2>7 DEF Slipped
<1>10. CASE side = "Sell"
  <2>1. \A i \in 0 + 1 .. l : units[i] <= top
    <3> SUFFICES ASSUME NEW i \in 1 .. l
                 PROVE  units[i] <= top
        OBVIOUS
    <3>1. i \in 1 .. n
        BY <1>1, <1>4
    <3> QED
        BY <1>1, <1>3, <1>10, <3>1 DEF Signed
  <2>2. cost[l] - cost[0] <= (l - 0) * top
    <3>1. top \in Int /\ l \in 0 .. n
        BY <1>6
    <3> QED
        BY <1>1, <1>4, <1>6, <2>1, <3>1, StretchBounds
  <2>3. cost[l] <= l * top
      BY <1>5, <1>6, <1>7, <2>2
  <2>4. Truncated(cost[l], l) <= top
    <3>1. top \in Int
        OBVIOUS
    <3> QED
        BY <1>6, <1>7, <2>3, <3>1, TruncatedAtMost
  <2> DEFINE f == [i \in 1 .. n |-> -units[i]]
             sum == [i \in 0 .. n |-> -cost[i]]
  <2>5. f \in [1 .. n -> Int] /\ \A i \in 1 .. n : f[i] = -units[i]
      BY <1>1
  <2>6. sum \in [0 .. n -> Int] /\ \A i \in 0 .. n : sum[i] = -cost[i]
      BY <1>5
  <2> HIDE DEF f, sum
  <2>7. Ascending(f, n)
    <3>1. ASSUME NEW i \in 1 .. n, NEW j \in 1 .. n, i <= j
          PROVE  f[i] <= f[j]
        BY <1>2, <1>10, <2>5, <3>1 DEF Signed
    <3> QED
        BY <3>1 DEF Ascending
  <2>8. Summed(f, sum, n)
    <3>1. ASSUME NEW i \in 1 .. n
          PROVE  sum[i] = sum[i - 1] + f[i]
      <4>1. i \in 0 .. n /\ i - 1 \in 0 .. n
          BY <1>1
      <4>2. cost[i] = cost[i - 1] + units[i] /\ cost[i - 1] \in Int /\ units[i] \in Int
          BY <1>1, <1>5, <4>1
      <4> QED
        <5>1. sum[i] = -cost[i] /\ sum[i - 1] = -cost[i - 1] /\ f[i] = -units[i]
            BY <2>5, <2>6, <4>1
        <5>2. -(cost[i - 1] + units[i]) = -cost[i - 1] + -units[i]
            BY <4>2
        <5> QED
            BY <4>2, <5>1, <5>2
    <3>2. sum[0] = 0
        BY <1>5, <1>6, <2>6
    <3> QED
        BY <2>5, <2>6, <3>1, <3>2 DEF Summed
  <2>9. l * sum[k] <= k * sum[l]
      BY <1>1, <1>4, <2>7, <2>8, AverageRises
  <2>10. sum[k] = -cost[k] /\ sum[l] = -cost[l]
      BY <1>6, <2>6
  <2>11. k * cost[l] <= l * cost[k]
    <3>1. l * (-cost[k]) <= k * (-cost[l])
        BY <2>9, <2>10
    <3>2. l * (-cost[k]) = -(l * cost[k]) /\ k * (-cost[l]) = -(k * cost[l])
        BY <1>6, <1>7
    <3>3. l * cost[k] \in Int /\ k * cost[l] \in Int
        BY <1>6, <1>7
    <3> QED
        BY <3>1, <3>2, <3>3
  <2>12. Truncated(cost[l], l) <= Truncated(cost[k], k)
      BY <1>6, <1>7, <2>11, TruncatedRises
  <2> QED
      BY <1>8, <1>10, <2>4, <2>12 DEF Slipped
<1> QED
    BY <1>9, <1>10

\* For every book whose side has its best price first, every size, slippage model and
\* fee: an order gets the first units of that side, at their average price, which
\* only Fixed moves, and slips no less the larger it is (FillModel::execute).
THEOREM FillsFollowTheBook ==
    ASSUME NEW side \in {"Buy", "Sell"}, NEW book, LevelsFor(side, book) \in Levels,
           BestFirst(side, LevelsFor(side, book)), NEW size \in Nat,
           NEW slippage \in SlippageModels, NEW feeBps \in Int
    PROVE  FillIsWalk(side, size, book, slippage, feeBps)
<1> DEFINE levels == LevelsFor(side, book)
           units == Units(levels)
           n == Len(units)
           top == levels[1].price
           fill(s) == FillOrder(side, s, book, slippage, feeBps)
<1>1. PICK cum, cost : Blocks(levels, units, cum) /\ Summed(units, cost, n)
    BY UnitsCost
<1>2. units \in Seq(Int) /\ n \in Nat
  <2>1. units \in Seq(Int)
      BY <1>1, Zenon DEF Blocks
  <2> QED
      BY <2>1
<1>3. \A i \in 1 .. n : top \in Int
  <2> SUFFICES ASSUME NEW i \in 1 .. n
               PROVE  top \in Int
      OBVIOUS
  <2>1. \E k \in 1 .. Len(levels) : i \in cum[k - 1] + 1 .. cum[k]
      BY <1>1, Zenon DEF Blocks
  <2>2. 1 \in 1 .. Len(levels) /\ \A k \in 1 .. Len(levels) : levels[k] \in Level
      BY <2>1 DEF Levels
  <2> QED
      BY <2>2 DEF Level
<1>4. /\ \A i, j \in 1 .. n : i <= j => Signed(side, units[i]) <= Signed(side, units[j])
      /\ \A i \in 1 .. n : Signed(side, top) <= Signed(side, units[i])
    BY <1>1, UnitsBestFirst
<1>5. ASSUME NEW s \in Nat
      PROVE  /\ Got(s, n) \in 0 .. n
             /\ Got(s, n) = 0 => fill(s).slipped = 0
             /\ Got(s, n) # 0 => fill(s).slipped = Slipped(side, Truncated(cost[Got(s, n)], Got(s, n)), top)
  <2>1. /\ Got(s, n) \in 0 .. n
        /\ Got(s, n) = 0 => fill(s) = NoFill
        /\ Got(s, n) # 0 => fill(s).slipped = Slipped(side, Truncated(cost[Got(s, n)], Got(s, n)), top)
      BY <1>1, FillIs DEF FillsAs
  <2> QED
      BY <2>1 DEF NoFill
<1>6. IsWalk(fill(size), side, size, book, slippage, feeBps)
    BY FillWalks
<1> DEFINE got == Got(size, n)
<1> HIDE DEF levels, units, n, top, fill
<1>7. ASSUME NEW less \in 1 .. size
      PROVE  fill(less).slipped <= fill(size).slipped
  <2> DEFINE part == Got(less, n)
  <2>1. less \in Nat /\ part \in 0 .. n /\ got \in 0 .. n /\ part <= got /\ (part = 0 => got = 0)
      BY <1>2 DEF Got
  <2>2. CASE got = 0
    <3>1. part = 0
        BY <2>1, <2>2
    <3> QED
        BY <1>5, <2>1, <2>2, <3>1
  <2>3. CASE got # 0
    <3>1. got \in 1 .. n /\ part \in 1 .. got
        BY <1>2, <2>1, <2>3
    <3>2. part # 0 /\ top \in Int
        BY <1>3, <3>1
    <3>3. /\ fill(size).slipped = Slipped(side, Truncated(cost[got], got), top)
          /\ fill(less).slipped = Slipped(side, Truncated(cost[part], part), top)
        BY <1>5, <2>1, <2>3, <3>2
    <3> HIDE DEF got, part
    <3>4. Slipped(side, Truncated(cost[part], part), top) <= Slipped(side, Truncated(cost[got], got), top)
        BY <1>1, <1>2, <1>4, <3>1, <3>2, AverageSlips DEF n
    <3> QED
        BY <3>3, <3>4
  <2> QED
      BY <2>2, <2>3
<1>8. fill(size).slipped >= 0
  <2>1. CASE got = 0
      BY <1>5, <2>1
  <2>2. CASE got # 0
    <3>1. got \in 1 .. n
        BY <1>2, <1>5, <2>2
    <3>2. top \in Int /\ got \in 1 .. got
        BY <1>3, <3>1
    <3>3. fill(size).slipped = Slipped(side, Truncated(cost[got], got), top)
        BY <1>5, <2>2
    <3> HIDE DEF got
    <3>4. Slipped(side, Truncated(cost[got], got), top) >= 0
        BY <1>1, <1>2, <1>4, <3>1, <3>2, AverageSlips DEF n
    <3> QED
        BY <3>3, <3>4
  <2> QED
      BY <2>1, <2>2
<1>9. /\ IsWalk(FillOrder(side, size, book, slippage, feeBps), side, size, book, slippage, feeBps)
      /\ FillOrder(side, size, book, slippage, feeBps).slipped >= 0
      /\ \A less \in 1 .. size : FillOrder(side, less, book, slippage, feeBps).slipped
                                 <= FillOrder(side, size, book, slippage, feeBps).slipped
    BY <1>6, <1>7, <1>8, Zenon DEF fill
<1> QED
    BY <1>9, Zenon DEF FillIsWalk

-------------------------------------------------------------------------------
\* The invariant of the graph and of what detection makes of it.  An opportunity is
\* joined: its legs follow each other, and they close unless a pair is crossed.
SymbolTradesPair ==
    \A a, b \in Currencies :
        symbolMap[<<a, b>>] # None =>
            Base[symbolMap[<<a, b>>]] = a /\ Quote[symbolMap[<<a, b>>]] = b

AlongItsPair(leg) == InputOf(leg) = leg.from /\ OutputOf(leg) = leg.to

Joined(legs) ==
    /\ \A i \in 1 .. 3 : AlongItsPair(legs[i])
    /\ legs[1].to = legs[2].from /\ legs[2].to = legs[3].from
    /\ legs[3].to = legs[1].from \/ Crossed

OpportunitiesJoined == \A k \in 1 .. Len(opportunities) : Joined(opportunities[k].legs)

GraphInv == GraphSound /\ EdgesWhole /\ SymbolTradesPair

DetectionInv ==
    /\ GraphInv
    /\ SearchInv
    /\ CompleteInv
    /\ age \in 0 .. MaxDataAge + 1
    /\ opportunities \in Seq(Opportunities)
    /\ OpportunitiesJoined

\* The invariant of the replay and of the trades.
BookSet == {BookOf(tick) : tick \in Ticks}

Totals ==
    /\ result.profitable + result.unprofitable
         + Cardinality({k \in 1 .. Len(trades) : Undefined(trades[k])}) = result.executed
    /\ result.fees \in Int

TradesInv == trades \in Seq(Trades)

ReplayInv ==
    /\ config \in Configs
    /\ at \in {"replay", "detect", "simulate", "done"}
    /\ at # "detect" => search = "idle"
    /\ at \in {"replay", "done"} => opportunities = <<>>
    /\ at = "simulate" => opportunities # <<>>
    /\ position \in 0 .. MaxTicks
    /\ books \in [Symbols -> BookSet \cup {None}]
    /\ at # "done" => result = None
    /\ at = "done" => Totals

BacktestInv == DetectionInv /\ ReplayInv /\ TradesInv

LEMMA PairEnds ==
    \A s \in Symbols : Base[s] \in Currencies /\ Quote[s] \in Currencies /\ Base[s] # Quote[s]
    BY BacktestAssumption

LEMMA PricesQuotable ==
    \A p \in Prices : p \in Int /\ Quotable(p)
<1>1. Prices \subseteq Int /\ Log \in [Prices -> Int]
    BY BacktestAssumption
<1> QED
    BY <1>1 DEF Quotable

LEMMA TickFacts ==
    ASSUME NEW tick \in Ticks
    PROVE  tick.symbol \in Symbols \cup {None} /\ tick.bid \in Prices /\ tick.ask \in Prices
    BY BacktestAssumption DEF TickType

LEMMA ConfigFacts ==
    ASSUME NEW c \in Configs
    PROVE  /\ c.orderSize \in Nat /\ c.slippage \in SlippageModels /\ c.feeBps \in 0 .. BpsScale
           /\ BpsScale \in Nat \ {0} /\ c.slippage.bps \in Nat /\ c.feeBps \in Int
           /\ Divisor \in Nat \ {0}
<1>1. c \in ConfigType /\ BpsScale \in Nat \ {0} /\ Divisor \in Nat \ {0}
    BY BacktestAssumption
<1> QED
    BY <1>1 DEF ConfigType, SlippageModels

\* The nodes of the graph that BacktestEngine::new makes, one pair after the other.
AreNodes(order, n, nodes) ==
    nodes = [k \in 0 .. n |->
               IF k = 0 THEN <<>>
               ELSE AddOnce(AddOnce(nodes[k - 1], Base[order[k]]), Quote[order[k]])]

LEMMA NodesTyped ==
    ASSUME NEW order \in Orders
    PROVE  NodesOf(order) \in Seq(Currencies)
<1> DEFINE n == Len(order)
           V == Seq(Currencies)
           add(list, k) == AddOnce(AddOnce(list, Base[order[k]]), Quote[order[k]])
           step == [p \in (1 .. n) \X V |-> add(p[2], p[1])]
           nodes == CHOOSE g : AreNodes(order, n, g)
<1>1. n \in Nat /\ \A k \in 1 .. n : order[k] \in Symbols
  <2>1. Cardinality(Symbols) \in Nat
      BY FS_CardinalityType, BacktestAssumption
  <2>2. order \in [1 .. Cardinality(Symbols) -> Symbols]
      BY DEF Orders
  <2> QED
      BY <2>1, <2>2
<1>2. NodesOf(order) = nodes[n]
    BY Zenon DEF NodesOf, AreNodes
<1> HIDE DEF n, step, nodes, add
<1>3. \A k \in 1 .. n : \A list \in V : add(list, k) \in V
  <2> SUFFICES ASSUME NEW k \in 1 .. n, NEW list \in V
               PROVE  add(list, k) \in V
      OBVIOUS
  <2>1. Base[order[k]] \in Currencies /\ Quote[order[k]] \in Currencies
      BY <1>1, PairEnds
  <2>2. AddOnce(list, Base[order[k]]) \in V
      BY <2>1, AddOnceSound
  <2> HIDE DEF V
  <2>3. AddOnce(AddOnce(list, Base[order[k]]), Quote[order[k]]) \in V
      BY <2>1, <2>2, AddOnceSound DEF V
  <2> QED
      BY <2>3 DEF add
<1>4. <<>> \in V
    BY EmptySound
<1> HIDE DEF V
<1>5. IsStep(step, n, V)
  <2>1. \A p \in (1 .. n) \X V : add(p[2], p[1]) \in V
      BY <1>3
  <2> QED
      BY <2>1 DEF IsStep, step
<1>6. PICK f : MadeBy(f, n, V, <<>>, step)
    BY <1>1, <1>4, <1>5, RecursionExists
<1>7. f \in [0 .. n -> V] /\ f[0] = <<>> /\ \A k \in 1 .. n : f[k] = step[<<k, f[k - 1]>>]
    BY <1>6 DEF MadeBy
<1>8. \A k \in 1 .. n : f[k] = add(f[k - 1], k)
  <2> SUFFICES ASSUME NEW k \in 1 .. n
               PROVE  f[k] = add(f[k - 1], k)
      OBVIOUS
  <2>1. k - 1 \in 0 .. n
      BY <1>1
  <2>2. <<k, f[k - 1]>> \in (1 .. n) \X V
      BY <2>1, <1>7
  <2>3. step[<<k, f[k - 1]>>] = add(f[k - 1], k)
      BY <2>2 DEF step
  <2> QED
      BY <2>3, <1>7
<1>9. AreNodes(order, n, f)
  <2>1. \A k \in 0 .. n : k # 0 => k \in 1 .. n
      BY <1>1
  <2>2. \A k \in 0 .. n : f[k] = IF k = 0 THEN <<>> ELSE add(f[k - 1], k)
      BY <1>7, <1>8, <2>1, Zenon
  <2>3. f = [k \in 0 .. n |-> f[k]]
      BY <1>7
  <2>4. f = [k \in 0 .. n |-> IF k = 0 THEN <<>> ELSE add(f[k - 1], k)]
      BY <2>2, <2>3, Zenon
  <2> QED
      BY <2>4, Zenon DEF AreNodes, add
<1>10. AreNodes(order, n, nodes)
    BY <1>9, Zenon DEF nodes
<1>11. \A k \in 0 .. n : nodes[k] = IF k = 0 THEN <<>> ELSE add(nodes[k - 1], k)
    BY <1>10, Zenon DEF AreNodes, add
<1> DEFINE S == {k \in 0 .. n : nodes[k] \in V}
<1>12. 0 .. n \subseteq S
  <2>1. 0 \in S
      BY <1>1, <1>4, <1>11
  <2>2. ASSUME NEW k \in 1 .. n, k - 1 \in S
        PROVE  k \in S
    <3>1. k \in 0 .. n /\ k # 0 /\ nodes[k - 1] \in V
        BY <1>1, <2>2
    <3>2. nodes[k] = add(nodes[k - 1], k)
        BY <1>11, <3>1
    <3> QED
        BY <1>3, <3>1, <3>2
  <2> HIDE DEF S
  <2> QED
      BY <1>1, <2>1, <2>2, UpTo
<1>13. n \in 0 .. n
    BY <1>1
<1> QED
    BY <1>2, <1>12, <1>13 DEF V

LEMMA LegAlongPair ==
    ASSUME GraphTypeOK, SymbolTradesPair, NEW a \in Currencies, NEW b \in Currencies, Tradable(a, b)
    PROVE  /\ RouteLeg(a, b) \in Legs /\ AlongItsPair(RouteLeg(a, b))
           /\ RouteLeg(a, b).from = a /\ RouteLeg(a, b).to = b
<1>1. /\ symbolMap[<<a, b>>] \in Symbols \cup {None}
      /\ symbolMap[<<b, a>>] \in Symbols \cup {None}
    BY DEF GraphTypeOK, Pairs
<1>2. CASE symbolMap[<<a, b>>] # None
  <2>1. RouteLeg(a, b) = [from |-> a, to |-> b, symbol |-> symbolMap[<<a, b>>], side |-> "Sell"]
      BY <1>2 DEF RouteLeg, SymbolAndSideFor
  <2>2. Base[symbolMap[<<a, b>>]] = a /\ Quote[symbolMap[<<a, b>>]] = b
      BY <1>2 DEF SymbolTradesPair
  <2> QED
      BY <1>1, <1>2, <2>1, <2>2 DEF Legs, AlongItsPair, InputOf, OutputOf
<1>3. CASE symbolMap[<<a, b>>] = None
  <2>1. RouteLeg(a, b) = [from |-> a, to |-> b, symbol |-> symbolMap[<<b, a>>], side |-> "Buy"]
      BY <1>3 DEF RouteLeg, SymbolAndSideFor
  <2>2. symbolMap[<<b, a>>] # None
      BY <1>3 DEF Tradable
  <2>3. Base[symbolMap[<<b, a>>]] = b /\ Quote[symbolMap[<<b, a>>]] = a
      BY <2>2 DEF SymbolTradesPair
  <2> QED
      BY <1>1, <2>1, <2>2, <2>3 DEF Legs, AlongItsPair, InputOf, OutputOf
<1> QED
    BY <1>2, <1>3

\* What the filters make of a report is joined.
LEMMA OpportunityJoined ==
    ASSUME GraphTypeOK, SymbolTradesPair, DetectionAssumption, NEW r \in Reports,
           IsOpportunity(r), Closed(r.cycle) \/ Crossed
    PROVE  Opportunity(r) \in Opportunities /\ Joined(Opportunity(r).legs)
<1> DEFINE c == r.cycle
           leg(i) == RouteLeg(c[i], c[i + 1])
           opp == Opportunity(r)
<1>1. c \in Seq(Currencies) /\ Len(c) = 4 /\ r.profit \in Int \cup {None}
    BY DEF Reports, IsOpportunity
<1>2. \A i \in 1 .. 3 : c[i] \in Currencies /\ c[i + 1] \in Currencies /\ Tradable(c[i], c[i + 1])
  <2> TAKE i \in 1 .. 3
  <2>1. i \in 1 .. Len(c) /\ i + 1 \in 1 .. Len(c)
      BY <1>1
  <2>2. Tradable(c[i], c[i + 1])
      BY DEF IsOpportunity
  <2> QED
      BY <2>1, <2>2, <1>1
<1>3. \A i \in 1 .. 3 : /\ leg(i) \in Legs /\ AlongItsPair(leg(i))
                        /\ leg(i).from = c[i] /\ leg(i).to = c[i + 1]
    BY <1>2, LegAlongPair
<1>4. /\ opp.legs = [i \in 1 .. 3 |-> leg(i)]
      /\ opp.expected = IF r.profit = None THEN None ELSE r.profit - FeeThreshold
      /\ opp = [legs |-> opp.legs, expected |-> opp.expected]
    BY DEF Opportunity
<1>5. Closed(c) <=> c[1] = c[4]
    BY <1>1 DEF Closed
<1> HIDE DEF opp, leg
<1>6. FeeThreshold \in Int
    BY DetectionAssumption DEF FeeThreshold
<1>7. opp.legs \in [1 .. 3 -> Legs] /\ opp.expected \in Int \cup {None}
    BY <1>1, <1>3, <1>4, <1>6
<1>8. \A i \in 1 .. 3 : opp.legs[i] = leg(i)
    BY <1>4
<1>9. 1 \in 1 .. 3 /\ 2 \in 1 .. 3 /\ 3 \in 1 .. 3 /\ 1 + 1 = 2 /\ 2 + 1 = 3 /\ 3 + 1 = 4
    OBVIOUS
<1>10. /\ opp.legs[1].from = c[1] /\ opp.legs[1].to = c[2]
       /\ opp.legs[2].from = c[2] /\ opp.legs[2].to = c[3]
       /\ opp.legs[3].from = c[3] /\ opp.legs[3].to = c[4]
    BY <1>3, <1>8, <1>9
<1>11. Joined(opp.legs)
    BY <1>3, <1>5, <1>8, <1>10 DEF Joined
<1>12. opp \in Opportunities
    BY <1>4, <1>7 DEF Opportunities
<1> QED
    BY <1>11, <1>12 DEF opp

LEMMA FilterJoined ==
    ASSUME DetectionInv, DetectionAssumption, Filter, UNCHANGED graphState
    PROVE  opportunities' \in Seq(Opportunities) /\ OpportunitiesJoined'
<1> DEFINE r == Head(found)
<1>1. /\ found \in Seq(Reports) /\ found # <<>> /\ GraphTypeOK /\ SymbolTradesPair
      /\ opportunities \in Seq(Opportunities) /\ weight' = weight
    BY DEF DetectionInv, GraphInv, GraphSound, SearchInv, SearchTypeOK, Filter, graphState
<1>2. r \in Reports /\ r = found[1] /\ Len(found) \in Nat \ {0}
    BY <1>1, HeadTailOf
<1>3. IsOpportunity(r) => Closed(r.cycle) \/ Crossed
  <2>1. 1 \in 1 .. Len(found)
      BY <1>2
  <2>2. OpenRouteNeedsCrossedPair
      BY DEF DetectionInv, CompleteInv
  <2> QED
      BY <2>1, <2>2, <1>2 DEF OpenRouteNeedsCrossedPair, IsOpportunity
<1>4. opportunities' = IF IsOpportunity(r) THEN Append(opportunities, Opportunity(r))
                       ELSE opportunities
    BY DEF Filter
<1>5. Crossed' <=> Crossed
    BY <1>1 DEF Crossed
<1> HIDE DEF r
<1>6. CASE IsOpportunity(r)
  <2> DEFINE opp == Opportunity(r)
  <2>1. opp \in Opportunities /\ Joined(opp.legs)
      BY <1>1, <1>2, <1>3, <1>6, OpportunityJoined
  <2>2. opportunities' = Append(opportunities, opp)
      BY <1>4, <1>6
  <2> HIDE DEF opp
  <2>3. /\ opportunities' \in Seq(Opportunities)
        /\ Len(opportunities') = Len(opportunities) + 1 /\ Len(opportunities) \in Nat
        /\ opportunities'[Len(opportunities) + 1] = opp
        /\ \A k \in 1 .. Len(opportunities) : opportunities'[k] = opportunities[k]
      BY <1>1, <2>1, <2>2, AppendOf
  <2>4. ASSUME NEW k \in 1 .. Len(opportunities')
        PROVE  Joined(opportunities'[k].legs)
    <3>1. k = Len(opportunities) + 1 \/ k \in 1 .. Len(opportunities)
        BY <2>3
    <3> QED
        BY <2>1, <2>3, <3>1 DEF DetectionInv, OpportunitiesJoined
  <2> QED
      BY <2>3, <2>4, <1>5 DEF OpportunitiesJoined, Joined, AlongItsPair, InputOf, OutputOf
<1>7. CASE ~IsOpportunity(r)
    BY <1>1, <1>4, <1>5, <1>7 DEF DetectionInv, OpportunitiesJoined, Joined, AlongItsPair, InputOf, OutputOf
<1> QED
    BY <1>6, <1>7

\* Detection goes on while the graph stays as it is.
LEMMA DetectInv ==
    ASSUME DetectionInv, BeginDetect \/ DetectStep, UNCHANGED graphState
    PROVE  DetectionInv'
<1>1. /\ GraphSound /\ GraphTypeOK /\ EdgesWhole /\ SearchInv /\ CompleteInv
      /\ SymbolTradesPair /\ DetectionAssumption
    BY DetectionAssumption DEF DetectionInv, GraphInv, GraphSound
<1>2. GraphInv' /\ (Crossed' <=> Crossed)
    BY <1>1 DEF graphState, GraphInv, GraphSound, GraphTypeOK, EdgesWeighted, EdgesWhole,
                SymbolTradesPair, Crossed
<1>3. age' = age
    BY DEF BeginDetect, DetectStep, Filter
<1>4. opportunities' \in Seq(Opportunities) /\ OpportunitiesJoined'
  <2>1. CASE Filter
      BY <2>1, <1>1, FilterJoined
  <2>2. CASE ~Filter
    <3>1. opportunities' = opportunities
        BY <2>2 DEF BeginDetect, DetectStep
    <3> QED
        BY <3>1, <1>2 DEF DetectionInv, OpportunitiesJoined, Joined, AlongItsPair, InputOf, OutputOf
  <2> QED
      BY <2>1, <2>2
<1>5. SearchInv' /\ CompleteInv'
  <2>1. CASE BeginDetect
    <3>1. search = "idle" /\ currencies # <<>> /\ StartSearch
        BY <2>1 DEF BeginDetect, MayDetect
    <3> QED
        BY <3>1, <1>1, StartSearchSound, StartComplete
  <2>2. CASE SearchStep
      BY <2>2, <1>1, SearchStepSound, SearchStepComplete
  <2>3. CASE Filter
      BY <2>3, <1>1, FilterSound, FilterComplete
  <2> QED
      BY <2>1, <2>2, <2>3 DEF DetectStep
<1> QED
    BY <1>2, <1>3, <1>4, <1>5 DEF DetectionInv

\* The next opportunity is taken while no search runs.
LEMMA NextOpportunityInv ==
    ASSUME DetectionInv, search = "idle", opportunities # <<>>, NextOpportunity
    PROVE  /\ DetectionInv' /\ opportunities' = Tail(opportunities)
           /\ Head(opportunities) \in Opportunities /\ Joined(Head(opportunities).legs)
<1>1. /\ opportunities' = Tail(opportunities) /\ UNCHANGED graphState /\ UNCHANGED searchVars
      /\ age' = age
    BY DEF NextOpportunity
<1>2. /\ Head(opportunities) \in Opportunities /\ Head(opportunities) = opportunities[1]
      /\ opportunities' \in Seq(Opportunities)
      /\ Len(opportunities') = Len(opportunities) - 1 /\ Len(opportunities) \in Nat \ {0}
      /\ \A k \in 1 .. Len(opportunities') : opportunities'[k] = opportunities[k + 1]
    BY <1>1, HeadTailOf DEF DetectionInv
<1>3. GraphInv' /\ (Crossed' <=> Crossed)
    BY <1>1 DEF DetectionInv, graphState, GraphInv, GraphSound, GraphTypeOK, EdgesWeighted, EdgesWhole,
                SymbolTradesPair, Crossed
<1>4. SearchInv' /\ CompleteInv'
    BY <1>1, StillSearch, StillComplete DEF DetectionInv
<1>5. ASSUME NEW k \in 1 .. Len(opportunities')
      PROVE  Joined(opportunities'[k].legs)
  <2>1. k + 1 \in 1 .. Len(opportunities) /\ opportunities'[k] = opportunities[k + 1]
      BY <1>2
  <2> QED
      BY <2>1 DEF DetectionInv, OpportunitiesJoined
<1>6. OpportunitiesJoined'
    BY <1>3, <1>5 DEF OpportunitiesJoined, Joined, AlongItsPair, InputOf, OutputOf
<1>7. Joined(Head(opportunities).legs)
  <2>1. 1 \in 1 .. Len(opportunities)
      BY <1>2
  <2> QED
      BY <2>1, <1>2 DEF DetectionInv, OpportunitiesJoined
<1> QED
    BY <1>1, <1>2, <1>3, <1>4, <1>6, <1>7 DEF DetectionInv

LEMMA InitDetection == Init => DetectionInv
<1> SUFFICES ASSUME Init
             PROVE  DetectionInv
    OBVIOUS
<1>1. /\ neighbours = [c \in Currencies |-> <<>>]
      /\ weight = [p \in Pairs |-> None] /\ symbolMap = [p \in Pairs |-> None]
      /\ SearchInit /\ age = 0 /\ opportunities = <<>>
    BY DEF Init, DetectionInit
<1>2. currencies \in Seq(Currencies)
  <2>1. PICK order \in Orders : currencies = NodesOf(order)
      BY DEF Init
  <2> QED
      BY <2>1, NodesTyped
<1>3. GraphTypeOK
    BY <1>1, <1>2, EmptySound DEF GraphTypeOK
<1>4. EdgesWeighted /\ EdgesWhole /\ SymbolTradesPair
    BY <1>1, EmptySound DEF EdgesWeighted, EdgesWhole, SymbolTradesPair, Pairs
<1>5. SearchInv /\ CompleteInv
    BY <1>1, InitSound, InitComplete
<1>6. opportunities \in Seq(Opportunities) /\ OpportunitiesJoined
    BY <1>1, EmptySound DEF OpportunitiesJoined
<1> QED
    BY <1>1, <1>3, <1>4, <1>5, <1>6, DetectionAssumption DEF DetectionInv, GraphInv, GraphSound

\* A tick moves the rates of its symbol.
LEMMA RatesMove ==
    ASSUME GraphInv, DetectionAssumption, NEW s \in Symbols, NEW bid \in Prices, NEW ask \in Prices,
           SetRate(Base[s], Quote[s], bid, ask), SetSymbolFor(Base[s], Quote[s], s)
    PROVE  GraphInv'
<1> DEFINE b == Base[s]
           q == Quote[s]
<1>1. b \in Currencies /\ q \in Currencies /\ b # q
    BY PairEnds
<1>2. Quotable(bid) /\ Quotable(ask)
    BY PricesQuotable
<1>3. GraphSound /\ EdgesWhole /\ symbolMap \in [Pairs -> Symbols \cup {None}]
    BY DEF GraphInv, GraphSound, GraphTypeOK
<1>4. /\ currencies' \in Seq(Currencies) /\ neighbours' \in [Currencies -> Seq(Currencies)]
      /\ weight' \in [Pairs -> Int \cup {None}] /\ EdgesWeighted' /\ EdgesWhole'
  <2> HIDE DEF b, q
  <2>1. SetRate(b, q, bid, ask)
      BY DEF b, q
  <2> QED
      BY <2>1, <1>1, <1>2, <1>3, SetRateSound, SetRateWhole
<1>5. /\ symbolMap' \in [Pairs -> Symbols \cup {None}]
      /\ \A p \in Pairs : symbolMap'[p] = IF p = <<b, q>> /\ symbolMap[p] = None
                                          THEN s ELSE symbolMap[p]
    BY <1>1, <1>3 DEF SetSymbolFor, Pairs
<1>6. SymbolTradesPair'
  <2> SUFFICES ASSUME NEW x \in Currencies, NEW y \in Currencies, symbolMap'[<<x, y>>] # None
               PROVE  Base[symbolMap'[<<x, y>>]] = x /\ Quote[symbolMap'[<<x, y>>]] = y
      BY DEF SymbolTradesPair
  <2>1. <<x, y>> \in Pairs
      BY DEF Pairs
  <2>2. CASE <<x, y>> = <<b, q>> /\ symbolMap[<<x, y>>] = None
      BY <2>1, <2>2, <1>5
  <2>3. CASE ~(<<x, y>> = <<b, q>> /\ symbolMap[<<x, y>>] = None)
    <3>1. symbolMap'[<<x, y>>] = symbolMap[<<x, y>>]
        BY <2>1, <2>3, <1>5
    <3> QED
        BY <3>1 DEF GraphInv, SymbolTradesPair
  <2> QED
      BY <2>2, <2>3
<1> QED
    BY <1>4, <1>5, <1>6 DEF GraphInv, GraphSound, GraphTypeOK

LEMMA AdvanceInv ==
    ASSUME BacktestInv, Advance
    PROVE  BacktestInv'
<1>1. PICK tick \in Ticks : Replay(tick)
    BY DEF Advance
<1>2. /\ at = "replay" /\ search = "idle" /\ opportunities = <<>> /\ opportunities' = <<>>
      /\ UNCHANGED searchVars /\ age' \in {0, age} /\ position' = position + 1 /\ position < MaxTicks
      /\ config' = config /\ trades' = trades /\ result' = result /\ at' \in {"detect", "replay"}
    BY <1>1 DEF Replay, BacktestInv, ReplayInv
<1>3. GraphInv' /\ books' \in [Symbols -> BookSet \cup {None}]
  <2>1. CASE tick.symbol \in Symbols
    <3>1. tick.bid \in Prices /\ tick.ask \in Prices
        BY TickFacts
    <3>2. /\ books' = [books EXCEPT ![tick.symbol] = BookOf(tick)]
          /\ SetRate(Base[tick.symbol], Quote[tick.symbol], tick.bid, tick.ask)
          /\ SetSymbolFor(Base[tick.symbol], Quote[tick.symbol], tick.symbol)
        BY <1>1, <2>1 DEF Replay
    <3>3. BookOf(tick) \in BookSet /\ books \in [Symbols -> BookSet \cup {None}]
        BY DEF BookSet, BacktestInv, ReplayInv
    <3>4. GraphInv'
        BY <2>1, <3>1, <3>2, RatesMove, DetectionAssumption DEF BacktestInv, DetectionInv
    <3> HIDE DEF BookSet
    <3> QED
        BY <3>2, <3>3, <3>4
  <2>2. CASE tick.symbol \notin Symbols
    <3>1. books' = books /\ UNCHANGED graphState
        BY <1>1, <2>2 DEF Replay
    <3> QED
        BY <3>1 DEF BacktestInv, ReplayInv, DetectionInv, graphState, GraphInv, GraphSound, GraphTypeOK,
                    EdgesWeighted, EdgesWhole, SymbolTradesPair
  <2> QED
      BY <2>1, <2>2
<1>4. SearchInv' /\ CompleteInv' /\ search' = search
    BY <1>2, IdleSound, IdleComplete DEF BacktestInv, DetectionInv, searchVars
<1>5. opportunities' \in Seq(Opportunities) /\ OpportunitiesJoined'
    BY <1>2, EmptySound DEF OpportunitiesJoined
<1>6. DetectionInv'
  <2>1. age' \in 0 .. MaxDataAge + 1
      BY <1>2, DetectionAssumption DEF BacktestInv, DetectionInv
  <2> QED
      BY <1>3, <1>4, <1>5, <2>1 DEF DetectionInv
<1>7. position' \in 0 .. MaxTicks
    BY <1>2, BacktestAssumption DEF BacktestInv, ReplayInv
<1>8. ReplayInv'
    BY <1>2, <1>3, <1>4, <1>7 DEF BacktestInv, ReplayInv
<1> QED
    BY <1>2, <1>6, <1>8 DEF BacktestInv, TradesInv

LEMMA DetectKeeps ==
    ASSUME BacktestInv, Detect
    PROVE  BacktestInv'
<1>1. /\ at = "detect" /\ (BeginDetect \/ DetectStep)
      /\ UNCHANGED <<config, at, position, books, trades, result>> /\ UNCHANGED graphState
    BY DEF Detect, backtestVars, replayVars
<1>2. DetectionInv'
    BY <1>1, DetectInv DEF BacktestInv
<1> QED
    BY <1>1, <1>2 DEF BacktestInv, ReplayInv, TradesInv

LEMMA DetectedKeeps ==
    ASSUME BacktestInv, Detected
    PROVE  BacktestInv'
<1>1. /\ at = "detect" /\ SearchReset /\ age' = age /\ opportunities' = opportunities
      /\ at' = IF opportunities = <<>> THEN "replay" ELSE "simulate"
      /\ UNCHANGED <<config, position, books, trades, result>> /\ UNCHANGED graphState
    BY DEF Detected, EndDetect, replayVars
<1>2. SearchInv' /\ CompleteInv' /\ search' = "idle"
    BY <1>1, ResetSound, ResetComplete DEF SearchReset
<1>3. GraphInv' /\ (Crossed' <=> Crossed)
    BY <1>1 DEF BacktestInv, DetectionInv, graphState, GraphInv, GraphSound, GraphTypeOK,
                EdgesWeighted, EdgesWhole, SymbolTradesPair, Crossed
<1>5. OpportunitiesJoined'
    BY <1>1, <1>3 DEF BacktestInv, DetectionInv, OpportunitiesJoined, Joined, AlongItsPair,
                      InputOf, OutputOf
<1>6. DetectionInv'
    BY <1>1, <1>2, <1>3, <1>5 DEF BacktestInv, DetectionInv
<1>4. ReplayInv'
    BY <1>1, <1>2 DEF BacktestInv, ReplayInv
<1> QED
    BY <1>1, <1>4, <1>6 DEF BacktestInv, TradesInv

\* What an opportunity that is passed over or traded leaves.
LEMMA TakenKeeps ==
    ASSUME BacktestInv, at = "simulate", NextOpportunity
    PROVE  DetectionInv' /\ ReplayInv'
<1>1. search = "idle" /\ opportunities # <<>>
    BY DEF BacktestInv, ReplayInv
<1>2. /\ at' = IF opportunities' = <<>> THEN "replay" ELSE "simulate"
      /\ UNCHANGED <<config, position, books, result>> /\ UNCHANGED searchVars
    BY DEF NextOpportunity, replayVars
<1>3. DetectionInv'
    BY <1>1, NextOpportunityInv DEF BacktestInv
<1>4. search' = search
    BY <1>2 DEF searchVars
<1> QED
    BY <1>1, <1>2, <1>3, <1>4 DEF BacktestInv, ReplayInv

LEMMA PassOverKeeps ==
    ASSUME BacktestInv, PassOver
    PROVE  BacktestInv'
    BY TakenKeeps DEF PassOver, BacktestInv, TradesInv

-------------------------------------------------------------------------------
\* The trades.
PriceLevel == [price : Prices, size : Nat]

LEMMA FillTyped ==
    ASSUME NEW side \in {"Buy", "Sell"}, NEW size \in Nat, NEW book,
           LevelsFor(side, book) \in Seq(PriceLevel), LevelsFor(side, book) # <<>>,
           NEW slippage \in SlippageModels, NEW feeBps \in Int
    PROVE  FillOrder(side, size, book, slippage, feeBps) \in FillResults
<1> DEFINE levels == LevelsFor(side, book)
           left == Left(size, levels)
           fills == Fills(size, levels)
           fill == FillOrder(side, size, book, slippage, feeBps)
           F == Seq([price : Prices, qty : Nat])
<1>1. \A p \in Prices : p \in Int
    BY PricesQuotable
<1>2. Len(levels) \in Nat /\ \A k \in 1 .. Len(levels) : levels[k] \in PriceLevel
    OBVIOUS
<1>3. levels \in Levels
  <2>1. \A k \in 1 .. Len(levels) : levels[k] \in Level
      BY <1>1, <1>2 DEF PriceLevel, Level
  <2> HIDE DEF Level, PriceLevel
  <2>2. levels \in Seq(Level)
      BY <2>1
  <2> QED
      BY <2>2 DEF Levels
<1>4. levels[1].price \in Int
  <2>1. levels[1] \in PriceLevel
      BY <1>2
  <2> HIDE DEF levels
  <2>2. levels[1].price \in Prices
      BY <2>1 DEF PriceLevel
  <2> QED
      BY <1>1, <2>2, Zenon
<1>5. PICK cum, cost : Blocks(levels, Units(levels), cum) /\ Summed(Units(levels), cost, Len(Units(levels)))
    BY <1>3, UnitsCost
<1> DEFINE got == Got(size, Len(Units(levels)))
           average == Truncated(cost[got], got)
           price == Adjusted(side, average, slippage)
           fee == Truncated(price * got * feeBps, BpsScale)
           slipped == Slipped(side, average, levels[1].price)
<1>6. /\ got \in 0 .. Len(Units(levels)) /\ (got = 0 => fill = NoFill)
      /\ got # 0 => /\ average \in Int /\ price \in Int
                    /\ fill = [fills |-> fills, avgPrice |-> price, totalQty |-> got,
                               slipped |-> slipped, feePaid |-> fee]
  <2>1. FillsAs(side, size, book, Units(levels), cost, slippage, feeBps)
      BY <1>3, <1>5, FillIs
  <2> QED
      BY <2>1, Zenon DEF FillsAs
<1>7. fills \in F
  <2>1. /\ left \in [0 .. Len(levels) -> Nat]
        /\ \A k \in 1 .. Len(levels) : left[k] <= left[k - 1]
      BY <1>3, LeftWalks DEF Walks
  <2>2. PICK m \in 0 .. Len(levels) : FillsTo(m, levels, left, fills)
      BY <1>3, FillsShape
  <2>3. fills = [k \in 1 .. m |-> [price |-> levels[k].price, qty |-> left[k - 1] - left[k]]]
      BY <2>2 DEF FillsTo
  <2> HIDE DEF levels, left, fills
  <2>4. ASSUME NEW k \in 1 .. m
        PROVE  fills[k] \in [price : Prices, qty : Nat]
    <3>1. k \in 1 .. Len(levels) /\ k \in 0 .. Len(levels) /\ k - 1 \in 0 .. Len(levels)
        BY <1>2
    <3>2. levels[k].price \in Prices
        BY <1>2, <3>1 DEF PriceLevel
    <3>3. left[k - 1] \in Nat /\ left[k] \in Nat /\ left[k] <= left[k - 1]
        BY <2>1, <3>1
    <3>4. left[k - 1] - left[k] \in Nat
        BY <3>3
    <3>5. fills[k] = [price |-> levels[k].price, qty |-> left[k - 1] - left[k]]
        BY <2>3
    <3> QED
        BY <3>2, <3>4, <3>5
  <2> QED
      BY <1>2, <2>3, <2>4
<1>8. got \in Nat
  <2>1. Units(levels) \in Seq(Int)
      BY <1>5, Zenon DEF Blocks
  <2> QED
      BY <1>6, <2>1
<1>9. FillResults = [fills : F, avgPrice : Int, totalQty : Nat, slipped : Int, feePaid : Int]
    BY DEF FillResults
<1>10. <<>> \in F
    BY EmptySound
<1> HIDE DEF levels, left, fills, fill, F, got, average, price
<1>11. CASE got = 0
    BY <1>6, <1>9, <1>10, <1>11 DEF NoFill, fill
<1>12. CASE got # 0
  <2>1. slipped \in Int
    <3>1. average \in Int
        BY <1>6, <1>12
    <3> QED
        BY <1>4, <3>1 DEF Slipped
  <2>2. fee \in Int
    <3>1. price * got * feeBps \in Int /\ BpsScale \in Nat \ {0}
        BY <1>6, <1>8, <1>12, BacktestAssumption
    <3> QED
        BY <3>1, TruncatedTyped
  <2> HIDE DEF slipped, fee
  <2>3. [fills |-> fills, avgPrice |-> price, totalQty |-> got, slipped |-> slipped, feePaid |-> fee]
          \in [fills : F, avgPrice : Int, totalQty : Nat, slipped : Int, feePaid : Int]
      BY <1>6, <1>7, <1>8, <1>12, <2>1, <2>2
  <2>4. fill \in FillResults
      BY <1>6, <1>9, <1>12, <2>3, Zenon
  <2> QED
      BY <2>4 DEF fill
<1> QED
    BY <1>11, <1>12

LEMMA NatTimes ==
    ASSUME NEW x \in Nat, NEW y \in Nat
    PROVE  x * y \in Nat
    OBVIOUS

LEMMA OneOf ==
    ASSUME NEW S, NEW x \in S
    PROVE  <<x>> \in Seq(S) /\ <<x>> # <<>> /\ Len(<<x>>) = 1 /\ <<x>>[1] = x
    OBVIOUS

\* The one level of a simulated side.
TopOf(side, book) == IF side = "Buy" THEN book.asks[1].price ELSE book.bids[1].price

LEMMA BookLevels ==
    ASSUME books \in [Symbols -> BookSet \cup {None}], NEW s \in Symbols, books[s] # None,
           NEW side \in {"Buy", "Sell"}
    PROVE  LET levels == LevelsFor(side, books[s])
               top == TopOf(side, books[s])
           IN  /\ levels = <<[price |-> top, size |-> Depth]>> /\ top \in Prices
               /\ levels \in Seq(PriceLevel) /\ levels # <<>> /\ levels \in Levels
<1> DEFINE levels == LevelsFor(side, books[s])
           top == TopOf(side, books[s])
<1>1. PICK tick \in Ticks : books[s] = BookOf(tick)
    BY DEF BookSet
<1>2. tick.bid \in Prices /\ tick.ask \in Prices /\ Depth \in Nat
    BY TickFacts, BacktestAssumption
<1>3. levels = <<[price |-> top, size |-> Depth]>> /\ top \in Prices
    BY <1>1, <1>2 DEF BookOf, LevelsFor, TopOf
<1> HIDE DEF levels, top
<1>4. top \in Int
    BY <1>3, PricesQuotable
<1>5. [price |-> top, size |-> Depth] \in PriceLevel /\ [price |-> top, size |-> Depth] \in Level
    BY <1>2, <1>3, <1>4 DEF PriceLevel, Level
<1>6. levels \in Seq(PriceLevel) /\ levels # <<>> /\ levels \in Levels
    BY <1>3, <1>5, OneOf DEF Levels
<1> QED
    BY <1>3, <1>6 DEF levels, top

LEMMA LegFillTyped ==
    ASSUME config \in Configs, books \in [Symbols -> BookSet \cup {None}],
           NEW leg \in Legs, books[leg.symbol] # None
    PROVE  /\ LegFill(leg) \in LegFills
           /\ LegFill(leg).input = InputOf(leg) /\ LegFill(leg).output = OutputOf(leg)
<1>1. /\ leg.symbol \in Symbols /\ leg.side \in {"Buy", "Sell"}
    BY DEF Legs
<1>2. InputOf(leg) \in Currencies /\ OutputOf(leg) \in Currencies
    BY <1>1, PairEnds DEF InputOf, OutputOf
<1>3. LevelsFor(leg.side, books[leg.symbol]) \in Seq(PriceLevel)
      /\ LevelsFor(leg.side, books[leg.symbol]) # <<>>
    BY <1>1, BookLevels
<1> DEFINE fill == FillOrder(leg.side, config.orderSize, books[leg.symbol], config.slippage,
                             config.feeBps)
<1>4. fill \in FillResults
    BY <1>1, <1>3, ConfigFacts, FillTyped
<1>5. LegFill(leg) = [symbol |-> leg.symbol, side |-> leg.side, input |-> InputOf(leg),
                      output |-> OutputOf(leg), fill |-> fill]
    BY DEF LegFill
<1> HIDE DEF fill
<1> QED
    BY <1>1, <1>2, <1>4, <1>5 DEF LegFills

\* The rotation keeps the legs, and their order round the cycle.
Turned(route, legs) ==
    \/ route[1] = legs[1] /\ route[2] = legs[2] /\ route[3] = legs[3]
    \/ route[1] = legs[2] /\ route[2] = legs[3] /\ route[3] = legs[1]
    \/ route[1] = legs[3] /\ route[2] = legs[1] /\ route[3] = legs[2]

LEMMA Rotated ==
    ASSUME NEW opp \in Opportunities, Joined(opp.legs), ReturnsHome(opp.legs)
    PROVE  LET route == Normalized(opp.legs)
           IN  /\ \A i \in 1 .. 3 : route[i] \in Legs
               /\ Turned(route, opp.legs)
               /\ InputOf(route[1]) = config.home /\ OutputOf(route[3]) = config.home
               /\ \/ OutputOf(route[1]) = InputOf(route[2]) /\ OutputOf(route[2]) = InputOf(route[3])
                  \/ Crossed
<1> DEFINE legs == opp.legs
           first(i) == /\ InputOf(legs[i]) = config.home
                       /\ \A j \in 1 .. i - 1 : InputOf(legs[j]) # config.home
           start == CHOOSE i \in 1 .. 3 : first(i)
           route == Normalized(legs)
<1>1. \A i \in 1 .. 3 : legs[i] \in Legs
    BY DEF Opportunities
<1>2. \E i \in 1 .. 3 : first(i)
  <2>1. PICK i \in 1 .. 3 : InputOf(legs[i]) = config.home
      BY DEF ReturnsHome
  <2> DEFINE at1 == InputOf(legs[1]) = config.home
             at2 == InputOf(legs[2]) = config.home
             at3 == InputOf(legs[3]) = config.home
  <2>2. at1 \/ at2 \/ at3
      BY <2>1
  <2>3. /\ 1 \in 1 .. 3 /\ 2 \in 1 .. 3 /\ 3 \in 1 .. 3
        /\ 1 .. 1 - 1 = {} /\ 1 .. 2 - 1 = {1} /\ 1 .. 3 - 1 = {1, 2}
      OBVIOUS
  <2>4. at1 => first(1)
      BY <2>3
  <2>5. ~at1 /\ at2 => first(2)
      BY <2>3
  <2>6. ~at1 /\ ~at2 /\ at3 => first(3)
      BY <2>3
  <2> QED
      BY <2>2, <2>3, <2>4, <2>5, <2>6
<1>3. start \in 1 .. 3 /\ first(start)
    BY <1>2, Zenon
<1>4. route = [i \in 1 .. 3 |-> legs[((start + i - 2) % 3) + 1]]
    BY Zenon DEF Normalized
<1> HIDE DEF start
<1>5. /\ start = 1 => route[1] = legs[1] /\ route[2] = legs[2] /\ route[3] = legs[3]
      /\ start = 2 => route[1] = legs[2] /\ route[2] = legs[3] /\ route[3] = legs[1]
      /\ start = 3 => route[1] = legs[3] /\ route[2] = legs[1] /\ route[3] = legs[2]
  <2>1. /\ ((1 + 1 - 2) % 3) + 1 = 1 /\ ((1 + 2 - 2) % 3) + 1 = 2 /\ ((1 + 3 - 2) % 3) + 1 = 3
        /\ ((2 + 1 - 2) % 3) + 1 = 2 /\ ((2 + 2 - 2) % 3) + 1 = 3 /\ ((2 + 3 - 2) % 3) + 1 = 1
        /\ ((3 + 1 - 2) % 3) + 1 = 3 /\ ((3 + 2 - 2) % 3) + 1 = 1 /\ ((3 + 3 - 2) % 3) + 1 = 2
      OBVIOUS
  <2>2. \A i \in 1 .. 3 : route[i] = legs[((start + i - 2) % 3) + 1]
      BY <1>4, Zenon
  <2>3. 1 \in 1 .. 3 /\ 2 \in 1 .. 3 /\ 3 \in 1 .. 3
      OBVIOUS
  <2>4. /\ route[1] = legs[((start + 1 - 2) % 3) + 1]
        /\ route[2] = legs[((start + 2 - 2) % 3) + 1]
        /\ route[3] = legs[((start + 3 - 2) % 3) + 1]
      BY <2>2, <2>3, Zenon
  <2> HIDE DEF route, legs
  <2>5. CASE start = 1
      BY <2>1, <2>4, <2>5
  <2>6. CASE start = 2
      BY <2>1, <2>4, <2>6
  <2>7. CASE start = 3
      BY <2>1, <2>4, <2>7
  <2>8. start = 1 \/ start = 2 \/ start = 3
      BY <1>3
  <2> QED
      BY <2>5, <2>6, <2>7, <2>8
<1>6. OutputOf(route[3]) = config.home
    BY DEF ReturnsHome
<1> HIDE DEF route
<1>7. InputOf(route[1]) = config.home
    BY <1>3, <1>5
<1>8. \A i \in 1 .. 3 : route[i] \in Legs
    BY <1>1, <1>3, <1>5
<1>9. /\ InputOf(legs[1]) = legs[1].from /\ OutputOf(legs[1]) = legs[1].to
      /\ InputOf(legs[2]) = legs[2].from /\ OutputOf(legs[2]) = legs[2].to
      /\ InputOf(legs[3]) = legs[3].from /\ OutputOf(legs[3]) = legs[3].to
      /\ legs[1].to = legs[2].from /\ legs[2].to = legs[3].from
      /\ legs[3].to = legs[1].from \/ Crossed
    BY DEF Joined, AlongItsPair
<1>10. \/ OutputOf(route[1]) = InputOf(route[2]) /\ OutputOf(route[2]) = InputOf(route[3])
       \/ Crossed
    BY <1>3, <1>5, <1>9
<1>11. Turned(route, legs)
    BY <1>3, <1>5 DEF Turned
<1> QED
    BY <1>6, <1>7, <1>8, <1>10, <1>11 DEF route

LEMMA LegReturnTyped ==
    ASSUME config \in Configs, NEW leg \in LegFills
    PROVE  LegReturn(leg).num \in Int /\ LegReturn(leg).den \in Nat
<1> DEFINE kept == BpsScale - config.feeBps
           price == leg.fill.avgPrice
           sign == IF price < 0 THEN -1 ELSE 1
<1>1. kept \in Int /\ price \in Int /\ Divisor \in Nat /\ BpsScale \in Nat
    BY ConfigFacts DEF LegFills, FillResults
<1>2. \/ LegReturn(leg) = [num |-> sign * (Divisor * kept), den |-> (sign * price) * BpsScale]
      \/ LegReturn(leg) = [num |-> price * kept, den |-> Divisor * BpsScale]
    BY DEF LegReturn
<1> HIDE DEF kept, price
<1>3. sign \in Int /\ sign * price \in Nat
    BY <1>1
<1> HIDE DEF sign
<1>4. Divisor * kept \in Int /\ price * kept \in Int
    BY <1>1
<1>5. sign * (Divisor * kept) \in Int
    BY <1>3, <1>4
<1>6. (sign * price) * BpsScale \in Nat /\ Divisor * BpsScale \in Nat
    BY <1>1, <1>3, NatTimes
<1> QED
    BY <1>2, <1>4, <1>5, <1>6

\* What the trade of an opportunity is made of.
MadeOf(trade, opp) ==
    LET route == Normalized(opp.legs)
    IN  /\ Turned(route, opp.legs)
        /\ \A i \in 1 .. 3 : /\ route[i] \in Legs /\ books[route[i].symbol] # None
                             /\ trade.legs[i] = LegFill(route[i])
                             /\ trade.legs[i].fill.totalQty # 0

\* What an opportunity becomes: nothing, or a trade whose legs are chained.
LEMMA TradeMade ==
    ASSUME config \in Configs, books \in [Symbols -> BookSet \cup {None}],
           NEW opp \in Opportunities, Joined(opp.legs)
    PROVE  \/ SimulateTrade(opp) = <<>>
           \/ \E trade \in Trades : /\ SimulateTrade(opp) = <<trade>>
                                    /\ Chained(trade.legs) \/ Crossed
                                    /\ MadeOf(trade, opp)
<1> DEFINE route == Normalized(opp.legs)
           legs == [i \in 1 .. 3 |-> LegFill(route[i])]
           trade == TradeOf(legs)
<1>1. \/ SimulateTrade(opp) = <<>>
      \/ /\ SimulateTrade(opp) = <<trade>> /\ ReturnsHome(opp.legs)
         /\ \A i \in 1 .. 3 : books[route[i].symbol] # None
         /\ \A i \in 1 .. 3 : legs[i].fill.totalQty # 0
    BY Zenon DEF SimulateTrade
<1> SUFFICES ASSUME SimulateTrade(opp) = <<trade>>, ReturnsHome(opp.legs),
                    \A i \in 1 .. 3 : books[route[i].symbol] # None,
                    \A i \in 1 .. 3 : legs[i].fill.totalQty # 0
             PROVE  trade \in Trades /\ (Chained(trade.legs) \/ Crossed) /\ MadeOf(trade, opp)
    BY <1>1, Zenon
<1>2. /\ \A i \in 1 .. 3 : route[i] \in Legs
      /\ Turned(route, opp.legs)
      /\ InputOf(route[1]) = config.home /\ OutputOf(route[3]) = config.home
      /\ \/ OutputOf(route[1]) = InputOf(route[2]) /\ OutputOf(route[2]) = InputOf(route[3])
         \/ Crossed
    BY Rotated, Zenon
<1>3. /\ \A i \in 1 .. 3 : books[route[i].symbol] # None
      /\ \A i \in 1 .. 3 : legs[i].fill.totalQty # 0
    OBVIOUS
<1> HIDE DEF route
<1>4. \A i \in 1 .. 3 : legs[i] = LegFill(route[i])
    OBVIOUS
<1>5. \A i \in 1 .. 3 : /\ LegFill(route[i]) \in LegFills
                        /\ LegFill(route[i]).input = InputOf(route[i])
                        /\ LegFill(route[i]).output = OutputOf(route[i])
    BY <1>2, <1>3, LegFillTyped
<1>6. legs \in [1 .. 3 -> LegFills]
    BY <1>5
<1>7. /\ trade.legs = legs
      /\ trade.num = LegReturn(legs[1]).num * LegReturn(legs[2]).num * LegReturn(legs[3]).num
      /\ trade.den = LegReturn(legs[1]).den * LegReturn(legs[2]).den * LegReturn(legs[3]).den
      /\ trade = [legs |-> trade.legs, num |-> trade.num, den |-> trade.den]
    BY DEF TradeOf
<1>8. 1 \in 1 .. 3 /\ 2 \in 1 .. 3 /\ 3 \in 1 .. 3
    OBVIOUS
<1> HIDE DEF legs, trade
<1>9. \A i \in 1 .. 3 : LegReturn(legs[i]).num \in Int /\ LegReturn(legs[i]).den \in Nat
    BY <1>6, LegReturnTyped
<1>10. trade.num \in Int /\ trade.den \in Nat
  <2>1. /\ LegReturn(legs[1]).num \in Int /\ LegReturn(legs[2]).num \in Int /\ LegReturn(legs[3]).num \in Int
        /\ LegReturn(legs[1]).den \in Nat /\ LegReturn(legs[2]).den \in Nat /\ LegReturn(legs[3]).den \in Nat
      BY <1>8, <1>9, Zenon
  <2>2. LegReturn(legs[1]).den * LegReturn(legs[2]).den \in Nat
      BY <2>1, NatTimes
  <2>3. LegReturn(legs[1]).den * LegReturn(legs[2]).den * LegReturn(legs[3]).den \in Nat
      BY <2>1, <2>2, NatTimes
  <2> QED
      BY <1>7, <2>1, <2>3
<1>11. trade \in Trades
  <2> HIDE DEF LegFills
  <2> QED
      BY <1>6, <1>7, <1>10 DEF Trades
<1>12. /\ legs[1].input = InputOf(route[1]) /\ legs[2].input = InputOf(route[2])
       /\ legs[3].input = InputOf(route[3])
       /\ legs[1].output = OutputOf(route[1]) /\ legs[2].output = OutputOf(route[2])
       /\ legs[3].output = OutputOf(route[3])
    BY <1>4, <1>5, <1>8, Zenon
<1>13. Chained(legs) \/ Crossed
  <2>1. \A i \in 1 .. 2 : i = 1 \/ i = 2
      OBVIOUS
  <2>2. 1 + 1 = 2 /\ 2 + 1 = 3
      OBVIOUS
  <2>3. CASE ~Crossed
    <3>1. legs[1].output = legs[2].input /\ legs[2].output = legs[3].input
        BY <1>2, <1>12, <2>3
    <3>2. \A i \in 1 .. 2 : legs[i].output = legs[i + 1].input
        BY <2>1, <2>2, <3>1
    <3> QED
        BY <1>2, <1>12, <3>2, Zenon DEF Chained
  <2> QED
      BY <2>3
<1>14. MadeOf(trade, opp)
    BY <1>2, <1>3, <1>4, <1>7, Zenon DEF MadeOf, route
<1> QED
    BY <1>7, <1>11, <1>13, <1>14

\* A simulated trade joins the others, and its legs make a cycle.
LEMMA SimulateTrades ==
    ASSUME BacktestInv, Simulate
    PROVE  /\ BacktestInv'
           /\ Traded => (Chained(Last.legs) \/ Crossed) /\ MadeOf(Last, Head(opportunities))
<1> DEFINE opp == Head(opportunities)
           made == SimulateTrade(opp)
           Fits(trade) == (Chained(trade.legs) \/ Crossed) /\ MadeOf(trade, opp)
<1>1. at = "simulate" /\ trades' = trades \o made /\ NextOpportunity
    BY DEF Simulate
<1>2. search = "idle" /\ opportunities # <<>> /\ DetectionInv
    BY <1>1 DEF BacktestInv, ReplayInv
<1>3. opp \in Opportunities /\ Joined(opp.legs)
    BY <1>1, <1>2, NextOpportunityInv
<1>4. DetectionInv' /\ ReplayInv'
    BY <1>1, TakenKeeps
<1>5. config \in Configs /\ books \in [Symbols -> BookSet \cup {None}] /\ trades \in Seq(Trades)
    BY DEF BacktestInv, ReplayInv, TradesInv
<1>6. \/ made = <<>>
      \/ \E trade \in Trades : made = <<trade>> /\ Fits(trade)
  <2> HIDE DEF opp
  <2> QED
      BY <1>3, <1>5, TradeMade
<1> SUFFICES BacktestInv' /\ (Traded => Fits(Last))
    BY Zenon
<1> HIDE DEF made, Fits
<1>7. CASE made = <<>>
  <2>1. trades' = trades
      BY <1>1, <1>5, <1>7
  <2> QED
      BY <1>4, <1>5, <2>1 DEF BacktestInv, TradesInv, Traded
<1>8. CASE made # <<>>
  <2>1. PICK trade \in Trades : made = <<trade>> /\ Fits(trade)
      BY <1>6, <1>8
  <2>2. trades' = Append(trades, trade)
      BY <1>1, <1>5, <2>1
  <2>3. /\ trades' \in Seq(Trades) /\ Len(trades') = Len(trades) + 1
        /\ trades'[Len(trades) + 1] = trade
      BY <1>5, <2>2, AppendOf
  <2>4. Last = trade
      BY <2>3 DEF Last
  <2> QED
      BY <1>4, <2>1, <2>3, <2>4 DEF BacktestInv, TradesInv
<1> QED
    BY <1>7, <1>8

\* The totals at the end of the file.
LEMMA SplitCount ==
    ASSUME NEW S, IsFiniteSet(S), NEW A, A \subseteq S
    PROVE  Cardinality(A) + Cardinality(S \ A) = Cardinality(S)
<1>1. IsFiniteSet(A) /\ S \cap A = A
    BY FS_Subset
<1>2. Cardinality(S \ A) = Cardinality(S) - Cardinality(S \cap A)
    BY FS_Difference
<1>3. Cardinality(A) \in Nat /\ Cardinality(S) \in Nat
    BY <1>1, FS_CardinalityType
<1>4. Cardinality(S \ A) = Cardinality(S) - Cardinality(A)
    BY <1>1, <1>2, Zenon
<1> QED
    BY <1>3, <1>4

LEMMA FinishKeeps ==
    ASSUME BacktestInv, Finish
    PROVE  BacktestInv'
<1> DEFINE n == Len(trades)
           wins == {k \in 1 .. n : Profitable(trades[k])}
           losses == {k \in 1 .. n : Unprofitable(trades[k])}
           undecided == {k \in 1 .. n : Undefined(trades[k])}
           rest == (1 .. n) \ wins
           fees == [k \in 1 .. n |-> Fees(trades[k])]
<1>1. /\ at = "replay" /\ at' = "done"
      /\ UNCHANGED <<config, position, books, trades>> /\ UNCHANGED graphState
      /\ UNCHANGED searchVars /\ age' = age /\ opportunities' = opportunities
    BY DEF Finish, replayVars, detectionVars
<1>2. /\ result'.profitable = Cardinality(wins) /\ result'.unprofitable = Cardinality(losses)
      /\ result'.executed = n /\ result'.fees = SumTo(fees, n)
    BY DEF Finish
<1>3. n \in Nat /\ \A k \in 1 .. n : trades[k] \in Trades
    BY DEF BacktestInv, TradesInv
<1> HIDE DEF n
<1>4. Cardinality(wins) + Cardinality(losses) + Cardinality(undecided) = n
  <2>1. IsFiniteSet(1 .. n) /\ Cardinality(1 .. n) = n
      BY <1>3, FS_Interval
  <2>2. \A k \in 1 .. n : Undefined(trades[k]) => ~Profitable(trades[k])
      BY DEF Undefined, Profitable
  <2>3. undecided \subseteq rest /\ losses = rest \ undecided /\ wins \subseteq 1 .. n
      BY <2>2 DEF Unprofitable
  <2> HIDE DEF wins, losses, undecided
  <2>4. Cardinality(wins) + Cardinality(rest) = n
      BY <2>1, <2>3, SplitCount
  <2>5. IsFiniteSet(rest) /\ IsFiniteSet(wins)
      BY <2>1, <2>3, FS_Subset
  <2> HIDE DEF rest
  <2>6. Cardinality(undecided) + Cardinality(rest \ undecided) = Cardinality(rest)
      BY <2>3, <2>5, SplitCount
  <2>7. IsFiniteSet(undecided) /\ IsFiniteSet(losses)
      BY <2>3, <2>5, FS_Subset
  <2>8. /\ Cardinality(wins) \in Nat /\ Cardinality(rest) \in Nat
        /\ Cardinality(undecided) \in Nat /\ Cardinality(losses) \in Nat
      BY <2>5, <2>7, FS_CardinalityType
  <2>9. Cardinality(losses) = Cardinality(rest \ undecided)
      BY <2>3
  <2> QED
      BY <2>4, <2>6, <2>8, <2>9
<1>5. \A k \in 1 .. n : fees[k] \in Int
  <2> SUFFICES ASSUME NEW k \in 1 .. n
               PROVE  Fees(trades[k]) \in Int
      OBVIOUS
  <2>1. trades[k].legs \in [1 .. 3 -> LegFills]
      BY <1>3 DEF Trades
  <2>2. /\ trades[k].legs[1] \in LegFills /\ trades[k].legs[2] \in LegFills
        /\ trades[k].legs[3] \in LegFills
      BY <2>1
  <2>3. \A leg \in LegFills : leg.fill.feePaid \in Int
      BY DEF LegFills, FillResults
  <2>4. /\ trades[k].legs[1].fill.feePaid \in Int /\ trades[k].legs[2].fill.feePaid \in Int
        /\ trades[k].legs[3].fill.feePaid \in Int
      BY <2>2, <2>3, Zenon
  <2> QED
      BY <2>4 DEF Fees
<1>6. SumTo(fees, n) \in Int
  <2>1. fees \in [1 .. n -> Int]
      BY <1>5
  <2> HIDE DEF fees
  <2>2. PICK sum : Summed(fees, sum, n)
      BY <1>3, <2>1, SummedExists
  <2>3. n \in 0 .. n
      BY <1>3
  <2>4. SumTo(fees, n) = sum[n]
      BY <1>3, <2>2, <2>3, SumToIs
  <2>5. sum[n] \in Int
      BY <2>2, <2>3 DEF Summed
  <2> QED
      BY <2>4, <2>5
<1> HIDE DEF wins, losses, rest, fees
<1>7. Totals'
  <2>1. {k \in 1 .. Len(trades') : Undefined(trades'[k])} = undecided
      BY <1>1 DEF n
  <2> HIDE DEF undecided
  <2>2. Cardinality({k \in 1 .. Len(trades') : Undefined(trades'[k])}) = Cardinality(undecided)
      BY <2>1
  <2> QED
      BY <1>2, <1>4, <1>6, <2>2 DEF Totals
<1>8. search = "idle" /\ opportunities = <<>>
    BY <1>1 DEF BacktestInv, ReplayInv
<1>9. ReplayInv'
    BY <1>1, <1>7, <1>8 DEF BacktestInv, ReplayInv, searchVars
<1>10. DetectionInv'
  <2>1. SearchInv' /\ CompleteInv'
      BY <1>1, StillSearch, StillComplete DEF BacktestInv, DetectionInv
  <2>2. GraphInv' /\ (Crossed' <=> Crossed)
      BY <1>1 DEF BacktestInv, DetectionInv, graphState, GraphInv, GraphSound, GraphTypeOK,
                  EdgesWeighted, EdgesWhole, SymbolTradesPair, Crossed
  <2>3. OpportunitiesJoined'
      BY <1>1, <1>8, EmptySound DEF OpportunitiesJoined
  <2> QED
      BY <1>1, <2>1, <2>2, <2>3 DEF BacktestInv, DetectionInv
<1> QED
    BY <1>1, <1>9, <1>10 DEF BacktestInv, TradesInv

LEMMA StutterBacktest == BacktestInv /\ UNCHANGED vars => BacktestInv'
<1> SUFFICES ASSUME BacktestInv, UNCHANGED vars
             PROVE  BacktestInv'
    OBVIOUS
<1>1. /\ UNCHANGED <<config, at, position, books, trades, result, age, opportunities>>
      /\ UNCHANGED graphState /\ UNCHANGED searchVars
    BY DEF vars, backtestVars, replayVars, detectionVars
<1>2. SearchInv' /\ CompleteInv'
    BY <1>1, StillSearch, StillComplete DEF BacktestInv, DetectionInv
<1>3. GraphInv' /\ (Crossed' <=> Crossed)
    BY <1>1 DEF BacktestInv, DetectionInv, graphState, GraphInv, GraphSound, GraphTypeOK,
                EdgesWeighted, EdgesWhole, SymbolTradesPair, Crossed
<1>4. OpportunitiesJoined'
    BY <1>1, <1>3 DEF BacktestInv, DetectionInv, OpportunitiesJoined, Joined, AlongItsPair,
                      InputOf, OutputOf
<1>5. DetectionInv'
    BY <1>1, <1>2, <1>3, <1>4 DEF BacktestInv, DetectionInv
<1>6. ReplayInv'
    BY <1>1 DEF BacktestInv, ReplayInv, Totals, searchVars
<1> QED
    BY <1>1, <1>5, <1>6 DEF BacktestInv, TradesInv

LEMMA InitBacktest == Init => BacktestInv
<1> SUFFICES ASSUME Init
             PROVE  BacktestInv
    OBVIOUS
<1>1. DetectionInv
    BY InitDetection
<1>2. ReplayInv
  <2>1. search = "idle" /\ opportunities = <<>> /\ config \in Configs /\ at = "replay"
        /\ position = 0 /\ books = [s \in Symbols |-> None] /\ result = None
      BY DEF Init, DetectionInit, SearchInit
  <2>2. MaxTicks \in Nat
      BY BacktestAssumption
  <2> QED
      BY <2>1, <2>2 DEF ReplayInv
<1>3. TradesInv
    BY EmptySound DEF Init, TradesInv
<1> QED
    BY <1>1, <1>2, <1>3 DEF BacktestInv

\* Only a simulated opportunity makes a trade.
LEMMA TradedSimulates ==
    ASSUME BacktestInv, [Next]_vars, Traded
    PROVE  Simulate
<1> SUFFICES ASSUME ~Simulate
             PROVE  FALSE
    OBVIOUS
<1>1. trades' = trades
    BY DEF Next, vars, backtestVars, Advance, Replay, Detect, Detected, PassOver, Finish
<1>2. Len(trades) \in Nat
    BY DEF BacktestInv, TradesInv
<1> QED
    BY <1>1, <1>2 DEF Traded

\* The inductive invariant holds of every backtest.
THEOREM BacktestInvariant == Spec => []BacktestInv
<1>1. BacktestInv /\ [Next]_vars => BacktestInv'
  <2> SUFFICES ASSUME BacktestInv, [Next]_vars
               PROVE  BacktestInv'
      OBVIOUS
  <2>1. CASE UNCHANGED vars
      BY <2>1, StutterBacktest
  <2>2. CASE Advance
      BY <2>2, AdvanceInv
  <2>3. CASE Detect
      BY <2>3, DetectKeeps
  <2>4. CASE Detected
      BY <2>4, DetectedKeeps
  <2>5. CASE PassOver
      BY <2>5, PassOverKeeps
  <2>6. CASE Simulate
      BY <2>6, SimulateTrades
  <2>7. CASE Finish
      BY <2>7, FinishKeeps
  <2> QED
      BY <2>1, <2>2, <2>3, <2>4, <2>5, <2>6, <2>7 DEF Next
<1> QED
    BY <1>1, InitBacktest, PTL DEF Spec

\* The state of a backtest is well formed, and at the end of the file every trade
\* that was made is counted once, as profitable or as not.
THEOREM BacktestTypesHold == Spec => []BacktestTypeOK
<1>1. BacktestInv => BacktestTypeOK
    BY DEF BacktestInv, DetectionInv, GraphInv, GraphSound, SearchInv, ReplayInv, TradesInv, Totals,
           BacktestTypeOK, DetectionTypeOK
<1> QED
    BY <1>1, BacktestInvariant, PTL

\* Every trade that simulate_trade makes spends and earns the home currency, and each
\* leg spends what the one before it earned, unless the two rates of a pair gain
\* on each other: for any symbols, ticks and configuration.
THEOREM TradesAreCycles == Spec => TradeIsACycle
<1>1. BacktestInv /\ [Next]_vars => [Traded => Chained(Last.legs) \/ Crossed]_vars
  <2> SUFFICES ASSUME BacktestInv, [Next]_vars, Traded
               PROVE  Chained(Last.legs) \/ Crossed
      OBVIOUS
  <2>1. Simulate
      BY TradedSimulates
  <2> QED
      BY <2>1, SimulateTrades
<1> QED
    BY <1>1, BacktestInvariant, PTL DEF Spec, TradeIsACycle

\* Every leg of every trade is filled with the units of its book, at the average price
\* that only fixed slippage moves, and pays the fee of its notional: for any
\* symbols, ticks and configuration, prices of zero or less included.
THEOREM FillsAreWalksHolds == Spec => FillsAreWalks
<1> DEFINE Fits(leg) == IsWalk(leg.fill, leg.side, config.orderSize, books[leg.symbol],
                                config.slippage, config.feeBps)
<1>1. ASSUME BacktestInv, [Next]_vars, Traded, NEW i \in 1 .. 3
      PROVE  Fits(Last.legs[i])
  <2>1. Simulate
      BY <1>1, TradedSimulates
  <2>2. MadeOf(Last, Head(opportunities))
      BY <1>1, <2>1, SimulateTrades
  <2> DEFINE r == Normalized(Head(opportunities).legs)[i]
             leg == Last.legs[i]
  <2>3. r \in Legs /\ books[r.symbol] # None /\ leg = LegFill(r)
      BY <2>2 DEF MadeOf
  <2> HIDE DEF r, leg
  <2>4. r.symbol \in Symbols /\ r.side \in {"Buy", "Sell"}
      BY <2>3 DEF Legs
  <2>5. config \in Configs /\ books \in [Symbols -> BookSet \cup {None}]
      BY <1>1 DEF BacktestInv, ReplayInv
  <2>6. LevelsFor(r.side, books[r.symbol]) \in Levels
      BY <2>3, <2>4, <2>5, BookLevels
  <2>7. IsWalk(FillOrder(r.side, config.orderSize, books[r.symbol], config.slippage, config.feeBps),
               r.side, config.orderSize, books[r.symbol], config.slippage, config.feeBps)
      BY <2>4, <2>5, <2>6, ConfigFacts, FillWalks
  <2>8. /\ leg.symbol = r.symbol /\ leg.side = r.side
        /\ leg.fill = FillOrder(r.side, config.orderSize, books[r.symbol], config.slippage,
                                config.feeBps)
      BY <2>3 DEF LegFill
  <2>9. Fits(leg)
      BY <2>7, <2>8, Zenon
  <2> QED
      BY <2>9 DEF leg
<1>2. BacktestInv /\ [Next]_vars
        => [Traded => \A i \in 1 .. 3 : Fits(Last.legs[i])]_vars
    BY <1>1
<1> QED
    BY <1>2, BacktestInvariant, PTL DEF Spec, FillsAreWalks
-------------------------------------------------------------------------------
\* The second invariant: the books are in the graph, as far as their prices are above
\* zero, and an opportunity that closes gains what is expected of it.
LegRate(leg) == weight[<<leg.from, leg.to>>]

RatesSum(legs) == LegRate(legs[1]) + LegRate(legs[2]) + LegRate(legs[3])

Pays(opp) ==
    /\ \A i \in 1 .. 3 : LegRate(opp.legs[i]) \in Int
    /\ opp.legs[3].to = opp.legs[1].from =>
         opp.expected # None /\ opp.expected + FeeThreshold <= -RatesSum(opp.legs)

OpportunitiesPay == \A k \in 1 .. Len(opportunities) : Pays(opportunities[k])

InGraph(s) ==
    LET bid == TopOf("Sell", books[s])
        ask == TopOf("Buy", books[s])
    IN  /\ bid > 0 => weight[<<Base[s], Quote[s]>>] = -Log[bid]
        /\ ask > 0 => weight[<<Quote[s], Base[s]>>] = Log[ask]

BooksInGraph == OnePairEach => \A s \in Symbols : books[s] # None => InGraph(s)

PromiseInv == BooksInGraph /\ OpportunitiesPay

\* What the filters make of a sound report pays.
LEMMA OpportunityPays ==
    ASSUME GraphTypeOK, DetectionAssumption, NEW r \in Reports, ReportSound(r), IsOpportunity(r)
    PROVE  Pays(Opportunity(r))
<1> DEFINE c == r.cycle
           opp == Opportunity(r)
<1>1. c \in Seq(Currencies) /\ Len(c) = 4 /\ r.profit \in Int \cup {None}
    BY DEF Reports, IsOpportunity
<1>2. \A i \in 1 .. 3 : weight[<<c[i], c[i + 1]>>] \in Int
  <2> TAKE i \in 1 .. 3
  <2>1. i \in 1 .. Len(c) /\ i + 1 \in 1 .. Len(c) /\ i \in 1 .. Len(c) - 1
      BY <1>1
  <2>2. weight[<<c[i], c[i + 1]>>] # None
      BY <2>1 DEF ReportSound, Weighted
  <2>3. <<c[i], c[i + 1]>> \in Pairs
      BY <1>1, <2>1 DEF Pairs
  <2> QED
      BY <2>2, <2>3 DEF GraphTypeOK
<1>3. /\ \A i \in 1 .. 3 : opp.legs[i].from = c[i] /\ opp.legs[i].to = c[i + 1]
      /\ opp.expected = IF r.profit = None THEN None ELSE r.profit - FeeThreshold
    BY DEF Opportunity, RouteLeg
<1> HIDE DEF opp
<1>4. 1 \in 1 .. 3 /\ 2 \in 1 .. 3 /\ 3 \in 1 .. 3 /\ 1 + 1 = 2 /\ 2 + 1 = 3 /\ 3 + 1 = 4
    OBVIOUS
<1>5. /\ LegRate(opp.legs[1]) = weight[<<c[1], c[2]>>] /\ weight[<<c[1], c[2]>>] \in Int
      /\ LegRate(opp.legs[2]) = weight[<<c[2], c[3]>>] /\ weight[<<c[2], c[3]>>] \in Int
      /\ LegRate(opp.legs[3]) = weight[<<c[3], c[4]>>] /\ weight[<<c[3], c[4]>>] \in Int
      /\ opp.legs[1].from = c[1] /\ opp.legs[3].to = c[4]
    BY <1>2, <1>3, <1>4, Zenon DEF LegRate
<1>6. FeeThreshold \in Int
    BY DetectionAssumption DEF FeeThreshold
<1>7. ASSUME opp.legs[3].to = opp.legs[1].from
      PROVE  opp.expected # None /\ opp.expected + FeeThreshold <= -RatesSum(opp.legs)
  <2>1. Closed(c)
      BY <1>1, <1>5, <1>7 DEF Closed
  <2>2. r.profit # None /\ r.profit <= TriangleGain(c)
      BY <2>1, <1>1 DEF ReportSound
  <2>3. TriangleGain(c) = -RatesSum(opp.legs)
      BY <1>5 DEF TriangleGain, RatesSum
  <2>4. opp.expected = r.profit - FeeThreshold /\ r.profit \in Int
      BY <2>2, <1>1, <1>3
  <2>5. RatesSum(opp.legs) \in Int
      BY <1>5 DEF RatesSum
  <2> QED
      BY <2>2, <2>3, <2>4, <2>5, <1>6, DetectionAssumption
<1>8. \A i \in 1 .. 3 : LegRate(opp.legs[i]) \in Int
    BY <1>2, <1>3 DEF LegRate
<1>9. Pays(opp)
    BY <1>7, <1>8 DEF Pays
<1> QED
    BY <1>9 DEF opp

LEMMA FilterPays ==
    ASSUME DetectionInv, OpportunitiesPay, Filter, UNCHANGED graphState
    PROVE  OpportunitiesPay'
<1> DEFINE r == Head(found)
<1>1. /\ found \in Seq(Reports) /\ found # <<>> /\ GraphTypeOK
      /\ opportunities \in Seq(Opportunities) /\ weight' = weight
    BY DEF DetectionInv, GraphInv, GraphSound, SearchInv, SearchTypeOK, Filter, graphState
<1>2. r \in Reports /\ r = found[1] /\ Len(found) \in Nat \ {0}
    BY <1>1, HeadTailOf
<1>3. ReportSound(r)
  <2>1. 1 \in 1 .. Len(found)
      BY <1>2
  <2> QED
      BY <2>1, <1>2 DEF DetectionInv, SearchInv, FoundSound
<1>4. opportunities' = IF IsOpportunity(r) THEN Append(opportunities, Opportunity(r))
                       ELSE opportunities
    BY DEF Filter
<1>5. IsOpportunity(r) => Pays(Opportunity(r))
    BY <1>1, <1>2, <1>3, OpportunityPays, DetectionAssumption
<1> DEFINE opp == Opportunity(r)
<1> HIDE DEF r, opp
<1>6. ASSUME NEW k \in 1 .. Len(opportunities')
      PROVE  Pays(opportunities'[k])
  <2>1. CASE IsOpportunity(r)
    <3>1. opportunities' = Append(opportunities, opp)
        BY <1>4, <2>1 DEF opp
    <3>2. \/ k \in 1 .. Len(opportunities) /\ opportunities'[k] = opportunities[k]
          \/ opportunities'[k] = opp
        BY <1>1, <1>6, <3>1
    <3>3. Pays(opp)
        BY <1>5, <2>1 DEF opp
    <3> QED
        BY <3>2, <3>3, Zenon DEF OpportunitiesPay
  <2>2. CASE ~IsOpportunity(r)
      BY <1>4, <2>2 DEF OpportunitiesPay
  <2> QED
      BY <2>1, <2>2
<1>7. weight' = weight /\ \A k \in 1 .. Len(opportunities') : Pays(opportunities'[k])
    BY <1>1, <1>6
<1> QED
    BY <1>7 DEF OpportunitiesPay, Pays, LegRate, RatesSum

\* A tick puts its book into the graph, and leaves the others there.
LEMMA AdvanceRates ==
    ASSUME BacktestInv, BooksInGraph, Advance
    PROVE  BooksInGraph'
<1> SUFFICES ASSUME OnePairEach
             PROVE  \A s \in Symbols : books'[s] # None => InGraph(s)'
    BY DEF BooksInGraph, OnePairEach
<1>1. PICK tick \in Ticks : Replay(tick)
    BY DEF Advance
<1>2. CASE tick.symbol \in Symbols
  <2> DEFINE s == tick.symbol
             b == Base[s]
             q == Quote[s]
  <2>1. /\ books' = [books EXCEPT ![s] = BookOf(tick)] /\ books \in [Symbols -> BookSet \cup {None}]
        /\ SetRate(b, q, tick.bid, tick.ask)
      BY <1>1, <1>2 DEF Replay, BacktestInv, ReplayInv
  <2>2. b \in Currencies /\ q \in Currencies /\ b # q /\ s \in Symbols
      BY <1>2, PairEnds
  <2>3. Quotable(tick.bid) /\ Quotable(tick.ask)
      BY TickFacts, PricesQuotable
  <2>4. GraphSound
      BY DEF BacktestInv, DetectionInv, GraphInv
  <2> HIDE DEF s, b, q
  <2>5. /\ weight'[<<b, q>>] = IF tick.bid > 0 THEN -Log[tick.bid] ELSE weight[<<b, q>>]
        /\ weight'[<<q, b>>] = IF tick.ask > 0 THEN Log[tick.ask] ELSE weight[<<q, b>>]
        /\ \A p \in Pairs : p # <<b, q>> /\ p # <<q, b>> => weight'[p] = weight[p]
      BY <2>1, <2>2, <2>3, <2>4, SetRateSound
  <2>6. InGraph(s)'
    <3>1. books'[s] = BookOf(tick)
        BY <2>1, <2>2
    <3>2. TopOf("Sell", books'[s]) = tick.bid /\ TopOf("Buy", books'[s]) = tick.ask
        BY <3>1 DEF TopOf, BookOf
    <3> QED
        BY <2>5, <3>2 DEF InGraph, b, q
  <2>7. ASSUME NEW t \in Symbols, t # s, books'[t] # None
        PROVE  InGraph(t)'
    <3>1. books'[t] = books[t]
        BY <2>1, <2>7
    <3>2. Base[t] \in Currencies /\ Quote[t] \in Currencies
        BY PairEnds
    <3>3. {Base[t], Quote[t]} # {b, q}
        BY <2>2, <2>7 DEF OnePairEach, b, q
    <3>4. /\ <<Base[t], Quote[t]>> \in Pairs /\ <<Quote[t], Base[t]>> \in Pairs
          /\ <<Base[t], Quote[t]>> # <<b, q>> /\ <<Base[t], Quote[t]>> # <<q, b>>
          /\ <<Quote[t], Base[t]>> # <<b, q>> /\ <<Quote[t], Base[t]>> # <<q, b>>
        BY <3>2, <3>3 DEF Pairs
    <3>5. /\ weight'[<<Base[t], Quote[t]>>] = weight[<<Base[t], Quote[t]>>]
          /\ weight'[<<Quote[t], Base[t]>>] = weight[<<Quote[t], Base[t]>>]
        BY <2>5, <3>4
    <3>6. InGraph(t)
        BY <2>7, <3>1 DEF BooksInGraph
    <3> QED
        BY <3>1, <3>5, <3>6 DEF InGraph
  <2> QED
      BY <2>6, <2>7
<1>3. CASE tick.symbol \notin Symbols
  <2>1. books' = books /\ weight' = weight
      BY <1>1, <1>3 DEF Replay, graphState
  <2> QED
      BY <2>1 DEF BooksInGraph, InGraph
<1> QED
    BY <1>2, <1>3

LEMMA PromiseStep ==
    ASSUME BacktestInv, PromiseInv, [Next]_vars
    PROVE  PromiseInv'
<1>1. CASE Advance
  <2>1. opportunities' = opportunities /\ opportunities = <<>>
      BY <1>1 DEF Advance, Replay, BacktestInv, ReplayInv
  <2>2. OpportunitiesPay'
      BY <2>1, EmptySound DEF OpportunitiesPay
  <2> QED
      BY <1>1, <2>2, AdvanceRates DEF PromiseInv
<1>2. CASE ~Advance
  <2>1. books' = books /\ UNCHANGED graphState
      BY <1>2 DEF Next, Detect, Detected, PassOver, Simulate, Finish, NextOpportunity, vars,
                  backtestVars, replayVars
  <2>2. weight' = weight
      BY <2>1 DEF graphState
  <2>3. BooksInGraph'
      BY <2>1, <2>2 DEF PromiseInv, BooksInGraph, InGraph, OnePairEach
  <2>4. CASE Filter
    <3>1. OpportunitiesPay'
        BY <2>1, <2>4, FilterPays DEF BacktestInv, PromiseInv
    <3> QED
        BY <2>3, <3>1 DEF PromiseInv
  <2>5. CASE at = "simulate" /\ NextOpportunity
    <3>1. opportunities \in Seq(Opportunities) /\ opportunities # <<>> /\ opportunities' = Tail(opportunities)
        BY <2>5 DEF BacktestInv, DetectionInv, ReplayInv, NextOpportunity
    <3>2. /\ Len(opportunities') = Len(opportunities) - 1 /\ Len(opportunities) \in Nat \ {0}
          /\ \A k \in 1 .. Len(opportunities') : opportunities'[k] = opportunities[k + 1]
        BY <3>1, HeadTailOf
    <3>3. \A k \in 1 .. Len(opportunities') : Pays(opportunities'[k])
      <4> TAKE k \in 1 .. Len(opportunities')
      <4>1. k + 1 \in 1 .. Len(opportunities) /\ opportunities'[k] = opportunities[k + 1]
          BY <3>2
      <4> QED
          BY <4>1, Zenon DEF PromiseInv, OpportunitiesPay
    <3> QED
        BY <2>2, <2>3, <3>3 DEF PromiseInv, OpportunitiesPay, Pays, LegRate, RatesSum
  <2>6. CASE ~Filter /\ ~(at = "simulate" /\ NextOpportunity)
    <3>1. opportunities' = opportunities
        BY <1>2, <2>6 DEF Next, Detect, BeginDetect, DetectStep, Detected, EndDetect, PassOver,
                          Simulate, Finish, vars, detectionVars
    <3> QED
        BY <2>2, <2>3, <3>1 DEF PromiseInv, OpportunitiesPay, Pays, LegRate, RatesSum
  <2> QED
      BY <2>3, <2>4, <2>5, <2>6 DEF PromiseInv
<1> QED
    BY <1>1, <1>2

LEMMA InitPromise == Init => PromiseInv
<1> SUFFICES ASSUME Init
             PROVE  PromiseInv
    OBVIOUS
<1>1. BooksInGraph
    BY DEF Init, BooksInGraph
<1>2. OpportunitiesPay
    BY EmptySound DEF Init, DetectionInit, OpportunitiesPay
<1> QED
    BY <1>1, <1>2 DEF PromiseInv

\* An order that gets anything from a side of one level gets the price of that level.
LEMMA FlatFill ==
    ASSUME NEW side \in {"Buy", "Sell"}, NEW size \in Nat, NEW book,
           LevelsFor(side, book) \in Levels, Len(LevelsFor(side, book)) = 1,
           NEW slippage \in SlippageModels, slippage.kind # "Fixed", NEW feeBps \in Int,
           FillOrder(side, size, book, slippage, feeBps).totalQty # 0
    PROVE  FillOrder(side, size, book, slippage, feeBps).avgPrice = LevelsFor(side, book)[1].price
<1> DEFINE levels == LevelsFor(side, book)
           units == Units(levels)
           got == Got(size, Len(units))
           top == levels[1].price
           average(cost) == Truncated(cost[got], got)
           fill == FillOrder(side, size, book, slippage, feeBps)
<1>1. PICK cum, cost : Blocks(levels, units, cum) /\ Summed(units, cost, Len(units))
    BY UnitsCost
<1>2. FillsAs(side, size, book, units, cost, slippage, feeBps)
    BY <1>1, FillIs
<1>3. /\ got \in 0 .. Len(units) /\ got # 0 /\ average(cost) \in Int
      /\ fill.avgPrice = Adjusted(side, average(cost), slippage)
    BY <1>2 DEF FillsAs
<1>4. units \in Seq(Int)
    BY <1>1, Zenon DEF Blocks
<1>5. top \in Int
  <2>1. levels \in Seq(Level) /\ 1 \in 1 .. Len(levels)
      BY DEF Levels
  <2>2. \A level \in Level : level.price \in Int
      BY DEF Level
  <2> HIDE DEF levels
  <2>3. levels[1] \in Level
      BY <2>1
  <2> QED
      BY <2>2, <2>3
<1>6. \A i \in 1 .. Len(units) : units[i] = top
  <2> TAKE i \in 1 .. Len(units)
  <2>1. PICK k \in 1 .. Len(levels) : i \in cum[k - 1] + 1 .. cum[k]
      BY <1>1, Zenon DEF Blocks
  <2>2. k = 1
      BY <2>1
  <2>3. units[i] = levels[k].price
      BY <1>1, <2>1, Zenon DEF Blocks
  <2> QED
      BY <2>2, <2>3
<1> HIDE DEF levels, units, got, top, fill
<1>7. Len(units) \in Nat /\ got \in Nat \ {0} /\ got \in 0 .. Len(units)
    BY <1>3, <1>4
<1>8. cost[got] - cost[0] <= (got - 0) * top /\ cost[got] - cost[0] >= (got - 0) * top
  <2>1. 0 \in 0 .. Len(units) /\ got \in 0 .. Len(units)
      BY <1>7
  <2>2. \A i \in 0 + 1 .. got : units[i] <= top /\ units[i] >= top
      BY <1>5, <1>6, <1>7
  <2> QED
      BY <1>1, <1>5, <1>7, <2>1, <2>2, StretchBounds
<1>9. cost[got] \in Int /\ cost[0] = 0
    BY <1>1, <1>3 DEF Summed
<1>10. got * top <= cost[got] /\ cost[got] <= got * top
  <2>1. got * top \in Int /\ got - 0 = got
      BY <1>5, <1>7
  <2> QED
      BY <1>8, <1>9, <2>1
<1>11. average(cost) = top
  <2>1. top <= average(cost) /\ average(cost) <= top
      BY <1>5, <1>7, <1>9, <1>10, TruncatedAtMost
  <2> QED
      BY <2>1, <1>3, <1>5
<1>12. Adjusted(side, top, slippage) = top
    BY <1>5 DEF Adjusted
<1> QED
    BY <1>3, <1>11, <1>12 DEF fill, top, levels

\* A leg at the price of its book gains what its edge weighs.
LEMMA LegGainsRate ==
    ASSUME BacktestInv, BooksInGraph, OnePairEach, config.slippage.kind # "Fixed",
           NEW r \in Legs, AlongItsPair(r), books[r.symbol] # None,
           LegFill(r).fill.totalQty # 0, LegFill(r).fill.avgPrice > 0
    PROVE  LegGain(LegFill(r)) = -LegRate(r)
<1> DEFINE book == books[r.symbol]
           top == TopOf(r.side, book)
<1>1. r.symbol \in Symbols /\ r.side \in {"Buy", "Sell"}
    BY DEF Legs
<1>2. config \in Configs /\ books \in [Symbols -> BookSet \cup {None}]
    BY DEF BacktestInv, ReplayInv
<1>3. /\ LevelsFor(r.side, book) = <<[price |-> top, size |-> Depth]>>
      /\ LevelsFor(r.side, book) \in Levels /\ top \in Prices
    BY <1>1, <1>2, BookLevels
<1>4. /\ LegFill(r).fill = FillOrder(r.side, config.orderSize, book, config.slippage, config.feeBps)
      /\ LegFill(r).side = r.side
    BY DEF LegFill
<1> HIDE DEF book, top
<1>5. Len(LevelsFor(r.side, book)) = 1 /\ LevelsFor(r.side, book)[1].price = top
    BY <1>3
<1>6. LegFill(r).fill.avgPrice = top
    BY <1>1, <1>2, <1>3, <1>4, <1>5, ConfigFacts, FlatFill
<1>7. InGraph(r.symbol)
    BY <1>1 DEF BooksInGraph
<1>8. top > 0 /\ Log[top] \in Int
    BY <1>3, <1>6, PricesQuotable DEF Quotable
<1>9. CASE r.side = "Sell"
  <2>1. LegRate(r) = -Log[top]
      BY <1>7, <1>8, <1>9 DEF InGraph, AlongItsPair, InputOf, OutputOf, LegRate, top, book
  <2> QED
      BY <1>4, <1>6, <1>8, <1>9, <2>1 DEF LegGain
<1>10. CASE r.side = "Buy"
  <2>1. LegRate(r) = Log[top]
      BY <1>7, <1>8, <1>10 DEF InGraph, AlongItsPair, InputOf, OutputOf, LegRate, top, book
  <2> QED
      BY <1>4, <1>6, <1>8, <1>10, <2>1 DEF LegGain
<1> QED
    BY <1>1, <1>9, <1>10

\* Without fixed slippage and at prices above zero, every cycle simulate_trade makes
\* gains what detection promised and the fees it took off, before the fees of the
\* fills: for any ticks, rates and configuration.
THEOREM TradeKeepsPromiseHolds == Spec => TradeKeepsPromise
<1> DEFINE Promised ==
              /\ Traded /\ Chained(Last.legs)
              /\ OnePairEach
              /\ config.slippage.kind # "Fixed"
              /\ \A i \in 1 .. 3 : Last.legs[i].fill.avgPrice > 0
           Kept ==
              /\ Head(opportunities).expected # None
              /\ LegGain(Last.legs[1]) + LegGain(Last.legs[2]) + LegGain(Last.legs[3])
                   >= Head(opportunities).expected + FeeThreshold
<1>1. ASSUME BacktestInv, PromiseInv, [Next]_vars, Promised
      PROVE  Kept
  <2> DEFINE opp == Head(opportunities)
             route == Normalized(opp.legs)
             legs == Last.legs
  <2>1. Simulate
      BY <1>1, TradedSimulates
  <2>2. MadeOf(Last, opp)
      BY <1>1, <2>1, SimulateTrades
  <2>3. /\ Joined(opp.legs) /\ opp \in Opportunities /\ opp = opportunities[1]
        /\ 1 \in 1 .. Len(opportunities)
    <3>1. at = "simulate" /\ NextOpportunity
        BY <2>1 DEF Simulate
    <3>2. DetectionInv /\ search = "idle" /\ opportunities # <<>> /\ opportunities \in Seq(Opportunities)
        BY <1>1, <3>1 DEF BacktestInv, ReplayInv, DetectionInv
    <3> QED
        BY <3>1, <3>2, NextOpportunityInv, HeadTailOf
  <2>4. Pays(opp)
      BY <1>1, <2>3, Zenon DEF PromiseInv, OpportunitiesPay
  <2>5. /\ Turned(route, opp.legs)
        /\ \A i \in 1 .. 3 : /\ route[i] \in Legs /\ books[route[i].symbol] # None
                             /\ legs[i] = LegFill(route[i]) /\ legs[i].fill.totalQty # 0
      BY <2>2 DEF MadeOf
  <2>6. \A i \in 1 .. 3 : legs[i].fill.avgPrice > 0
      BY <1>1
  <2>7. 1 \in 1 .. 3 /\ 2 \in 1 .. 3 /\ 3 \in 1 .. 3
      OBVIOUS
  <2>8. /\ AlongItsPair(opp.legs[1]) /\ AlongItsPair(opp.legs[2]) /\ AlongItsPair(opp.legs[3])
        /\ opp.legs[1].to = opp.legs[2].from /\ opp.legs[2].to = opp.legs[3].from
      BY <2>3, <2>7, Zenon DEF Joined
  <2> HIDE DEF route, legs, opp
  <2>9. \A i \in 1 .. 3 : AlongItsPair(route[i])
    <3>1. AlongItsPair(route[1]) /\ AlongItsPair(route[2]) /\ AlongItsPair(route[3])
        BY <2>5, <2>8, Zenon DEF Turned
    <3>2. \A i \in 1 .. 3 : i = 1 \/ i = 2 \/ i = 3
        OBVIOUS
    <3> QED
        BY <3>1, <3>2, Zenon
  <2>10. \A i \in 1 .. 3 : LegGain(legs[i]) = -LegRate(route[i])
    <3> TAKE i \in 1 .. 3
    <3>1. /\ route[i] \in Legs /\ books[route[i].symbol] # None /\ AlongItsPair(route[i])
          /\ LegFill(route[i]).fill.totalQty # 0 /\ LegFill(route[i]).fill.avgPrice > 0
          /\ legs[i] = LegFill(route[i])
        BY <2>5, <2>6, <2>9
    <3>2. BooksInGraph /\ OnePairEach /\ config.slippage.kind # "Fixed"
        BY <1>1 DEF PromiseInv
    <3> HIDE DEF Promised
    <3>3. LegGain(LegFill(route[i])) = -LegRate(route[i])
        BY <1>1, <3>1, <3>2, LegGainsRate
    <3> QED
        BY <3>1, <3>3, Zenon
  <2>11. /\ LegRate(opp.legs[1]) \in Int /\ LegRate(opp.legs[2]) \in Int /\ LegRate(opp.legs[3]) \in Int
      BY <2>4, <2>7, Zenon DEF Pays
  <2>12. LegGain(legs[1]) + LegGain(legs[2]) + LegGain(legs[3]) = -RatesSum(opp.legs)
    <3>1. /\ LegGain(legs[1]) = -LegRate(route[1]) /\ LegGain(legs[2]) = -LegRate(route[2])
          /\ LegGain(legs[3]) = -LegRate(route[3])
        BY <2>7, <2>10, Zenon
    <3>2. -LegRate(route[1]) + -LegRate(route[2]) + -LegRate(route[3]) = -RatesSum(opp.legs)
      <4> DEFINE x == LegRate(opp.legs[1])
                 y == LegRate(opp.legs[2])
                 z == LegRate(opp.legs[3])
      <4>1. \/ LegRate(route[1]) = x /\ LegRate(route[2]) = y /\ LegRate(route[3]) = z
            \/ LegRate(route[1]) = y /\ LegRate(route[2]) = z /\ LegRate(route[3]) = x
            \/ LegRate(route[1]) = z /\ LegRate(route[2]) = x /\ LegRate(route[3]) = y
          BY <2>5, Zenon DEF Turned
      <4>2. RatesSum(opp.legs) = x + y + z
          BY DEF RatesSum
      <4> HIDE DEF x, y, z
      <4>3. x \in Int /\ y \in Int /\ z \in Int
          BY <2>11 DEF x, y, z
      <4> QED
          BY <4>1, <4>2, <4>3
    <3> QED
        BY <3>1, <3>2
  <2>13. opp.legs[3].to = opp.legs[1].from
    <3>1. \A i \in 1 .. 2 : legs[i].output = legs[i + 1].input
        BY <1>1 DEF Chained, legs
    <3>2. legs[1].input = legs[3].output
        BY <1>1 DEF Chained, legs
    <3>3. 1 \in 1 .. 2 /\ 2 \in 1 .. 2 /\ 1 + 1 = 2 /\ 2 + 1 = 3
        OBVIOUS
    <3>4. \A i \in 1 .. 3 : legs[i].input = route[i].from /\ legs[i].output = route[i].to
        BY <2>5, <2>9 DEF LegFill, AlongItsPair
    <3>5. /\ route[1].to = route[2].from /\ route[2].to = route[3].from
          /\ route[3].to = route[1].from
        BY <2>7, <3>1, <3>2, <3>3, <3>4
    <3> QED
        BY <2>5, <3>5 DEF Turned
  <2>14. opp.expected # None /\ opp.expected + FeeThreshold <= -RatesSum(opp.legs)
      BY <2>4, <2>13 DEF Pays
  <2>15. opp.expected \in Int /\ FeeThreshold \in Int
      BY <2>3, <2>14, DetectionAssumption DEF Opportunities, FeeThreshold
  <2>16. RatesSum(opp.legs) \in Int
      BY <2>11 DEF RatesSum
  <2> QED
      BY <2>12, <2>14, <2>15, <2>16 DEF opp, legs
<1>2. BacktestInv /\ PromiseInv /\ [Next]_vars => [Promised => Kept]_vars
    BY <1>1
<1>3. BacktestInv /\ PromiseInv /\ [Next]_vars => PromiseInv'
    BY PromiseStep
<1> HIDE DEF Promised, Kept
<1>4. Spec => [][Promised => Kept]_vars
    BY <1>2, <1>3, InitPromise, BacktestInvariant, PTL DEF Spec
<1> QED
    BY <1>4 DEF TradeKeepsPromise, Promised, Kept
===============================================================================
