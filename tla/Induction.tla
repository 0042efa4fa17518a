------------------------------- MODULE Induction -------------------------------
(***************************************************************************)
(* Induction over an interval of numbers and the existence of functions    *)
(* defined by recursion over one, stated with sets and functions where the *)
(* library has operators.  The other proofs get from here what a recursive *)
(* definition computes.                                                    *)
(***************************************************************************)
EXTENDS Integers, Sequences, SequenceTheorems, WellFoundedInduction, TLAPS

\* Induction over the first n numbers, for the numbers of a set.
LEMMA UpTo ==
    ASSUME NEW n \in Nat, NEW S, 0 \in S, \A k \in 1 .. n : k - 1 \in S => k \in S
    PROVE  0 .. n \subseteq S
<1> DEFINE less == OpToRel(<, Nat)
           T == (0 .. n) \ S
<1>1. less = {ss \in Nat \X Nat : ss[1] < ss[2]}
    BY DEF OpToRel
<1>2. SUFFICES ASSUME T # {}
               PROVE  FALSE
    OBVIOUS
<1>3. IsWellFoundedOn(less, Nat)
    BY NatLessThanWellFounded
<1> HIDE DEF less
<1>4. PICK m \in T : \A k \in T : <<k, m>> \notin less
  <2>1. T \subseteq Nat
      OBVIOUS
  <2> QED
      BY <1>2, <1>3, <2>1, WFMin
<1>5. m \in 1 .. n /\ m \notin S
    OBVIOUS
<1>6. m - 1 \notin T
  <2>1. <<m - 1, m>> \in Nat \X Nat /\ <<m - 1, m>>[1] < <<m - 1, m>>[2]
      BY <1>5
  <2> QED
      BY <1>1, <1>4, <2>1
<1> QED
    BY <1>5, <1>6

\* f is made by recursion: it starts with a, and step makes each value of the
\* number and the value before it.  Operators and not formulas in the lemma below:
\* the provers find an instance of a name they need not look into.
IsStep(step, n, V) == step \in [(1 .. n) \X V -> V]
MadeBy(f, n, V, a, step) ==
    f \in [0 .. n -> V] /\ f[0] = a /\ \A k \in 1 .. n : f[k] = step[<<k, f[k - 1]>>]

\* A function that each value of which is made of the one before it exists.  A
\* recursive definition f[k \in 0 .. n] is a CHOOSE of such a function.
LEMMA RecursionExists ==
    ASSUME NEW n \in Nat, NEW V, NEW a \in V, NEW step, IsStep(step, n, V)
    PROVE  \E f : MadeBy(f, n, V, a, step)
<1> DEFINE S == {m \in 0 .. n :
                   \E f \in [0 .. m -> V] :
                     f[0] = a /\ \A k \in 1 .. m : f[k] = step[<<k, f[k - 1]>>]}
<1> USE DEF IsStep
<1>1. 0 \in S
  <2> DEFINE f == [k \in 0 .. 0 |-> a]
  <2>1. f \in [0 .. 0 -> V] /\ f[0] = a /\ 1 .. 0 = {} /\ 0 \in 0 .. n
      OBVIOUS
  <2> HIDE DEF f
  <2> QED
      BY <2>1
<1>2. ASSUME NEW m \in 1 .. n, m - 1 \in S
      PROVE  m \in S
  <2>1. PICK f \in [0 .. m - 1 -> V] :
          f[0] = a /\ \A k \in 1 .. m - 1 : f[k] = step[<<k, f[k - 1]>>]
      BY <1>2
  <2> DEFINE g == [k \in 0 .. m |-> IF k = m THEN step[<<m, f[m - 1]>>] ELSE f[k]]
  <2>2. m - 1 \in 0 .. m - 1 /\ f[m - 1] \in V /\ <<m, f[m - 1]>> \in (1 .. n) \X V
      BY <2>1
  <2>3. step[<<m, f[m - 1]>>] \in V
      BY <2>2
  <2>4. g \in [0 .. m -> V]
      BY <2>1, <2>3
  <2>5. g[m] = step[<<m, f[m - 1]>>] /\ \A k \in 0 .. m - 1 : g[k] = f[k]
      OBVIOUS
  <2> HIDE DEF g
  <2>6. g[0] = a
      BY <2>1, <2>5
  <2>7. ASSUME NEW k \in 1 .. m
        PROVE  g[k] = step[<<k, g[k - 1]>>]
    <3>1. k - 1 \in 0 .. m - 1 /\ g[k - 1] = f[k - 1]
        BY <2>5
    <3>2. CASE k = m
        BY <2>5, <3>1, <3>2
    <3>3. CASE k # m
        BY <2>1, <2>5, <3>1, <3>3
    <3> QED
        BY <3>2, <3>3
  <2> QED
      BY <2>4, <2>6, <2>7
<1>3. 0 .. n \subseteq S
    BY <1>1, <1>2, UpTo
<1> QED
    BY <1>3 DEF MadeBy

\* Sums of the first numbers of a sequence, as a recursive definition computes them.
Sums(numbers, n, sum) ==
    sum = [k \in 0 .. n |-> IF k = 0 THEN 0 ELSE sum[k - 1] + numbers[k]]

AreInts(numbers, n) == \A k \in 1 .. n : numbers[k] \in Int

LEMMA SumsExist ==
    ASSUME NEW n \in Nat, NEW numbers, AreInts(numbers, n)
    PROVE  \E sum : Sums(numbers, n, sum)
<1> DEFINE step == [p \in (1 .. n) \X Int |-> p[2] + numbers[p[1]]]
<1>1. IsStep(step, n, Int)
  <2>1. ASSUME NEW p \in (1 .. n) \X Int
        PROVE  step[p] \in Int
      BY <2>1 DEF AreInts
  <2> QED
      BY <2>1 DEF IsStep
<1> HIDE DEF step
<1>2. 0 \in Int
    OBVIOUS
<1>3. PICK f : f \in [0 .. n -> Int] /\ f[0] = 0 /\ \A k \in 1 .. n : f[k] = step[<<k, f[k - 1]>>]
  <2>1. \E f : MadeBy(f, n, Int, 0, step)
      BY <1>1, <1>2, RecursionExists
  <2> QED
      BY <2>1 DEF MadeBy
<1>4. \A k \in 0 .. n : f[k] = IF k = 0 THEN 0 ELSE f[k - 1] + numbers[k]
  <2> SUFFICES ASSUME NEW k \in 0 .. n, k # 0
               PROVE  f[k] = f[k - 1] + numbers[k]
      BY <1>3, Zenon
  <2>1. k \in 1 .. n /\ k - 1 \in 0 .. n
      OBVIOUS
  <2>2. f[k] = step[<<k, f[k - 1]>>] /\ <<k, f[k - 1]>> \in (1 .. n) \X Int
      BY <1>3, <2>1
  <2> QED
      BY <2>2 DEF step
<1>5. f = [k \in 0 .. n |-> IF k = 0 THEN 0 ELSE f[k - 1] + numbers[k]]
    BY <1>3, <1>4
<1> QED
    BY <1>5, Zenon DEF Sums

LEMMA SumsAre ==
    ASSUME NEW n \in Nat, NEW numbers, AreInts(numbers, n), NEW sum, Sums(numbers, n, sum)
    PROVE  /\ sum \in [0 .. n -> Int] /\ sum[0] = 0
           /\ \A k \in 1 .. n : sum[k] = sum[k - 1] + numbers[k]
<1> DEFINE S == {k \in 0 .. n : sum[k] \in Int}
<1>1. \A k \in 0 .. n : sum[k] = IF k = 0 THEN 0 ELSE sum[k - 1] + numbers[k]
    BY Zenon DEF Sums
<1>2. 0 \in 0 .. n /\ sum[0] = 0
    BY <1>1
<1>3. ASSUME NEW k \in 1 .. n
      PROVE  sum[k] = sum[k - 1] + numbers[k]
  <2>1. k \in 0 .. n /\ k # 0
      OBVIOUS
  <2> QED
      BY <1>1, <2>1
<1>4. 0 .. n \subseteq S
  <2>1. 0 \in S
      BY <1>2
  <2>2. ASSUME NEW k \in 1 .. n, k - 1 \in S
        PROVE  k \in S
      BY <1>3, <2>2 DEF AreInts
  <2> QED
      BY <2>1, <2>2, UpTo
<1>5. DOMAIN sum = 0 .. n
    BY Zenon DEF Sums
<1>6. sum = [k \in 0 .. n |-> sum[k]]
    BY Zenon DEF Sums
<1>7. \A k \in 0 .. n : sum[k] \in Int
    BY <1>4
<1> QED
    BY <1>2, <1>3, <1>6, <1>7

\* When each number is at most the rise of a height, their sum is at most the
\* whole rise, and less if one of them is less; and likewise from below.
LEMMA SumsTelescope ==
    ASSUME NEW n \in Nat, NEW numbers, AreInts(numbers, n), NEW sum, Sums(numbers, n, sum),
           NEW height \in [0 .. n -> Int]
    PROVE  /\ (\A k \in 1 .. n : numbers[k] <= height[k] - height[k - 1])
              => /\ sum[n] <= height[n] - height[0]
                 /\ \A j \in 1 .. n : numbers[j] < height[j] - height[j - 1]
                                        => sum[n] < height[n] - height[0]
           /\ (\A k \in 1 .. n : numbers[k] >= height[k] - height[k - 1])
              => sum[n] >= height[n] - height[0]
<1>1. /\ sum \in [0 .. n -> Int] /\ sum[0] = 0
      /\ \A k \in 1 .. n : sum[k] = sum[k - 1] + numbers[k]
    BY SumsAre
<1>2. ASSUME NEW k \in 1 .. n
      PROVE  /\ k - 1 \in 0 .. n /\ k \in 0 .. n /\ numbers[k] \in Int
             /\ height[k] \in Int /\ height[k - 1] \in Int
             /\ sum[k - 1] \in Int /\ sum[k] = sum[k - 1] + numbers[k]
  <2>1. k - 1 \in 0 .. n /\ k \in 0 .. n
      OBVIOUS
  <2> QED
      BY <1>1, <2>1 DEF AreInts
<1>3. 0 \in 0 .. n /\ n \in 0 .. n /\ height[0] \in Int
    OBVIOUS
<1>4. ASSUME \A k \in 1 .. n : numbers[k] <= height[k] - height[k - 1]
      PROVE  sum[n] <= height[n] - height[0]
  <2> DEFINE S == {k \in 0 .. n : sum[k] <= height[k] - height[0]}
  <2>1. 0 \in S
      BY <1>1, <1>3
  <2>2. ASSUME NEW k \in 1 .. n, k - 1 \in S
        PROVE  k \in S
    <3>1. sum[k - 1] <= height[k - 1] - height[0] /\ numbers[k] <= height[k] - height[k - 1]
        BY <1>4, <2>2
    <3>2. sum[k] <= height[k] - height[0]
        BY <1>2, <1>3, <3>1
    <3> QED
        BY <1>2, <3>2
  <2>3. 0 .. n \subseteq S
      BY <2>1, <2>2, UpTo
  <2> QED
      BY <1>3, <2>3
<1>5. ASSUME \A k \in 1 .. n : numbers[k] <= height[k] - height[k - 1],
             NEW j \in 1 .. n, numbers[j] < height[j] - height[j - 1]
      PROVE  sum[n] < height[n] - height[0]
  <2> DEFINE S == {k \in 0 .. n : /\ sum[k] <= height[k] - height[0]
                                  /\ j <= k => sum[k] < height[k] - height[0]}
  <2>1. 0 \in S
      BY <1>1, <1>3
  <2>2. ASSUME NEW k \in 1 .. n, k - 1 \in S
        PROVE  k \in S
    <3>1. /\ sum[k - 1] <= height[k - 1] - height[0] /\ numbers[k] <= height[k] - height[k - 1]
          /\ j <= k - 1 => sum[k - 1] < height[k - 1] - height[0]
        BY <1>5, <2>2
    <3>2. sum[k] <= height[k] - height[0]
        BY <1>2, <1>3, <3>1
    <3>3. ASSUME j <= k
          PROVE  sum[k] < height[k] - height[0]
      <4>1. CASE j = k
          BY <1>2, <1>3, <1>5, <3>1, <4>1
      <4>2. CASE j # k
        <5>1. j <= k - 1
            BY <3>3, <4>2
        <5> QED
            BY <1>2, <1>3, <3>1, <5>1
      <4> QED
          BY <4>1, <4>2
    <3> QED
        BY <1>2, <3>2, <3>3
  <2>3. 0 .. n \subseteq S
      BY <2>1, <2>2, UpTo
  <2> QED
      BY <1>3, <2>3
<1>6. ASSUME \A k \in 1 .. n : numbers[k] >= height[k] - height[k - 1]
      PROVE  sum[n] >= height[n] - height[0]
  <2> DEFINE S == {k \in 0 .. n : sum[k] >= height[k] - height[0]}
  <2>1. 0 \in S
      BY <1>1, <1>3
  <2>2. ASSUME NEW k \in 1 .. n, k - 1 \in S
        PROVE  k \in S
    <3>1. sum[k - 1] >= height[k - 1] - height[0] /\ numbers[k] >= height[k] - height[k - 1]
        BY <1>6, <2>2
    <3>2. sum[k] >= height[k] - height[0]
        BY <1>2, <1>3, <3>1
    <3> QED
        BY <1>2, <3>2
  <2>3. 0 .. n \subseteq S
      BY <2>1, <2>2, UpTo
  <2> QED
      BY <1>3, <2>3
<1> QED
    BY <1>4, <1>5, <1>6

\* What a reader collects that skips some lines of a file.  The recursion is unfolded
\* here, once: Collects says of a function that it holds what there is after each line.
Collects(lines, skip, n, read) ==
    read = [k \in 0 .. n |->
              IF k = 0 THEN <<>>
              ELSE IF lines[k] # skip THEN Append(read[k - 1], lines[k]) ELSE read[k - 1]]

LEMMA CollectsExists ==
    ASSUME NEW S, NEW skip, NEW lines \in Seq(S), NEW n \in 0 .. Len(lines)
    PROVE  \E read : Collects(lines, skip, n, read)
<1> DEFINE V == Seq(S)
           step == [p \in (1 .. n) \X V |->
                      IF lines[p[1]] # skip THEN Append(p[2], lines[p[1]]) ELSE p[2]]
<1>1. n \in Nat /\ <<>> \in V /\ \A k \in 1 .. n : lines[k] \in S
    OBVIOUS
<1>2. step \in [(1 .. n) \X V -> V]
  <2>1. ASSUME NEW p \in (1 .. n) \X V
        PROVE  step[p] \in V
    <3>1. lines[p[1]] \in S /\ p[2] \in V
        BY <1>1, <2>1
    <3> QED
        BY <3>1
  <2> QED
      BY <2>1
<1> HIDE DEF V, step
<1>3. PICK f : f \in [0 .. n -> V] /\ f[0] = <<>> /\ \A k \in 1 .. n : f[k] = step[<<k, f[k - 1]>>]
  <2>1. IsStep(step, n, V)
      BY <1>2 DEF IsStep
  <2>2. \E f : MadeBy(f, n, V, <<>>, step)
      BY <1>1, <2>1, RecursionExists
  <2> QED
      BY <2>2 DEF MadeBy
<1>4. \A k \in 0 .. n :
        f[k] = IF k = 0 THEN <<>>
               ELSE IF lines[k] # skip THEN Append(f[k - 1], lines[k]) ELSE f[k - 1]
  <2> SUFFICES ASSUME NEW k \in 0 .. n, k # 0
               PROVE  f[k] = IF lines[k] # skip THEN Append(f[k - 1], lines[k]) ELSE f[k - 1]
      BY <1>3, Zenon
  <2>1. k \in 1 .. n /\ k - 1 \in 0 .. n
      BY <1>1
  <2>2. <<k, f[k - 1]>> \in (1 .. n) \X V
      BY <1>3, <2>1
  <2>3. f[k] = step[<<k, f[k - 1]>>]
      BY <1>3, <2>1
  <2> QED
      BY <2>2, <2>3 DEF step
<1>5. f = [k \in 0 .. n |->
             IF k = 0 THEN <<>>
             ELSE IF lines[k] # skip THEN Append(f[k - 1], lines[k]) ELSE f[k - 1]]
    BY <1>3, <1>4
<1> QED
    BY <1>5, Zenon DEF Collects

\* What is collected stands in the order of the lines at the given indices.
InOrder(seq, lines, skip, indices) ==
    \A i, j \in DOMAIN seq : i < j =>
      \E k, m \in indices :
        k < m /\ lines[k] # skip /\ lines[m] # skip /\ lines[k] = seq[i] /\ lines[m] = seq[j]

LEMMA InOrderGrows ==
    ASSUME NEW seq, NEW lines, NEW skip, NEW T, NEW U, T \subseteq U, InOrder(seq, lines, skip, T)
    PROVE  InOrder(seq, lines, skip, U)
<1> SUFFICES ASSUME NEW i \in DOMAIN seq, NEW j \in DOMAIN seq, i < j
             PROVE  \E k, m \in U :
                      k < m /\ lines[k] # skip /\ lines[m] # skip /\ lines[k] = seq[i] /\ lines[m] = seq[j]
    BY DEF InOrder
<1>1. PICK k \in T, m \in T :
        k < m /\ lines[k] # skip /\ lines[m] # skip /\ lines[k] = seq[i] /\ lines[m] = seq[j]
    BY DEF InOrder
<1> QED
    BY <1>1

\* The other lines, all of them and nothing else, in their order.
OthersInOrder(out, lines, skip, S) ==
    /\ out \in Seq(S)
    /\ \A i \in DOMAIN out : \E j \in 1 .. Len(lines) : lines[j] # skip /\ lines[j] = out[i]
    /\ \A j \in 1 .. Len(lines) : lines[j] # skip => \E i \in DOMAIN out : lines[j] = out[i]
    /\ InOrder(out, lines, skip, 1 .. Len(lines))

LEMMA CollectedKeepsOrder ==
    ASSUME NEW S, NEW skip, NEW lines \in Seq(S), NEW read,
           Collects(lines, skip, Len(lines), read)
    PROVE  OthersInOrder(read[Len(lines)], lines, skip, S)
<1> DEFINE n == Len(lines)
           Good(k) ==
             /\ read[k] \in Seq(S)
             /\ \A i \in DOMAIN read[k] :
                  \E j \in 1 .. k : lines[j] # skip /\ lines[j] = read[k][i]
             /\ \A j \in 1 .. k :
                  lines[j] # skip => \E i \in DOMAIN read[k] : lines[j] = read[k][i]
             /\ InOrder(read[k], lines, skip, 1 .. k)
           G == {k \in 0 .. n : Good(k)}
<1>1. n \in Nat /\ DOMAIN lines = 1 .. n /\ \A k \in 1 .. n : lines[k] \in S
    OBVIOUS
<1>2. Collects(lines, skip, n, read)
    OBVIOUS
<1>3. n = Len(lines)
    OBVIOUS
<1> HIDE DEF n
<1>4. /\ read[0] = <<>>
      /\ \A k \in 1 .. n :
           read[k] = IF lines[k] # skip THEN Append(read[k - 1], lines[k]) ELSE read[k - 1]
  <2>1. \A k \in 0 .. n :
          read[k] = IF k = 0 THEN <<>>
                    ELSE IF lines[k] # skip THEN Append(read[k - 1], lines[k])
                    ELSE read[k - 1]
      BY <1>2, Zenon DEF Collects
  <2>2. 0 \in 0 .. n /\ \A k \in 1 .. n : k \in 0 .. n /\ k # 0
      BY <1>1
  <2> QED
      BY <2>1, <2>2, Zenon
<1>5. 0 \in G
  <2>1. read[0] \in Seq(S) /\ DOMAIN read[0] = {} /\ 1 .. 0 = {} /\ 0 \in 0 .. n
      BY <1>1, <1>4
  <2>2. InOrder(read[0], lines, skip, 1 .. 0)
      BY <2>1 DEF InOrder
  <2> QED
      BY <2>1, <2>2
<1>6. ASSUME NEW k \in 1 .. n, k - 1 \in G
      PROVE  k \in G
  <2>1. Good(k - 1) /\ k \in 0 .. n /\ 1 .. k = (1 .. k - 1) \cup {k} /\ k \notin 1 .. k - 1
      BY <1>1, <1>6
  <2>2. CASE lines[k] = skip
    <3>1. read[k] = read[k - 1]
        BY <1>4, <2>2
    <3>2. InOrder(read[k], lines, skip, 1 .. k)
      <4>1. 1 .. k - 1 \subseteq 1 .. k
          BY <2>1
      <4>2. InOrder(read[k - 1], lines, skip, 1 .. k - 1)
          BY <2>1
      <4> QED
          BY <3>1, <4>1, <4>2, InOrderGrows
    <3> QED
        BY <2>1, <2>2, <3>1, <3>2
  <2>3. CASE lines[k] # skip
    <3> DEFINE old == read[k - 1]
               new == read[k]
    <3>1. new = Append(old, lines[k]) /\ old \in Seq(S) /\ lines[k] \in S
        BY <1>1, <1>4, <2>1, <2>3
    <3>2. /\ new \in Seq(S) /\ Len(new) = Len(old) + 1 /\ Len(old) \in Nat
          /\ DOMAIN old = 1 .. Len(old) /\ DOMAIN new = 1 .. Len(old) + 1
          /\ \A i \in 1 .. Len(old) : new[i] = old[i]
          /\ new[Len(old) + 1] = lines[k]
        BY <3>1, AppendProperties
    <3>3. /\ \A i \in DOMAIN old : \E j \in 1 .. k - 1 : lines[j] # skip /\ lines[j] = old[i]
          /\ \A j \in 1 .. k - 1 : lines[j] # skip => \E i \in DOMAIN old : lines[j] = old[i]
          /\ InOrder(old, lines, skip, 1 .. k - 1)
        BY <2>1
    <3> HIDE DEF old, new
    <3>4. \A i \in DOMAIN new : \E j \in 1 .. k : lines[j] # skip /\ lines[j] = new[i]
      <4> SUFFICES ASSUME NEW i \in DOMAIN new
                   PROVE  \E j \in 1 .. k : lines[j] # skip /\ lines[j] = new[i]
          OBVIOUS
      <4>1. CASE i \in DOMAIN old
        <5>1. PICK j \in 1 .. k - 1 : lines[j] # skip /\ lines[j] = old[i]
            BY <3>3, <4>1
        <5> QED
            BY <2>1, <3>2, <4>1, <5>1
      <4>2. CASE i \notin DOMAIN old
        <5>1. new[i] = lines[k]
            BY <3>2, <4>2
        <5> QED
            BY <2>1, <2>3, <5>1
      <4> QED
          BY <4>1, <4>2
    <3>5. \A j \in 1 .. k : lines[j] # skip => \E i \in DOMAIN new : lines[j] = new[i]
      <4> SUFFICES ASSUME NEW j \in 1 .. k, lines[j] # skip
                   PROVE  \E i \in DOMAIN new : lines[j] = new[i]
          OBVIOUS
      <4>1. CASE j = k
          BY <3>2, <4>1
      <4>2. CASE j # k
        <5>1. PICK i \in DOMAIN old : lines[j] = old[i]
            BY <2>1, <3>3, <4>2
        <5> QED
            BY <3>2, <5>1
      <4> QED
          BY <4>1, <4>2
    <3>6. ASSUME NEW i \in DOMAIN new, NEW j \in DOMAIN new, i < j
          PROVE  \E a, b \in 1 .. k :
                   a < b /\ lines[a] # skip /\ lines[b] # skip /\ lines[a] = new[i] /\ lines[b] = new[j]
      <4>0. InOrder(old, lines, skip, 1 .. k)
        <5>1. 1 .. k - 1 \subseteq 1 .. k
            BY <2>1
        <5> QED
            BY <3>3, <5>1, InOrderGrows
      <4>1. CASE j \in DOMAIN old
        <5>1. i \in DOMAIN old /\ new[i] = old[i] /\ new[j] = old[j]
            BY <3>2, <3>6, <4>1
        <5> QED
            BY <3>6, <4>0, <4>1, <5>1 DEF InOrder
      <4>2. CASE j \notin DOMAIN old
        <5>1. i \in DOMAIN old /\ new[j] = lines[k] /\ new[i] = old[i]
            BY <3>2, <3>6, <4>2
        <5>2. PICK m \in 1 .. k - 1 : lines[m] # skip /\ lines[m] = old[i]
            BY <3>3, <5>1
        <5>3. m \in 1 .. k /\ k \in 1 .. k /\ m < k
            BY <2>1, <5>2
        <5> QED
            BY <2>3, <5>1, <5>2, <5>3
      <4> QED
          BY <4>1, <4>2
    <3>7. InOrder(new, lines, skip, 1 .. k)
        BY <3>6, Zenon DEF InOrder
    <3> QED
        BY <2>1, <3>2, <3>4, <3>5, <3>7 DEF new
  <2> QED
      BY <2>2, <2>3
<1>7. n \in G
  <2>1. 0 .. n \subseteq G
      BY <1>1, <1>5, <1>6, UpTo
  <2> QED
      BY <1>1, <2>1
<1>8. Good(n)
    BY <1>7
<1> QED
    BY <1>3, <1>8, Zenon DEF OthersInOrder
===============================================================================
