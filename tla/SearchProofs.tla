----------------------------- MODULE SearchProofs -----------------------------
(***************************************************************************)
(* The inductive invariants of a search, and that every step of the search *)
(* and of the filters preserves them while the graph stays as it is.       *)
(*                                                                         *)
(* What it reports: a relaxation only ever lowers a distance, so a         *)
(* distance is never below what its predecessor and the edge between them  *)
(* make now (Tight), also when the search is cut short.  The walk back     *)
(* therefore telescopes.                                                   *)
(*                                                                         *)
(* Whether it reports: predecessors only form cycles that gain, and a node *)
(* whose distance is lowered in as many rounds as there are nodes has a    *)
(* cycle of predecessors before it.  A search that is cut short therefore  *)
(* has a reason; one that is not leaves no edge that could be lowered,     *)
(* round which no cycle gains.                                             *)
(***************************************************************************)
EXTENDS DetectionEngine, Induction, FiniteSetTheorems, WellFoundedInduction, TLAPS

EdgesWeighted ==
    \A a \in Currencies : \A k \in 1 .. Len(neighbours[a]) :
        weight[<<a, neighbours[a][k]>>] # None

GraphSound == GraphTypeOK /\ EdgesWeighted

Searches == {"relax", "scan", "walk"}

\* The way to x through y is no longer than the distance of x.
Supports(y, x) ==
    /\ dist[y] # None
    /\ weight[<<y, x>>] # None
    /\ dist[x] >= dist[y] + weight[<<y, x>>]

Tight(x) == dist[x] # None => pred[x] = x \/ Supports(pred[x], x)

DistancesTight ==
    search \in Searches =>
        /\ pred \in [Currencies -> Currencies]
        /\ \A x \in Currencies : Tight(x)

QueuedReached == \A k \in 1 .. Len(queue) : dist[queue[k]] # None

EdgesOfNode ==
    edges # <<>> =>
        /\ search \in Searches
        /\ node \in Currencies
        /\ dist[node] # None
        /\ \A k \in 1 .. Len(edges) : weight[<<node, edges[k]>>] # None

WalkSupported(walk) ==
    /\ \A i \in 1 .. Len(walk) : dist[walk[i]] # None
    /\ \A i \in 1 .. Len(walk) - 1 : Supports(walk[i + 1], walk[i])

PathFromNode ==
    search = "walk" =>
        /\ edges # <<>> /\ path # <<>>
        /\ path[1] = node
        /\ WalkSupported(path)

Weighted(cycle) == \A i \in 1 .. Len(cycle) - 1 : weight[<<cycle[i], cycle[i + 1]>>] # None

ReportSound(r) ==
    /\ Weighted(r.cycle)
    /\ Len(r.cycle) = 4 /\ Closed(r.cycle) => r.profit # None /\ r.profit <= TriangleGain(r.cycle)

FoundSound ==
    /\ \A k \in 1 .. Len(found) : ReportSound(found[k])
    /\ search = "idle" => found = <<>>

SearchInv ==
    /\ SearchTypeOK
    /\ DistancesTight
    /\ QueuedReached
    /\ EdgesOfNode
    /\ PathFromNode
    /\ FoundSound
-------------------------------------------------------------------------------
LEMMA HeadTailOf ==
    ASSUME NEW S, NEW list \in Seq(S), list # <<>>
    PROVE  /\ Head(list) \in S /\ Head(list) = list[1] /\ Len(list) \in Nat \ {0}
           /\ Tail(list) \in Seq(S) /\ Len(Tail(list)) = Len(list) - 1
           /\ \A k \in 1 .. Len(Tail(list)) : Tail(list)[k] = list[k + 1]
    OBVIOUS

LEMMA AppendOf ==
    ASSUME NEW S, NEW list \in Seq(S), NEW x \in S
    PROVE  /\ Append(list, x) \in Seq(S) /\ Len(Append(list, x)) = Len(list) + 1
           /\ Append(list, x) # <<>> /\ Len(list) \in Nat
           /\ Append(list, x)[Len(list) + 1] = x
           /\ \A k \in 1 .. Len(list) : Append(list, x)[k] = list[k]
    OBVIOUS

LEMMA EmptySound ==
    ASSUME NEW S
    PROVE <<>> \in Seq(S) /\ Len(<<>>) = 0
    OBVIOUS

\* A set of positions that is not empty has a last one.
LEMMA BoundedHasMax ==
    ASSUME NEW n \in Nat, NEW M, M \subseteq 1 .. n, M # {}
    PROVE  \E j \in M : \A i \in M : i <= j
<1> DEFINE less == OpToRel(<, Nat)
           B == {b \in Nat : \A i \in M : i <= b}
<1>1. B \subseteq Nat /\ n \in B
    OBVIOUS
<1>2. IsWellFoundedOn(less, Nat)
    BY NatLessThanWellFounded
<1>3. less = {ss \in Nat \X Nat : ss[1] < ss[2]}
    BY DEF OpToRel
<1> HIDE DEF less, B
<1>4. PICK b \in B : \A c \in B : <<c, b>> \notin less
    BY <1>1, <1>2, WFMin
<1>5. ASSUME NEW c \in B
      PROVE  ~(c < b)
  <2>1. <<c, b>> \notin {ss \in Nat \X Nat : ss[1] < ss[2]}
      BY <1>3, <1>4
  <2>2. <<c, b>> \in Nat \X Nat /\ <<c, b>>[1] = c /\ <<c, b>>[2] = b
      BY <1>1, <1>4
  <2> QED
      BY <2>1, <2>2
<1>6. b \in Nat /\ \A i \in M : i <= b
    BY <1>4 DEF B
<1>7. b \in M
  <2> SUFFICES ASSUME b \notin M
               PROVE  FALSE
      OBVIOUS
  <2>1. ASSUME NEW i \in M
        PROVE  i \in Nat \ {0} /\ i < b
    <3>1. i \in 1 .. n /\ i # b /\ i <= b /\ b \in Nat
        BY <1>6
    <3> QED
        BY <3>1
  <2>2. b - 1 \in Nat /\ \A i \in M : i <= b - 1
    <3>1. PICK i \in M : TRUE
        OBVIOUS
    <3>2. b \in Nat /\ i \in Nat \ {0} /\ i < b
        BY <2>1, <1>6
    <3>3. b - 1 \in Nat
        BY <3>2
    <3> QED
        BY <2>1, <1>6, <3>3
  <2>3. b - 1 \in B
      BY <2>2 DEF B
  <2> QED
    <3>1. ~(b - 1 < b)
        BY <2>3, <1>5
    <3> QED
        BY <3>1, <1>6
<1> QED
    BY <1>6, <1>7

LEMMA WeightTyped ==
    ASSUME GraphTypeOK, NEW a \in Currencies, NEW b \in Currencies
    PROVE  /\ weight[<<a, b>>] \in Int \cup {None}
           /\ weight[<<a, b>>] # None => weight[<<a, b>>] \in Int
    BY DEF GraphTypeOK, Pairs

\* The search begins in a sound state.
LEMMA StartSearchSound ==
    ASSUME GraphSound, SearchInv, currencies # <<>>, search = "idle", StartSearch,
           UNCHANGED graphState
    PROVE  SearchInv'
<1> USE DetectionAssumption
<1>1. First \in Currencies
    BY HeadTailOf DEF GraphSound, GraphTypeOK, First
<1>2. /\ search' = "relax" /\ queue' = <<First>>
      /\ edges' = edges /\ node' = node /\ path' = path /\ found' = found
      /\ unscanned' = unscanned /\ weight' = weight
      /\ dist' = [c \in Currencies |-> IF c = First THEN 0 ELSE None]
      /\ pred' = [c \in Currencies |-> First]
      /\ count' = [c \in Currencies |-> 0]
    BY DEF StartSearch, graphState
<1>3. edges = <<>>
    BY DEF SearchInv, EdgesOfNode, Searches
<1>4. SearchTypeOK'
    BY <1>1, <1>2 DEF SearchInv, SearchTypeOK
<1>5. DistancesTight'
    BY <1>1, <1>2 DEF DistancesTight, Tight, Searches
<1>6. QueuedReached'
    BY <1>1, <1>2 DEF QueuedReached
<1>7. EdgesOfNode' /\ PathFromNode'
    BY <1>2, <1>3 DEF EdgesOfNode, PathFromNode
<1>8. FoundSound'
    BY <1>2 DEF SearchInv, FoundSound
<1> QED
    BY <1>4, <1>5, <1>6, <1>7, <1>8 DEF SearchInv

LEMMA PopNodeSound ==
    ASSUME GraphSound, SearchInv, PopNode, UNCHANGED graphState
    PROVE  SearchInv'
<1>1. /\ search = "relax" /\ edges = <<>> /\ queue # <<>>
      /\ node' = Head(queue) /\ queue' = Tail(queue) /\ edges' = neighbours[node']
      /\ search' = search /\ dist' = dist /\ pred' = pred /\ count' = count
      /\ unscanned' = unscanned /\ path' = path /\ found' = found /\ weight' = weight
    BY DEF PopNode, graphState
<1>2. /\ node' \in Currencies /\ queue' \in Seq(Currencies) /\ node' = queue[1]
      /\ Len(queue) \in Nat \ {0} /\ Len(queue') = Len(queue) - 1
      /\ \A k \in 1 .. Len(queue') : queue'[k] = queue[k + 1]
    BY <1>1, HeadTailOf DEF SearchInv, SearchTypeOK
<1>3. /\ edges' \in Seq(Currencies)
      /\ \A k \in 1 .. Len(edges') : weight[<<node', edges'[k]>>] # None
    BY <1>1, <1>2 DEF GraphSound, GraphTypeOK, EdgesWeighted
<1>4. SearchTypeOK'
    BY <1>1, <1>2, <1>3 DEF SearchInv, SearchTypeOK
<1>5. DistancesTight' /\ PathFromNode' /\ FoundSound'
    BY <1>1 DEF SearchInv, DistancesTight, Tight, Supports, PathFromNode, FoundSound,
                ReportSound, Weighted, TriangleGain
<1>6. QueuedReached'
    BY <1>1, <1>2 DEF SearchInv, QueuedReached
<1>7. dist[node'] # None
    BY <1>2 DEF SearchInv, QueuedReached
<1>8. EdgesOfNode'
    BY <1>1, <1>2, <1>3, <1>7 DEF EdgesOfNode, Searches
<1> QED
    BY <1>4, <1>5, <1>6, <1>8 DEF SearchInv

\* A shorter distance leaves every distance supported.
LEMMA ShortenTight ==
    ASSUME GraphSound, SearchInv, search \in Searches, edges # <<>>,
           Improves(Head(edges)), Shorten(Head(edges)), weight' = weight
    PROVE  /\ dist' \in [Currencies -> Int \cup {None}]
           /\ pred' \in [Currencies -> Currencies]
           /\ \A x \in Currencies : dist[x] # None => dist'[x] # None
           /\ dist'[Head(edges)] # None
           /\ \A x \in Currencies : Tight(x)'
<1> USE DetectionAssumption
<1> DEFINE v == Head(edges)
           w == weight[<<node, v>>]
<1>1. /\ node \in Currencies /\ dist[node] # None /\ v \in Currencies /\ w # None
    BY HeadTailOf DEF SearchInv, SearchTypeOK, EdgesOfNode
<1>2. /\ dist \in [Currencies -> Int \cup {None}] /\ pred \in [Currencies -> Currencies]
      /\ \A x \in Currencies : Tight(x)
    BY DEF SearchInv, SearchTypeOK, DistancesTight
<1>3. w \in Int /\ dist[node] \in Int
    BY <1>1, <1>2, WeightTyped DEF GraphSound
<1>4. /\ dist' = [dist EXCEPT ![v] = dist[node] + w]
      /\ pred' = [pred EXCEPT ![v] = node]
      /\ dist[v] # None => dist[node] + w < dist[v]
    BY DEF Shorten, Improves, Through
<1> HIDE DEF v, w
<1>5. /\ dist' \in [Currencies -> Int \cup {None}] /\ pred' \in [Currencies -> Currencies]
      /\ dist'[v] = dist[node] + w /\ pred'[v] = node
      /\ \A x \in Currencies : x # v => dist'[x] = dist[x] /\ pred'[x] = pred[x]
    BY <1>1, <1>2, <1>3, <1>4
<1>6. dist'[v] \in Int /\ dist'[v] # None
    BY <1>3, <1>5
<1>7. \A y \in Currencies :
        dist[y] # None => dist[y] \in Int /\ dist'[y] \in Int /\ dist'[y] <= dist[y]
    BY <1>2, <1>3, <1>4, <1>5
<1>8. ASSUME NEW x \in Currencies
      PROVE  Tight(x)'
  <2>1. CASE x = v /\ node = v
      BY <2>1, <1>5 DEF Tight
  <2>2. CASE x = v /\ node # v
    <3>1. dist'[node] = dist[node] /\ weight'[<<pred'[x], x>>] = w
        BY <2>2, <1>1, <1>5 DEF w
    <3>2. dist'[x] >= dist'[pred'[x]] + weight'[<<pred'[x], x>>]
        BY <2>2, <3>1, <1>3, <1>5
    <3> QED
        BY <2>2, <3>1, <3>2, <1>1, <1>5 DEF Tight, Supports
  <2>3. CASE x # v /\ (dist[x] = None \/ pred[x] = x)
      BY <2>3, <1>5 DEF Tight
  <2>4. CASE x # v /\ dist[x] # None /\ pred[x] # x
    <3> DEFINE y == pred[x]
               u == weight[<<y, x>>]
    <3>1. y \in Currencies /\ dist[y] # None /\ u # None /\ dist[x] >= dist[y] + u
        BY <2>4, <1>2 DEF Tight, Supports
    <3>2. u \in Int /\ dist[x] \in Int
        BY <2>4, <3>1, <1>2, WeightTyped DEF GraphSound
    <3>3. dist'[x] = dist[x] /\ pred'[x] = y /\ weight'[<<y, x>>] = u
        BY <2>4, <1>5
    <3> HIDE DEF y, u
    <3>4. dist'[y] # None /\ dist'[x] >= dist'[y] + u
        BY <3>1, <3>2, <3>3, <1>7
    <3> QED
        BY <3>1, <3>3, <3>4 DEF Tight, Supports
  <2> QED
      BY <2>1, <2>2, <2>3, <2>4
<1> QED
    BY <1>5, <1>6, <1>7, <1>8 DEF v

LEMMA RelaxEdgeSound ==
    ASSUME GraphSound, SearchInv, RelaxEdge, UNCHANGED graphState
    PROVE  SearchInv'
<1> USE DetectionAssumption
<1> DEFINE v == Head(edges)
<1>1. /\ search = "relax" /\ edges # <<>> /\ search' = search /\ node' = node
      /\ unscanned' = unscanned /\ path' = path /\ found' = found /\ weight' = weight
    BY DEF RelaxEdge, graphState
<1>2. /\ v \in Currencies /\ Tail(edges) \in Seq(Currencies) /\ Len(edges) \in Nat \ {0}
      /\ Len(Tail(edges)) = Len(edges) - 1
      /\ \A k \in 1 .. Len(Tail(edges)) : Tail(edges)[k] = edges[k + 1]
      /\ queue \in Seq(Currencies)
    BY <1>1, HeadTailOf DEF SearchInv, SearchTypeOK
<1>3. edges' = Tail(edges) \/ edges' = <<>>
    BY DEF RelaxEdge
<1>4. \/ dist' = dist /\ pred' = pred /\ count' = count /\ queue' = queue
      \/ /\ Improves(v) /\ Shorten(v)
         /\ count' = count \/ count' = [count EXCEPT ![v] = @ + 1]
         /\ queue' = queue \/ queue' = <<>> \/ queue' = Append(queue, v)
    BY DEF RelaxEdge
<1>5. /\ dist' \in [Currencies -> Int \cup {None}]
      /\ pred' \in [Currencies -> Currencies]
      /\ \A x \in Currencies : dist[x] # None => dist'[x] # None
      /\ \A x \in Currencies : Tight(x)'
      /\ dist' = dist \/ dist'[v] # None
    BY <1>1, <1>4, ShortenTight DEF SearchInv, SearchTypeOK, DistancesTight, Searches, Tight, Supports
<1>6. /\ count' \in [Currencies -> Nat] /\ queue' \in Seq(Currencies)
  <2> HIDE DEF v
  <2>1. count \in [Currencies -> Nat] /\ queue \in Seq(Currencies)
      BY DEF SearchInv, SearchTypeOK
  <2>2. [count EXCEPT ![v] = @ + 1] \in [Currencies -> Nat]
      BY <2>1, <1>2
  <2>3. Append(queue, v) \in Seq(Currencies) /\ <<>> \in Seq(Currencies)
      BY <2>1, <1>2, AppendOf
  <2> QED
      BY <2>1, <2>2, <2>3, <1>4
<1>7. SearchTypeOK'
  <2>1. edges' \in Seq(Currencies)
      BY <1>2, <1>3, EmptySound
  <2>2. pred' \in [Currencies -> Currencies \cup {None}]
      BY <1>5
  <2> QED
      BY <2>1, <2>2, <1>1, <1>5, <1>6 DEF SearchInv, SearchTypeOK
<1>8. DistancesTight'
    BY <1>1, <1>5 DEF DistancesTight
<1>9. QueuedReached'
  <2>1. \A k \in 1 .. Len(queue) : queue[k] \in Currencies /\ dist[queue[k]] # None
      BY <1>2 DEF SearchInv, QueuedReached
  <2>2. CASE queue' = queue
      BY <2>1, <2>2, <1>5 DEF QueuedReached
  <2>3. CASE queue' = <<>>
      BY <2>3 DEF QueuedReached
  <2>4. CASE queue' = Append(queue, v) /\ queue' # queue
    <3>1. dist'[v] # None
        BY <2>4, <1>4, <1>1, ShortenTight DEF Searches
    <3>2. /\ Len(queue') = Len(queue) + 1 /\ Len(queue) \in Nat
          /\ queue'[Len(queue) + 1] = v
          /\ \A k \in 1 .. Len(queue) : queue'[k] = queue[k]
        BY <2>4, <1>2, AppendOf
    <3> QED
        BY <2>1, <3>1, <3>2, <1>5 DEF QueuedReached
  <2> QED
      BY <2>2, <2>3, <2>4, <1>4
<1>10. EdgesOfNode'
  <2>1. /\ node \in Currencies /\ dist'[node] # None
        /\ \A k \in 1 .. Len(edges) : weight[<<node, edges[k]>>] # None
      BY <1>1, <1>5 DEF SearchInv, EdgesOfNode
  <2> QED
      BY <2>1, <1>1, <1>2, <1>3 DEF EdgesOfNode, Searches
<1>11. PathFromNode' /\ FoundSound'
  <2>1. PathFromNode'
      BY <1>1 DEF SearchInv, PathFromNode
  <2>2. FoundSound'
      BY <1>1 DEF SearchInv, FoundSound, ReportSound, Weighted, TriangleGain
  <2> QED
      BY <2>1, <2>2
<1> QED
    BY <1>7, <1>8, <1>9, <1>10, <1>11 DEF SearchInv

\* The steps that leave distances and predecessors alone.
LEMMA ScanSound ==
    ASSUME GraphSound, SearchInv, UNCHANGED graphState,
           StartScan \/ ScanNode \/ ScanEdge \/ EndScan
    PROVE  SearchInv'
<1>1. /\ dist' = dist /\ pred' = pred /\ count' = count /\ queue' = queue
      /\ found' = found /\ weight' = weight /\ neighbours' = neighbours
      /\ search \in {"relax", "scan"} /\ search' \in {"scan", "walk", "done"}
    BY DEF StartScan, ScanNode, ScanEdge, EndScan, graphState
<1>2. QueuedReached' /\ FoundSound'
    BY <1>1 DEF SearchInv, QueuedReached, FoundSound, ReportSound, Weighted, TriangleGain
<1>3. DistancesTight'
    BY <1>1 DEF SearchInv, DistancesTight, Tight, Supports, Searches
<1>4. CASE StartScan \/ EndScan
  <2>1. /\ search' # "walk" /\ edges' = <<>> /\ node' = node /\ path' = path
        /\ unscanned' = unscanned \/ unscanned' = currencies
      BY <1>4 DEF StartScan, EndScan
  <2>2. SearchTypeOK'
      BY <2>1, <1>1 DEF SearchInv, SearchTypeOK, GraphSound, GraphTypeOK
  <2> QED
      BY <2>1, <2>2, <1>2, <1>3 DEF SearchInv, EdgesOfNode, PathFromNode
<1>5. CASE ScanNode
  <2>1. /\ search' = "scan" /\ path' = path
        /\ node' \in Currencies /\ unscanned' \in Seq(Currencies)
        /\ edges' = <<>> \/ (edges' = neighbours[node'] /\ dist[node'] # None)
    <3>1. unscanned \in Seq(Currencies) /\ unscanned # <<>>
        BY <1>5 DEF ScanNode, SearchInv, SearchTypeOK
    <3>2. Head(unscanned) \in Currencies /\ Tail(unscanned) \in Seq(Currencies)
        BY <3>1, HeadTailOf
    <3>3. /\ search' = search /\ search = "scan" /\ path' = path
          /\ node' = Head(unscanned) /\ unscanned' = Tail(unscanned)
        BY <1>5 DEF ScanNode
    <3>4. edges' = <<>> \/ (edges' = neighbours[node'] /\ dist[node'] # None)
      <4>1. edges' = IF dist[node'] = None THEN <<>> ELSE neighbours[node']
          BY <1>5 DEF ScanNode
      <4> QED
          BY <4>1
    <3> QED
        BY <3>2, <3>3, <3>4
  <2>2. /\ edges' \in Seq(Currencies)
        /\ edges' # <<>> => \A k \in 1 .. Len(edges') : weight[<<node', edges'[k]>>] # None
    <3>1. /\ neighbours[node'] \in Seq(Currencies)
          /\ \A k \in 1 .. Len(neighbours[node']) : weight[<<node', neighbours[node'][k]>>] # None
        BY <2>1 DEF GraphSound, GraphTypeOK, EdgesWeighted
    <3>2. CASE edges' = <<>>
        BY <3>2
    <3>3. CASE edges' = neighbours[node']
        BY <3>1, <3>3
    <3> QED
        BY <2>1, <3>2, <3>3
  <2>3. SearchTypeOK'
      BY <2>1, <2>2, <1>1 DEF SearchInv, SearchTypeOK
  <2>4. EdgesOfNode' /\ PathFromNode'
      BY <2>1, <2>2, <1>1 DEF EdgesOfNode, PathFromNode, Searches
  <2> QED
      BY <2>3, <2>4, <1>2, <1>3 DEF SearchInv
<1>6. CASE ScanEdge /\ Improves(Head(edges))
  <2>1. /\ search' = "walk" /\ path' = <<node>> /\ edges' = edges /\ node' = node
        /\ unscanned' = unscanned /\ edges # <<>>
      BY <1>6 DEF ScanEdge
  <2>2. node \in Currencies /\ dist[node] # None
      BY <2>1 DEF SearchInv, EdgesOfNode
  <2>3. SearchTypeOK'
      BY <2>1, <2>2, <1>1 DEF SearchInv, SearchTypeOK
  <2>4. EdgesOfNode' /\ PathFromNode'
      BY <2>1, <2>2, <1>1 DEF SearchInv, EdgesOfNode, PathFromNode, WalkSupported, Searches
  <2> QED
      BY <2>3, <2>4, <1>2, <1>3 DEF SearchInv
<1>7. CASE ScanEdge /\ ~Improves(Head(edges))
  <2>1. /\ search' = search /\ search = "scan" /\ path' = path /\ edges' = Tail(edges)
        /\ node' = node /\ unscanned' = unscanned /\ edges # <<>>
      BY <1>7 DEF ScanEdge
  <2>2. /\ edges' \in Seq(Currencies) /\ Len(edges') = Len(edges) - 1 /\ Len(edges) \in Nat
        /\ \A k \in 1 .. Len(edges') : edges'[k] = edges[k + 1]
      BY <2>1, HeadTailOf DEF SearchInv, SearchTypeOK
  <2>3. SearchTypeOK'
      BY <2>1, <2>2, <1>1 DEF SearchInv, SearchTypeOK
  <2>4. EdgesOfNode' /\ PathFromNode'
      BY <2>1, <2>2, <1>1 DEF SearchInv, EdgesOfNode, PathFromNode, Searches
  <2> QED
      BY <2>3, <2>4, <1>2, <1>3 DEF SearchInv
<1> QED
    BY <1>4, <1>5, <1>6, <1>7

\* The walk goes on over supported distances.
LEMMA WalkBackSound ==
    ASSUME GraphSound, SearchInv, WalkBack, UNCHANGED graphState
    PROVE  SearchInv'
<1> DEFINE n == Len(path)
<1>1. /\ search = "walk" /\ search' = search /\ path' = Append(path, Before)
      /\ ~Listed(path, Before)
      /\ dist' = dist /\ pred' = pred /\ count' = count /\ queue' = queue /\ node' = node
      /\ edges' = edges /\ unscanned' = unscanned /\ found' = found /\ weight' = weight
    BY DEF WalkBack, graphState
<1>2. /\ path \in Seq(Currencies) /\ path # <<>> /\ path[1] = node /\ edges # <<>>
      /\ WalkSupported(path) /\ pred \in [Currencies -> Currencies]
      /\ \A x \in Currencies : Tight(x)
    BY <1>1 DEF SearchInv, SearchTypeOK, PathFromNode, DistancesTight, Searches
<1>3. n \in Nat \ {0} /\ path[n] \in Currencies
    BY <1>2
<1>4. /\ Before \in Currencies /\ Before # path[n] /\ dist[path[n]] # None
    BY <1>1, <1>2, <1>3 DEF Before, Listed, WalkSupported
<1>5. Supports(Before, path[n]) /\ dist[Before] # None
    BY <1>2, <1>3, <1>4 DEF Tight, Supports, Before
<1> HIDE DEF n
<1>6. /\ path' \in Seq(Currencies) /\ Len(path') = n + 1 /\ path' # <<>>
      /\ path'[n + 1] = Before
      /\ \A k \in 1 .. n : path'[k] = path[k]
    BY <1>1, <1>2, <1>4, AppendOf DEF n
<1>7. WalkSupported(path')
    BY <1>2, <1>3, <1>5, <1>6 DEF WalkSupported, n
<1>8. SearchTypeOK'
    BY <1>1, <1>6 DEF SearchInv, SearchTypeOK
<1>9. DistancesTight' /\ QueuedReached' /\ EdgesOfNode' /\ FoundSound'
  <2>1. DistancesTight'
      BY <1>1 DEF SearchInv, DistancesTight, Tight, Supports, Searches
  <2>2. QueuedReached' /\ EdgesOfNode'
      BY <1>1 DEF SearchInv, QueuedReached, EdgesOfNode, Searches
  <2>3. FoundSound'
      BY <1>1 DEF SearchInv, FoundSound, ReportSound, Weighted, TriangleGain
  <2> QED
      BY <2>1, <2>2, <2>3
<1>10. PathFromNode'
  <2>1. path'[1] = path[1]
      BY <1>3, <1>6
  <2>2. WalkSupported(path)'
      BY <1>1, <1>7 DEF WalkSupported, Supports
  <2> QED
      BY <2>1, <2>2, <1>1, <1>2, <1>6 DEF PathFromNode
<1> QED
    BY <1>8, <1>9, <1>10 DEF SearchInv

\* The walk that a report reads is supported and starts at the node.
LEMMA WalkedSound ==
    ASSUME GraphSound, SearchInv, search = "walk"
    PROVE  /\ Walked \in Seq(Currencies) /\ Len(Walked) \in Nat \ {0}
           /\ Walked[1] = node
           /\ WalkSupported(Walked)
<1> DEFINE n == Len(path)
<1>1. /\ path \in Seq(Currencies) /\ path # <<>> /\ path[1] = node
      /\ WalkSupported(path) /\ pred \in [Currencies -> Currencies]
      /\ \A x \in Currencies : Tight(x)
    BY DEF SearchInv, SearchTypeOK, PathFromNode, DistancesTight, Searches
<1>2. n \in Nat \ {0} /\ path[n] \in Currencies
    BY <1>1
<1>3. Before \in Currencies /\ dist[path[n]] # None
    BY <1>1, <1>2 DEF Before, WalkSupported
<1>4. CASE Before = path[n]
    BY <1>1, <1>2, <1>4 DEF Walked
<1>5. CASE Before # path[n]
  <2>1. Supports(Before, path[n]) /\ dist[Before] # None
      BY <1>1, <1>2, <1>3, <1>5 DEF Tight, Supports, Before
  <2>2. Walked = Append(path, Before)
      BY <1>5 DEF Walked
  <2> HIDE DEF n
  <2>3. /\ Walked \in Seq(Currencies) /\ Len(Walked) = n + 1
        /\ Walked[n + 1] = Before
        /\ \A k \in 1 .. n : Walked[k] = path[k]
      BY <2>2, <1>1, <1>3, AppendOf DEF n
  <2>4. WalkSupported(Walked)
      BY <1>1, <1>2, <2>1, <2>3 DEF WalkSupported, n
  <2> QED
      BY <2>3, <2>4, <1>1, <1>2
<1> QED
    BY <1>4, <1>5

\* A route is what there is of the walk up to some place, backwards, and the end of
\* the relaxing edge: the place where the walk met it last, or else the whole walk.
LEMMA RouteShape ==
    ASSUME NEW walk \in Seq(Currencies), Len(walk) \in Nat \ {0}, NEW v \in Currencies
    PROVE  \E k \in 1 .. Len(walk) :
             /\ Route(walk, v) \in Seq(Currencies) /\ Len(Route(walk, v)) = k + 1
             /\ \A i \in 1 .. k : /\ Route(walk, v)[i] = walk[k + 1 - i]
                                  /\ k + 1 - i \in 1 .. Len(walk)
             /\ Route(walk, v)[k + 1] = v
             /\ walk[k] = v \/ (k = Len(walk) /\ ~Listed(walk, v))
<1> DEFINE k == IF Listed(walk, v) THEN LastMet(walk, v) ELSE Len(walk)
           cycle == Route(walk, v)
<1>1. Listed(walk, v) => LastMet(walk, v) \in 1 .. Len(walk) /\ walk[LastMet(walk, v)] = v
  <2> SUFFICES ASSUME Listed(walk, v)
               PROVE  LastMet(walk, v) \in 1 .. Len(walk) /\ walk[LastMet(walk, v)] = v
      OBVIOUS
  <2> DEFINE M == {j \in 1 .. Len(walk) : walk[j] = v}
  <2>1. M # {} /\ M \subseteq 1 .. Len(walk)
      BY DEF Listed
  <2>2. \E j \in M : \A i \in M : i <= j
      BY <2>1, BoundedHasMax
  <2>3. \E j \in 1 .. Len(walk) : walk[j] = v /\ \A i \in j + 1 .. Len(walk) : walk[i] # v
      BY <2>2
  <2> QED
      BY <2>3 DEF LastMet
<1>2. k \in 1 .. Len(walk) /\ (walk[k] = v \/ (k = Len(walk) /\ ~Listed(walk, v)))
    BY <1>1
<1>3. cycle = [i \in 1 .. k + 1 |-> IF i <= k THEN walk[k + 1 - i] ELSE v]
    BY DEF Route
<1> HIDE DEF k, cycle
<1>4. k \in Nat \ {0} /\ \A i \in 1 .. k : k + 1 - i \in 1 .. Len(walk)
    BY <1>2
<1>5. \A i \in 1 .. Len(walk) : walk[i] \in Currencies
    OBVIOUS
<1>6. cycle \in [1 .. k + 1 -> Currencies]
  <2>1. \A i \in 1 .. k + 1 : i <= k => i \in 1 .. k
      BY <1>4
  <2> QED
      BY <2>1, <1>3, <1>4, <1>5
<1>7. cycle \in Seq(Currencies) /\ Len(cycle) = k + 1
    BY <1>4, <1>6
<1>8. /\ \A i \in 1 .. k : i \in 1 .. k + 1 /\ i <= k
      /\ k + 1 \in 1 .. k + 1 /\ ~(k + 1 <= k)
    BY <1>4
<1>9. cycle[k + 1] = v /\ \A i \in 1 .. k : cycle[i] = walk[k + 1 - i]
    BY <1>3, <1>8
<1> QED
    BY <1>2, <1>4, <1>7, <1>9 DEF cycle

\* The route read off a walk: its legs have rates, and a triangle gains at least
\* what the relaxing edge would gain.
LEMMA RouteSound ==
    ASSUME GraphSound, SearchInv, search = "walk",
           NEW v \in Currencies, weight[<<node, v>>] # None
    PROVE  /\ Route(Walked, v) \in Seq(Currencies)
           /\ Gain(v) \in Int \cup {None}
           /\ ReportSound([cycle |-> Route(Walked, v), profit |-> Gain(v)])
<1> USE DetectionAssumption
<1> DEFINE walk == Walked
           cycle == Route(walk, v)
<1>1. /\ walk \in Seq(Currencies) /\ Len(walk) \in Nat \ {0} /\ walk[1] = node
      /\ WalkSupported(walk)
    BY WalkedSound
<1>2. /\ dist \in [Currencies -> Int \cup {None}] /\ node \in Currencies /\ dist[node] # None
    BY DEF SearchInv, SearchTypeOK, EdgesOfNode, PathFromNode
<1>3. weight[<<node, v>>] \in Int
    BY <1>2, WeightTyped DEF GraphSound
<1>4. Gain(v) \in Int \cup {None} /\ (dist[v] # None => Gain(v) \in Int)
    BY <1>2, <1>3 DEF Gain, Through
<1> HIDE DEF walk
<1>6. PICK k \in 1 .. Len(walk) :
        /\ cycle \in Seq(Currencies) /\ Len(cycle) = k + 1
        /\ \A i \in 1 .. k : cycle[i] = walk[k + 1 - i] /\ k + 1 - i \in 1 .. Len(walk)
        /\ cycle[k + 1] = v
    BY <1>1, RouteShape
<1> HIDE DEF cycle
<1>8. /\ cycle \in Seq(Currencies) /\ Len(cycle) = k + 1
      /\ \A i \in 1 .. k : cycle[i] = walk[k + 1 - i] /\ k + 1 - i \in 1 .. Len(walk)
      /\ cycle[k + 1] = v
    BY <1>6
<1>9. Weighted(cycle)
  <2> SUFFICES ASSUME NEW i \in 1 .. k
               PROVE  weight[<<cycle[i], cycle[i + 1]>>] # None
      BY <1>6, <1>8, <1>1 DEF Weighted
  <2>1. CASE i = k
    <3>1. k + 1 - k = 1 /\ k \in 1 .. k /\ i + 1 = k + 1
        BY <2>1, <1>1, <1>6
    <3>2. cycle[i] = node /\ cycle[i + 1] = v
        BY <2>1, <3>1, <1>1, <1>8
    <3> QED
        BY <3>2
  <2>2. CASE i < k
    <3>1. /\ i + 1 \in 1 .. k /\ k - i \in 1 .. Len(walk) - 1
          /\ k + 1 - (i + 1) = k - i /\ k + 1 - i = (k - i) + 1
        BY <2>2, <1>1, <1>6
    <3>2. cycle[i] = walk[(k - i) + 1] /\ cycle[i + 1] = walk[k - i]
        BY <3>1, <1>1, <1>6, <1>8
    <3> QED
        BY <3>1, <3>2, <1>1 DEF WalkSupported, Supports
  <2> QED
      BY <2>1, <2>2, <1>1, <1>6
<1>10. ASSUME Len(cycle) = 4, Closed(cycle)
       PROVE  Gain(v) # None /\ Gain(v) <= TriangleGain(cycle)
  <2>0. k = 3 /\ 3 + 1 - 1 = 3 /\ 3 + 1 - 2 = 2 /\ 3 + 1 - 3 = 1 /\ 3 + 1 = 4
    <3>1. k \in Nat
        BY <1>1, <1>6
    <3>2. Len(cycle) = 4 /\ Len(cycle) = k + 1
        BY <1>8, <1>10
    <3> QED
        BY <3>1, <3>2
  <2>1. /\ k = 3 /\ cycle[4] = v /\ cycle[1] = v
        /\ cycle[1] = walk[3] /\ cycle[2] = walk[2] /\ cycle[3] = walk[1]
        /\ Len(walk) >= 3
    <3>1. 1 \in 1 .. 3 /\ 2 \in 1 .. 3 /\ 3 \in 1 .. 3
        OBVIOUS
    <3>2. cycle[1] = walk[3] /\ cycle[2] = walk[2] /\ cycle[3] = walk[1] /\ cycle[4] = v
        BY <2>0, <3>1, <1>8
    <3>3. cycle[1] = v
        BY <2>0, <3>2, <1>8, <1>10 DEF Closed
    <3> QED
        BY <2>0, <3>2, <3>3, <1>1, <1>6
  <2>2. walk[1] = node /\ walk[3] = v /\ walk[2] \in Currencies
      BY <2>1, <1>1
  <2>3. Supports(walk[2], node) /\ Supports(v, walk[2])
    <3>1. 1 \in 1 .. Len(walk) - 1 /\ 2 \in 1 .. Len(walk) - 1 /\ 1 + 1 = 2 /\ 2 + 1 = 3
        BY <2>1, <1>1
    <3>2. Supports(walk[1 + 1], walk[1]) /\ Supports(walk[2 + 1], walk[2])
        BY <3>1, <1>1 DEF WalkSupported
    <3> QED
        BY <3>1, <3>2, <2>2
  <2> DEFINE a == weight[<<v, walk[2]>>]
             b == weight[<<walk[2], node>>]
             c == weight[<<node, v>>]
  <2>4. a \in Int /\ b \in Int /\ c \in Int
      BY <2>2, <2>3, <1>2, <1>3, WeightTyped DEF Supports, GraphSound
  <2>5. dist[v] \in Int /\ dist[node] \in Int /\ dist[walk[2]] \in Int
      BY <2>2, <2>3, <1>2 DEF Supports
  <2>6. dist[node] >= dist[walk[2]] + b /\ dist[walk[2]] >= dist[v] + a
      BY <2>3 DEF Supports
  <2>7. Gain(v) = dist[v] - (dist[node] + c) /\ Gain(v) # None
      BY <2>5, <1>4 DEF Gain, Through
  <2>8. TriangleGain(cycle) = -(a + b + c)
      BY <2>1, <2>2 DEF TriangleGain
  <2> HIDE DEF a, b, c
  <2>9. dist[v] - (dist[node] + c) <= -(a + b + c)
      BY <2>4, <2>5, <2>6
  <2> QED
      BY <2>7, <2>8, <2>9
<1> QED
    BY <1>4, <1>8, <1>9, <1>10 DEF ReportSound, walk, cycle

LEMMA ReportSoundStep ==
    ASSUME GraphSound, SearchInv, Report, UNCHANGED graphState
    PROVE  SearchInv'
<1> USE DetectionAssumption
<1> DEFINE v == Head(edges)
           r == [cycle |-> Route(Walked, v), profit |-> Gain(v)]
<1>1. /\ search = "walk" /\ search' = "scan" /\ found' = Append(found, r)
      /\ edges' = Tail(edges) /\ path' = <<>>
      /\ dist' = dist /\ pred' = pred /\ count' = count /\ queue' = queue /\ node' = node
      /\ unscanned' = unscanned /\ weight' = weight
    BY DEF Report, graphState
<1>2. /\ edges # <<>> /\ edges \in Seq(Currencies) /\ found \in Seq(Reports)
      /\ node \in Currencies /\ dist \in [Currencies -> Int \cup {None}]
      /\ \A k \in 1 .. Len(edges) : weight[<<node, edges[k]>>] # None
    BY <1>1 DEF SearchInv, SearchTypeOK, PathFromNode, EdgesOfNode
<1>3. /\ v \in Currencies /\ weight[<<node, v>>] # None
      /\ edges' \in Seq(Currencies) /\ Len(edges') = Len(edges) - 1 /\ Len(edges) \in Nat
      /\ \A k \in 1 .. Len(edges') : edges'[k] = edges[k + 1]
  <2>1. /\ v \in Currencies /\ v = edges[1] /\ Len(edges) \in Nat \ {0}
        /\ Tail(edges) \in Seq(Currencies) /\ Len(Tail(edges)) = Len(edges) - 1
        /\ \A k \in 1 .. Len(Tail(edges)) : Tail(edges)[k] = edges[k + 1]
      BY <1>2, HeadTailOf
  <2>2. 1 \in 1 .. Len(edges)
      BY <2>1
  <2>3. weight[<<node, v>>] # None
      BY <2>1, <2>2, <1>2
  <2> QED
      BY <2>1, <2>3, <1>1
<1>5. /\ Route(Walked, v) \in Seq(Currencies) /\ Gain(v) \in Int \cup {None}
      /\ ReportSound(r)
    BY <1>1, <1>3, RouteSound
<1> HIDE DEF v
<1>6. r \in Reports
    BY <1>5 DEF Reports
<1> HIDE DEF r
<1>7. /\ found' \in Seq(Reports) /\ Len(found') = Len(found) + 1 /\ Len(found) \in Nat
      /\ found'[Len(found) + 1] = r
      /\ \A k \in 1 .. Len(found) : found'[k] = found[k]
    BY <1>1, <1>2, <1>6, AppendOf
<1>8. SearchTypeOK'
    BY <1>1, <1>3, <1>7, EmptySound DEF SearchInv, SearchTypeOK
<1>9. DistancesTight' /\ QueuedReached' /\ PathFromNode'
    BY <1>1 DEF SearchInv, DistancesTight, Tight, Supports, QueuedReached, PathFromNode, Searches
<1>10. EdgesOfNode'
    BY <1>1, <1>2, <1>3 DEF SearchInv, EdgesOfNode, Searches
<1>11. FoundSound'
  <2>1. \A k \in 1 .. Len(found') : ReportSound(found'[k])
      BY <1>5, <1>7 DEF SearchInv, FoundSound
  <2>2. ASSUME NEW k \in 1 .. Len(found')
        PROVE  ReportSound(found[k])'
      BY <2>1, <1>1 DEF ReportSound, Weighted, TriangleGain
  <2> QED
      BY <2>2, <1>1 DEF FoundSound
<1> QED
    BY <1>8, <1>9, <1>10, <1>11 DEF SearchInv

LEMMA SearchStepSound ==
    ASSUME GraphSound, SearchInv, SearchStep, UNCHANGED graphState
    PROVE  SearchInv'
    BY PopNodeSound, RelaxEdgeSound, ScanSound, WalkBackSound, ReportSoundStep DEF SearchStep

LEMMA ResetSound ==
    ASSUME SearchReset
    PROVE  SearchInv'
<1>1. /\ search' = "idle" /\ dist' = Nowhere /\ pred' = Nowhere
      /\ count' = [c \in Currencies |-> 0]
      /\ queue' = <<>> /\ node' = None /\ edges' = <<>> /\ unscanned' = <<>>
      /\ path' = <<>> /\ found' = <<>>
    BY DEF SearchReset
<1>2. SearchTypeOK'
    BY <1>1, EmptySound DEF SearchTypeOK, Nowhere
<1> QED
    BY <1>1, <1>2, EmptySound DEF SearchInv, DistancesTight, QueuedReached, EdgesOfNode, PathFromNode,
                      FoundSound, Searches

LEMMA InitSound ==
    ASSUME SearchInit
    PROVE  SearchInv
<1>1. SearchTypeOK
    BY EmptySound DEF SearchInit, SearchTypeOK, Nowhere
<1> QED
    BY <1>1, EmptySound DEF SearchInit, SearchInv, DistancesTight, QueuedReached, EdgesOfNode,
                       PathFromNode, FoundSound, Searches

\* The filters take reports away.
LEMMA FilterSound ==
    ASSUME SearchInv, Filter, UNCHANGED graphState
    PROVE  SearchInv'
<1>1. /\ search = "done" /\ search' = search /\ found # <<>> /\ found' = Tail(found)
      /\ dist' = dist /\ pred' = pred /\ count' = count /\ queue' = queue /\ node' = node
      /\ edges' = edges /\ unscanned' = unscanned /\ path' = path /\ weight' = weight
    BY DEF Filter, graphState
<1>2. /\ found' \in Seq(Reports) /\ Len(found') = Len(found) - 1 /\ Len(found) \in Nat
      /\ \A k \in 1 .. Len(found') : found'[k] = found[k + 1]
    BY <1>1, HeadTailOf DEF SearchInv, SearchTypeOK
<1>3. SearchTypeOK'
    BY <1>1, <1>2 DEF SearchInv, SearchTypeOK
<1>4. ASSUME NEW k \in 1 .. Len(found')
      PROVE  ReportSound(found[k])'
  <2>1. k + 1 \in 1 .. Len(found) /\ found'[k] = found[k + 1]
      BY <1>2
  <2>2. ReportSound(found[k + 1])
      BY <2>1 DEF SearchInv, FoundSound
  <2> QED
      BY <2>1, <2>2, <1>1 DEF ReportSound, Weighted, TriangleGain
<1>5. FoundSound'
    BY <1>1, <1>4 DEF FoundSound
<1>6. DistancesTight' /\ QueuedReached' /\ PathFromNode' /\ EdgesOfNode'
    BY <1>1 DEF SearchInv, DistancesTight, Tight, Supports, QueuedReached, PathFromNode,
                EdgesOfNode, Searches
<1> QED
    BY <1>3, <1>5, <1>6 DEF SearchInv

\* While no search runs the graph may change.
LEMMA IdleSound ==
    ASSUME SearchInv, search = "idle", UNCHANGED searchVars
    PROVE  SearchInv'
<1>1. /\ search' = search /\ found' = found
      /\ dist' = dist /\ pred' = pred /\ count' = count /\ queue' = queue /\ node' = node
      /\ edges' = edges /\ unscanned' = unscanned /\ path' = path
    BY DEF searchVars
<1>2. edges = <<>> /\ found = <<>>
    BY DEF SearchInv, EdgesOfNode, FoundSound, Searches
<1>3. SearchTypeOK'
    BY <1>1 DEF SearchInv, SearchTypeOK
<1> QED
    BY <1>1, <1>2, <1>3, EmptySound DEF SearchInv, DistancesTight, QueuedReached, PathFromNode,
                EdgesOfNode, FoundSound, Searches

LEMMA StillSearch ==
    ASSUME SearchInv, UNCHANGED searchVars, UNCHANGED graphState
    PROVE  SearchInv'
    BY DEF searchVars, graphState, SearchInv, SearchTypeOK, DistancesTight, Tight, Supports,
       QueuedReached, EdgesOfNode, PathFromNode, WalkSupported, FoundSound, ReportSound, Weighted,
       TriangleGain

LEMMA ProfitSound ==
    ASSUME SearchInv
    PROVE  ProfitNotOverstated
    BY DEF SearchInv, FoundSound, ReportSound, ProfitNotOverstated

-------------------------------------------------------------------------------
\* The search needs every edge in the list of its source, and its ends among the nodes.
EdgesWhole ==
    \A a, b \in Currencies :
        weight[<<a, b>>] # None =>
            Listed(neighbours[a], b) /\ Listed(currencies, a) /\ Listed(currencies, b)

-------------------------------------------------------------------------------
\* Sums round a cycle.
RatesAround(c, n) == \A i \in 1 .. n : weight[<<c[i], After(c, i)>>] # None

\* A cycle whose every edge is at most the rise of a height, and one less, gains; one
\* whose every edge is at least the rise does not.
LEMMA CycleBound ==
    ASSUME GraphTypeOK, DetectionAssumption, NEW n \in Nat \ {0}, NEW c \in [1 .. n -> Currencies],
           RatesAround(c, n), NEW height \in [Currencies -> Int \cup {None}],
           \A i \in 1 .. n : height[c[i]] # None
    PROVE  /\ (\A i \in 1 .. n : height[c[i]] + weight[<<c[i], After(c, i)>>] <= height[After(c, i)])
              => \A j \in 1 .. n :
                   height[c[j]] + weight[<<c[j], After(c, j)>>] < height[After(c, j)]
                     => CycleWeight(c) < 0
           /\ (\A i \in 1 .. n : height[c[i]] + weight[<<c[i], After(c, i)>>] >= height[After(c, i)])
              => CycleWeight(c) >= 0
           /\ CycleWeight(c) \in Int
<1> DEFINE numbers == [i \in 1 .. Len(c) |-> weight[<<c[i], After(c, i)>>]]
           sum == CHOOSE s : Sums(numbers, Len(numbers), s)
           up == [i \in 0 .. n |-> IF i = 0 THEN height[c[1]] ELSE height[After(c, i)]]
<1>1. Len(c) = n
    OBVIOUS
<1>2. \A i \in 1 .. n : c[i] \in Currencies /\ After(c, i) \in Currencies
    BY <1>1 DEF After
<1>3. /\ numbers = [i \in 1 .. n |-> weight[<<c[i], After(c, i)>>]]
      /\ Len(numbers) = n
    BY <1>1
<1>4. CycleWeight(c) = sum[n]
  <2>1. CycleWeight(c) = Total(numbers)
      BY Zenon DEF CycleWeight
  <2>2. Total(numbers) = sum[Len(numbers)]
      BY Zenon DEF Total, Sums
  <2> QED
      BY <1>3, <2>1, <2>2
<1>5. \A i \in 1 .. n : numbers[i] = weight[<<c[i], After(c, i)>>] /\ numbers[i] \in Int
  <2> SUFFICES ASSUME NEW i \in 1 .. n
               PROVE  numbers[i] = weight[<<c[i], After(c, i)>>] /\ numbers[i] \in Int
      OBVIOUS
  <2>1. weight[<<c[i], After(c, i)>>] # None
      BY DEF RatesAround
  <2>2. weight[<<c[i], After(c, i)>>] \in Int
      BY <1>2, <2>1, WeightTyped
  <2> QED
      BY <1>3, <2>2
<1> HIDE DEF numbers
<1>6. AreInts(numbers, n) /\ Sums(numbers, n, sum)
  <2>1. AreInts(numbers, n)
      BY <1>5 DEF AreInts
  <2>2. \E s : Sums(numbers, n, s)
      BY <2>1, SumsExist
  <2> QED
      BY <1>3, <2>1, <2>2
<1> HIDE DEF sum
<1>7. \A i \in 1 .. n : height[After(c, i)] \in Int /\ height[c[i]] \in Int
  <2> SUFFICES ASSUME NEW i \in 1 .. n
               PROVE  height[After(c, i)] \in Int /\ height[c[i]] \in Int
      OBVIOUS
  <2>1. PICK j \in 1 .. n : After(c, i) = c[j]
      BY <1>1 DEF After
  <2>2. height[c[i]] # None /\ height[c[j]] # None /\ c[i] \in Currencies /\ c[j] \in Currencies
      OBVIOUS
  <2> QED
      BY <2>1, <2>2
<1>8. up \in [0 .. n -> Int] /\ up[n] = up[0]
    BY <1>1, <1>7 DEF After
<1>9. \A i \in 1 .. n : up[i] = height[After(c, i)] /\ up[i - 1] = height[c[i]]
  <2> SUFFICES ASSUME NEW i \in 1 .. n
               PROVE  up[i] = height[After(c, i)] /\ up[i - 1] = height[c[i]]
      OBVIOUS
  <2>1. CASE i = 1
      BY <2>1
  <2>2. CASE i # 1
    <3>1. i - 1 \in 1 .. n /\ i - 1 # n /\ After(c, i - 1) = c[i]
        BY <1>1, <2>2 DEF After
    <3> QED
        BY <2>2, <3>1
  <2> QED
      BY <2>1, <2>2
<1> HIDE DEF up
<1>10. up[0] \in Int /\ up[n] \in Int
    BY <1>8
<1>11. ASSUME \A i \in 1 .. n : height[c[i]] + weight[<<c[i], After(c, i)>>] <= height[After(c, i)],
              NEW j \in 1 .. n, height[c[j]] + weight[<<c[j], After(c, j)>>] < height[After(c, j)]
       PROVE  CycleWeight(c) < 0
  <2>1. ASSUME NEW i \in 1 .. n
        PROVE  numbers[i] <= up[i] - up[i - 1]
    <3>1. height[c[i]] + numbers[i] <= height[After(c, i)]
        BY <1>5, <1>11
    <3>2. /\ up[i] = height[After(c, i)] /\ up[i - 1] = height[c[i]]
          /\ height[After(c, i)] \in Int /\ height[c[i]] \in Int /\ numbers[i] \in Int
        BY <1>5, <1>7, <1>9
    <3> QED
        BY <3>1, <3>2
  <2>2. numbers[j] < up[j] - up[j - 1]
      BY <1>5, <1>7, <1>9, <1>11
  <2>3. sum[n] < up[n] - up[0]
      BY <1>6, <1>8, <2>1, <2>2, SumsTelescope
  <2> QED
      BY <1>4, <1>8, <1>10, <2>3
<1>12. ASSUME \A i \in 1 .. n : height[c[i]] + weight[<<c[i], After(c, i)>>] >= height[After(c, i)]
       PROVE  CycleWeight(c) >= 0
  <2>1. ASSUME NEW i \in 1 .. n
        PROVE  numbers[i] >= up[i] - up[i - 1]
    <3>1. height[c[i]] + numbers[i] >= height[After(c, i)]
        BY <1>5, <1>12
    <3>2. /\ up[i] = height[After(c, i)] /\ up[i - 1] = height[c[i]]
          /\ height[After(c, i)] \in Int /\ height[c[i]] \in Int /\ numbers[i] \in Int
        BY <1>5, <1>7, <1>9
    <3> QED
        BY <3>1, <3>2
  <2>2. sum[n] >= up[n] - up[0]
      BY <1>6, <1>8, <2>1, SumsTelescope
  <2> QED
      BY <1>4, <1>8, <1>10, <2>2
<1>13. CycleWeight(c) \in Int
  <2>1. sum \in [0 .. n -> Int] /\ n \in 0 .. n
      BY <1>6, SumsAre
  <2> QED
      BY <1>4, <2>1
<1> QED
    BY <1>11, <1>12, <1>13

-------------------------------------------------------------------------------
\* The predecessors.  A node is linked once its distance has been lowered: from then
\* on its predecessor and the edge between them make its distance or less.
Reached(u) == dist[u] # None

Linked(u) == dist[u] # None /\ (u # First \/ dist[u] # 0)

LinkedAround(c, n) == \A i \in 1 .. n : Linked(After(c, i)) /\ pred[After(c, i)] = c[i]

LinksSupported == \A u \in Currencies : Linked(u) => Supports(pred[u], u)

FirstIsRoot == dist[First] # None /\ dist[First] <= 0 /\ (dist[First] = 0 => pred[First] = First)

ReachedInReach == \A u \in Currencies : Reached(u) => u \in Reachable

\* The heart of it: predecessors only form cycles that gain.
PredCyclesGain ==
    \A n \in Nat \ {0} : \A c \in [1 .. n -> Currencies] :
        LinkedAround(c, n) => CycleWeight(c) < 0

LinksTyped ==
    /\ currencies # <<>> /\ First \in Currencies
    /\ dist \in [Currencies -> Int \cup {None}]
    /\ pred \in [Currencies -> Currencies]

LinksInv == LinksTyped /\ LinksSupported /\ FirstIsRoot /\ ReachedInReach /\ PredCyclesGain

\* The distance of v is lowered through node.
Lowers(v) ==
    /\ v \in Currencies /\ node \in Currencies
    /\ Reached(node) /\ weight[<<node, v>>] # None
    /\ Improves(v) /\ Shorten(v)
    /\ UNCHANGED <<weight, currencies, node>>

LEMMA ReachFollows ==
    ASSUME NEW a \in Reachable, NEW b \in Currencies, weight[<<a, b>>] # None
    PROVE  b \in Reachable
BY DEF Reachable, HoldsReach

LEMMA LowerFacts ==
    ASSUME GraphTypeOK, DetectionAssumption, LinksTyped, FirstIsRoot, NEW v, Lowers(v)
    PROVE  /\ LinksTyped' /\ First' = First
           /\ dist[node] \in Int /\ weight[<<node, v>>] \in Int
           /\ dist'[v] \in Int /\ dist'[v] = dist[node] + weight[<<node, v>>] /\ pred'[v] = node
           /\ dist[v] # None => dist[v] \in Int /\ dist'[v] < dist[v]
           /\ \A x \in Currencies : x # v => dist'[x] = dist[x] /\ pred'[x] = pred[x]
           /\ \A x \in Currencies : Reached(x) => /\ Reached(x)' /\ dist[x] \in Int
                                                  /\ dist'[x] \in Int /\ dist'[x] <= dist[x]
           /\ FirstIsRoot' /\ Linked(v)' /\ \A x \in Currencies : Linked(x) => Linked(x)'
           /\ \A x \in Currencies : x # v => (Linked(x)' <=> Linked(x))
           /\ \A x \in Currencies : Reached(x)' => Reached(x) \/ x = v
<1> DEFINE w == weight[<<node, v>>]
<1>1. /\ v \in Currencies /\ node \in Currencies /\ dist[node] # None /\ w # None
      /\ dist' = [dist EXCEPT ![v] = dist[node] + w] /\ pred' = [pred EXCEPT ![v] = node]
      /\ dist[v] # None => dist[node] + w < dist[v]
      /\ currencies' = currencies
    BY DEF Lowers, Reached, Improves, Shorten, Through
<1>2. w \in Int
    BY <1>1, WeightTyped
<1>3. dist[node] \in Int /\ None \notin Int
    BY <1>1, DetectionAssumption DEF LinksTyped
<1> HIDE DEF w
<1>4. First' = First /\ First \in Currencies
    BY <1>1 DEF First, LinksTyped
<1>5. /\ dist' \in [Currencies -> Int \cup {None}] /\ pred' \in [Currencies -> Currencies]
      /\ dist'[v] = dist[node] + w /\ dist'[v] \in Int /\ pred'[v] = node
      /\ \A x \in Currencies : x # v => dist'[x] = dist[x] /\ pred'[x] = pred[x]
    BY <1>1, <1>2, <1>3 DEF LinksTyped
<1>6. dist[v] # None => dist[v] \in Int /\ dist'[v] < dist[v]
    BY <1>1, <1>5 DEF LinksTyped
<1>7. \A x \in Currencies : Reached(x) => /\ Reached(x)' /\ dist[x] \in Int
                                          /\ dist'[x] \in Int /\ dist'[x] <= dist[x]
  <2> SUFFICES ASSUME NEW x \in Currencies, dist[x] # None
               PROVE  dist'[x] # None /\ dist[x] \in Int /\ dist'[x] \in Int /\ dist'[x] <= dist[x]
      BY DEF Reached
  <2>1. dist[x] \in Int
      BY DEF LinksTyped
  <2>2. CASE x = v
      BY <1>3, <1>5, <1>6, <2>1, <2>2
  <2>3. CASE x # v
      BY <1>5, <2>1, <2>3
  <2> QED
      BY <2>2, <2>3
<1>8. dist[First] \in Int /\ dist[First] <= 0
    BY <1>3, <1>4 DEF LinksTyped, FirstIsRoot
<1>9. FirstIsRoot'
  <2>1. CASE First = v
      BY <1>4, <1>5, <1>6, <1>8, <2>1, <1>3 DEF FirstIsRoot
  <2>2. CASE First # v
      BY <1>4, <1>5, <2>2 DEF FirstIsRoot
  <2> QED
      BY <2>1, <2>2
<1>10. Linked(v)'
  <2>1. CASE First = v
      BY <1>3, <1>4, <1>5, <1>6, <1>8, <2>1 DEF Linked, FirstIsRoot
  <2>2. CASE First # v
      BY <1>3, <1>4, <1>5, <2>2 DEF Linked
  <2> QED
      BY <2>1, <2>2
<1>11. \A x \in Currencies : x # v => (Linked(x)' <=> Linked(x))
    BY <1>4, <1>5 DEF Linked
<1>12. \A x \in Currencies : Linked(x) => Linked(x)'
    BY <1>10, <1>11
<1>13. \A x \in Currencies : Reached(x)' => Reached(x) \/ x = v
    BY <1>5 DEF Reached
<1> QED
    BY <1>1, <1>2, <1>3, <1>4, <1>5, <1>6, <1>7, <1>9, <1>10, <1>11, <1>12, <1>13 DEF LinksTyped, w

\* Lowering a distance keeps what is true of the predecessors.
LEMMA LowerKeepsLinks ==
    ASSUME GraphTypeOK, DetectionAssumption, LinksInv, NEW v, Lowers(v)
    PROVE  LinksInv'
<1> DEFINE w == weight[<<node, v>>]
<1>1. /\ LinksTyped' /\ First' = First
      /\ dist[node] \in Int /\ w \in Int
      /\ dist'[v] \in Int /\ dist'[v] = dist[node] + w /\ pred'[v] = node
      /\ dist[v] # None => dist[v] \in Int /\ dist'[v] < dist[v]
      /\ \A x \in Currencies : x # v => dist'[x] = dist[x] /\ pred'[x] = pred[x]
      /\ \A x \in Currencies : Reached(x) => /\ Reached(x)' /\ dist[x] \in Int
                                             /\ dist'[x] \in Int /\ dist'[x] <= dist[x]
      /\ FirstIsRoot'
      /\ \A x \in Currencies : x # v => (Linked(x)' <=> Linked(x))
      /\ \A x \in Currencies : Reached(x)' => Reached(x) \/ x = v
    BY LowerFacts DEF LinksInv
<1>2. /\ v \in Currencies /\ node \in Currencies /\ Reached(node) /\ w # None
      /\ weight' = weight /\ currencies' = currencies /\ LinksTyped
    BY DEF Lowers, LinksInv
<1>3. LinksSupported'
  <2> SUFFICES ASSUME NEW u \in Currencies, Linked(u)'
               PROVE  Supports(pred[u], u)'
      BY DEF LinksSupported
  <2>1. CASE u = v
    <3>1. dist'[node] # None /\ dist'[node] \in Int /\ dist'[node] <= dist[node]
        BY <1>1, <1>2 DEF Reached
    <3>2. dist'[v] >= dist'[node] + w
        BY <1>1, <3>1
    <3> QED
        BY <1>1, <1>2, <2>1, <3>1, <3>2 DEF Supports, Reached
  <2>2. CASE u # v
    <3> DEFINE y == pred[u]
               t == weight[<<y, u>>]
    <3>1. Supports(y, u) /\ pred'[u] = y /\ dist'[u] = dist[u] /\ y \in Currencies
        BY <1>1, <1>2, <2>2 DEF LinksInv, LinksSupported, LinksTyped
    <3>2. Reached(y) /\ t # None /\ dist[u] >= dist[y] + t
        BY <3>1 DEF Supports, Reached
    <3>3. t \in Int
        BY <3>1, <3>2, WeightTyped
    <3>4. Reached(y)' /\ dist[y] \in Int /\ dist'[y] \in Int /\ dist'[y] <= dist[y]
        BY <1>1, <3>1, <3>2
    <3>5. dist[u] \in Int
        BY <1>1, <2>2, <3>1 DEF Linked, Reached, LinksInv, LinksSupported
    <3>6. weight'[<<y, u>>] = t
        BY <1>2
    <3> HIDE DEF y, t
    <3>7. dist'[u] >= dist'[y] + t
        BY <3>1, <3>2, <3>3, <3>4, <3>5
    <3> QED
        BY <3>1, <3>2, <3>4, <3>6, <3>7 DEF Supports, Reached
  <2> QED
      BY <2>1, <2>2
<1>4. ReachedInReach'
  <2>1. Reachable' = Reachable
      BY <1>1, <1>2 DEF Reachable, HoldsReach
  <2>2. node \in Reachable
      BY <1>2 DEF LinksInv, ReachedInReach
  <2>3. v \in Reachable
      BY <1>2, <2>2, ReachFollows
  <2> QED
      BY <1>1, <2>1, <2>3 DEF LinksInv, ReachedInReach
<1>5. PredCyclesGain'
  <2> SUFFICES ASSUME NEW n \in Nat \ {0}, NEW c \in [1 .. n -> Currencies],
                      LinkedAround(c, n)'
               PROVE  CycleWeight(c)' < 0
      BY DEF PredCyclesGain
  <2>1. CycleWeight(c)' = CycleWeight(c)
      BY <1>2 DEF CycleWeight
  <2>2. Len(c) = n
      OBVIOUS
  <2>3. \A i \in 1 .. n : After(c, i) \in Currencies /\ c[i] \in Currencies
      BY <2>2 DEF After
  <2>4. \A i \in 1 .. n : Linked(After(c, i))' /\ pred'[After(c, i)] = c[i]
      BY DEF LinkedAround, After
  <2>5. CASE \A i \in 1 .. n : After(c, i) # v
    <3>1. LinkedAround(c, n)
        BY <1>1, <2>3, <2>4, <2>5 DEF LinkedAround
    <3> QED
        BY <2>1, <3>1 DEF LinksInv, PredCyclesGain
  <2>6. CASE \E i \in 1 .. n : After(c, i) = v
    <3>1. PICK j \in 1 .. n : After(c, j) = v
        BY <2>6
    <3>2. ASSUME NEW i \in 1 .. n, After(c, i) # v
          PROVE  /\ Reached(c[i]) /\ weight[<<c[i], After(c, i)>>] # None
                 /\ dist[c[i]] + weight[<<c[i], After(c, i)>>] <= dist[After(c, i)]
      <4>1. Linked(After(c, i)) /\ pred[After(c, i)] = c[i]
          BY <1>1, <2>3, <2>4, <3>2
      <4>2. Supports(c[i], After(c, i)) /\ Reached(After(c, i))
          BY <2>3, <4>1 DEF LinksInv, LinksSupported, Linked, Reached
      <4>3. weight[<<c[i], After(c, i)>>] \in Int /\ dist[c[i]] \in Int /\ dist[After(c, i)] \in Int
          BY <1>1, <2>3, <4>2, WeightTyped DEF Supports, Reached
      <4> QED
          BY <4>2, <4>3 DEF Supports, Reached
    <3>3. ASSUME NEW i \in 1 .. n, After(c, i) = v
          PROVE  /\ c[i] = node /\ Reached(c[i]) /\ weight[<<c[i], After(c, i)>>] # None
        BY <1>1, <1>2, <2>4, <3>3
    <3>4. RatesAround(c, n) /\ \A i \in 1 .. n : dist[c[i]] # None
        BY <3>2, <3>3 DEF RatesAround, Reached
    <3>5. dist[v] # None
      <4>1. PICK m \in 1 .. n : After(c, j) = c[m]
          BY <2>2 DEF After
      <4> QED
          BY <3>1, <3>4, <4>1
    <3>6. ASSUME NEW i \in 1 .. n, After(c, i) = v
          PROVE  dist[c[i]] + weight[<<c[i], After(c, i)>>] < dist[After(c, i)]
        BY <1>1, <3>3, <3>5, <3>6
    <3>7. \A i \in 1 .. n : dist[c[i]] + weight[<<c[i], After(c, i)>>] <= dist[After(c, i)]
      <4> SUFFICES ASSUME NEW i \in 1 .. n
                   PROVE  dist[c[i]] + weight[<<c[i], After(c, i)>>] <= dist[After(c, i)]
          OBVIOUS
      <4>1. CASE After(c, i) = v
          BY <1>1, <3>3, <3>5, <3>6, <4>1
      <4> QED
          BY <3>2, <4>1
    <3>8. dist \in [Currencies -> Int \cup {None}]
        BY <1>2 DEF LinksTyped
    <3>9. CycleWeight(c) < 0
        BY <3>1, <3>4, <3>6, <3>7, <3>8, CycleBound
    <3> QED
        BY <2>1, <3>9
  <2> QED
      BY <2>5, <2>6
<1> QED
    BY <1>1, <1>3, <1>4, <1>5 DEF LinksInv

\* A search begins with the first node alone, which has no predecessor yet.
LEMMA StartLinks ==
    ASSUME GraphTypeOK, DetectionAssumption, currencies # <<>>, StartSearch,
           UNCHANGED <<weight, currencies>>
    PROVE  LinksInv'
<1>1. First \in Currencies /\ First' = First
    BY HeadTailOf DEF GraphTypeOK, First
<1>2. /\ dist' = [c \in Currencies |-> IF c = First THEN 0 ELSE None]
      /\ pred' = [c \in Currencies |-> First]
    BY DEF StartSearch
<1>3. LinksTyped' /\ FirstIsRoot'
    BY <1>1, <1>2, DetectionAssumption DEF LinksTyped, FirstIsRoot
<1>4. \A u \in Currencies : ~Linked(u)'
    BY <1>1, <1>2 DEF Linked
<1>5. LinksSupported'
    BY <1>4 DEF LinksSupported
<1>6. PredCyclesGain'
  <2> SUFFICES ASSUME NEW n \in Nat \ {0}, NEW c \in [1 .. n -> Currencies],
                      LinkedAround(c, n)'
               PROVE  FALSE
      BY DEF PredCyclesGain
  <2>1. 1 \in 1 .. n /\ After(c, 1) \in Currencies /\ Linked(After(c, 1))'
      BY DEF LinkedAround, After
  <2> QED
      BY <2>1, <1>4
<1>7. ReachedInReach'
    BY <1>1, <1>2 DEF ReachedInReach, Reached, Reachable, HoldsReach
<1> QED
    BY <1>3, <1>5, <1>6, <1>7 DEF LinksInv

LEMMA LinksStill ==
    ASSUME LinksInv, UNCHANGED <<dist, pred, weight, currencies>>
    PROVE  LinksInv'
<1>1. First' = First /\ LinksTyped'
    BY DEF First, LinksInv, LinksTyped
<1>2. LinksSupported' /\ FirstIsRoot'
    BY <1>1 DEF LinksInv, LinksSupported, FirstIsRoot, Linked, Supports
<1>3. ReachedInReach'
  <2>1. Reachable' = Reachable
      BY <1>1 DEF Reachable, HoldsReach
  <2> QED
      BY <2>1 DEF LinksInv, ReachedInReach, Reached
<1>4. PredCyclesGain'
  <2> SUFFICES ASSUME NEW n \in Nat \ {0}, NEW c \in [1 .. n -> Currencies],
                      LinkedAround(c, n)'
               PROVE  CycleWeight(c)' < 0
      BY DEF PredCyclesGain
  <2>1. CycleWeight(c)' = CycleWeight(c)
      BY DEF CycleWeight
  <2>2. LinkedAround(c, n)
      BY <1>1 DEF LinkedAround, Linked
  <2> QED
      BY <2>1, <2>2 DEF LinksInv, PredCyclesGain
<1> QED
    BY <1>1, <1>2, <1>3, <1>4 DEF LinksInv

-------------------------------------------------------------------------------
\* The rounds.  In round p the nodes of A are looked at, those of B are queued for
\* the next, and E is what is left of the edges of node.
InHand(u, z, E) == node = u /\ Listed(E, z)

Lowerable(u, z) ==
    /\ Reached(u) /\ Reached(z) /\ weight[<<u, z>>] # None
    /\ dist[u] + weight[<<u, z>>] < dist[z]

Opening(u, z) == Reached(u) /\ ~Reached(z) /\ weight[<<u, z>>] # None

\* What could still be lowered is still to be looked at.
Pending(A, B, E) ==
    \A u, z \in Currencies : Lowerable(u, z) => u \in A \cup B \/ InHand(u, z, E)

\* The round in which a node was lowered last is at most one more than that of its
\* predecessor.
LastLowered(p, A, B, E, last) ==
    /\ last \in [Currencies -> 0 .. p]
    /\ \A u \in Currencies : last[u] > 0 => Linked(u) /\ last[u] <= last[pred[u]] + 1
    /\ \A u \in A : last[u] >= p - 1
    /\ \A u \in B : last[u] >= p
    /\ E # <<>> => last[node] >= p - 1

\* The round in which a node was reached first: no round is without a node, and a
\* node with a successor that is not reached was reached in this round or the last.
FirstReached(p, A, B, E, first) ==
    /\ first \in [Currencies -> Nat]
    /\ \A u \in Currencies :
         Reached(u) /\ first[u] > 0 =>
            \E y \in Currencies : Reached(y) /\ first[y] = first[u] - 1
    /\ \A u, z \in Currencies :
         Opening(u, z) => \/ first[u] >= p - 1 /\ (u \in A \/ InHand(u, z, E))
                          \/ first[u] >= p /\ u \in B

Pass(p, A, B, E) ==
    /\ Pending(A, B, E)
    /\ \E last : LastLowered(p, A, B, E, last)
    /\ \E first : FirstReached(p, A, B, E, first)

LEMMA ListedInTail ==
    ASSUME NEW S, NEW list \in Seq(S), list # <<>>
    PROVE  /\ \A z : Listed(list, z) => z = Head(list) \/ Listed(Tail(list), z)
           /\ \A z : Listed(Tail(list), z) => Listed(list, z)
           /\ Listed(list, Head(list))
<1>1. /\ Head(list) = list[1] /\ Len(list) \in Nat \ {0} /\ Len(Tail(list)) = Len(list) - 1
      /\ \A k \in 1 .. Len(Tail(list)) : Tail(list)[k] = list[k + 1]
    BY HeadTailOf
<1> DEFINE rest == Tail(list)
<1> HIDE DEF rest
<1>2. ASSUME NEW z, Listed(list, z), z # Head(list)
      PROVE  Listed(rest, z)
  <2>1. PICK k \in 1 .. Len(list) : list[k] = z
      BY <1>2 DEF Listed
  <2>2. k - 1 \in 1 .. Len(rest) /\ rest[k - 1] = list[(k - 1) + 1] /\ (k - 1) + 1 = k
      BY <1>1, <1>2, <2>1 DEF rest
  <2> QED
      BY <2>1, <2>2 DEF Listed
<1>3. ASSUME NEW z, Listed(rest, z)
      PROVE  Listed(list, z)
  <2>1. PICK k \in 1 .. Len(rest) : rest[k] = z
      BY <1>3 DEF Listed
  <2>2. k + 1 \in 1 .. Len(list) /\ list[k + 1] = z
      BY <1>1, <2>1 DEF rest
  <2> QED
      BY <2>2 DEF Listed
<1>4. 1 \in 1 .. Len(list)
    BY <1>1
<1> QED
    BY <1>1, <1>2, <1>3, <1>4 DEF Listed, rest

LEMMA StartPass ==
    ASSUME GraphTypeOK, DetectionAssumption, currencies # <<>>, StartSearch,
           UNCHANGED <<weight, currencies>>
    PROVE  Pass(1, {First}, {}, <<>>)'
<1>1. First \in Currencies /\ First' = First
    BY HeadTailOf DEF GraphTypeOK, First
<1>2. dist' = [c \in Currencies |-> IF c = First THEN 0 ELSE None]
    BY DEF StartSearch
<1>3. \A u \in Currencies : Reached(u)' <=> u = First
    BY <1>1, <1>2, DetectionAssumption DEF Reached
<1>4. Pending({First}, {}, <<>>)'
    BY <1>1, <1>3 DEF Pending, Lowerable
<1> DEFINE none == [c \in Currencies |-> 0]
<1>5. none \in [Currencies -> 0 .. 1] /\ none \in [Currencies -> Nat] /\ \A u \in Currencies : none[u] = 0
    OBVIOUS
<1> HIDE DEF none
<1>6. LastLowered(1, {First}, {}, <<>>, none)'
    BY <1>1, <1>5 DEF LastLowered
<1>7. FirstReached(1, {First}, {}, <<>>, none)'
    BY <1>1, <1>3, <1>5 DEF FirstReached, Opening
<1> QED
    BY <1>4, <1>6, <1>7 DEF Pass

\* An edge that does not improve anything is done with.
LEMMA SkipPass ==
    ASSUME LinksTyped, NEW p \in Nat \ {0}, NEW A, NEW B, NEW E,
           edges \in Seq(Currencies), edges # <<>>, E = Tail(edges),
           Pass(p, A, B, edges), ~Improves(Head(edges)),
           UNCHANGED <<dist, pred, weight, node, currencies>>
    PROVE  Pass(p, A, B, E)'
<1> DEFINE v == Head(edges)
<1>1. \A z : Listed(edges, z) => z = v \/ Listed(E, z)
    BY ListedInTail
<1>2. ~Lowerable(node, v) /\ ~Opening(node, v)
    BY DEF Improves, Through, Lowerable, Opening, Reached
<1> HIDE DEF v
<1>3. \A u, z : Lowerable(u, z)' <=> Lowerable(u, z)
    BY DEF Lowerable, Reached
<1>4. \A u, z : Opening(u, z)' <=> Opening(u, z)
    BY DEF Opening, Reached
<1>5. \A u, z : (Lowerable(u, z) \/ Opening(u, z)) /\ InHand(u, z, edges) => InHand(u, z, E)'
    BY <1>1, <1>2 DEF InHand
<1>6. Pending(A, B, E)'
    BY <1>3, <1>5 DEF Pass, Pending
<1>7. ASSUME NEW last, LastLowered(p, A, B, edges, last)
      PROVE  LastLowered(p, A, B, E, last)'
    BY <1>7 DEF LastLowered, Linked, First
<1>8. ASSUME NEW first, FirstReached(p, A, B, edges, first)
      PROVE  FirstReached(p, A, B, E, first)'
    BY <1>4, <1>5, <1>8 DEF FirstReached, Reached
<1> QED
    BY <1>6, <1>7, <1>8 DEF Pass

\* The next node is taken from A, or the next round begins.
LEMMA PopPass ==
    ASSUME LinksTyped, EdgesWhole, NEW p \in Nat \ {0}, NEW A, NEW B, Pass(p, A, B, <<>>),
           NEW q \in Nat, NEW A2, NEW B2, NEW E,
           NEW next \in Currencies, next = node', E = neighbours[next],
           \/ q = p /\ next \in A /\ A2 \subseteq A /\ A \subseteq A2 \cup {next} /\ B2 = B
           \/ /\ q = p + 1 /\ A = {} /\ B2 = {}
              /\ next \in B /\ A2 \subseteq B /\ B \subseteq A2 \cup {next},
           UNCHANGED <<dist, pred, weight, currencies>>
    PROVE  Pass(q, A2, B2, E)'
<1>1. \A u, z : ~InHand(u, z, <<>>)
    BY DEF InHand, Listed
<1>2. \A z \in Currencies : weight[<<next, z>>] # None => InHand(next, z, E)'
    BY DEF EdgesWhole, InHand
<1>3. \A u, z : Lowerable(u, z)' <=> Lowerable(u, z)
    BY DEF Lowerable, Reached
<1>4. \A u, z : Opening(u, z)' <=> Opening(u, z)
    BY DEF Opening, Reached
<1>5. Pending(A2, B2, E)'
  <2> SUFFICES ASSUME NEW u \in Currencies, NEW z \in Currencies, Lowerable(u, z)
               PROVE  u \in A2 \cup B2 \/ InHand(u, z, E)'
      BY <1>3 DEF Pending
  <2>1. u \in A \cup B
      BY <1>1 DEF Pass, Pending
  <2>2. u \in A2 \cup B2 \/ u = next
      BY <2>1
  <2> QED
      BY <2>2, <1>2 DEF Lowerable
<1>6. ASSUME NEW last, LastLowered(p, A, B, <<>>, last)
      PROVE  LastLowered(q, A2, B2, E, last)'
  <2>1. /\ last \in [Currencies -> 0 .. p]
        /\ \A u \in Currencies : last[u] > 0 => Linked(u) /\ last[u] <= last[pred[u]] + 1
        /\ \A u \in A : last[u] >= p - 1
        /\ \A u \in B : last[u] >= p
      BY <1>6 DEF LastLowered
  <2>2. \A u \in Currencies : Linked(u)' <=> Linked(u)
      BY DEF Linked, First
  <2>3. 0 .. p \subseteq 0 .. q
      OBVIOUS
  <2>4. last \in [Currencies -> 0 .. q]
      BY <2>1, <2>3
  <2>5. last[next] \in Int
      BY <2>1
  <2>6. last[next] >= q - 1 /\ (\A u \in A2 : last[u] >= q - 1) /\ (\A u \in B2 : last[u] >= q)
    <3>1. CASE q = p /\ next \in A /\ A2 \subseteq A /\ B2 = B
        BY <2>1, <3>1
    <3>2. CASE q = p + 1 /\ B2 = {} /\ next \in B /\ A2 \subseteq B
        BY <2>1, <3>2
    <3> QED
        BY <3>1, <3>2
  <2> QED
      BY <2>1, <2>2, <2>4, <2>6 DEF LastLowered
<1>7. ASSUME NEW first, FirstReached(p, A, B, <<>>, first)
      PROVE  FirstReached(q, A2, B2, E, first)'
  <2> USE <1>7 DEF FirstReached
  <2>1. first \in [Currencies -> Nat]
      OBVIOUS
  <2>2. \A u \in Currencies :
          Reached(u)' /\ first[u] > 0 =>
             \E y \in Currencies : Reached(y)' /\ first[y] = first[u] - 1
      BY DEF Reached
  <2>3. ASSUME NEW u \in Currencies, NEW z \in Currencies, Opening(u, z)
        PROVE  \/ first[u] >= q - 1 /\ (u \in A2 \/ InHand(u, z, E)')
               \/ first[u] >= q /\ u \in B2
    <3>1. (first[u] >= p - 1 /\ u \in A) \/ (first[u] >= p /\ u \in B)
        BY <1>1, <2>3
    <3>2. u = next => InHand(u, z, E)'
        BY <1>2, <2>3 DEF Opening
    <3>3. first[u] \in Nat
        BY <2>1
    <3>4. CASE q = p /\ A \subseteq A2 \cup {next} /\ B2 = B
      <4>1. CASE first[u] >= p - 1 /\ u \in A
        <5>1. u \in A2 \/ u = next
            BY <3>4, <4>1
        <5> QED
            BY <3>2, <3>4, <4>1, <5>1
      <4>2. CASE first[u] >= p /\ u \in B
          BY <3>4, <4>2
      <4> QED
          BY <3>1, <4>1, <4>2
    <3>5. CASE q = p + 1 /\ A = {} /\ B \subseteq A2 \cup {next}
      <4>1. first[u] >= q - 1 /\ (u \in A2 \/ u = next)
          BY <3>1, <3>3, <3>5
      <4> QED
          BY <3>2, <4>1
    <3> QED
        BY <3>4, <3>5
  <2> QED
      BY <1>4, <2>1, <2>2, <2>3
<1> QED
    BY <1>5, <1>6, <1>7 DEF Pass

\* A distance is lowered, and the node is queued.
LEMMA LowerPass ==
    ASSUME GraphTypeOK, DetectionAssumption, LinksInv, NEW p \in Nat \ {0}, NEW A \in SUBSET Currencies,
           NEW B \in SUBSET Currencies, NEW B2, NEW E, NEW v, Lowers(v),
           edges \in Seq(Currencies), edges # <<>>, v = Head(edges), E = Tail(edges),
           Pass(p, A, B, edges),
           B \subseteq B2, B2 \subseteq B \cup {v}, v \in A \cup B2, v \in A => Reached(v)
    PROVE  Pass(p, A, B2, E)'
<1> DEFINE w == weight[<<node, v>>]
<1>1. /\ First' = First
      /\ dist[node] \in Int /\ w \in Int
      /\ dist'[v] \in Int /\ dist'[v] = dist[node] + w /\ pred'[v] = node
      /\ dist[v] # None => dist[v] \in Int /\ dist'[v] < dist[v]
      /\ \A x \in Currencies : x # v => dist'[x] = dist[x] /\ pred'[x] = pred[x]
      /\ \A x \in Currencies : Reached(x) => /\ Reached(x)' /\ dist[x] \in Int
                                             /\ dist'[x] \in Int /\ dist'[x] <= dist[x]
      /\ Linked(v)' /\ \A x \in Currencies : Linked(x) => Linked(x)'
      /\ \A x \in Currencies : Reached(x)' => Reached(x) \/ x = v
    BY LowerFacts DEF LinksInv
<1>2. /\ v \in Currencies /\ node \in Currencies /\ Reached(node) /\ w # None
      /\ weight' = weight /\ node' = node /\ LinksTyped
    BY DEF Lowers, LinksInv
<1>3. \A z : Listed(edges, z) => z = v \/ Listed(E, z)
    BY ListedInTail
<1>4. \A u, z : z # v /\ InHand(u, z, edges) => InHand(u, z, E)'
    BY <1>2, <1>3 DEF InHand
<1>5. PICK first : FirstReached(p, A, B, edges, first)
    BY DEF Pass
<1>6. PICK last : LastLowered(p, A, B, edges, last)
    BY DEF Pass
<1>7. /\ first \in [Currencies -> Nat]
      /\ \A u, z \in Currencies :
           Opening(u, z) => \/ first[u] >= p - 1 /\ (u \in A \/ InHand(u, z, edges))
                            \/ first[u] >= p /\ u \in B
    BY <1>5 DEF FirstReached
<1>8. \A u, z \in Currencies : Lowerable(u, z) => u \in A \cup B \/ InHand(u, z, edges)
    BY DEF Pass, Pending
<1>9. Pending(A, B2, E)'
  <2> SUFFICES ASSUME NEW u \in Currencies, NEW z \in Currencies, Lowerable(u, z)', u # v
               PROVE  u \in A \cup B2 \/ InHand(u, z, E)'
      BY DEF Pending
  <2>1. Reached(u) /\ dist'[u] = dist[u] /\ dist[u] \in Int /\ weight[<<u, z>>] \in Int
    <3>1. Reached(u) /\ weight[<<u, z>>] # None
        BY <1>1, <1>2 DEF Lowerable
    <3> QED
        BY <3>1, <1>1, WeightTyped
  <2>2. CASE z = v
    <3>1. u # node
      <4>1. SUFFICES ASSUME u = node
                     PROVE  FALSE
          OBVIOUS
      <4>2. dist'[u] + weight'[<<u, z>>] < dist'[z]
          BY DEF Lowerable
      <4> QED
          BY <2>1, <2>2, <4>1, <4>2, <1>1, <1>2
    <3>2. dist[u] + weight[<<u, v>>] < dist'[v] /\ weight[<<u, v>>] # None
        BY <2>1, <2>2, <1>2 DEF Lowerable
    <3>3. Lowerable(u, v) \/ Opening(u, v)
        BY <2>1, <2>2, <3>2, <1>1 DEF Lowerable, Opening, Reached
    <3>4. u \in A \cup B
        BY <3>1, <3>3, <1>2, <1>7, <1>8 DEF InHand
    <3> QED
        BY <3>4
  <2>3. CASE z # v
    <3>1. Lowerable(u, z)
        BY <2>1, <2>3, <1>1, <1>2 DEF Lowerable, Reached
    <3> QED
        BY <2>3, <3>1, <1>4, <1>8
  <2> QED
      BY <2>2, <2>3
<1>10. \E l : LastLowered(p, A, B2, E, l)'
  <2> DEFINE l == [last EXCEPT ![v] = p]
  <2>1. /\ last \in [Currencies -> 0 .. p]
        /\ \A u \in Currencies : last[u] > 0 => Linked(u) /\ last[u] <= last[pred[u]] + 1
        /\ \A u \in A : last[u] >= p - 1
        /\ \A u \in B : last[u] >= p
        /\ last[node] >= p - 1
      BY <1>6 DEF LastLowered
  <2>2. /\ l \in [Currencies -> 0 .. p] /\ l[v] = p /\ \A u \in Currencies : u # v => l[u] = last[u]
      BY <2>1, <1>2
  <2> HIDE DEF l
  <2>3. \A u \in Currencies : last[u] \in 0 .. p /\ l[u] \in 0 .. p /\ l[u] >= last[u]
    <3> SUFFICES ASSUME NEW u \in Currencies
                 PROVE  last[u] \in 0 .. p /\ l[u] \in 0 .. p /\ l[u] >= last[u]
        OBVIOUS
    <3>1. last[u] \in 0 .. p /\ l[u] \in 0 .. p
        BY <2>1, <2>2
    <3> QED
        BY <3>1, <2>2
  <2>4. ASSUME NEW u \in Currencies, l[u] > 0
        PROVE  Linked(u)' /\ l[u] <= l[pred'[u]] + 1
    <3>1. CASE u = v
      <4>1. l[node] >= last[node] /\ l[node] \in Int /\ last[node] \in Int
          BY <2>3, <1>2
      <4>2. l[node] >= p - 1
          BY <4>1, <2>1
      <4> QED
          BY <3>1, <4>1, <4>2, <2>2, <1>1
    <3>2. CASE u # v
      <4>1. Linked(u) /\ last[u] <= last[pred[u]] + 1 /\ pred'[u] = pred[u] /\ pred[u] \in Currencies
          BY <3>2, <2>1, <2>2, <2>4, <1>1, <1>2 DEF LinksTyped
      <4>2. l[pred[u]] >= last[pred[u]] /\ l[pred[u]] \in Int /\ last[pred[u]] \in Int
            /\ l[u] = last[u] /\ last[u] \in Int
          BY <3>2, <4>1, <2>2, <2>3
      <4>3. l[u] <= l[pred'[u]] + 1
          BY <4>1, <4>2
      <4> QED
          BY <4>1, <4>3, <1>1
    <3> QED
        BY <3>1, <3>2
  <2>5. \A u \in A : l[u] >= p - 1
    <3> SUFFICES ASSUME NEW u \in A
                 PROVE  l[u] >= p - 1
        OBVIOUS
    <3>1. l[u] >= last[u] /\ l[u] \in Int /\ last[u] \in Int /\ last[u] >= p - 1
        BY <2>1, <2>3
    <3> QED
        BY <3>1
  <2>6. \A u \in B2 : l[u] >= p
    <3> SUFFICES ASSUME NEW u \in B2
                 PROVE  l[u] >= p
        OBVIOUS
    <3>1. CASE u = v
        BY <3>1, <2>2
    <3>2. CASE u # v
        BY <3>2, <2>1, <2>2
    <3> QED
        BY <3>1, <3>2
  <2>7. l[node'] >= p - 1
    <3>1. l[node] >= last[node] /\ l[node] \in Int /\ last[node] \in Int /\ last[node] >= p - 1
        BY <2>1, <2>3, <1>2
    <3> QED
        BY <3>1, <1>2
  <2> QED
      BY <2>2, <2>4, <2>5, <2>6, <2>7 DEF LastLowered
<1>11. \E f : FirstReached(p, A, B2, E, f)'
  <2>1. \A u, z \in Currencies : Opening(u, z)' => (Opening(u, z) \/ u = v) /\ z # v
      BY <1>1, <1>2 DEF Opening, Reached
  <2>2. \A u \in Currencies :
          Reached(u) /\ first[u] > 0 =>
             \E y \in Currencies : Reached(y) /\ first[y] = first[u] - 1
      BY <1>5 DEF FirstReached
  <2>3. CASE Reached(v)
    <3>1. \A u \in Currencies : Reached(u)' <=> Reached(u)
        BY <2>3, <1>1
    <3>2. \A u, z \in Currencies : Opening(u, z)' => Opening(u, z) /\ z # v
        BY <2>1, <3>1, <1>2 DEF Opening
    <3>3. \A u, z \in Currencies :
            Opening(u, z)' => \/ first[u] >= p - 1 /\ (u \in A \/ InHand(u, z, E)')
                              \/ first[u] >= p /\ u \in B2
        BY <3>2, <1>4, <1>7
    <3>4. FirstReached(p, A, B2, E, first)'
        BY <2>2, <3>1, <3>3, <1>7 DEF FirstReached
    <3> QED
        BY <3>4
  <2>4. CASE ~Reached(v)
    <3>0. PICK f : f = [first EXCEPT ![v] = first[node] + 1]
        OBVIOUS
    <3>1. /\ f \in [Currencies -> Nat] /\ f[v] = first[node] + 1 /\ first[node] \in Nat
          /\ \A u \in Currencies : u # v => f[u] = first[u]
        BY <3>0, <1>2, <1>7
    <3>2. Opening(node, v) /\ node # v
        BY <2>4, <1>2 DEF Opening
    <3>3. first[node] >= p - 1
        BY <3>1, <3>2, <1>2, <1>7
    <3>4. f[v] >= p /\ v \in B2
        BY <2>4, <3>1, <3>3
    <3>5. ASSUME NEW u \in Currencies, Reached(u)', f[u] > 0
          PROVE  \E y \in Currencies : Reached(y)' /\ f[y] = f[u] - 1
      <4>1. CASE u = v
        <5>1. dist'[node] # None /\ f[node] = f[u] - 1
            BY <3>1, <3>2, <4>1, <1>1, <1>2 DEF Reached
        <5> QED
            BY <5>1, <1>2 DEF Reached
      <4>2. CASE u # v
        <5>1. Reached(u) /\ first[u] > 0 /\ f[u] = first[u]
            BY <3>1, <3>5, <4>2, <1>1
        <5>2. PICK y \in Currencies : Reached(y) /\ first[y] = first[u] - 1
            BY <2>2, <5>1
        <5>3. y # v
            BY <2>4, <5>2
        <5> QED
            BY <3>1, <5>1, <5>2, <5>3, <1>1
      <4> QED
          BY <4>1, <4>2
    <3>6. ASSUME NEW u \in Currencies, NEW z \in Currencies, Opening(u, z)'
          PROVE  \/ f[u] >= p - 1 /\ (u \in A \/ InHand(u, z, E)')
                 \/ f[u] >= p /\ u \in B2
      <4>1. CASE u = v
          BY <3>4, <4>1
      <4>2. CASE u # v
        <5>1. Opening(u, z) /\ z # v /\ f[u] = first[u]
            BY <2>1, <3>1, <3>6, <4>2
        <5> QED
            BY <5>1, <1>4, <1>7
      <4> QED
          BY <4>1, <4>2
    <3>7. FirstReached(p, A, B2, E, f)'
      <4>1. \A u \in Currencies :
              Reached(u)' /\ f[u] > 0 => \E y \in Currencies : Reached(y)' /\ f[y] = f[u] - 1
          BY <3>5
      <4>2. \A u, z \in Currencies :
              Opening(u, z)' => \/ f[u] >= p - 1 /\ (u \in A \/ InHand(u, z, E)')
                                \/ f[u] >= p /\ u \in B2
          BY <3>6
      <4> QED
          BY <3>1, <4>1, <4>2 DEF FirstReached
    <3> QED
        BY <3>7
  <2> QED
      BY <2>3, <2>4
<1> QED
    BY <1>9, <1>10, <1>11 DEF Pass

-------------------------------------------------------------------------------
\* What a search comes to: every edge leads to a node that was reached, and either
\* nothing can be lowered, or there is a cycle that gains.  A chain of two
\* predecessors from the first node was looked at before the search was cut short.
AllReached == \A u, z \in Currencies : ~Opening(u, z)

Settled == \A u, z \in Currencies : ~Lowerable(u, z)

ChainsDone ==
    Len(currencies) >= 4 /\ dist[First] = 0 =>
        \A x, y, z \in Currencies :
            Linked(x) /\ pred[x] = First /\ Linked(y) /\ pred[y] = x => ~Lowerable(y, z)

Outcome == AllReached /\ (Settled \/ (Gaining /\ ChainsDone))

\* More members than the list is long: two of them are the same.
LEMMA Crowded ==
    ASSUME NEW S, NEW list \in Seq(S), NEW g \in [0 .. Len(list) -> S],
           \A i \in 0 .. Len(list) : Listed(list, g[i])
    PROVE  \E i, j \in 0 .. Len(list) : i < j /\ g[i] = g[j]
<1> DEFINE n == Len(list)
           D == {list[k] : k \in 1 .. n}
           f == [k \in 1 .. n |-> list[k]]
<1>1. n \in Nat /\ n \in Int /\ 0 \in Int /\ 1 \in Int
    OBVIOUS
<1>2. f \in Surjection(1 .. n, D)
    BY DEF Surjection
<1>3. IsFiniteSet(1 .. n) /\ Cardinality(1 .. n) = n
  <2>1. IsFiniteSet(1 .. n) /\ Cardinality(1 .. n) = IF 1 > n THEN 0 ELSE n - 1 + 1
      BY <1>1, FS_Interval
  <2> QED
      BY <1>1, <2>1
<1>4. IsFiniteSet(0 .. n) /\ Cardinality(0 .. n) = n + 1
  <2>1. IsFiniteSet(0 .. n) /\ Cardinality(0 .. n) = IF 0 > n THEN 0 ELSE n - 0 + 1
      BY <1>1, FS_Interval
  <2> QED
      BY <1>1, <2>1
<1>5. g \in [0 .. n -> D]
    BY DEF Listed
<1> HIDE DEF n, D, f
<1>6. IsFiniteSet(D) /\ Cardinality(D) <= n /\ Cardinality(D) \in Nat
  <2>1. IsFiniteSet(D) /\ Cardinality(D) <= Cardinality(1 .. n)
      BY <1>2, <1>3, FS_Surjection
  <2>2. Cardinality(D) \in Nat
      BY <2>1, FS_CardinalityType
  <2> QED
      BY <1>3, <2>1, <2>2
<1>7. Cardinality(D) < Cardinality(0 .. n)
    BY <1>1, <1>4, <1>6
<1>8. \E x, y \in 0 .. n : x # y /\ g[x] = g[y]
    BY <1>4, <1>5, <1>6, <1>7, FS_PigeonHole
<1> QED
    BY <1>1, <1>8 DEF n

LEMMA ReachedListed ==
    ASSUME GraphTypeOK, EdgesWhole, LinksInv, NEW u \in Currencies, Reached(u)
    PROVE  Listed(currencies, u)
<1> DEFINE S == {c \in Currencies : Listed(currencies, c)}
<1>1. First \in S
  <2>1. Len(currencies) \in Nat \ {0}
      BY HeadTailOf DEF GraphTypeOK, LinksInv, LinksTyped
  <2>2. 1 \in 1 .. Len(currencies)
      BY <2>1
  <2> QED
      BY <2>2 DEF First, Listed, LinksInv, LinksTyped
<1>2. HoldsReach(S)
    BY <1>1 DEF HoldsReach, EdgesWhole
<1>3. u \in Reachable
    BY DEF LinksInv, ReachedInReach
<1>4. S \in SUBSET Currencies
    OBVIOUS
<1> HIDE DEF S
<1>5. u \in S
    BY <1>2, <1>3, <1>4 DEF Reachable
<1> QED
    BY <1>5 DEF S

\* A node that was lowered in as late a round as there are nodes has predecessors
\* that come round.
LEMMA LateLoweringGains ==
    ASSUME GraphTypeOK, DetectionAssumption, EdgesWhole, LinksInv,
           NEW p, NEW A, NEW B, NEW E, NEW last, p \in Nat, LastLowered(p, A, B, E, last),
           NEW v \in Currencies, last[v] >= Len(currencies)
    PROVE  Gaining
<1> DEFINE n == Len(currencies)
           step == [q \in (1 .. n) \X Currencies |-> pred[q[2]]]
<1>1. /\ n \in Nat \ {0} /\ currencies \in Seq(Currencies)
      /\ pred \in [Currencies -> Currencies]
      /\ \A u \in Currencies : last[u] \in Int
      /\ \A u \in Currencies : last[u] > 0 => Linked(u) /\ last[u] <= last[pred[u]] + 1
  <2>1. n \in Nat \ {0} /\ currencies \in Seq(Currencies) /\ pred \in [Currencies -> Currencies]
      BY HeadTailOf DEF GraphTypeOK, LinksInv, LinksTyped
  <2> QED
      BY <2>1 DEF LastLowered
<1>2. IsStep(step, n, Currencies)
    BY <1>1 DEF IsStep
<1>3. PICK g : /\ g \in [0 .. n -> Currencies] /\ g[0] = v
               /\ \A k \in 1 .. n : g[k] = pred[g[k - 1]]
  <2> HIDE DEF n, step
  <2>1. PICK g : MadeBy(g, n, Currencies, v, step)
      BY <1>1, <1>2, RecursionExists
  <2>2. \A k \in 1 .. n : g[k] = pred[g[k - 1]]
    <3> SUFFICES ASSUME NEW k \in 1 .. n
                 PROVE  g[k] = pred[g[k - 1]]
        OBVIOUS
    <3>1. k - 1 \in 0 .. n /\ g[k - 1] \in Currencies /\ g[k] = step[<<k, g[k - 1]>>]
        BY <1>1, <2>1 DEF MadeBy
    <3> QED
        BY <3>1 DEF step
  <2> QED
      BY <2>1, <2>2 DEF MadeBy
<1>4. last[v] >= n
    OBVIOUS
<1> HIDE DEF n, step
<1>5. \A k \in 0 .. n : last[g[k]] >= n - k
  <2> DEFINE S == {k \in 0 .. n : last[g[k]] >= n - k}
  <2>1. 0 \in S
      BY <1>1, <1>3, <1>4
  <2>2. ASSUME NEW k \in 1 .. n, k - 1 \in S
        PROVE  k \in S
    <3>1. /\ k - 1 \in 0 .. n /\ k \in 0 .. n /\ g[k - 1] \in Currencies /\ g[k] \in Currencies
          /\ last[g[k - 1]] >= n - (k - 1) /\ g[k] = pred[g[k - 1]]
        BY <1>1, <1>3, <2>2
    <3>2. last[g[k - 1]] \in Int /\ last[g[k]] \in Int /\ last[g[k - 1]] > 0
        BY <1>1, <3>1
    <3>3. last[g[k - 1]] <= last[g[k]] + 1
        BY <1>1, <3>1, <3>2
    <3> QED
        BY <1>1, <3>1, <3>2, <3>3
  <2> HIDE DEF S
  <2>3. n \in Nat
      BY <1>1
  <2>4. 0 .. n \subseteq S
      BY <2>1, <2>2, <2>3, UpTo
  <2> QED
      BY <2>4 DEF S
<1>6. \A k \in 0 .. n - 1 : Linked(g[k]) /\ g[k] \in Currencies
  <2> SUFFICES ASSUME NEW k \in 0 .. n - 1
               PROVE  Linked(g[k]) /\ g[k] \in Currencies
      OBVIOUS
  <2>1. k \in 0 .. n /\ g[k] \in Currencies /\ last[g[k]] >= n - k /\ n - k > 0
      BY <1>1, <1>3, <1>5
  <2>2. last[g[k]] \in Int /\ n - k \in Int
      BY <1>1, <2>1
  <2>3. last[g[k]] > 0
      BY <2>1, <2>2
  <2> QED
      BY <1>1, <2>1, <2>3
<1>7. \A k \in 0 .. n - 1 : Supports(g[k + 1], g[k])
  <2> SUFFICES ASSUME NEW k \in 0 .. n - 1
               PROVE  Supports(g[k + 1], g[k])
      OBVIOUS
  <2>1. k + 1 \in 1 .. n /\ (k + 1) - 1 = k
      BY <1>1
  <2>2. g[k + 1] = pred[g[k]]
      BY <1>3, <2>1
  <2> QED
      BY <1>6, <2>2 DEF LinksInv, LinksSupported
<1>8. \A k \in 0 .. n : Listed(currencies, g[k])
  <2> SUFFICES ASSUME NEW k \in 0 .. n
               PROVE  Listed(currencies, g[k])
      OBVIOUS
  <2>1. g[k] \in Currencies
      BY <1>3
  <2>2. CASE k \in 0 .. n - 1
      BY <1>6, <2>1, <2>2, ReachedListed DEF Linked, Reached
  <2>3. CASE k = n
    <3>1. n - 1 \in 0 .. n - 1 /\ (n - 1) + 1 = n
        BY <1>1
    <3>2. Supports(g[(n - 1) + 1], g[n - 1])
        BY <1>7, <3>1, Zenon
    <3> QED
        BY <2>1, <2>3, <3>1, <3>2, ReachedListed DEF Supports, Reached
  <2> QED
      BY <1>1, <2>2, <2>3
<1>9. PICK j \in 1 .. n : /\ \A a, b \in 0 .. j - 1 : g[a] = g[b] => a = b
                          /\ ~ \A a, b \in 0 .. j : g[a] = g[b] => a = b
  <2> DEFINE S == {k \in 0 .. n : \A a, b \in 0 .. k : g[a] = g[b] => a = b}
  <2>1. \E a, b \in 0 .. n : a < b /\ g[a] = g[b]
      BY <1>1, <1>3, <1>8, Crowded DEF n
  <2>2. 0 \in S /\ n \notin S /\ n \in Nat
      BY <1>1, <2>1
  <2>3. \A k \in 1 .. n : k \in S <=> \A a, b \in 0 .. k : g[a] = g[b] => a = b
      OBVIOUS
  <2>4. \A k \in 1 .. n : k - 1 \in S => \A a, b \in 0 .. k - 1 : g[a] = g[b] => a = b
      OBVIOUS
  <2> HIDE DEF S
  <2>5. ~ 0 .. n \subseteq S
      BY <2>2
  <2>6. ~ \A k \in 1 .. n : k - 1 \in S => k \in S
      BY <2>2, <2>5, UpTo
  <2>7. PICK k \in 1 .. n : k - 1 \in S /\ k \notin S
      BY <2>6
  <2> QED
      BY <2>3, <2>4, <2>7
<1>10. PICK i \in 0 .. j - 1 : g[i] = g[j]
  <2>1. PICK a \in 0 .. j, b \in 0 .. j : g[a] = g[b] /\ a # b
      BY <1>9
  <2>2. j \in Nat /\ j >= 1
      BY <1>1
  <2>3. ~(a \in 0 .. j - 1 /\ b \in 0 .. j - 1)
      BY <1>9, <2>1
  <2>4. (a = j /\ b \in 0 .. j - 1) \/ (b = j /\ a \in 0 .. j - 1)
      BY <2>1, <2>2, <2>3
  <2> QED
      BY <2>1, <2>4
<1> DEFINE m == j - i
           c == [k \in 1 .. m |-> g[j - k]]
<1>11. /\ m \in 1 .. n /\ m \in Nat \ {0} /\ i + m = j
       /\ j - 1 \in 0 .. n - 1 /\ \A k \in 1 .. m : j - k \in 0 .. j - 1 /\ j - k \in 0 .. n - 1
    BY <1>1
<1>12. /\ c \in [1 .. m -> Currencies] /\ Len(c) = m
       /\ \A k \in 1 .. m : c[k] = g[j - k]
  <2>1. \A k \in 1 .. m : g[j - k] \in Currencies
      BY <1>6, <1>11
  <2> QED
      BY <1>11, <2>1
<1> HIDE DEF m, c
<1>13. ASSUME NEW k \in 1 .. m
       PROVE  /\ \E t \in 0 .. n - 1 : After(c, k) = g[t]
              /\ pred[After(c, k)] = c[k] /\ weight[<<c[k], After(c, k)>>] # None
  <2>1. CASE k = m
    <3>1. After(c, k) = g[j - 1]
        BY <1>11, <1>12, <2>1 DEF After
    <3>2. c[k] = g[i]
        BY <1>11, <1>12, <2>1 DEF m
    <3>3. (j - 1) + 1 = j /\ j \in 1 .. n
        BY <1>1
    <3>4. g[j] = pred[g[j - 1]]
        BY <1>3, <3>3
    <3>5. Supports(g[(j - 1) + 1], g[j - 1])
        BY <1>7, <1>11, Zenon
    <3> QED
        BY <1>10, <1>11, <3>1, <3>2, <3>3, <3>4, <3>5 DEF Supports
  <2>2. CASE k # m
    <3>1. /\ k + 1 \in 1 .. m /\ k + 1 # m + 1 /\ j - (k + 1) \in 0 .. n - 1
          /\ (j - (k + 1)) + 1 = j - k /\ j - k \in 1 .. n /\ (j - k) - 1 = j - (k + 1)
        BY <1>1, <1>11, <2>2
    <3>2. After(c, k) = g[j - (k + 1)] /\ c[k] = g[j - k]
        BY <1>12, <2>2, <3>1 DEF After
    <3>3. g[j - k] = pred[g[(j - k) - 1]]
        BY <1>3, <3>1, Zenon
    <3>4. Supports(g[(j - (k + 1)) + 1], g[j - (k + 1)])
        BY <1>7, <3>1, Zenon
    <3> QED
        BY <3>1, <3>2, <3>3, <3>4 DEF Supports
  <2> QED
      BY <2>1, <2>2
<1>14. CycleWeight(c) < 0
  <2>1. LinkedAround(c, m)
      BY <1>6, <1>13 DEF LinkedAround
  <2> QED
      BY <1>11, <1>12, <2>1 DEF LinksInv, PredCyclesGain
<1>15. c \in Cycles
  <2>1. ASSUME NEW a \in 1 .. m, NEW b \in 1 .. m, c[a] = c[b]
        PROVE  a = b
    <3>1. g[j - a] = g[j - b] /\ j - a \in 0 .. j - 1 /\ j - b \in 0 .. j - 1
        BY <1>11, <1>12, <2>1
    <3>2. j - a = j - b
        BY <1>9, <3>1
    <3> QED
        BY <3>2, <1>11
  <2>2. m \in 1 .. Len(currencies)
      BY <1>11 DEF n
  <2> QED
      BY <1>12, <1>13, <2>1, <2>2 DEF Cycles
<1>16. c[1] \in Reachable
  <2>1. 1 \in 1 .. m /\ j - 1 \in 0 .. n - 1
      BY <1>11
  <2>2. c[1] = g[j - 1]
      BY <1>12, <2>1
  <2> QED
      BY <1>6, <2>1, <2>2 DEF LinksInv, ReachedInReach, Linked, Reached
<1> QED
    BY <1>14, <1>15, <1>16 DEF Gaining

\* Every round reaches a node, as long as there is one to reach.
LEMMA LateRoundReachesAll ==
    ASSUME GraphTypeOK, EdgesWhole, LinksInv,
           NEW p, NEW A, NEW B, NEW E, NEW first, p \in Nat, FirstReached(p, A, B, E, first),
           p >= Len(currencies)
    PROVE  AllReached
<1> DEFINE n == Len(currencies)
<1>1. SUFFICES ASSUME NEW u \in Currencies, NEW z \in Currencies, Opening(u, z)
               PROVE  FALSE
    BY DEF AllReached
<1>2. /\ n \in Nat \ {0} /\ currencies \in Seq(Currencies) /\ first \in [Currencies -> Nat]
      /\ first[u] >= n - 1 /\ first[u] \in Nat
      /\ \A x \in Currencies :
           Reached(x) /\ first[x] > 0 => \E y \in Currencies : Reached(y) /\ first[y] = first[x] - 1
  <2>1. n \in Nat \ {0} /\ currencies \in Seq(Currencies)
      BY HeadTailOf DEF GraphTypeOK, LinksInv, LinksTyped
  <2>2. first \in [Currencies -> Nat] /\ (first[u] >= p - 1 \/ first[u] >= p)
      BY <1>1 DEF FirstReached
  <2>3. first[u] >= n - 1
      BY <2>1, <2>2
  <2> QED
      BY <2>1, <2>2, <2>3 DEF FirstReached
<1> HIDE DEF n
<1> DEFINE top == first[u]
           S == {k \in 0 .. top : \E y \in Currencies : Reached(y) /\ first[y] = top - k}
<1>3. 0 .. top \subseteq S
  <2>1. top \in Nat
      BY <1>2
  <2>2. 0 \in S
      BY <1>1, <1>2 DEF Opening
  <2>3. ASSUME NEW k \in 1 .. top, k - 1 \in S
        PROVE  k \in S
    <3>1. PICK x \in Currencies : Reached(x) /\ first[x] = top - (k - 1)
        BY <2>3
    <3>2. first[x] > 0
        BY <2>1, <3>1
    <3>3. PICK y \in Currencies : Reached(y) /\ first[y] = first[x] - 1
        BY <1>2, <3>1, <3>2
    <3>4. first[y] = top - k /\ k \in 0 .. top
        BY <2>1, <3>1, <3>3
    <3> QED
        BY <3>3, <3>4
  <2> HIDE DEF S, top
  <2> QED
      BY <2>1, <2>2, <2>3, UpTo
<1>4. \A k \in 0 .. n - 1 : \E y \in Currencies : Reached(y) /\ first[y] = k
  <2> SUFFICES ASSUME NEW k \in 0 .. n - 1
               PROVE  \E y \in Currencies : Reached(y) /\ first[y] = k
      OBVIOUS
  <2>1. top - k \in 0 .. top /\ top - (top - k) = k
      BY <1>2
  <2>2. top - k \in S
      BY <1>3, <2>1
  <2> QED
      BY <2>1, <2>2
<1> DEFINE at(k) == CHOOSE y \in Currencies : Reached(y) /\ first[y] = k
           g == [k \in 0 .. n |-> IF k = n THEN z ELSE at(k)]
<1>5. ASSUME NEW k \in 0 .. n - 1
      PROVE  at(k) \in Currencies /\ Reached(at(k)) /\ first[at(k)] = k
  <2>1. \E y \in Currencies : Reached(y) /\ first[y] = k
      BY <1>4
  <2> QED
      BY <2>1, Zenon
<1> HIDE DEF at
<1>6. g \in [0 .. n -> Currencies] /\ g[n] = z /\ \A k \in 0 .. n - 1 : g[k] = at(k)
  <2>1. \A k \in 0 .. n : k = n \/ k \in 0 .. n - 1
      BY <1>2
  <2>2. n \in 0 .. n /\ \A k \in 0 .. n - 1 : k \in 0 .. n /\ k # n
      BY <1>2
  <2> QED
      BY <1>5, <2>1, <2>2
<1> HIDE DEF g
<1>7. \A k \in 0 .. n : Listed(currencies, g[k])
  <2> SUFFICES ASSUME NEW k \in 0 .. n
               PROVE  Listed(currencies, g[k])
      OBVIOUS
  <2>1. CASE k = n
      BY <1>1, <1>6, <2>1 DEF Opening, EdgesWhole
  <2>2. CASE k \in 0 .. n - 1
      BY <1>5, <1>6, <2>2, ReachedListed
  <2> QED
      BY <1>2, <2>1, <2>2
<1>8. PICK i \in 0 .. n, j \in 0 .. n : i < j /\ g[i] = g[j]
    BY <1>2, <1>6, <1>7, Crowded DEF n
<1>9. i \in 0 .. n - 1 /\ g[i] = at(i)
    BY <1>2, <1>6, <1>8
<1>10. CASE j = n
    BY <1>1, <1>5, <1>6, <1>8, <1>9, <1>10 DEF Opening
<1>11. CASE j \in 0 .. n - 1
  <2>1. g[j] = at(j) /\ first[at(j)] = j
      BY <1>5, <1>6, <1>11
  <2>2. g[i] = at(i) /\ first[at(i)] = i
      BY <1>5, <1>9
  <2>3. i # j
      BY <1>2, <1>8
  <2> QED
      BY <2>1, <2>2, <2>3, <1>8
<1> QED
    BY <1>2, <1>10, <1>11

LEMMA LateRoundDidChains ==
    ASSUME LinksInv, GraphTypeOK, DetectionAssumption,
           NEW p, NEW A, NEW B, NEW E, p \in Nat, Pass(p, A, B, E), p >= Len(currencies)
    PROVE  ChainsDone
<1>1. SUFFICES ASSUME Len(currencies) >= 4, dist[First] = 0,
                      NEW x \in Currencies, NEW y \in Currencies, NEW z \in Currencies,
                      Linked(x), pred[x] = First, Linked(y), pred[y] = x, Lowerable(y, z)
               PROVE  FALSE
    BY DEF ChainsDone
<1>2. PICK last : LastLowered(p, A, B, E, last)
    BY DEF Pass
<1>3. /\ last \in [Currencies -> 0 .. p]
      /\ \A u \in Currencies : last[u] > 0 => Linked(u) /\ last[u] <= last[pred[u]] + 1
    BY <1>2 DEF LastLowered
<1>4. First \in Currencies /\ last[First] \in Int /\ last[x] \in Int /\ last[y] \in Int
    BY <1>3 DEF LinksInv, LinksTyped
<1>5. ~Linked(First) /\ last[First] >= 0
    BY <1>1, <1>3, <1>4 DEF Linked
<1>6. last[First] <= 0
    BY <1>3, <1>4, <1>5
<1>7. last[x] <= 1
    BY <1>1, <1>3, <1>4, <1>6
<1>8. last[y] <= 2
    BY <1>1, <1>3, <1>4, <1>7
<1>9. Len(currencies) \in Nat /\ p - 1 > 2
    BY <1>1 DEF GraphTypeOK
<1>10. y \in A \cup B \/ InHand(y, z, E)
    BY <1>1 DEF Pass, Pending
<1>11. CASE y \in A \cup B
    BY <1>2, <1>4, <1>8, <1>9, <1>11 DEF LastLowered
<1>12. CASE InHand(y, z, E)
  <2>1. E # <<>> /\ node = y
      BY <1>12 DEF InHand, Listed
  <2> QED
      BY <1>2, <1>4, <1>8, <1>9, <2>1 DEF LastLowered
<1> QED
    BY <1>10, <1>11, <1>12

\* The graph has been gone round as often as it has nodes.
Exhausted ==
    \E p \in Nat : \E A, B \in SUBSET Currencies : \E E :
        p >= Len(currencies) /\ B # {} /\ Pass(p, A, B, E)

LinksContext == GraphTypeOK /\ EdgesWhole /\ LinksInv

LEMMA ExhaustedEnds == DetectionAssumption => (LinksContext /\ Exhausted => Outcome)
<1> SUFFICES ASSUME DetectionAssumption, LinksContext, Exhausted
             PROVE  Outcome
    OBVIOUS
<1>1. PICK p \in Nat, A \in SUBSET Currencies, B \in SUBSET Currencies :
        \E E : p >= Len(currencies) /\ B # {} /\ Pass(p, A, B, E)
    BY DEF Exhausted
<1>2. PICK E : p >= Len(currencies) /\ B # {} /\ Pass(p, A, B, E)
    BY <1>1
<1>3. PICK v \in B : v \in Currencies
    BY <1>2
<1>4. PICK last : LastLowered(p, A, B, E, last)
    BY <1>2 DEF Pass
<1>5. last[v] >= Len(currencies)
  <2>1. last[v] >= p /\ last[v] \in Int /\ Len(currencies) \in Nat
      BY <1>3, <1>4 DEF LastLowered, LinksContext, GraphTypeOK
  <2> QED
      BY <1>2, <2>1
<1>6. Gaining
    BY <1>3, <1>4, <1>5, LateLoweringGains DEF LinksContext
<1>7. PICK first : FirstReached(p, A, B, E, first)
    BY <1>2 DEF Pass
<1>8. AllReached
    BY <1>2, <1>7, LateRoundReachesAll DEF LinksContext
<1>9. ChainsDone
    BY <1>2, LateRoundDidChains DEF LinksContext
<1> QED
    BY <1>6, <1>8, <1>9 DEF Outcome

LEMMA ExhaustedEndsThen == LinksContext' /\ Exhausted' => Outcome'
    BY ExhaustedEnds, DetectionAssumption, PTL

-------------------------------------------------------------------------------
\* The queue in a round: the nodes of this round, and behind them those of the next.
Splits(b, A, B) ==
    /\ A = {queue[k] : k \in 1 .. b}
    /\ B = {queue[k] : k \in b + 1 .. Len(queue)}

\* No node is queued twice for a round.
Counts(p, B) == \A u \in Currencies : count[u] <= p /\ (u \notin B => count[u] < p)

InRound ==
    \E p \in Nat \ {0} : \E A, B \in SUBSET Currencies : \E E :
        /\ \E b \in 0 .. Len(queue) : Splits(b, A, B)
        /\ E = edges /\ Counts(p, B) /\ Pass(p, A, B, E)

Relaxing == InRound \/ (queue = <<>> /\ edges = <<>> /\ Outcome)

LEMMA StartRelaxing ==
    ASSUME GraphTypeOK, DetectionAssumption, currencies # <<>>, StartSearch, edges = <<>>,
           UNCHANGED <<weight, currencies>>
    PROVE  Relaxing'
<1>1. PICK A : A = {First}
    OBVIOUS
<1>2. First \in Currencies /\ A \in SUBSET Currencies /\ {} \in SUBSET Currencies
    BY <1>1, HeadTailOf DEF GraphTypeOK, First
<1>3. queue' = <<First>> /\ edges' = <<>> /\ count' = [c \in Currencies |-> 0]
    BY DEF StartSearch
<1>4. Splits(1, A, {})' /\ 1 \in 0 .. Len(queue')
    BY <1>1, <1>3 DEF Splits
<1>5. Counts(1, {})'
    BY <1>3 DEF Counts
<1>6. Pass(1, A, {}, <<>>)'
  <2>1. First' = First
      BY DEF First
  <2> QED
      BY <2>1, <1>1, StartPass
<1>7. InRound'
    BY <1>2, <1>3, <1>4, <1>5, <1>6 DEF InRound
<1> QED
    BY <1>7 DEF Relaxing

LEMMA PopRelaxing ==
    ASSUME GraphTypeOK, SearchTypeOK, EdgesWhole, LinksTyped, Relaxing, PopNode,
           UNCHANGED graphState
    PROVE  Relaxing'
<1>1. /\ edges = <<>> /\ queue # <<>> /\ queue \in Seq(Currencies)
      /\ node' = Head(queue) /\ queue' = Tail(queue) /\ edges' = neighbours[node']
      /\ count' = count
      /\ UNCHANGED <<dist, pred, weight, currencies>>
    BY DEF PopNode, graphState, SearchTypeOK
<1>2. PICK next : next = node'
    OBVIOUS
<1>3. PICK E : E = neighbours[next]
    OBVIOUS
<1>4. /\ next \in Currencies /\ next = queue[1] /\ Len(queue) \in Nat \ {0}
      /\ Len(queue') = Len(queue) - 1
      /\ \A k \in 1 .. Len(queue') : queue'[k] = queue[k + 1]
    BY <1>1, <1>2, HeadTailOf
<1>5. PICK p \in Nat \ {0}, A \in SUBSET Currencies, B \in SUBSET Currencies :
        /\ \E b \in 0 .. Len(queue) : Splits(b, A, B)
        /\ Counts(p, B) /\ Pass(p, A, B, <<>>)
    BY <1>1 DEF Relaxing, InRound
<1>6. PICK b \in 0 .. Len(queue) : Splits(b, A, B)
    BY <1>5
<1>7. CASE b = 0
  <2>1. PICK A2 : A2 = {queue'[k] : k \in 1 .. Len(queue')}
      OBVIOUS
  <2>2. A = {} /\ B = {queue[k] : k \in 1 .. Len(queue)}
      BY <1>4, <1>6, <1>7 DEF Splits
  <2>3. next \in B /\ A2 \subseteq B /\ B \subseteq A2 \cup {next}
    <3>1. 1 \in 1 .. Len(queue) /\ \A k \in 1 .. Len(queue') : k + 1 \in 1 .. Len(queue)
        BY <1>4
    <3>2. ASSUME NEW k \in 1 .. Len(queue)
          PROVE  queue[k] \in A2 \cup {next}
      <4>1. CASE k = 1
          BY <4>1, <1>4
      <4>2. CASE k # 1
        <5>1. k - 1 \in 1 .. Len(queue') /\ (k - 1) + 1 = k
            BY <4>2, <1>4
        <5>2. queue'[k - 1] = queue[k]
            BY <5>1, <1>4
        <5> QED
            BY <2>1, <5>1, <5>2
      <4> QED
          BY <4>1, <4>2
    <3> QED
        BY <2>1, <2>2, <3>1, <3>2, <1>4
  <2>4. A2 \in SUBSET Currencies /\ {} \in SUBSET Currencies /\ p + 1 \in Nat \ {0}
      BY <2>3
  <2>5. Pass(p + 1, A2, {}, E)'
    <3>1. p + 1 \in Nat
        OBVIOUS
    <3> QED
        BY <2>2, <2>3, <3>1, <1>1, <1>2, <1>3, <1>4, <1>5, PopPass
  <2>6. PICK m : m = Len(queue) - 1
      OBVIOUS
  <2>9. Splits(m, A2, {})' /\ m \in 0 .. Len(queue')
    <3>1. m \in Nat /\ m = Len(queue') /\ m + 1 .. m = {}
        BY <2>6, <1>4
    <3> QED
        BY <2>1, <3>1 DEF Splits
  <2>7. Counts(p + 1, {})'
    <3>1. \A u \in Currencies : count[u] \in Int /\ count[u] <= p
        BY <1>5 DEF Counts, SearchTypeOK
    <3>2. \A u \in Currencies : count[u] <= p + 1 /\ count[u] < p + 1
        BY <3>1
    <3> QED
        BY <3>2, <1>1 DEF Counts
  <2>8. InRound'
      BY <2>4, <2>5, <2>7, <2>9, <1>1, <1>2, <1>3 DEF InRound
  <2> QED
      BY <2>8 DEF Relaxing
<1>8. CASE b # 0
  <2>1. PICK A2 : A2 = {queue'[k] : k \in 1 .. b - 1}
      OBVIOUS
  <2>2. A = {queue[k] : k \in 1 .. b} /\ B = {queue[k] : k \in b + 1 .. Len(queue)}
      BY <1>6 DEF Splits
  <2>3. next \in A /\ A2 \subseteq A /\ A \subseteq A2 \cup {next}
    <3>1. 1 \in 1 .. b /\ \A k \in 1 .. b - 1 : k + 1 \in 1 .. b /\ k \in 1 .. Len(queue')
        BY <1>4, <1>8
    <3>2. ASSUME NEW k \in 1 .. b
          PROVE  queue[k] \in A2 \cup {next}
      <4>1. CASE k = 1
          BY <4>1, <1>4
      <4>2. CASE k # 1
        <5>1. k - 1 \in 1 .. b - 1 /\ k - 1 \in 1 .. Len(queue') /\ (k - 1) + 1 = k
            BY <4>2, <1>4
        <5>2. queue'[k - 1] = queue[k]
            BY <5>1, <1>4
        <5> QED
            BY <2>1, <5>1, <5>2
      <4> QED
          BY <4>1, <4>2
    <3> QED
        BY <2>1, <2>2, <3>1, <3>2, <1>4
  <2>4. A2 \in SUBSET Currencies
      BY <2>3
  <2>5. Pass(p, A2, B, E)'
      BY <2>3, <1>1, <1>2, <1>3, <1>4, <1>5, PopPass
  <2>6. b - 1 \in 0 .. Len(queue') /\ Splits(b - 1, A2, B)'
    <3>1. b - 1 \in 0 .. Len(queue') /\ (b - 1) + 1 = b
        BY <1>4, <1>8
    <3>2. B = {queue'[k] : k \in b .. Len(queue')}
      <4>1. ASSUME NEW k \in b .. Len(queue')
            PROVE  k + 1 \in b + 1 .. Len(queue) /\ queue'[k] = queue[k + 1]
          BY <1>4, <1>8
      <4>2. ASSUME NEW k \in b + 1 .. Len(queue)
            PROVE  k - 1 \in b .. Len(queue') /\ queue'[k - 1] = queue[k]
        <5>1. k - 1 \in b .. Len(queue') /\ k - 1 \in 1 .. Len(queue') /\ (k - 1) + 1 = k
            BY <1>4, <1>8
        <5> QED
            BY <5>1, <1>4
      <4> QED
          BY <2>2, <4>1, <4>2
    <3> QED
        BY <2>1, <3>1, <3>2 DEF Splits
  <2>7. Counts(p, B)'
      BY <1>1, <1>5 DEF Counts
  <2>8. InRound'
      BY <2>4, <2>5, <2>6, <2>7, <1>1, <1>2, <1>3 DEF InRound
  <2> QED
      BY <2>8 DEF Relaxing
<1> QED
    BY <1>7, <1>8

LEMMA RelaxRelaxing ==
    ASSUME SearchInv, DetectionAssumption, LinksContext, Relaxing, RelaxEdge,
           UNCHANGED graphState
    PROVE  LinksInv' /\ Relaxing'
<1> DEFINE v == Head(edges)
<1>1. /\ edges # <<>> /\ edges \in Seq(Currencies) /\ queue \in Seq(Currencies) /\ node' = node
      /\ count \in [Currencies -> Nat]
      /\ UNCHANGED <<weight, currencies, neighbours>>
    BY DEF RelaxEdge, graphState, SearchInv, SearchTypeOK
<1>2. /\ GraphTypeOK /\ EdgesWhole /\ LinksInv /\ LinksTyped
    BY DEF LinksContext, LinksInv
<1>3. /\ node \in Currencies /\ Reached(node) /\ v \in Currencies /\ weight[<<node, v>>] # None
  <2>1. v \in Currencies /\ v = edges[1] /\ 1 \in 1 .. Len(edges)
      BY <1>1, HeadTailOf
  <2> QED
      BY <2>1, <1>1 DEF SearchInv, EdgesOfNode, Reached
<1>4. PICK p \in Nat \ {0}, A \in SUBSET Currencies, B \in SUBSET Currencies :
        /\ \E b \in 0 .. Len(queue) : Splits(b, A, B)
        /\ Counts(p, B) /\ Pass(p, A, B, edges)
    BY <1>1 DEF Relaxing, InRound
<1>5. PICK b \in 0 .. Len(queue) : Splits(b, A, B)
    BY <1>4
<1>6. PICK E : E = Tail(edges)
    OBVIOUS
<1>7. \A u : u \in A \cup B => Listed(queue, u) /\ Reached(u)
  <2>1. \A k \in 1 .. b : k \in 1 .. Len(queue)
      BY <1>1
  <2>2. \A k \in b + 1 .. Len(queue) : k \in 1 .. Len(queue)
      BY <1>1
  <2> QED
      BY <2>1, <2>2, <1>5 DEF Splits, Listed, SearchInv, QueuedReached, Reached
<1>8. \A u : Listed(queue, u) => u \in A \cup B
  <2>1. \A k \in 1 .. Len(queue) : k \in 1 .. b \/ k \in b + 1 .. Len(queue)
      BY <1>1
  <2> QED
      BY <2>1, <1>5 DEF Splits, Listed
<1>9. CASE ~Improves(v)
  <2>1. edges' = E /\ UNCHANGED <<dist, pred, count, queue>>
      BY <1>6, <1>9 DEF RelaxEdge
  <2>2. Pass(p, A, B, E)'
      BY <2>1, <1>1, <1>2, <1>4, <1>6, <1>9, SkipPass
  <2>3. Splits(b, A, B)' /\ Counts(p, B)' /\ b \in 0 .. Len(queue')
      BY <2>1, <1>4, <1>5 DEF Splits, Counts
  <2>4. InRound'
      BY <2>1, <2>2, <2>3 DEF InRound
  <2>5. LinksInv'
      BY <2>1, <1>1, <1>2, LinksStill
  <2> QED
      BY <2>4, <2>5 DEF Relaxing
<1>10. CASE Improves(v)
  <2>1. Lowers(v)
      BY <1>1, <1>3, <1>10 DEF RelaxEdge, Lowers
  <2>2. LinksInv'
      BY <2>1, <1>2, LowerKeepsLinks
  <2> HIDE DEF v
  <2>3. CASE Listed(queue, v)
    <3>1. edges' = E /\ UNCHANGED <<count, queue>>
        BY <2>3, <1>6, <1>10 DEF RelaxEdge, v
    <3>2. Pass(p, A, B, E)'
        BY <2>1, <2>3, <1>1, <1>2, <1>4, <1>6, <1>7, <1>8, LowerPass DEF v
    <3>3. Splits(b, A, B)' /\ Counts(p, B)' /\ b \in 0 .. Len(queue')
        BY <3>1, <1>4, <1>5 DEF Splits, Counts
    <3>4. InRound'
        BY <3>1, <3>2, <3>3 DEF InRound
    <3> QED
        BY <2>2, <3>4 DEF Relaxing
  <2>4. CASE ~Listed(queue, v)
    <3>1. PICK B2 : B2 = B \cup {v}
        OBVIOUS
    <3>2. /\ count' = [count EXCEPT ![v] = @ + 1]
          /\ IF TooOften(v)
             THEN queue' = <<>> /\ edges' = <<>>
             ELSE queue' = Append(queue, v) /\ edges' = Tail(edges)
        BY <2>4, <1>10 DEF RelaxEdge, v
    <3>3. v \notin A /\ v \notin B /\ B2 \in SUBSET Currencies /\ v \in Currencies
        BY <2>4, <3>1, <1>3, <1>7 DEF v
    <3>4. Pass(p, A, B2, E)'
      <4>1. PICK x : x = v
          OBVIOUS
      <4>2. Lowers(x) /\ x = Head(edges) /\ B2 = B \cup {x} /\ x \notin A
          BY <2>1, <3>1, <3>3, <4>1 DEF v
      <4> QED
          BY <4>2, <1>1, <1>2, <1>4, <1>6, LowerPass
    <3>5. count[v] + 1 <= p /\ Counts(p, B2)'
      <4>1. \A u \in Currencies : count[u] \in Nat /\ count[u] <= p /\ (u \notin B => count[u] < p)
          BY <1>1, <1>4 DEF Counts
      <4>2. count[v] + 1 <= p
          BY <3>3, <4>1
      <4>3. ASSUME NEW u \in Currencies
            PROVE  count'[u] <= p /\ (u \notin B2 => count'[u] < p)
        <5>1. CASE u = v
            BY <3>1, <3>2, <4>2, <5>1, <1>1
        <5>2. CASE u # v
            BY <3>1, <3>2, <4>1, <5>2, <1>1
        <5> QED
            BY <5>1, <5>2
      <4> QED
          BY <4>2, <4>3 DEF Counts
    <3>6. CASE TooOften(v)
      <4>1. queue' = <<>> /\ edges' = <<>>
          BY <3>2, <3>6
      <4>2. p >= Len(currencies') /\ B2 # {}
        <5>1. count[v] \in Nat /\ Len(currencies) \in Nat /\ count[v] + 1 >= Len(currencies)
            BY <3>3, <3>6, <1>1, <1>2 DEF TooOften, GraphTypeOK
        <5>2. p >= Len(currencies)
            BY <3>5, <5>1
        <5> QED
            BY <3>1, <5>2, <1>1
      <4>3. Exhausted'
          BY <3>3, <3>4, <4>2 DEF Exhausted
      <4>4. LinksContext'
        <5>1. GraphTypeOK' /\ EdgesWhole'
            BY <1>2 DEF GraphTypeOK, EdgesWhole, graphState
        <5> QED
            BY <2>2, <5>1 DEF LinksContext
      <4>5. Outcome'
          BY <4>3, <4>4, ExhaustedEndsThen
      <4> QED
          BY <2>2, <4>1, <4>5 DEF Relaxing
    <3>7. CASE ~TooOften(v)
      <4>1. queue' = Append(queue, v) /\ edges' = E
          BY <3>2, <3>7, <1>6
      <4>2. /\ Len(queue') = Len(queue) + 1 /\ Len(queue) \in Nat /\ queue'[Len(queue) + 1] = v
            /\ \A k \in 1 .. Len(queue) : queue'[k] = queue[k]
          BY <3>3, <4>1, <1>1, AppendOf
      <4>3. b \in 0 .. Len(queue')
          BY <4>2
      <4>4. A = {queue'[k] : k \in 1 .. b}
        <5>1. \A k \in 1 .. b : k \in 1 .. Len(queue)
            BY <1>1
        <5>2. \A k \in 1 .. b : queue'[k] = queue[k]
            BY <4>2, <5>1
        <5> QED
            BY <5>2, <1>5 DEF Splits
      <4>5. B2 = {queue'[k] : k \in b + 1 .. Len(queue')}
        <5>1. \A k \in b + 1 .. Len(queue') : k = Len(queue) + 1 \/ k \in b + 1 .. Len(queue)
            BY <4>2
        <5>2. Len(queue) + 1 \in b + 1 .. Len(queue')
              /\ \A k \in b + 1 .. Len(queue) : k \in b + 1 .. Len(queue') /\ k \in 1 .. Len(queue)
            BY <4>2
        <5>3. B = {queue[k] : k \in b + 1 .. Len(queue)}
            BY <1>5 DEF Splits
        <5> QED
            BY <3>1, <4>2, <5>1, <5>2, <5>3
      <4>6. InRound'
          BY <3>3, <3>4, <3>5, <4>1, <4>3, <4>4, <4>5 DEF InRound, Splits
      <4> QED
          BY <2>2, <4>6 DEF Relaxing
    <3> QED
        BY <3>6, <3>7
  <2> QED
      BY <2>3, <2>4
<1> QED
    BY <1>9, <1>10

\* When the queue is empty, the search has come to its outcome.
LEMMA RelaxedOutcome ==
    ASSUME Relaxing, edges = <<>>, queue = <<>>
    PROVE  Outcome
<1>1. SUFFICES ASSUME InRound
               PROVE  Outcome
    BY DEF Relaxing
<1>2. PICK p \in Nat \ {0}, A \in SUBSET Currencies, B \in SUBSET Currencies :
        /\ \E b \in 0 .. Len(queue) : Splits(b, A, B)
        /\ Pass(p, A, B, <<>>)
    BY <1>1 DEF InRound
<1>3. A = {} /\ B = {}
    BY <1>2 DEF Splits
<1>4. \A u, z : ~InHand(u, z, <<>>)
    BY DEF InHand, Listed
<1>5. Settled
    BY <1>2, <1>3, <1>4 DEF Pass, Pending, Settled
<1>6. PICK first : FirstReached(p, A, B, <<>>, first)
    BY <1>2 DEF Pass
<1>7. AllReached
    BY <1>3, <1>4, <1>6 DEF FirstReached, AllReached
<1> QED
    BY <1>5, <1>7 DEF Outcome

-------------------------------------------------------------------------------
\* The second pass.  While nothing is found, what could be lowered is still to be
\* scanned.
Scanned ==
    found = <<>> =>
        \A u, z \in Currencies :
            Lowerable(u, z) => InHand(u, z, edges) \/ Listed(unscanned, u)

WalkLinked ==
    /\ Improves(Head(edges))
    /\ \A i, j \in 1 .. Len(path) : path[i] = path[j] => i = j
    /\ \A i \in 1 .. Len(path) - 1 : pred[path[i]] = path[i + 1]

FoundGains ==
    /\ found # <<>> => Gaining
    /\ \A k \in 1 .. Len(found) : found[k].profit # None

CompleteInv ==
    /\ search \in Searches => LinksInv
    /\ search = "relax" => Relaxing /\ found = <<>>
    /\ search \in {"scan", "walk"} => Outcome /\ FoundGains
    /\ search = "scan" => Scanned
    /\ search = "walk" => WalkLinked
    /\ OpenRouteNeedsCrossedPair

\* Two nodes that are each other's predecessors are a pair whose rates gain on each
\* other, and so is a node that is its own.
LEMMA MutualCrossed ==
    ASSUME GraphTypeOK, DetectionAssumption, LinksInv,
           NEW a \in Currencies, NEW b \in Currencies,
           Linked(a), Linked(b), pred[b] = a, pred[a] = b
    PROVE  Crossed
<1> DEFINE c == [i \in 1 .. 2 |-> IF i = 1 THEN a ELSE b]
           numbers == [i \in 1 .. Len(c) |-> weight[<<c[i], After(c, i)>>]]
           sum == CHOOSE s : Sums(numbers, Len(numbers), s)
<1>1. c \in [1 .. 2 -> Currencies] /\ c[1] = a /\ c[2] = b /\ Len(c) = 2
    OBVIOUS
<1> HIDE DEF c
<1>2. After(c, 1) = b /\ After(c, 2) = a
    BY <1>1 DEF After
<1>3. weight[<<a, b>>] # None /\ weight[<<b, a>>] # None
    BY DEF LinksInv, LinksSupported, Supports
<1>4. weight[<<a, b>>] \in Int /\ weight[<<b, a>>] \in Int
    BY <1>3, WeightTyped
<1>5. LinkedAround(c, 2)
  <2>1. \A i \in 1 .. 2 : i = 1 \/ i = 2
      OBVIOUS
  <2> QED
      BY <2>1, <1>1, <1>2 DEF LinkedAround
<1>6. CycleWeight(c) < 0
  <2>1. 2 \in Nat \ {0}
      OBVIOUS
  <2> QED
      BY <2>1, <1>1, <1>5 DEF LinksInv, PredCyclesGain
<1>7. CycleWeight(c) = sum[Len(numbers)]
  <2>1. CycleWeight(c) = Total(numbers)
      BY Zenon DEF CycleWeight
  <2>2. Total(numbers) = sum[Len(numbers)]
      BY Zenon DEF Total, Sums
  <2> QED
      BY <2>1, <2>2
<1>8. Len(numbers) = 2 /\ numbers[1] = weight[<<a, b>>] /\ numbers[2] = weight[<<b, a>>]
    BY <1>1, <1>2
<1> HIDE DEF numbers
<1>9. AreInts(numbers, 2) /\ Sums(numbers, 2, sum)
  <2>1. AreInts(numbers, 2)
    <3>1. \A i \in 1 .. 2 : i = 1 \/ i = 2
        OBVIOUS
    <3> QED
        BY <3>1, <1>4, <1>8 DEF AreInts
  <2>2. \E s : Sums(numbers, 2, s)
      BY <2>1, SumsExist
  <2> QED
      BY <2>1, <2>2, <1>8
<1> HIDE DEF sum
<1>10. sum[2] = weight[<<a, b>>] + weight[<<b, a>>]
  <2>1. /\ sum \in [0 .. 2 -> Int] /\ sum[0] = 0
        /\ \A k \in 1 .. 2 : sum[k] = sum[k - 1] + numbers[k]
    <3>1. 2 \in Nat
        OBVIOUS
    <3>2. AreInts(numbers, 2) /\ Sums(numbers, 2, sum)
        BY <1>9
    <3>3. \A n \in Nat : AreInts(numbers, n) /\ Sums(numbers, n, sum) =>
            /\ sum \in [0 .. n -> Int] /\ sum[0] = 0
            /\ \A k \in 1 .. n : sum[k] = sum[k - 1] + numbers[k]
        BY SumsAre
    <3> QED
        BY <3>1, <3>2, <3>3, Zenon
  <2>2. sum[1] = sum[1 - 1] + numbers[1] /\ sum[2] = sum[2 - 1] + numbers[2]
      BY <2>1
  <2> QED
      BY <2>1, <2>2, <1>4, <1>8
<1> QED
    BY <1>3, <1>6, <1>7, <1>8, <1>10 DEF Crossed

\* Four nodes of the graph.
LEMMA FourNodes ==
    ASSUME GraphTypeOK, NEW a \in Currencies, NEW b \in Currencies, NEW c \in Currencies,
           NEW d \in Currencies, a # b, a # c, a # d, b # c, b # d, c # d,
           Listed(currencies, a), Listed(currencies, b), Listed(currencies, c),
           Listed(currencies, d)
    PROVE  Len(currencies) >= 4
<1> DEFINE n == Len(currencies)
           g == [i \in 0 .. n |-> CASE i = 0 -> a [] i = 1 -> b [] i = 2 -> c [] OTHER -> d]
<1>1. currencies \in Seq(Currencies) /\ n \in Nat
    BY DEF GraphTypeOK
<1>2. SUFFICES ASSUME n <= 3
               PROVE  FALSE
    BY <1>1
<1>3. g \in [0 .. n -> Currencies] /\ \A i \in 0 .. n : Listed(currencies, g[i])
    OBVIOUS
<1>4. \A i, j \in 0 .. n : i < j => g[i] # g[j]
  <2>1. \A i \in 0 .. n : i = 0 \/ i = 1 \/ i = 2 \/ i = 3
      BY <1>1, <1>2
  <2>2. \A i \in 0 .. n : /\ i = 0 => g[i] = a
                          /\ i = 1 => g[i] = b
                          /\ i = 2 => g[i] = c
                          /\ i = 3 => g[i] = d
      OBVIOUS
  <2> QED
      BY <2>1, <2>2
<1> HIDE DEF g
<1> QED
    BY <1>1, <1>3, <1>4, Crowded

\* A route of three legs that is not closed comes from a walk of three nodes that ends
\* at a node it met or at one without a predecessor.  In the second case the chain
\* was looked at to its end.
LEMMA OpenRouteCrossed ==
    ASSUME GraphSound, SearchInv, DetectionAssumption, LinksContext, search = "walk", WalkLinked,
           Outcome, Listed(path, Before), NEW v \in Currencies, Lowerable(node, v),
           Len(Route(Walked, v)) = 4, ~Closed(Route(Walked, v))
    PROVE  Crossed
<1> DEFINE cycle == Route(Walked, v)
           n == Len(path)
<1>1. /\ Walked \in Seq(Currencies) /\ Len(Walked) \in Nat \ {0} /\ Walked[1] = node
    BY WalkedSound
<1>2. PICK k \in 1 .. Len(Walked) :
        /\ Len(cycle) = k + 1
        /\ \A i \in 1 .. k : cycle[i] = Walked[k + 1 - i] /\ k + 1 - i \in 1 .. Len(Walked)
        /\ cycle[k + 1] = v
        /\ Walked[k] = v \/ (k = Len(Walked) /\ ~Listed(Walked, v))
    BY <1>1, RouteShape
<1>3. k = 3 /\ Len(Walked) = 3 /\ ~Listed(Walked, v)
  <2>1. k = 3
    <3>1. Len(cycle) = k + 1
        BY <1>2, Zenon
    <3>2. Len(cycle) = 4 /\ k \in Nat
      <4> HIDE DEF cycle
      <4>1. k \in 1 .. Len(Walked)
          BY <1>2, Zenon
      <4>2. k \in Nat
          BY <4>1, <1>1
      <4> QED
          BY <4>2 DEF cycle
    <3> QED
        BY <3>1, <3>2
  <2>2. 1 \in 1 .. 3 /\ 3 + 1 - 1 = 3 /\ 3 + 1 = 4
      OBVIOUS
  <2>3. cycle[1] = Walked[3] /\ cycle[4] = v /\ cycle[1] # cycle[4]
      BY <2>1, <2>2, <1>2 DEF Closed
  <2> QED
      BY <2>1, <2>3, <1>2
<1>4. /\ path \in Seq(Currencies) /\ n \in Nat \ {0} /\ path[1] = node
      /\ WalkSupported(path) /\ pred \in [Currencies -> Currencies]
      /\ \A i \in 1 .. n : path[i] \in Currencies /\ Reached(path[i])
      /\ \A i, j \in 1 .. n : path[i] = path[j] => i = j
      /\ \A i \in 1 .. n - 1 : pred[path[i]] = path[i + 1]
      /\ Before = pred[path[n]]
  <2>1. path \in Seq(Currencies) /\ path # <<>> /\ path[1] = node /\ WalkSupported(path)
      BY DEF SearchInv, SearchTypeOK, PathFromNode
  <2> QED
      BY <2>1 DEF WalkLinked, LinksContext, LinksInv, LinksTyped, Before, WalkSupported, Reached
<1> HIDE DEF n
<1>5. \A a \in Currencies : Reached(a) /\ ~Linked(a) => a = First /\ dist[First] = 0 /\ pred[First] = First
    BY DEF Linked, Reached, LinksContext, LinksInv, FirstIsRoot
<1>6. GraphTypeOK /\ EdgesWhole /\ LinksInv
    BY DEF LinksContext
<1>7. CASE Before = path[n]
  <2>1. Walked = path /\ n = 3
      BY <1>3, <1>7 DEF Walked, n
  <2> DEFINE y == path[1]
             x == path[2]
             r == path[3]
  <2>2. /\ y \in Currencies /\ x \in Currencies /\ r \in Currencies
        /\ Reached(y) /\ Reached(x) /\ Reached(r)
        /\ y # x /\ y # r /\ x # r /\ pred[y] = x /\ pred[x] = r /\ pred[r] = r /\ y = node
    <3>1. 1 \in 1 .. 3 /\ 2 \in 1 .. 3 /\ 3 \in 1 .. 3 /\ 1 \in 1 .. 3 - 1 /\ 2 \in 1 .. 3 - 1
          /\ 1 + 1 = 2 /\ 2 + 1 = 3
        OBVIOUS
    <3> QED
        BY <2>1, <3>1, <1>4, <1>7
  <2>3. v # y /\ v # x /\ v # r
    <3>1. 1 \in 1 .. Len(Walked) /\ 2 \in 1 .. Len(Walked) /\ 3 \in 1 .. Len(Walked)
        BY <1>3
    <3> QED
        BY <2>1, <3>1, <1>3 DEF Listed
  <2> HIDE DEF x, y, r
  <2>4. CASE Linked(r)
      BY <2>2, <2>4, <1>6, MutualCrossed
  <2>5. CASE ~Linked(r)
    <3>1. r = First /\ dist[First] = 0
        BY <2>2, <2>5, <1>5
    <3>2. Linked(x) /\ Linked(y)
        BY <2>2, <3>1, <1>5
    <3>3. Reached(v)
        BY DEF Lowerable
    <3>4. Len(currencies) >= 4
        BY <2>2, <2>3, <3>3, <1>6, ReachedListed, FourNodes
    <3>5. ChainsDone
        BY DEF Outcome, Settled, Lowerable, SearchInv, SearchTypeOK, EdgesOfNode, PathFromNode
    <3>6. ~Lowerable(y, v)
        BY <2>2, <3>1, <3>2, <3>4, <3>5 DEF ChainsDone
    <3> QED
        BY <2>2, <3>6
  <2> QED
      BY <2>4, <2>5
<1>8. CASE Before # path[n]
  <2>1. Walked = Append(path, Before) /\ n = 2
    <3>1. Walked = Append(path, Before)
        BY <1>8 DEF Walked, n
    <3>2. Before \in Currencies
        BY <1>4
    <3>3. Len(Walked) = n + 1
        BY <3>1, <3>2, <1>4, AppendOf DEF n
    <3> QED
        BY <3>1, <3>3, <1>3, <1>4
  <2> DEFINE a == path[1]
             b == path[2]
  <2>2. a \in Currencies /\ b \in Currencies /\ Reached(a) /\ Reached(b) /\ a # b /\ pred[a] = b
    <3>1. 1 \in 1 .. 2 /\ 2 \in 1 .. 2 /\ 1 \in 1 .. 2 - 1 /\ 1 + 1 = 2
        OBVIOUS
    <3> QED
        BY <2>1, <3>1, <1>4
  <2>3. pred[b] = a
    <3>1. PICK j \in 1 .. n : path[j] = Before
        BY DEF Listed, n
    <3>2. j = 1
        BY <2>1, <3>1, <1>8
    <3> QED
        BY <2>1, <3>1, <3>2, <1>4
  <2> HIDE DEF a, b
  <2>4. Linked(a) /\ Linked(b)
      BY <2>2, <2>3, <1>5
  <2> QED
      BY <2>2, <2>3, <2>4, <1>6, MutualCrossed
<1> QED
    BY <1>7, <1>8

\* While distances and rates stay, so does what was concluded from them.
LEMMA ConclusionsStill ==
    ASSUME UNCHANGED <<dist, pred, weight, currencies>>
    PROVE  /\ Outcome' <=> Outcome
           /\ Gaining' <=> Gaining
           /\ \A u, z : Lowerable(u, z)' <=> Lowerable(u, z)
           /\ found' = found => FoundGains' = FoundGains
           /\ found' = found => OpenRouteNeedsCrossedPair' = OpenRouteNeedsCrossedPair
<1>1. First' = First /\ Reachable' = Reachable
    BY DEF First, Reachable, HoldsReach
<1>2. \A c : CycleWeight(c)' = CycleWeight(c)
    BY DEF CycleWeight
<1>3. Cycles' = Cycles
    BY DEF Cycles
<1>4. Gaining' <=> Gaining
    BY <1>1, <1>2, <1>3 DEF Gaining
<1>5. \A u, z : Lowerable(u, z)' <=> Lowerable(u, z)
    BY DEF Lowerable, Reached
<1>6. \A u, z : Opening(u, z)' <=> Opening(u, z)
    BY DEF Opening, Reached
<1>7. \A u : Linked(u)' <=> Linked(u)
    BY <1>1 DEF Linked
<1>8. ChainsDone' <=> ChainsDone
    BY <1>1, <1>5, <1>7 DEF ChainsDone
<1>9. (AllReached' <=> AllReached) /\ (Settled' <=> Settled)
    BY <1>5, <1>6 DEF AllReached, Settled
<1>10. Outcome' <=> Outcome
    BY <1>4, <1>8, <1>9 DEF Outcome
<1>11. found' = found => FoundGains' = FoundGains
    BY <1>4 DEF FoundGains
<1>12. found' = found => OpenRouteNeedsCrossedPair' = OpenRouteNeedsCrossedPair
    BY DEF OpenRouteNeedsCrossedPair, Crossed
<1> QED
    BY <1>4, <1>5, <1>10, <1>11, <1>12

LEMMA StartComplete ==
    ASSUME GraphTypeOK, DetectionAssumption, SearchInv, CompleteInv, search = "idle",
           currencies # <<>>, StartSearch, UNCHANGED graphState
    PROVE  CompleteInv'
<1>1. /\ search' = "relax" /\ found' = found /\ found = <<>> /\ edges = <<>>
      /\ UNCHANGED <<weight, currencies>>
    BY DEF StartSearch, graphState, SearchInv, FoundSound, EdgesOfNode, Searches
<1>2. LinksInv' /\ Relaxing'
    BY <1>1, StartLinks, StartRelaxing
<1>3. OpenRouteNeedsCrossedPair'
    BY <1>1 DEF OpenRouteNeedsCrossedPair
<1> QED
    BY <1>1, <1>2, <1>3 DEF CompleteInv

LEMMA RelaxComplete ==
    ASSUME GraphTypeOK, EdgesWhole, DetectionAssumption, SearchInv, CompleteInv,
           PopNode \/ RelaxEdge \/ StartScan, UNCHANGED graphState
    PROVE  CompleteInv'
<1>1. /\ search = "relax" /\ found' = found /\ found = <<>> /\ Relaxing /\ LinksInv
      /\ LinksTyped /\ OpenRouteNeedsCrossedPair
      /\ UNCHANGED <<weight, currencies, neighbours>>
    BY DEF PopNode, RelaxEdge, StartScan, graphState, CompleteInv, Searches, LinksInv
<1>2. OpenRouteNeedsCrossedPair'
    BY <1>1 DEF OpenRouteNeedsCrossedPair
<1>3. CASE PopNode
  <2>1. search' = "relax" /\ UNCHANGED <<dist, pred>>
      BY <1>3 DEF PopNode
  <2>2. LinksInv'
      BY <2>1, <1>1, LinksStill
  <2>3. Relaxing'
      BY <1>1, <1>3, PopRelaxing DEF SearchInv
  <2> QED
      BY <2>1, <2>2, <2>3, <1>1, <1>2 DEF CompleteInv
<1>4. CASE RelaxEdge
  <2>1. search' = "relax"
      BY <1>4 DEF RelaxEdge
  <2>2. LinksInv' /\ Relaxing'
      BY <1>1, <1>4, RelaxRelaxing DEF LinksContext
  <2> QED
      BY <2>1, <2>2, <1>1, <1>2 DEF CompleteInv
<1>5. CASE StartScan
  <2>1. /\ search' = "scan" /\ UNCHANGED <<dist, pred>> /\ unscanned' = currencies
        /\ edges = <<>> /\ queue = <<>>
      BY <1>5 DEF StartScan
  <2>2. LinksInv'
      BY <2>1, <1>1, LinksStill
  <2>3. Outcome'
      BY <2>1, <1>1, RelaxedOutcome, ConclusionsStill
  <2>4. FoundGains'
      BY <1>1 DEF FoundGains
  <2>5. Scanned'
    <3> SUFFICES ASSUME NEW u \in Currencies, NEW z \in Currencies, Lowerable(u, z)
                 PROVE  Listed(currencies, u)
        BY <2>1, <1>1, ConclusionsStill DEF Scanned
    <3> QED
        BY <1>1, ReachedListed DEF Lowerable
  <2> QED
      BY <2>1, <2>2, <2>3, <2>4, <2>5, <1>2 DEF CompleteInv
<1> QED
    BY <1>3, <1>4, <1>5

LEMMA ScanComplete ==
    ASSUME GraphTypeOK, EdgesWhole, DetectionAssumption, SearchInv, CompleteInv,
           ScanNode \/ ScanEdge \/ WalkBack \/ EndScan, UNCHANGED graphState
    PROVE  CompleteInv'
<1>1. /\ search \in {"scan", "walk"} /\ found' = found /\ Outcome /\ FoundGains /\ LinksInv
      /\ LinksTyped /\ OpenRouteNeedsCrossedPair
      /\ UNCHANGED <<dist, pred, weight, currencies>>
      /\ edges \in Seq(Currencies) /\ unscanned \in Seq(Currencies)
    BY DEF ScanNode, ScanEdge, WalkBack, EndScan, graphState, CompleteInv, Searches, LinksInv,
           SearchInv, SearchTypeOK
<1>2. /\ LinksInv' /\ Outcome' /\ FoundGains' /\ OpenRouteNeedsCrossedPair'
      /\ \A u, z : Lowerable(u, z)' <=> Lowerable(u, z)
    BY <1>1, LinksStill, ConclusionsStill
<1>3. CASE ScanNode
  <2>1. /\ search = "scan" /\ search' = "scan" /\ edges = <<>> /\ unscanned # <<>>
        /\ node' = Head(unscanned) /\ unscanned' = Tail(unscanned)
        /\ edges' = IF dist[node'] = None THEN <<>> ELSE neighbours[node']
      BY <1>3 DEF ScanNode
  <2>2. Scanned'
    <3> SUFFICES ASSUME found = <<>>, NEW u \in Currencies, NEW z \in Currencies, Lowerable(u, z)
                 PROVE  InHand(u, z, edges)' \/ Listed(unscanned', u)
        BY <1>1, <1>2 DEF Scanned
    <3>1. Listed(unscanned, u)
      <4>1. ~InHand(u, z, edges)
          BY <2>1 DEF InHand, Listed
      <4> QED
          BY <2>1, <4>1 DEF CompleteInv, Scanned
    <3>2. u = node' \/ Listed(unscanned', u)
        BY <2>1, <3>1, <1>1, ListedInTail
    <3>3. CASE u = node'
      <4>1. Listed(neighbours[u], z) /\ dist[u] # None
          BY DEF EdgesWhole, Lowerable, Reached
      <4> QED
          BY <2>1, <3>3, <4>1 DEF InHand
    <3> QED
        BY <3>2, <3>3
  <2> QED
      BY <2>1, <2>2, <1>2 DEF CompleteInv
<1>4. CASE ScanEdge /\ Improves(Head(edges))
  <2>1. search' = "walk" /\ path' = <<node>> /\ edges' = edges /\ node' = node
      BY <1>4 DEF ScanEdge
  <2>2. WalkLinked'
    <3>1. Improves(Head(edges))'
        BY <2>1, <1>1, <1>4 DEF Improves, Through
    <3> QED
        BY <2>1, <3>1 DEF WalkLinked
  <2> QED
      BY <2>1, <2>2, <1>2 DEF CompleteInv
<1>5. CASE ScanEdge /\ ~Improves(Head(edges))
  <2>1. /\ search = "scan" /\ search' = "scan" /\ edges' = Tail(edges) /\ edges # <<>>
        /\ node' = node /\ unscanned' = unscanned
      BY <1>5 DEF ScanEdge
  <2>2. Scanned'
    <3> SUFFICES ASSUME found = <<>>, NEW u \in Currencies, NEW z \in Currencies, Lowerable(u, z)
                 PROVE  InHand(u, z, edges)' \/ Listed(unscanned', u)
        BY <1>1, <1>2 DEF Scanned
    <3>1. InHand(u, z, edges) \/ Listed(unscanned, u)
        BY <2>1 DEF CompleteInv, Scanned
    <3>2. CASE InHand(u, z, edges)
      <4>1. z # Head(edges)
        <5> SUFFICES ASSUME z = Head(edges)
                     PROVE  FALSE
            OBVIOUS
        <5> QED
            BY <3>2, <1>5 DEF InHand, Lowerable, Reached, Improves, Through
      <4>2. Listed(Tail(edges), z)
          BY <2>1, <3>2, <4>1, <1>1, ListedInTail DEF InHand
      <4> QED
          BY <2>1, <3>2, <4>2 DEF InHand
    <3> QED
        BY <2>1, <3>1, <3>2
  <2> QED
      BY <2>1, <2>2, <1>2 DEF CompleteInv
<1>6. CASE WalkBack
  <2>1. /\ search = "walk" /\ search' = "walk" /\ path' = Append(path, Before)
        /\ ~Listed(path, Before) /\ edges' = edges /\ node' = node /\ WalkLinked
      BY <1>6 DEF WalkBack, CompleteInv
  <2> DEFINE n == Len(path)
  <2>2. path \in Seq(Currencies) /\ n \in Nat \ {0} /\ Before \in Currencies
    <3>1. path \in Seq(Currencies) /\ path # <<>>
        BY <2>1 DEF SearchInv, SearchTypeOK, PathFromNode
    <3>2. path[Len(path)] \in Currencies
        BY <3>1
    <3> QED
        BY <3>1, <3>2, <1>1 DEF Before, LinksTyped
  <2> HIDE DEF n
  <2>3. /\ Len(path') = n + 1 /\ path'[n + 1] = Before
        /\ \A k \in 1 .. n : path'[k] = path[k]
      BY <2>1, <2>2, AppendOf DEF n
  <2>4. Improves(Head(edges))'
      BY <2>1, <1>1 DEF Improves, Through, WalkLinked
  <2>5. \A i, j \in 1 .. n + 1 : path'[i] = path'[j] => i = j
    <3>1. \A i \in 1 .. n + 1 : i \in 1 .. n \/ i = n + 1
        BY <2>2
    <3>2. \A i \in 1 .. n : path'[i] # path'[n + 1]
        BY <2>1, <2>3 DEF Listed, n
    <3>3. \A i, j \in 1 .. n : path'[i] = path'[j] => i = j
        BY <2>1, <2>3 DEF WalkLinked, n
    <3> QED
        BY <3>1, <3>2, <3>3
  <2>6. \A i \in 1 .. n : pred'[path'[i]] = path'[i + 1]
    <3> SUFFICES ASSUME NEW i \in 1 .. n
                 PROVE  pred[path[i]] = path'[i + 1]
        BY <2>3, <1>1
    <3>1. CASE i = n
        BY <2>3, <3>1 DEF Before, n
    <3>2. CASE i # n
      <4>1. i \in 1 .. n - 1 /\ i + 1 \in 1 .. n
          BY <2>2, <3>2
      <4> QED
          BY <2>1, <2>3, <4>1 DEF WalkLinked, n
    <3> QED
        BY <3>1, <3>2
  <2>7. WalkLinked'
    <3>1. (n + 1) - 1 = n
        BY <2>2
    <3> QED
        BY <2>3, <2>4, <2>5, <2>6, <3>1 DEF WalkLinked
  <2> QED
      BY <2>1, <2>7, <1>2 DEF CompleteInv
<1>7. CASE EndScan
  <2>1. search' = "done"
      BY <1>7 DEF EndScan
  <2> QED
      BY <2>1, <1>2 DEF CompleteInv, Searches
<1> QED
    BY <1>3, <1>4, <1>5, <1>6, <1>7

LEMMA ReportComplete ==
    ASSUME GraphSound, EdgesWhole, DetectionAssumption, SearchInv, CompleteInv,
           Report, UNCHANGED graphState
    PROVE  CompleteInv'
<1> DEFINE v == Head(edges)
           r == [cycle |-> Route(Walked, v), profit |-> Gain(v)]
<1>1. /\ search = "walk" /\ search' = "scan" /\ found' = Append(found, r)
      /\ Listed(path, Before) /\ WalkLinked
      /\ Outcome /\ FoundGains /\ LinksInv /\ LinksTyped /\ OpenRouteNeedsCrossedPair
      /\ found \in Seq(Reports) /\ LinksContext
      /\ UNCHANGED <<dist, pred, weight, currencies>>
    BY DEF Report, graphState, CompleteInv, Searches, LinksInv, SearchInv, SearchTypeOK,
           LinksContext, GraphSound
<1>2. /\ node \in Currencies /\ Reached(node) /\ v \in Currencies /\ weight[<<node, v>>] # None
  <2>1. edges \in Seq(Currencies) /\ edges # <<>>
      BY <1>1 DEF SearchInv, SearchTypeOK, PathFromNode
  <2>2. v \in Currencies /\ v = edges[1] /\ 1 \in 1 .. Len(edges)
      BY <2>1, HeadTailOf
  <2> QED
      BY <2>1, <2>2 DEF SearchInv, EdgesOfNode, Reached
<1>3. Lowerable(node, v)
  <2>1. Reached(v)
      BY <1>1, <1>2 DEF Outcome, AllReached, Opening
  <2> QED
      BY <2>1, <1>1, <1>2 DEF Lowerable, WalkLinked, Improves, Through, Reached
<1>4. Gaining
    BY <1>1, <1>2, <1>3 DEF Outcome, Settled
<1>5. r.profit # None /\ r \in Reports
  <2>1. Route(Walked, v) \in Seq(Currencies) /\ Gain(v) \in Int \cup {None}
      BY <1>1, <1>2, RouteSound
  <2>2. dist[v] \in Int /\ dist[node] \in Int /\ weight[<<node, v>>] \in Int
      BY <1>1, <1>2, <1>3, WeightTyped DEF Lowerable, Reached, LinksTyped, GraphSound
  <2>3. Gain(v) = dist[v] - (dist[node] + weight[<<node, v>>]) /\ None \notin Int
      BY <2>2, DetectionAssumption DEF Gain, Through
  <2> HIDE DEF v
  <2>4. Gain(v) # None
      BY <2>2, <2>3
  <2> QED
      BY <2>1, <2>4 DEF Reports
<1>6. Len(r.cycle) = 4 /\ ~Closed(r.cycle) => Crossed
    BY <1>1, <1>2, <1>3, OpenRouteCrossed
<1> HIDE DEF r, v
<1>7. /\ Len(found') = Len(found) + 1 /\ Len(found) \in Nat /\ found'[Len(found) + 1] = r
      /\ \A k \in 1 .. Len(found) : found'[k] = found[k]
      /\ found' # <<>>
    BY <1>1, <1>5, AppendOf
<1>8. \A k \in 1 .. Len(found') : k \in 1 .. Len(found) \/ found'[k] = r
    BY <1>7
<1>9. (Crossed' <=> Crossed) /\ (Gaining' <=> Gaining) /\ Outcome' /\ LinksInv'
  <2>1. Crossed' <=> Crossed
      BY <1>1 DEF Crossed
  <2>2. LinksInv'
      BY <1>1, LinksStill
  <2>3. (Gaining' <=> Gaining) /\ (Outcome' <=> Outcome)
      BY <1>1, ConclusionsStill
  <2> QED
      BY <2>1, <2>2, <2>3, <1>1
<1>10. FoundGains'
  <2>1. \A k \in 1 .. Len(found') : found'[k].profit # None
      BY <1>1, <1>5, <1>7, <1>8 DEF FoundGains
  <2> QED
      BY <2>1, <1>4, <1>9 DEF FoundGains
<1>11. OpenRouteNeedsCrossedPair'
  <2>1. \A k \in 1 .. Len(found') :
          Len(found'[k].cycle) = 4 /\ ~Closed(found'[k].cycle) => Crossed
      BY <1>1, <1>6, <1>7, <1>8 DEF OpenRouteNeedsCrossedPair
  <2> QED
      BY <2>1, <1>9 DEF OpenRouteNeedsCrossedPair, Closed
<1>12. Scanned'
    BY <1>7 DEF Scanned
<1> QED
    BY <1>1, <1>9, <1>10, <1>11, <1>12 DEF CompleteInv, Searches

LEMMA SearchStepComplete ==
    ASSUME GraphSound, EdgesWhole, DetectionAssumption, SearchInv, CompleteInv,
           SearchStep, UNCHANGED graphState
    PROVE  CompleteInv'
<1>1. GraphTypeOK
    BY DEF GraphSound
<1>2. CASE PopNode \/ RelaxEdge \/ StartScan
    BY <1>1, <1>2, RelaxComplete
<1>3. CASE ScanNode \/ ScanEdge \/ WalkBack \/ EndScan
    BY <1>1, <1>3, ScanComplete
<1>4. CASE Report
    BY <1>4, ReportComplete
<1> QED
    BY <1>2, <1>3, <1>4 DEF SearchStep

\* Without a search there is nothing to keep but what the reports say.
NoSearch == search \notin Searches /\ found = <<>>

LEMMA NoSearchComplete == NoSearch => CompleteInv
    BY EmptySound DEF NoSearch, CompleteInv, Searches, OpenRouteNeedsCrossedPair

LEMMA NoSearchCompleteThen == NoSearch' => CompleteInv'
    BY NoSearchComplete, PTL

LEMMA InitComplete ==
    ASSUME SearchInit
    PROVE  CompleteInv
    BY NoSearchComplete DEF SearchInit, NoSearch, Searches

LEMMA ResetComplete ==
    ASSUME SearchReset
    PROVE  CompleteInv'
    BY NoSearchCompleteThen DEF SearchReset, NoSearch, Searches

LEMMA IdleComplete ==
    ASSUME SearchInv, search = "idle", UNCHANGED <<search, found>>
    PROVE  CompleteInv'
    BY NoSearchCompleteThen DEF SearchInv, FoundSound, NoSearch, Searches

LEMMA FilterComplete ==
    ASSUME SearchInv, CompleteInv, Filter, UNCHANGED graphState
    PROVE  CompleteInv'
<1>1. /\ search = "done" /\ search' = "done" /\ found # <<>> /\ found' = Tail(found)
      /\ weight' = weight /\ found \in Seq(Reports)
    BY DEF Filter, graphState, SearchInv, SearchTypeOK
<1>2. /\ Len(found') = Len(found) - 1 /\ Len(found) \in Nat
      /\ \A k \in 1 .. Len(found') : found'[k] = found[k + 1]
    BY <1>1, HeadTailOf
<1>3. Crossed' <=> Crossed
    BY <1>1 DEF Crossed
<1>4. ASSUME NEW k \in 1 .. Len(found')
      PROVE  Len(found'[k].cycle) = 4 /\ ~Closed(found'[k].cycle) => Crossed
  <2>1. k + 1 \in 1 .. Len(found) /\ found'[k] = found[k + 1]
      BY <1>2
  <2> QED
      BY <2>1 DEF CompleteInv, OpenRouteNeedsCrossedPair
<1>5. OpenRouteNeedsCrossedPair'
    BY <1>3, <1>4 DEF OpenRouteNeedsCrossedPair, Closed
<1> QED
    BY <1>1, <1>5 DEF CompleteInv, Searches

\* What a step that changes neither search nor graph keeps.
LEMMA StillPass ==
    ASSUME UNCHANGED <<dist, pred, weight, currencies, node>>, NEW p, NEW A, NEW B, NEW E,
           Pass(p, A, B, E)
    PROVE  Pass(p, A, B, E)'
<1>1. First' = First
    BY DEF First
<1>2. /\ \A u, z : Lowerable(u, z)' <=> Lowerable(u, z)
      /\ \A u, z : Opening(u, z)' <=> Opening(u, z)
      /\ \A u, z : InHand(u, z, E)' <=> InHand(u, z, E)
      /\ \A u : (Reached(u)' <=> Reached(u)) /\ (Linked(u)' <=> Linked(u))
    BY <1>1 DEF Lowerable, Opening, InHand, Reached, Linked
<1>3. Pending(A, B, E)'
    BY <1>2 DEF Pass, Pending
<1>4. PICK last : LastLowered(p, A, B, E, last)
    BY DEF Pass
<1>5. LastLowered(p, A, B, E, last)'
    BY <1>2, <1>4 DEF LastLowered
<1>6. PICK first : FirstReached(p, A, B, E, first)
    BY DEF Pass
<1>7. FirstReached(p, A, B, E, first)'
    BY <1>2, <1>6 DEF FirstReached
<1> QED
    BY <1>3, <1>5, <1>7 DEF Pass

LEMMA StillComplete ==
    ASSUME CompleteInv, UNCHANGED searchVars, UNCHANGED graphState
    PROVE  CompleteInv'
<1>1. /\ UNCHANGED <<search, dist, pred, count, queue, node, edges, unscanned, path, found>>
      /\ UNCHANGED <<currencies, weight>>
    BY DEF searchVars, graphState
<1>2. search \in Searches => LinksInv'
    BY <1>1, LinksStill DEF CompleteInv
<1>3. /\ Outcome' <=> Outcome
      /\ \A u, z : Lowerable(u, z)' <=> Lowerable(u, z)
      /\ FoundGains' = FoundGains
      /\ OpenRouteNeedsCrossedPair' = OpenRouteNeedsCrossedPair
    BY <1>1, ConclusionsStill
<1>4. InRound => InRound'
  <2> SUFFICES ASSUME InRound
               PROVE  InRound'
      OBVIOUS
  <2>1. PICK p \in Nat \ {0}, A \in SUBSET Currencies, B \in SUBSET Currencies :
          \E E : /\ \E b \in 0 .. Len(queue) : Splits(b, A, B)
                /\ E = edges /\ Counts(p, B) /\ Pass(p, A, B, E)
      BY DEF InRound
  <2>2. PICK E : /\ \E b \in 0 .. Len(queue) : Splits(b, A, B)
                 /\ E = edges /\ Counts(p, B) /\ Pass(p, A, B, E)
      BY <2>1
  <2>3. PICK b \in 0 .. Len(queue) : Splits(b, A, B)
      BY <2>2
  <2>4. Splits(b, A, B)' /\ Counts(p, B)' /\ b \in 0 .. Len(queue')
      BY <2>2, <2>3, <1>1 DEF Splits, Counts
  <2>5. Pass(p, A, B, E)'
      BY <2>2, <1>1, StillPass
  <2> QED
      BY <2>2, <2>4, <2>5, <1>1 DEF InRound
<1>5. search = "relax" => Relaxing' /\ found' = <<>>
    BY <1>1, <1>3, <1>4 DEF CompleteInv, Relaxing
<1>6. Scanned => Scanned'
    BY <1>1, <1>3 DEF Scanned, InHand
<1>7. WalkLinked => WalkLinked'
    BY <1>1 DEF WalkLinked, Improves, Through
<1>8. search \in {"scan", "walk"} => Outcome' /\ FoundGains'
  <2> SUFFICES ASSUME search \in {"scan", "walk"}
               PROVE  Outcome' /\ FoundGains'
      OBVIOUS
  <2>1. Outcome /\ FoundGains
      BY DEF CompleteInv
  <2>2. Outcome'
      BY <2>1, <1>3
  <2>3. FoundGains'
      BY <2>1, <1>3
  <2> QED
      BY <2>2, <2>3
<1>9. OpenRouteNeedsCrossedPair'
    BY <1>3 DEF CompleteInv
<1> QED
    BY <1>1, <1>2, <1>5, <1>6, <1>7, <1>8, <1>9 DEF CompleteInv

\* A cycle with a node within reach lies within reach.
LEMMA CycleReached ==
    ASSUME LinksInv, AllReached, NEW n \in Nat \ {0}, NEW c \in [1 .. n -> Currencies],
           RatesAround(c, n), c[1] \in Reachable
    PROVE  \A i \in 1 .. n : Reached(c[i])
<1>1. HoldsReach({u \in Currencies : Reached(u)})
  <2>1. First \in Currencies /\ Reached(First)
      BY DEF LinksInv, LinksTyped, FirstIsRoot, Reached
  <2>2. \A a, b \in Currencies : Reached(a) /\ weight[<<a, b>>] # None => Reached(b)
      BY DEF AllReached, Opening
  <2> QED
      BY <2>1, <2>2 DEF HoldsReach
<1>2. Reached(c[1])
    BY <1>1 DEF Reachable
<1>3. ASSUME NEW i \in 1 .. n, i # n, Reached(c[i])
      PROVE  Reached(c[i + 1])
  <2>1. Len(c) = n /\ i + 1 \in 1 .. n
      BY <1>3
  <2>2. weight[<<c[i], c[i + 1]>>] # None
      BY <2>1, <1>3 DEF RatesAround, After
  <2> QED
      BY <2>1, <2>2, <1>3 DEF AllReached, Opening
<1> DEFINE S == {i \in 0 .. n : i # 0 => Reached(c[i])}
<1>4. \A i \in 1 .. n : i - 1 \in S => i \in S
  <2> SUFFICES ASSUME NEW i \in 1 .. n, i - 1 \in S
               PROVE  Reached(c[i])
      OBVIOUS
  <2>1. CASE i = 1
      BY <1>2, <2>1
  <2>2. CASE i # 1
    <3>1. i - 1 \in 1 .. n /\ i - 1 # n /\ (i - 1) + 1 = i /\ Reached(c[i - 1])
        BY <2>2
    <3> QED
        BY <3>1, <1>3
  <2> QED
      BY <2>1, <2>2
<1>5. 0 .. n \subseteq S
  <2>1. 0 \in S
      OBVIOUS
  <2> HIDE DEF S
  <2> QED
      BY <2>1, <1>4, UpTo
<1> QED
    BY <1>5

\* A settled graph has no cycle within reach that gains.
LEMMA SettledDoesNotGain ==
    ASSUME GraphTypeOK, DetectionAssumption, LinksInv, AllReached, Settled
    PROVE  ~Gaining
<1> SUFFICES ASSUME NEW c \in Cycles, c[1] \in Reachable, CycleWeight(c) < 0
             PROVE  FALSE
    BY DEF Gaining
<1>1. PICK n \in 1 .. Len(currencies) :
        /\ c \in [1 .. n -> Currencies]
        /\ \A i \in 1 .. n : weight[<<c[i], After(c, i)>>] # None
    BY DEF Cycles
<1>2. n \in Nat \ {0} /\ c \in [1 .. n -> Currencies] /\ RatesAround(c, n) /\ Len(c) = n
    BY <1>1 DEF RatesAround, GraphTypeOK
<1>3. \A i \in 1 .. n : c[i] \in Currencies /\ Reached(c[i])
    BY <1>2, CycleReached
<1>4. dist \in [Currencies -> Int \cup {None}]
    BY DEF LinksInv, LinksTyped
<1>5. ASSUME NEW i \in 1 .. n
      PROVE  dist[c[i]] + weight[<<c[i], After(c, i)>>] >= dist[After(c, i)]
  <2>1. PICK j \in 1 .. n : After(c, i) = c[j]
      BY <1>2 DEF After
  <2> DEFINE u == c[i]
             z == c[j]
  <2>2. u \in Currencies /\ z \in Currencies /\ Reached(u) /\ Reached(z)
      BY <1>3
  <2>3. weight[<<u, z>>] # None
      BY <1>2, <2>1 DEF RatesAround
  <2> HIDE DEF u, z
  <2>4. weight[<<u, z>>] \in Int /\ dist[u] \in Int /\ dist[z] \in Int
      BY <1>4, <2>2, <2>3, WeightTyped DEF Reached
  <2>5. ~(dist[u] + weight[<<u, z>>] < dist[z])
      BY <2>2, <2>3 DEF Settled, Lowerable
  <2>6. dist[u] + weight[<<u, z>>] >= dist[z]
      BY <2>4, <2>5
  <2> QED
      BY <2>1, <2>6 DEF u, z
<1>6. \A i \in 1 .. n : dist[c[i]] # None
    BY <1>3 DEF Reached
<1>7. CycleWeight(c) >= 0 /\ CycleWeight(c) \in Int
    BY <1>2, <1>4, <1>5, <1>6, CycleBound
<1> QED
    BY <1>7

\* What is found when the second pass is over.
LEMMA CompleteFound ==
    ASSUME GraphTypeOK, EdgesWhole, DetectionAssumption, SearchInv, CompleteInv
    PROVE  DetectionComplete
<1> SUFFICES ASSUME search = "scan", edges = <<>>, unscanned = <<>>
             PROVE  /\ found # <<>> <=> Gaining
                    /\ \A k \in 1 .. Len(found) : found[k].profit # None
    BY DEF DetectionComplete
<1>1. Outcome /\ FoundGains /\ Scanned /\ LinksInv
    BY DEF CompleteInv, Searches
<1>2. ASSUME found = <<>>
      PROVE  ~Gaining
  <2>1. Settled
      BY <1>1, <1>2 DEF Scanned, Settled, InHand, Listed
  <2> QED
      BY <1>1, <2>1, SettledDoesNotGain DEF Outcome
<1> QED
    BY <1>1, <1>2 DEF FoundGains

-------------------------------------------------------------------------------
\* The graph between two searches.
LEMMA AddOnceSound ==
    ASSUME NEW S, NEW list \in Seq(S), NEW x \in S
    PROVE  /\ AddOnce(list, x) \in Seq(S)
           /\ \A y : Listed(AddOnce(list, x), y) => y = x \/ Listed(list, y)
<1>1. CASE Listed(list, x)
    BY <1>1 DEF AddOnce
<1>2. CASE ~Listed(list, x)
  <2>1. AddOnce(list, x) = Append(list, x)
      BY <1>2 DEF AddOnce
  <2> DEFINE longer == AddOnce(list, x)
  <2>2. /\ longer \in Seq(S) /\ Len(longer) = Len(list) + 1 /\ Len(list) \in Nat
        /\ longer[Len(list) + 1] = x /\ \A k \in 1 .. Len(list) : longer[k] = list[k]
      BY <2>1, AppendOf
  <2> HIDE DEF longer
  <2>3. ASSUME NEW y, NEW k \in 1 .. Len(longer), longer[k] = y
        PROVE  y = x \/ Listed(list, y)
    <3>1. k = Len(list) + 1 \/ k \in 1 .. Len(list)
        BY <2>2
    <3> QED
        BY <2>2, <2>3, <3>1 DEF Listed
  <2> QED
      BY <2>2, <2>3 DEF Listed, longer
<1> QED
    BY <1>1, <1>2

\* A price with a logarithm.  One of zero or less gives its edge no weight.
Quotable(price) == price \in Int /\ Log[price] \in Int

\* What set_rate makes of the edges.
LEMMA SetRateSound ==
    ASSUME GraphSound, NEW from \in Currencies, NEW to \in Currencies, from # to,
           NEW bid, NEW ask, Quotable(bid), Quotable(ask), SetRate(from, to, bid, ask)
    PROVE  /\ currencies' \in Seq(Currencies)
           /\ neighbours' \in [Currencies -> Seq(Currencies)]
           /\ weight' \in [Pairs -> Int \cup {None}]
           /\ EdgesWeighted'
           /\ weight'[<<from, to>>] = IF bid > 0 THEN -Log[bid] ELSE weight[<<from, to>>]
           /\ weight'[<<to, from>>] = IF ask > 0 THEN Log[ask] ELSE weight[<<to, from>>]
           /\ \A p \in Pairs : p # <<from, to>> /\ p # <<to, from>> => weight'[p] = weight[p]
<1> USE DetectionAssumption
<1>1. bid \in Int /\ ask \in Int /\ Log[bid] \in Int /\ Log[ask] \in Int
    BY DEF Quotable
<1>2. <<from, to>> \in Pairs /\ <<to, from>> \in Pairs /\ <<from, to>> # <<to, from>>
    BY DEF Pairs
<1>3. weight' = [p \in Pairs |-> IF p = <<from, to>> /\ bid > 0 THEN -Log[bid]
                                 ELSE IF p = <<to, from>> /\ ask > 0 THEN Log[ask]
                                 ELSE weight[p]]
    BY <1>2 DEF SetRate
<1>4. /\ weight'[<<from, to>>] = IF bid > 0 THEN -Log[bid] ELSE weight[<<from, to>>]
      /\ weight'[<<to, from>>] = IF ask > 0 THEN Log[ask] ELSE weight[<<to, from>>]
      /\ \A p \in Pairs : p # <<from, to>> /\ p # <<to, from>> => weight'[p] = weight[p]
    BY <1>2, <1>3
<1>5. weight' \in [Pairs -> Int \cup {None}]
    BY <1>1, <1>3 DEF GraphSound, GraphTypeOK
<1>6. \A p \in Pairs : weight[p] # None => weight'[p] # None
    BY <1>1, <1>4
<1>7. /\ bid > 0 => weight'[<<from, to>>] # None
      /\ ask > 0 => weight'[<<to, from>>] # None
    BY <1>1, <1>4
<1>8. /\ currencies \in Seq(Currencies) /\ neighbours \in [Currencies -> Seq(Currencies)]
      /\ currencies' = AddOnce(AddOnce(currencies, from), to)
      /\ \A c \in Currencies :
           neighbours'[c] = IF c = from /\ bid > 0 THEN AddOnce(neighbours[c], to)
                            ELSE IF c = to /\ ask > 0 THEN AddOnce(neighbours[c], from)
                            ELSE neighbours[c]
      /\ neighbours' = [c \in Currencies |-> neighbours'[c]]
    BY DEF GraphSound, GraphTypeOK, SetRate
<1>9. currencies' \in Seq(Currencies)
  <2>1. AddOnce(currencies, from) \in Seq(Currencies)
      BY <1>8, AddOnceSound
  <2> QED
      BY <2>1, <1>8, AddOnceSound
<1>10. neighbours' \in [Currencies -> Seq(Currencies)]
  <2>1. \A c \in Currencies : /\ AddOnce(neighbours[c], to) \in Seq(Currencies)
                              /\ AddOnce(neighbours[c], from) \in Seq(Currencies)
      BY <1>8, AddOnceSound
  <2>2. \A c \in Currencies : neighbours'[c] \in Seq(Currencies)
      BY <2>1, <1>8
  <2> QED
      BY <2>2, <1>8
<1>11. EdgesWeighted'
  <2> SUFFICES ASSUME NEW a \in Currencies, NEW k \in 1 .. Len(neighbours'[a])
               PROVE  weight'[<<a, neighbours'[a][k]>>] # None
      BY Zenon DEF EdgesWeighted
  <2>1. neighbours[a] \in Seq(Currencies)
      BY <1>8
  <2>2. ASSUME NEW c, Listed(neighbours[a], c)
        PROVE  weight'[<<a, c>>] # None
    <3>1. c \in Currencies /\ weight[<<a, c>>] # None
        BY <2>1, <2>2 DEF GraphSound, EdgesWeighted, Listed
    <3> QED
        BY <3>1, <1>6 DEF Pairs
  <2>3. Listed(neighbours'[a], neighbours'[a][k])
      BY DEF Listed
  <2>4. CASE a = from /\ bid > 0
    <3>1. neighbours'[a] = AddOnce(neighbours[a], to)
        BY <2>4, <1>8
    <3>2. \A c : Listed(AddOnce(neighbours[a], to), c) => c = to \/ Listed(neighbours[a], c)
        BY <2>1, AddOnceSound
    <3> QED
        BY <2>2, <2>3, <2>4, <3>1, <3>2, <1>7
  <2>5. CASE a = to /\ ask > 0
    <3>1. neighbours'[a] = AddOnce(neighbours[a], from)
        BY <2>5, <1>8
    <3>2. \A c : Listed(AddOnce(neighbours[a], from), c) => c = from \/ Listed(neighbours[a], c)
        BY <2>1, AddOnceSound
    <3> QED
        BY <2>2, <2>3, <2>5, <3>1, <3>2, <1>7
  <2>6. CASE ~(a = from /\ bid > 0) /\ ~(a = to /\ ask > 0)
    <3>1. neighbours'[a] = neighbours[a]
        BY <2>6, <1>8
    <3> QED
        BY <2>2, <2>3, <3>1
  <2> QED
      BY <2>4, <2>5, <2>6
<1> QED
    BY <1>4, <1>5, <1>9, <1>10, <1>11

LEMMA AddOnceKeeps ==
    ASSUME NEW S, NEW list \in Seq(S), NEW x \in S
    PROVE  /\ Listed(AddOnce(list, x), x)
           /\ \A y : Listed(list, y) => Listed(AddOnce(list, x), y)
<1>1. CASE Listed(list, x)
    BY <1>1 DEF AddOnce
<1>2. CASE ~Listed(list, x)
  <2>1. AddOnce(list, x) = Append(list, x)
      BY <1>2 DEF AddOnce
  <2> DEFINE longer == AddOnce(list, x)
  <2>2. /\ Len(longer) = Len(list) + 1 /\ Len(list) \in Nat
        /\ longer[Len(list) + 1] = x /\ \A k \in 1 .. Len(list) : longer[k] = list[k]
      BY <2>1, AppendOf
  <2> HIDE DEF longer
  <2>3. Len(list) + 1 \in 1 .. Len(longer) /\ \A k \in 1 .. Len(list) : k \in 1 .. Len(longer)
      BY <2>2
  <2> QED
      BY <2>2, <2>3 DEF Listed, longer
<1> QED
    BY <1>1, <1>2

\* What is listed stays listed when two more are added, and those are.
LEMMA AddTwoKeeps ==
    ASSUME NEW S, NEW list \in Seq(S), NEW x \in S, NEW z \in S
    PROVE  /\ Listed(AddOnce(AddOnce(list, x), z), x) /\ Listed(AddOnce(AddOnce(list, x), z), z)
           /\ \A y : Listed(list, y) => Listed(AddOnce(AddOnce(list, x), z), y)
<1>1. PICK longer \in Seq(S) : longer = AddOnce(list, x)
    BY AddOnceSound
<1>2. Listed(longer, x) /\ \A y : Listed(list, y) => Listed(longer, y)
    BY <1>1, AddOnceKeeps
<1>3. Listed(AddOnce(longer, z), z) /\ \A y : Listed(longer, y) => Listed(AddOnce(longer, z), y)
    BY <1>1, AddOnceKeeps
<1> QED
    BY <1>1, <1>2, <1>3

\* set_rate pushes the edges it gives a weight, and adds their ends.
LEMMA SetRateWhole ==
    ASSUME GraphSound, EdgesWhole, NEW from \in Currencies, NEW to \in Currencies, from # to,
           NEW bid, NEW ask, Quotable(bid), Quotable(ask), SetRate(from, to, bid, ask)
    PROVE  EdgesWhole'
<1>1. bid \in Int /\ ask \in Int
    BY DEF Quotable
<1>2. /\ currencies \in Seq(Currencies) /\ neighbours \in [Currencies -> Seq(Currencies)]
      /\ currencies' = AddOnce(AddOnce(currencies, from), to)
      /\ \A c \in Currencies :
           neighbours'[c] = IF c = from /\ bid > 0 THEN AddOnce(neighbours[c], to)
                            ELSE IF c = to /\ ask > 0 THEN AddOnce(neighbours[c], from)
                            ELSE neighbours[c]
    BY DEF GraphSound, GraphTypeOK, SetRate
<1>3. /\ Listed(currencies', from) /\ Listed(currencies', to)
      /\ \A y : Listed(currencies, y) => Listed(currencies', y)
    BY <1>2, AddTwoKeeps
<1>4. /\ Listed(AddOnce(neighbours[from], to), to) /\ Listed(AddOnce(neighbours[to], from), from)
      /\ \A y : Listed(neighbours[from], y) => Listed(AddOnce(neighbours[from], to), y)
      /\ \A y : Listed(neighbours[to], y) => Listed(AddOnce(neighbours[to], from), y)
  <2>1. neighbours[from] \in Seq(Currencies) /\ neighbours[to] \in Seq(Currencies)
      BY <1>2
  <2> QED
      BY <2>1, AddOnceKeeps
<1>5. /\ bid > 0 => neighbours'[from] = AddOnce(neighbours[from], to)
      /\ ask > 0 => neighbours'[to] = AddOnce(neighbours[to], from)
      /\ ~(bid > 0) => neighbours'[from] = neighbours[from]
      /\ ~(ask > 0) => neighbours'[to] = neighbours[to]
      /\ \A c \in Currencies : c # from /\ c # to => neighbours'[c] = neighbours[c]
    BY <1>2
<1>6. /\ bid > 0 => Listed(neighbours'[from], to)
      /\ ask > 0 => Listed(neighbours'[to], from)
      /\ \A c \in Currencies : \A y : Listed(neighbours[c], y) => Listed(neighbours'[c], y)
    BY <1>4, <1>5
<1>7. /\ ~(bid > 0) => weight'[<<from, to>>] = weight[<<from, to>>]
      /\ ~(ask > 0) => weight'[<<to, from>>] = weight[<<to, from>>]
      /\ \A p \in Pairs : p # <<from, to>> /\ p # <<to, from>> => weight'[p] = weight[p]
    BY SetRateSound
<1> SUFFICES ASSUME NEW a \in Currencies, NEW b \in Currencies, weight'[<<a, b>>] # None
             PROVE  Listed(neighbours'[a], b) /\ Listed(currencies', a) /\ Listed(currencies', b)
    BY DEF EdgesWhole
<1>8. CASE (a = from /\ b = to /\ bid > 0) \/ (a = to /\ b = from /\ ask > 0)
    BY <1>3, <1>6, <1>8
<1>9. CASE ~((a = from /\ b = to /\ bid > 0) \/ (a = to /\ b = from /\ ask > 0))
  <2>1. weight'[<<a, b>>] = weight[<<a, b>>]
      BY <1>7, <1>9 DEF Pairs
  <2> QED
      BY <2>1, <1>3, <1>6 DEF EdgesWhole
<1> QED
    BY <1>8, <1>9
===============================================================================
