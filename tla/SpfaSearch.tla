------------------------------ MODULE SpfaSearch ------------------------------
(***************************************************************************)
(* ExchangeRateGraph::detect of ta-core/src/lib.rs, an edge at a time: the *)
(* shortest paths from the first node, then a second pass over the edges   *)
(* that reports a route for each one that could still be relaxed.          *)
(*                                                                         *)
(* in_queue is not kept: it holds exactly what is in the queue until the   *)
(* queue is cleared, after which nothing reads it.  Weights are integers,  *)
(* so the tolerance 1e-12 of the comparisons is not needed.  Nodes are     *)
(* currencies and not their indices.                                       *)
(***************************************************************************)
EXTENDS RateGraph

VARIABLES
    search,       \* "idle", "relax", "scan", "walk" or "done"
    dist,         \* distance from the first node, None for infinity
    pred,         \* the node it was reached from
    count,        \* how often a node was put into the queue
    queue,
    node,         \* the node whose edges are looked at
    edges,        \* its successors still to be looked at
    unscanned,    \* the nodes the second pass has not come to
    path,         \* the walk back from node
    found         \* the routes reported so far

searchVars ==
    <<search, dist, pred, count, queue, node, edges, unscanned, path, found>>

First == currencies[1]

Nowhere == [c \in Currencies |-> None]

SearchInit ==
    /\ search = "idle"
    /\ dist = Nowhere /\ pred = Nowhere
    /\ count = [c \in Currencies |-> 0]
    /\ queue = <<>> /\ node = None /\ edges = <<>> /\ unscanned = <<>>
    /\ path = <<>> /\ found = <<>>

\* The locals of detect() are gone when its result has been taken.
SearchReset ==
    /\ search' = "idle"
    /\ dist' = Nowhere /\ pred' = Nowhere
    /\ count' = [c \in Currencies |-> 0]
    /\ queue' = <<>> /\ node' = None /\ edges' = <<>> /\ unscanned' = <<>>
    /\ path' = <<>> /\ found' = <<>>

StartSearch ==
    /\ search' = "relax"
    /\ dist' = [c \in Currencies |-> IF c = First THEN 0 ELSE None]
    /\ pred' = [c \in Currencies |-> First]
    /\ count' = [c \in Currencies |-> 0]
    /\ queue' = <<First>>
    /\ UNCHANGED <<node, edges, unscanned, path, found>>

PopNode ==
    /\ search = "relax" /\ edges = <<>> /\ queue # <<>>
    /\ node' = Head(queue)
    /\ queue' = Tail(queue)
    /\ edges' = neighbours[node']
    /\ UNCHANGED <<search, dist, pred, count, unscanned, path, found>>

\* Mutant: the rate of the opposite direction is used.
WrongThrough(v) == dist[node] + weight[<<v, node>>]

Through(v) == dist[node] + weight[<<node, v>>]

Improves(v) == dist[v] # None => Through(v) < dist[v]

\* Mutant: a shorter way to v does not replace its predecessor.
WrongShorten(v) ==
    /\ dist' = [dist EXCEPT ![v] = Through(v)]
    /\ pred' = IF dist[v] = None THEN [pred EXCEPT ![v] = node] ELSE pred

Shorten(v) ==
    /\ dist' = [dist EXCEPT ![v] = Through(v)]
    /\ pred' = [pred EXCEPT ![v] = node]

\* Mutant: a node that is queued a second time is taken to be on a cycle.
WrongTooOften(v) == count[v] >= 1

\* A node that is queued as often as there are nodes lies on a negative cycle.
TooOften(v) == count[v] + 1 >= Len(currencies)

\* One turn of the relaxing loop.
RelaxEdge ==
    /\ search = "relax" /\ edges # <<>>
    /\ LET v == Head(edges)
       IN  \/ /\ ~Improves(v)
              /\ edges' = Tail(edges)
              /\ UNCHANGED <<dist, pred, count, queue>>
           \/ /\ Improves(v) /\ Shorten(v)
              /\ Listed(queue, v)
              /\ edges' = Tail(edges)
              /\ UNCHANGED <<count, queue>>
           \/ /\ Improves(v) /\ Shorten(v)
              /\ ~Listed(queue, v)
              /\ count' = [count EXCEPT ![v] = @ + 1]
              /\ IF TooOften(v)
                 THEN queue' = <<>> /\ edges' = <<>>
                 ELSE queue' = Append(queue, v) /\ edges' = Tail(edges)
    /\ UNCHANGED <<search, node, unscanned, path, found>>

StartScan ==
    /\ search = "relax" /\ edges = <<>> /\ queue = <<>>
    /\ search' = "scan"
    /\ unscanned' = currencies
    /\ UNCHANGED <<dist, pred, count, queue, node, edges, path, found>>

\* Nodes that were not reached are passed over.
ScanNode ==
    /\ search = "scan" /\ edges = <<>> /\ unscanned # <<>>
    /\ node' = Head(unscanned)
    /\ unscanned' = Tail(unscanned)
    /\ edges' = IF dist[node'] = None THEN <<>> ELSE neighbours[node']
    /\ UNCHANGED <<search, dist, pred, count, queue, path, found>>

ScanEdge ==
    /\ search = "scan" /\ edges # <<>>
    /\ IF Improves(Head(edges))
       THEN search' = "walk" /\ path' = <<node>> /\ UNCHANGED edges
       ELSE edges' = Tail(edges) /\ UNCHANGED <<search, path>>
    /\ UNCHANGED <<dist, pred, count, queue, node, unscanned, found>>

Before == pred[path[Len(path)]]

WalkBack ==
    /\ search = "walk"
    /\ ~Listed(path, Before)
    /\ path' = Append(path, Before)
    /\ UNCHANGED <<search, dist, pred, count, queue, node, edges, unscanned, found>>

\* The walk ends at a node that is its own predecessor, or repeats a node.
Walked == IF Before = path[Len(path)] THEN path ELSE Append(path, Before)

\* rposition: where v was met last on the way back.
LastMet(walk, v) ==
    CHOOSE k \in 1 .. Len(walk) :
        walk[k] = v /\ \A j \in k + 1 .. Len(walk) : walk[j] # v

\* The route through the walk, read forward, and the relaxing edge to v.  It is
\* closed when the walk met v; otherwise it starts where the walk ended.
Route(walk, v) ==
    LET k == IF Listed(walk, v) THEN LastMet(walk, v) ELSE Len(walk)
    IN  [i \in 1 .. k + 1 |-> IF i <= k THEN walk[k + 1 - i] ELSE v]

\* A node that was never reached would gain infinitely much.
Gain(v) == IF dist[v] = None THEN None ELSE dist[v] - Through(v)

Report ==
    /\ search = "walk"
    /\ Listed(path, Before)
    /\ LET v == Head(edges)
       IN  found' = Append(found, [cycle |-> Route(Walked, v), profit |-> Gain(v)])
    /\ search' = "scan"
    /\ edges' = Tail(edges)
    /\ path' = <<>>
    /\ UNCHANGED <<dist, pred, count, queue, node, unscanned>>

EndScan ==
    /\ search = "scan" /\ edges = <<>> /\ unscanned = <<>>
    /\ search' = "done"
    /\ UNCHANGED <<dist, pred, count, queue, node, edges, unscanned, path, found>>

SearchStep ==
    PopNode \/ RelaxEdge \/ StartScan \/ ScanNode \/ ScanEdge \/ WalkBack
        \/ Report \/ EndScan
-------------------------------------------------------------------------------
Reports == [cycle : Seq(Currencies), profit : Int \cup {None}]

SearchTypeOK ==
    /\ search \in {"idle", "relax", "scan", "walk", "done"}
    /\ dist \in [Currencies -> Int \cup {None}]
    /\ pred \in [Currencies -> Currencies \cup {None}]
    /\ count \in [Currencies -> Nat]
    /\ queue \in Seq(Currencies)
    /\ node \in Currencies \cup {None}
    /\ edges \in Seq(Currencies)
    /\ unscanned \in Seq(Currencies)
    /\ path \in Seq(Currencies)
    /\ found \in Seq(Reports)

Closed(cycle) == cycle[1] = cycle[Len(cycle)]

\* What a closed route of three legs gains on the rates of the graph.
TriangleGain(cycle) ==
    -(weight[<<cycle[1], cycle[2]>>] + weight[<<cycle[2], cycle[3]>>]
        + weight[<<cycle[3], cycle[4]>>])

\* A triangle is never reported with more profit than its three rates make,
\* although the profit is read off one edge and the distances of a search that
\* may have been cut short, and the route off predecessors that changed since.
ProfitNotOverstated ==
    \A k \in 1 .. Len(found) :
        LET r == found[k]
        IN  Len(r.cycle) = 4 /\ Closed(r.cycle) =>
              r.profit # None /\ r.profit <= TriangleGain(r.cycle)

\* The node after the i-th of a cycle, which is written without its return.
After(cycle, i) == IF i = Len(cycle) THEN cycle[1] ELSE cycle[i + 1]

\* The cycles of rates that visit no node twice.
Cycles ==
    UNION {{c \in [1 .. k -> Currencies] :
              /\ \A i, j \in 1 .. k : c[i] = c[j] => i = j
              /\ \A i \in 1 .. k : weight[<<c[i], After(c, i)>>] # None} :
           k \in 1 .. Len(currencies)}

Total(numbers) ==
    LET sum[i \in 0 .. Len(numbers)] == IF i = 0 THEN 0 ELSE sum[i - 1] + numbers[i]
    IN  sum[Len(numbers)]

CycleWeight(c) == Total([i \in 1 .. Len(c) |-> weight[<<c[i], After(c, i)>>]])

\* The nodes with a path from the first one: they are in every set that contains
\* it and that no edge leaves.
HoldsReach(S) ==
    First \in S /\ \A a \in S, b \in Currencies : weight[<<a, b>>] # None => b \in S

Reachable == {b \in Currencies : \A S \in SUBSET Currencies : HoldsReach(S) => b \in S}

Gaining == \E c \in Cycles : c[1] \in Reachable /\ CycleWeight(c) < 0

\* The search finds something if and only if there is a cycle of rates that gains,
\* within reach of the first node, although it stops after a bounded number of
\* rounds; and no profit is infinite.
DetectionComplete ==
    search = "scan" /\ edges = <<>> /\ unscanned = <<>> =>
        /\ found # <<>> <=> Gaining
        /\ \A k \in 1 .. Len(found) : found[k].profit # None

Crossed == \E a, b \in Currencies :
    weight[<<a, b>>] # None /\ weight[<<b, a>>] # None
        /\ weight[<<a, b>>] + weight[<<b, a>>] < 0

\* A route of three legs that does not return to its start is reported only
\* while the two rates of a pair gain on each other.
OpenRouteNeedsCrossedPair ==
    \A k \in 1 .. Len(found) :
        Len(found[k].cycle) = 4 /\ ~Closed(found[k].cycle) => Crossed
===============================================================================
