------------------------------ MODULE LinkState ------------------------------
(***************************************************************************)
(* LinkstateRouting::construct_fte() of mp3/src/link/linkstate.cpp:        *)
(* Dijkstra's algorithm with a queue that keeps outdated items, and then   *)
(* for every node the walk back along the predecessors that finds the      *)
(* first hop.  A distance of INT_MAX, and its predecessor -1, stand for    *)
(* nodes without a route.                                                  *)
(***************************************************************************)
EXTENDS Graph

CONSTANTS
  Vertices,       \* the nodes of the graph
  Graphs          \* the values of adj_list considered

INT_MAX == 2147483647

ASSUME VerticesAssumption == Vertices \subseteq Nat /\ IsFiniteSet(Vertices)
ASSUME GraphsAssumption ==
  \A adj \in Graphs :
    /\ IsGraph(adj, Vertices)
    /\ PositiveCosts(adj)
    /\ \A u \in Vertices : \A v \in DOMAIN adj[u] :
         adj[u][v] * Cardinality(Vertices) < INT_MAX

VARIABLES
  adj_list,
  src,               \* the node whose table is asked for
  known,             \* the nodes whose distance is final
  distance, predecessor,
  queue,             \* the items of the priority queue
  forwardingTable,   \* the first hops found so far
  back,              \* where the walk back stands: [target, at, before], or none
  result             \* the table returned; empty until then

search == <<known, distance, predecessor, queue>>
vars == <<adj_list, src, search, forwardingTable, back, result>>

Neighbors(u) == DOMAIN adj_list[u]

\* An item is the edge pushed, without its source, which is never read.  Equal
\* items are one here: the second would be popped and skipped.
Item(dst, cost) == [dst |-> dst, cost |-> cost]

NoWalk == <<>>

Init ==
  /\ adj_list \in Graphs
  /\ src \in Vertices
  /\ known = {src}
  /\ distance = [v \in Vertices |-> IF v = src THEN 0
                                    ELSE IF v \in Neighbors(src) THEN adj_list[src][v]
                                    ELSE INT_MAX]
  /\ predecessor = [v \in Vertices |-> IF v \in Neighbors(src) \cup {src}
                                       THEN src ELSE -1]
  /\ queue = {Item(v, adj_list[src][v]) : v \in Neighbors(src)}
  /\ forwardingTable = <<>>
  /\ back = NoWalk
  /\ result = <<>>

\* Mutant of IsTop: the lowest node goes first, whatever its cost.
IsTopByNode(e) == \A f \in queue : e.dst < f.dst \/ (e.dst = f.dst /\ e.cost <= f.cost)

\* EdgeCompare: the cheapest item is on top, of equal ones that of the lowest node.
IsTop(e) ==
  \A f \in queue : e.cost < f.cost \/ (e.cost = f.cost /\ e.dst <= f.dst)

\* An item of a node that is known already is dropped.
Skip(e) ==
  /\ e \in queue /\ IsTop(e)
  /\ e.dst \in known
  /\ queue' = queue \ {e}
  /\ UNCHANGED <<adj_list, src, known, distance, predecessor,
                 forwardingTable, back, result>>

\* Mutant of Improves: the last node before the target does not matter.
ImprovesByCost(u, v) == distance[u] + adj_list[u][v] < distance[v]

\* The route to v over u is shorter, or as short by a lower last node.
Improves(u, v) ==
  \/ distance[u] + adj_list[u][v] < distance[v]
  \/ distance[u] + adj_list[u][v] = distance[v] /\ u < predecessor[v]

Improved(u) == {v \in Neighbors(u) : Improves(u, v)}

NewDistance(u) ==
  [v \in Vertices |-> IF v \in Improved(u) THEN distance[u] + adj_list[u][v]
                                           ELSE distance[v]]

\* Mutant of NewPredecessor: a predecessor once set stays.
NewPredecessorOnce(u) ==
  [v \in Vertices |-> IF v \in Improved(u) /\ predecessor[v] = -1 THEN u
                                                                 ELSE predecessor[v]]

NewPredecessor(u) ==
  [v \in Vertices |-> IF v \in Improved(u) THEN u ELSE predecessor[v]]

\* Mutant of Pushed: a node that has an item gets no other.
PushedOnce(u) ==
  {Item(v, NewDistance(u)[v]) :
     v \in {x \in Neighbors(u) : \A e \in queue : e.dst # x}}

\* Every neighbour is queued, whether it was improved or not.
Pushed(u) == {Item(v, NewDistance(u)[v]) : v \in Neighbors(u)}

\* Mutant of Marked: the node is not marked as known.
MarkedNone(e) == {}

Marked(e) == {e.dst}

\* The distance of the node on top is final, and its neighbours are improved.
Settle(e) ==
  /\ e \in queue /\ IsTop(e)
  /\ e.dst \notin known
  /\ known' = known \cup Marked(e)
  /\ distance' = NewDistance(e.dst)
  /\ predecessor' = NewPredecessor(e.dst)
  /\ queue' = (queue \ {e}) \cup Pushed(e.dst)
  /\ UNCHANGED <<adj_list, src, forwardingTable, back, result>>

------------------------------------------------------------------------------
(***************************************************************************)
(* Backtracking: the nodes are taken in ascending order.                   *)
(***************************************************************************)
\* The walk back from the next target begins.
StartWalk ==
  /\ queue = {} /\ back = NoWalk
  /\ \E t \in Vertices \ DOMAIN forwardingTable :
       /\ \A s \in Vertices \ DOMAIN forwardingTable : t <= s
       /\ back' = [target |-> t, at |-> t, before |-> t]
  /\ UNCHANGED <<adj_list, src, search, forwardingTable, result>>

StepBack ==
  /\ back # NoWalk /\ back.at \notin {-1, src}
  /\ back' = [back EXCEPT !.at = predecessor[back.at], !.before = back.at]
  /\ UNCHANGED <<adj_list, src, search, forwardingTable, result>>

\* Mutant of FirstHop: the node before the target is taken, not the one after src.
FirstHopPredecessor == predecessor[back.target]

FirstHop == back.before

EndWalk ==
  /\ back # NoWalk /\ back.at \in {-1, src}
  /\ forwardingTable' = Put(forwardingTable, back.target, FirstHop)
  /\ back' = NoWalk
  /\ UNCHANGED <<adj_list, src, search, result>>

\* The table holds src and every node with a distance.
Return ==
  /\ queue = {} /\ back = NoWalk /\ result = <<>>
  /\ DOMAIN forwardingTable = Vertices
  /\ result' = [t \in {v \in Vertices : distance[v] # INT_MAX} |->
                  [cost |-> distance[t], next_hop |-> forwardingTable[t]]]
  /\ UNCHANGED <<adj_list, src, search, forwardingTable, back>>

Next ==
  \/ \E e \in queue : Skip(e) \/ Settle(e)
  \/ StartWalk \/ StepBack \/ EndWalk \/ Return

Spec == Init /\ [][Next]_vars

\* The computation is sequential and nothing blocks it.
FairSpec == Spec /\ WF_vars(Next)

------------------------------------------------------------------------------

\* Every route known is the route to its predecessor and one link more, and the
\* predecessor is known, hence has its final distance.
PredecessorBacksDistance ==
  \A v \in Vertices \ {src} :
    IF distance[v] = INT_MAX
    THEN predecessor[v] = -1 /\ v \notin known
    ELSE /\ predecessor[v] \in known /\ v \in Neighbors(predecessor[v])
         /\ distance[v] = distance[predecessor[v]] + adj_list[predecessor[v]][v]

\* Nodes become known in the order of their distance, so that the distance of a
\* known node is never improved on.
KnownAreNearest ==
  \A u \in known : \A v \in Vertices :
    /\ v \notin known => distance[u] <= distance[v]
    /\ v \in Neighbors(u) => distance[v] <= distance[u] + adj_list[u][v]

\* No node is forgotten, though outdated items stay in the queue: one that has a
\* distance and is not known has an item with that distance.
FringeQueued ==
  \A v \in Vertices \ known :
    distance[v] # INT_MAX => Item(v, distance[v]) \in queue

\* "choose the path whose last node before the destination has the smaller ID"
\* (mp3.pdf): of the last hops of shortest routes found, the lowest is kept.
LowestPredecessor ==
  \A v \in Vertices \ {src} : \A u \in known :
    v \in Neighbors(u) /\ distance[u] + adj_list[u][v] = distance[v]
      => predecessor[v] <= u

\* The search and the walks along the predecessors come to an end.
ConstructEnds == <>(result # <<>>)

\* The table returned holds the shortest routes of the graph.
Routes == INSTANCE RouteTable
ImplementsRouteTable == Routes!Spec

==============================================================================
