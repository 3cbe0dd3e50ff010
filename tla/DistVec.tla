------------------------------- MODULE DistVec -------------------------------
(***************************************************************************)
(* DistanceVectorRouting::construct_fte() of mp3/src/distvec/distvec.cpp:  *)
(* the tables of all nodes are relaxed one node at a time, in the order of *)
(* a queue of nodes that were notified, until the queue is empty.          *)
(***************************************************************************)
EXTENDS Graph

CONSTANTS
  Vertices,       \* the nodes of the graph
  Graphs          \* the values of adj_list considered

ASSUME VerticesAssumption == Vertices \subseteq Nat /\ IsFiniteSet(Vertices)
ASSUME GraphsAssumption == \A adj \in Graphs : IsGraph(adj, Vertices)

VARIABLES
  adj_list,
  src,               \* the node whose table is asked for
  distanceTables,    \* per node: a map from targets to entries
  nodesToUpdate,     \* the queue of nodes to relax
  result             \* the table returned; empty until then

vars == <<adj_list, src, distanceTables, nodesToUpdate, result>>

Neighbors(u) == DOMAIN adj_list[u]

Entry(cost, hop) == [cost |-> cost, next_hop |-> hop]

\* Mutant of FirstTable: the next hops keep their initialiser.
FirstTableNoHops(u) ==
  [t \in Neighbors(u) \cup {u} |->
     IF t = u THEN Entry(0, u) ELSE Entry(adj_list[u][t], -1)]

\* The table a node starts with: itself and its neighbours.
FirstTable(u) ==
  [t \in Neighbors(u) \cup {u} |->
     IF t = u THEN Entry(0, u) ELSE Entry(adj_list[u][t], t)]

Init ==
  /\ adj_list \in Graphs
  /\ src \in Vertices
  /\ distanceTables = [u \in Vertices |-> FirstTable(u)]
  /\ nodesToUpdate \in InOrder(Vertices)
  /\ result = <<>>

Has(u, t) == t \in DOMAIN distanceTables[u]

\* Mutants of Offer: the link to the neighbour is not paid for; the hop is the one
\* of the neighbour.
OfferForgetsLink(u, n, t) == Entry(distanceTables[n][t].cost, n)
OfferOfTheirHop(u, n, t) ==
  Entry(adj_list[u][n] + distanceTables[n][t].cost, distanceTables[n][t].next_hop)

\* The route to t that neighbour n of u offers.
Offer(u, n, t) == Entry(adj_list[u][n] + distanceTables[n][t].cost, n)

\* What the scan of the neighbours chooses from: the entry u has, and the offers.
Candidates(u, t) ==
  {distanceTables[u][t] : x \in {y \in {t} : Has(u, y)}}
    \cup {Offer(u, n, t) : n \in {y \in Neighbors(u) : Has(y, t)}}

\* Mutant of Better: the higher hop wins.
BetterByHighHop(e, f) ==
  e.cost < f.cost \/ (e.cost = f.cost /\ e.next_hop > f.next_hop)

\* An entry replaces another when it is cheaper, or as cheap by a lower hop.
Better(e, f) ==
  e.cost < f.cost \/ (e.cost = f.cost /\ e.next_hop < f.next_hop)

\* The scan replaces its choice by each better offer: it ends with the best.
Best(C) == CHOOSE e \in C : \A f \in C : ~Better(f, e)

\* The table of node u after it was relaxed.
Relaxed(u) ==
  [t \in {x \in Vertices : Candidates(u, x) # {}} |->
     IF t = u THEN distanceTables[u][u] ELSE Best(Candidates(u, t))]

\* Mutants of Notified: nobody is, whatever changed; all neighbours are, although
\* nothing did.
NotifiedNever(u) == {}
NotifiedAlways(u) == Neighbors(u)

\* Whom a node notifies when it was relaxed: its neighbours, of a changed table.
Notified(u) == IF Relaxed(u) # distanceTables[u] THEN Neighbors(u) ELSE {}

\* The node at the head of the queue is relaxed, and those it notifies are queued.
Update ==
  /\ nodesToUpdate # <<>>
  /\ LET current == Head(nodesToUpdate) IN
     /\ distanceTables' = [distanceTables EXCEPT ![current] = Relaxed(current)]
     /\ \E pushed \in InOrder(Notified(current)) :
          nodesToUpdate' = Tail(nodesToUpdate) \o pushed
  /\ UNCHANGED <<adj_list, src, result>>

\* Mutant of Settled: the last node of the queue is not waited for.
SettledEarly == Len(nodesToUpdate) <= 1

Settled == nodesToUpdate = <<>>

\* The queue is empty: the table that was asked for is returned.
Return ==
  /\ Settled
  /\ result = <<>>
  /\ result' = distanceTables[src]
  /\ UNCHANGED <<adj_list, src, distanceTables, nodesToUpdate>>

Next == Update \/ Return

Spec == Init /\ [][Next]_vars

\* The computation is sequential and nothing blocks it.
FairSpec == Spec /\ WF_vars(Next)

------------------------------------------------------------------------------

TypeOK ==
  /\ IsGraph(adj_list, Vertices)
  /\ src \in Vertices
  /\ nodesToUpdate \in Seq(Vertices)
  /\ DOMAIN distanceTables = Vertices
  /\ \A u \in Vertices :
       /\ DOMAIN distanceTables[u] \subseteq Vertices
       /\ \A t \in DOMAIN distanceTables[u] :
            distanceTables[u][t] \in [cost : Nat, next_hop : Vertices]
  /\ result # <<>> => nodesToUpdate = <<>> /\ result = distanceTables[src]

\* Every entry but a node's own is backed by the neighbour it leads to, which has
\* a route to the target that costs at most the rest.
RoutesBacked ==
  \A u \in Vertices :
    /\ Has(u, u) /\ distanceTables[u][u] = Entry(0, u)
    /\ \A t \in DOMAIN distanceTables[u] \ {u} :
         LET n == distanceTables[u][t].next_hop IN
         /\ n \in Neighbors(u) /\ Has(n, t)
         /\ adj_list[u][n] + distanceTables[n][t].cost <= distanceTables[u][t].cost

\* With positive costs the next hop is strictly closer, in every intermediate
\* state: messages forwarded by these tables never go round in a loop.
HopsDescend ==
  PositiveCosts(adj_list) =>
    \A u \in Vertices : \A t \in DOMAIN distanceTables[u] \ {u} :
      LET n == distanceTables[u][t].next_hop IN
      Has(n, t) /\ distanceTables[n][t].cost < distanceTables[u][t].cost

Queued(u) == \E i \in DOMAIN nodesToUpdate : nodesToUpdate[i] = u

\* No notification is lost: a node that a neighbour offers a better route, or a
\* route to a target it does not know, is in the queue.
SettledUnlessQueued ==
  \A u \in Vertices : ~Queued(u) =>
    \A n \in Neighbors(u) : \A t \in DOMAIN distanceTables[n] \ {u} :
      Has(u, t) /\ ~Better(Offer(u, n, t), distanceTables[u][t])

\* "when two equally good paths are available, your node should choose the one
\* whose next-hop node ID is lower" (mp3.pdf): once the queue is empty, every entry
\* costs exactly what its hop says, and no neighbour offers the same or less by a
\* lower hop.
Converged ==
  nodesToUpdate = <<>> =>
    \A u \in Vertices : \A t \in DOMAIN distanceTables[u] \ {u} :
      LET e == distanceTables[u][t] IN
      /\ e = Offer(u, e.next_hop, t)
      /\ \A n \in Neighbors(u) :
           Has(n, t) => /\ e.cost <= Offer(u, n, t).cost
                        /\ e.cost = Offer(u, n, t).cost => e.next_hop <= n

\* The relaxation comes to an end.
ConstructEnds == <>(result # <<>>)

\* The table returned holds the shortest routes of the graph.
Routes == INSTANCE RouteTable
ImplementsRouteTable == Routes!Spec

==============================================================================
