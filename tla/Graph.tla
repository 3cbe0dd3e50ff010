-------------------------------- MODULE Graph --------------------------------
(***************************************************************************)
(* The graphs of mp3/src/graph.hpp.  adj_list maps every node to the map   *)
(* of its neighbours and the costs of the links to them; a node that has   *)
(* no entry in the adj_list of the code has an empty one, as operator[]    *)
(* makes it.  Edges are records with a src, a dst and a cost.              *)
(***************************************************************************)
EXTENDS Integers, FiniteSets, Sequences, SequencesExt

\* A std::map with one entry replaced or added, and one with a key erased.
Put(f, k, v) == [x \in DOMAIN f \cup {k} |-> IF x = k THEN v ELSE f[x]]
Erase(f, k) == [x \in DOMAIN f \ {k} |-> f[x]]

\* The links of a graph, in both directions.
Link(adj, e) ==
  [adj EXCEPT ![e.src] = Put(@, e.dst, e.cost), ![e.dst] = Put(@, e.src, e.cost)]

\* Mutant of Unlink: one of the two directions stays.
UnlinkOneWay(adj, e) == [adj EXCEPT ![e.src] = Erase(@, e.dst)]

Unlink(adj, e) ==
  [adj EXCEPT ![e.src] = Erase(@, e.dst), ![e.dst] = Erase(@, e.src)]

\* Graph(edges): the links of the topology file, in their order.
FromEdges(nodes, edges) ==
  LET graph[k \in 0 .. Len(edges)] ==
        IF k = 0 THEN [u \in nodes |-> <<>>] ELSE Link(graph[k - 1], edges[k])
  IN  graph[Len(edges)]

\* Edge::valid() and Graph::update_edge().
Valid(e) == e.cost >= 0
UpdateEdge(adj, e) == IF Valid(e) THEN Link(adj, e) ELSE Unlink(adj, e)

\* std::set and std::map are traversed in ascending order: the sequences
\* (there is one) that list S so.
InOrder(S) ==
  {q \in [1 .. Cardinality(S) -> S] :
     /\ \A i, j \in DOMAIN q : i < j => q[i] < q[j]
     /\ \A x \in S : \E i \in DOMAIN q : q[i] = x}

------------------------------------------------------------------------------
\* The graphs that topology and changes files produce over a set of nodes: links
\* lead both ways at the same cost.
IsGraph(adj, nodes) ==
  /\ DOMAIN adj = nodes
  /\ \A u \in nodes :
       /\ DOMAIN adj[u] \subseteq nodes \ {u}
       /\ \A v \in DOMAIN adj[u] :
            adj[u][v] \in Nat /\ u \in DOMAIN adj[v] /\ adj[v][u] = adj[u][v]

\* "Real link costs are always positive; never zero or negative" (mp3.pdf).
PositiveCosts(adj) == \A u \in DOMAIN adj : \A v \in DOMAIN adj[u] : adj[u][v] > 0

\* Reference definitions.  A walk stands for all of its cost between the same two
\* nodes: the node it starts from, the node it reaches, and the cost.
\* The walks that begin with a link and go on as one of those given.
Further(adj, walks) ==
  UNION {{<<u, w[2], adj[u][w[1]] + w[3]>> : u \in DOMAIN adj[w[1]]} : w \in walks}

Shortest(walks) ==
  {w \in walks : \A x \in walks : x[1] = w[1] /\ x[2] = w[2] => w[3] <= x[3]}

NextRound(adj, walks) == Shortest(walks \cup Further(adj, walks))

\* Round k finds the shortest walks of at most k links.
Rounds(adj) ==
  LET W[k \in Nat] == IF k = 0 THEN {<<u, u, 0>> : u \in DOMAIN adj}
                      ELSE NextRound(adj, W[k - 1])
  IN  W

\* The shortest walks between two nodes: none needs as many links as there are nodes.
ShortestWalks(adj) == Rounds(adj)[Cardinality(DOMAIN adj) - 1]

\* The nodes that walks lead to from u, and what they cost.
Reachable(walks, u) == {w[2] : w \in {x \in walks : x[1] = u}}
Distance(walks, u, t) ==
  LET w == CHOOSE x \in walks : x[1] = u /\ x[2] = t IN w[3]

\* A forwarding table of node s: every node that s reaches, the cost of a
\* shortest route to it, and a neighbour that continues such a route.
IsRouteTable(adj, s, table) ==
  LET walks == ShortestWalks(adj) IN
  /\ DOMAIN table = Reachable(walks, s)
  /\ table[s] = [cost |-> 0, next_hop |-> s]
  /\ \A t \in DOMAIN table \ {s} :
       LET hop == table[t].next_hop IN
       /\ table[t].cost = Distance(walks, s, t)
       /\ hop \in DOMAIN adj[s]
       /\ t \in Reachable(walks, hop)
       /\ adj[s][hop] + Distance(walks, hop, t) = table[t].cost

==============================================================================
