--------------------------- MODULE Forwarding_proofs ---------------------------
(***************************************************************************)
(* Proofs about Forwarding, for any node IDs, files and messages, and for  *)
(* every choice among shortest routes that the tables of the nodes make:   *)
(* the graph follows the files, a message is unreachable only where it is  *)
(* cut, and the hops of a walk cost what was announced.                    *)
(***************************************************************************)
EXTENDS Forwarding, Graph_proofs

------------------------------------------------------------------------------
\* The inductive invariant.

\* The files, and what was read of them.
FilesRead ==
  /\ edges \in Seq({e \in Links : Valid(e)})
  /\ changes \in Seq(Links)
  /\ applied \in 0 .. Len(changes)
  /\ Len(messages) \in Nat /\ DOMAIN messages = 1 .. Len(messages)
  /\ message \in 1 .. Len(messages) + 1

\* Only a vertex has links, and links are symmetric.
GraphHeld ==
  /\ IsGraph(adj_list, NodeIds)
  /\ vertices \subseteq NodeIds
  /\ \A u \in NodeIds \ vertices : DOMAIN adj_list[u] = {}

\* A table is one of a vertex, of the graph as it is, and one that construct_fte()
\* may have returned; messages are sent when there are all.
TablesHeld ==
  /\ DOMAIN forwarding_table \subseteq vertices
  /\ \A u \in DOMAIN forwarding_table :
       forwarding_table[u] \in RouteTables(u, ShortestWalks(adj_list))
  /\ pc \in {"tables", "send", "walk", "done", "thrown"}
  /\ pc \in {"send", "walk"} => DOMAIN forwarding_table = vertices
  /\ pc = "walk" => message <= Len(messages)

\* No table has an entry for the message.
Cut(m) == DstOf(m) \notin Targets(SrcOf(m))

UnreachableSoFar ==
  /\ pc = "tables" => unreachable = {}
  /\ pc \in {"send", "walk"} => unreachable = {m \in 1 .. message - 1 : Cut(m)}
  /\ pc = "walk" => ~ Cut(message)

\* A walk goes along vertices that have a route to its destination.
WalkHeld ==
  pc = "walk" =>
    /\ hops \in Seq(vertices) /\ at \in vertices
    /\ HopsMatchCost

\* The graph is what the lines parsed and applied say.
EdgesFollowed == Follows(adj_list, edges \o SubSeq(changes, 1, applied))

IInv ==
  /\ FilesRead /\ GraphHeld /\ EdgesFollowed /\ TablesHeld /\ UnreachableSoFar
  /\ WalkHeld

------------------------------------------------------------------------------
\* The graph and the lines of the files.

\* What the lines say of the link between two nodes.
Says(adj, lines, u, v) ==
  LET about == LinesAbout(lines, u, v)
      last == lines[Max(about)]
  IN  IF about = {} \/ last.cost < 0
      THEN v \notin DOMAIN adj[u]
      ELSE v \in DOMAIN adj[u] /\ adj[u][v] = last.cost

LEMMA LinkTypes ==
  ASSUME NEW e \in Links
  PROVE  /\ IsLinkOf(e, NodeIds) /\ e.cost \in Int
         /\ \A u, v \in NodeIds : u # v => (Ends(e) = {u, v} <=> Joins(e, u, v))
<1>1. IsLinkOf(e, NodeIds) /\ e.cost \in Int
  BY DEF Links, IsLinkOf
<1>2. \A u, v \in NodeIds : u # v => (Ends(e) = {u, v} <=> Joins(e, u, v))
  BY <1>1 DEF Ends, Joins, IsLinkOf
<1> QED BY <1>1, <1>2

\* The graph follows one line more when the line is applied to it.
LEMMA LineAdded ==
  ASSUME NEW adj, DOMAIN adj = NodeIds, NEW lines \in Seq(Links), NEW e \in Links,
         Follows(adj, lines)
  PROVE  Follows(UpdateEdge(adj, e), Append(lines, e))
<1> DEFINE n == Len(lines)
           longer == Append(lines, e)
           L == UpdateEdge(adj, e)
<1>1. /\ n \in Nat /\ DOMAIN lines = 1 .. n /\ DOMAIN longer = 1 .. n + 1
      /\ longer[n + 1] = e /\ \A k \in 1 .. n : longer[k] = lines[k]
  OBVIOUS
<1>2. IsLinkOf(e, NodeIds) /\ e.cost \in Int
  BY LinkTypes
<1> HIDE DEF n, longer
<1> SUFFICES ASSUME NEW u \in NodeIds, NEW v \in NodeIds, u # v PROVE Says(L, longer, u, v)
  BY DEF Follows, Says, longer
<1> DEFINE about == LinesAbout(lines, u, v)
           more == LinesAbout(longer, u, v)
<1>3. Says(adj, lines, u, v)
  BY DEF Follows, Says
<1>4. Ends(e) = {u, v} <=> Joins(e, u, v)
  BY LinkTypes
<1>5. CASE Joins(e, u, v)
  <2>1. more \in SUBSET (0 .. n + 1) /\ n + 1 \in more
    BY <1>1, <1>4, <1>5 DEF LinesAbout
  <2> HIDE DEF more
  <2>2. n + 1 \in Nat /\ more # {}
    BY <1>1, <2>1
  <2> DEFINE m == Max(more)
  <2>3. m \in more /\ \A x \in more : x <= m
    BY <2>1, <2>2, MaxIsGreatest
  <2> HIDE DEF m
  <2>4. m = n + 1
    BY <1>1, <2>1, <2>3
  <2>5. longer[m] = e
    BY <1>1, <2>4
  <2>6. IF e.cost < 0 THEN v \notin DOMAIN L[u] ELSE v \in DOMAIN L[u] /\ L[u][v] = e.cost
    <3>1. CASE Valid(e)
      <4>1. L = Link(adj, e) /\ ~(e.cost < 0)
        BY <1>2, <3>1 DEF UpdateEdge, Valid
      <4> HIDE DEF L
      <4> QED BY <1>2, <1>5, <4>1, LinkIs
    <3>2. CASE ~ Valid(e)
      <4>1. L = Unlink(adj, e) /\ e.cost < 0
        BY <1>2, <3>2 DEF UpdateEdge, Valid
      <4> HIDE DEF L
      <4> QED BY <1>2, <1>5, <4>1, UnlinkIs
    <3> QED BY <3>1, <3>2
  <2> HIDE DEF L
  <2> QED BY <2>2, <2>5, <2>6 DEF Says, more, m
<1>6. CASE ~ Joins(e, u, v)
  <2>1. more = about
    BY <1>1, <1>4, <1>6 DEF LinesAbout
  <2>2. /\ v \in DOMAIN L[u] <=> v \in DOMAIN adj[u]
        /\ v \in DOMAIN L[u] => L[u][v] = adj[u][v]
    <3>1. CASE Valid(e)
      <4>1. L = Link(adj, e)
        BY <3>1 DEF UpdateEdge
      <4> HIDE DEF L
      <4> QED BY <1>2, <1>6, <4>1, LinkIs
    <3>2. CASE ~ Valid(e)
      <4>1. L = Unlink(adj, e)
        BY <3>2 DEF UpdateEdge
      <4> HIDE DEF L
      <4> QED BY <1>2, <1>6, <4>1, UnlinkIs
    <3> QED BY <3>1, <3>2
  <2>3. about # {} => longer[Max(about)] = lines[Max(about)]
    <3> SUFFICES ASSUME about # {} PROVE longer[Max(about)] = lines[Max(about)]
      OBVIOUS
    <3>1. about \in SUBSET (0 .. n) /\ about \subseteq 1 .. n
      BY <1>1 DEF LinesAbout
    <3> HIDE DEF about
    <3>2. Max(about) \in about
      BY <1>1, <3>1, MaxIsGreatest
    <3> QED BY <1>1, <3>1, <3>2
  <2> HIDE DEF L
  <2> QED BY <1>3, <2>1, <2>2, <2>3 DEF Says
<1> QED BY <1>5, <1>6

\* The graph of a topology file follows its lines.
LEMMA TopologyFollowed ==
  ASSUME NEW lines \in Seq({e \in Links : Valid(e)})
  PROVE  /\ IsGraph(FromEdges(NodeIds, lines), NodeIds)
         /\ Follows(FromEdges(NodeIds, lines), lines)
         /\ \A u \in NodeIds \ UNION {Ends(lines[k]) : k \in DOMAIN lines} :
              DOMAIN FromEdges(NodeIds, lines)[u] = {}
<1> DEFINE n == Len(lines)
           nodes(k) == UNION {Ends(lines[j]) : j \in 1 .. k}
<1>1. /\ n \in Nat /\ DOMAIN lines = 1 .. n /\ lines \in Seq(Links)
      /\ \A k \in 1 .. n : lines[k] \in Links /\ Valid(lines[k])
  OBVIOUS
<1>2. \A k \in 1 .. n : IsLinkOf(lines[k], NodeIds) /\ lines[k].cost \in Int
  BY <1>1, LinkTypes
<1>3. PICK g : IsBuilt(g, NodeIds, lines) /\ FromEdges(NodeIds, lines) = g[n]
  BY <1>1, <1>2, EdgesAreBuilt
<1> DEFINE first(k) == SubSeq(lines, 1, k)
           Good(k) == /\ IsGraph(g[k], NodeIds)
                      /\ Follows(g[k], first(k))
                      /\ \A u \in NodeIds \ nodes(k) : DOMAIN g[k][u] = {}
           P == {k \in Nat : k <= n => Good(k)}
<1>4. 0 \in P
  <2>1. g[0] = [u \in NodeIds |-> <<>>]
    BY <1>3 DEF IsBuilt
  <2>2. IsGraph(g[0], NodeIds)
    BY <2>1, EmptyGraph
  <2>3. \A u \in NodeIds : DOMAIN g[0][u] = {}
    BY <2>1
  <2>4. first(0) = <<>>
    OBVIOUS
  <2>5. Follows(g[0], first(0))
    <3> SUFFICES ASSUME NEW u \in NodeIds, NEW v \in NodeIds PROVE Says(g[0], <<>>, u, v)
      BY <2>4 DEF Follows, Says
    <3>1. LinesAbout(<<>>, u, v) = {}
      BY DEF LinesAbout
    <3> QED BY <2>3, <3>1 DEF Says
  <2> QED BY <2>2, <2>3, <2>5
<1>5. ASSUME NEW k \in Nat, k \in P PROVE k + 1 \in P
  <2> SUFFICES ASSUME k + 1 <= n PROVE Good(k + 1)
    OBVIOUS
  <2> DEFINE e == lines[k + 1]
  <2>1. k + 1 \in 1 .. n /\ (k + 1) - 1 = k /\ k <= n
    BY <1>1
  <2>2. Good(k)
    BY <1>5, <2>1
  <2>3. e \in Links /\ Valid(e) /\ IsLinkOf(e, NodeIds) /\ e.cost \in Int
    BY <1>1, <1>2, <2>1
  <2>4. g[k + 1] = UpdateEdge(g[k], e) /\ g[k + 1] = Link(g[k], e)
    BY <1>3, <2>1, <2>3 DEF IsBuilt, UpdateEdge
  <2>5. first(k + 1) = Append(first(k), e) /\ first(k) \in Seq(Links)
    BY <1>1, <2>1
  <2>6. nodes(k + 1) = nodes(k) \cup Ends(e)
    <3>1. 1 .. k + 1 = 1 .. k \cup {k + 1}
      OBVIOUS
    <3> QED BY <3>1
  <2> HIDE DEF e, first, nodes
  <2>7. DOMAIN g[k] = NodeIds
    BY <2>2 DEF IsGraph
  <2>8. IsGraph(g[k + 1], NodeIds)
    BY <2>2, <2>3, <2>4, UpdateKeepsGraph
  <2>9. Follows(g[k + 1], first(k + 1))
    BY <2>2, <2>3, <2>4, <2>5, <2>7, LineAdded
  <2>10. ASSUME NEW u \in NodeIds \ nodes(k + 1) PROVE DOMAIN g[k + 1][u] = {}
    <3>1. u \notin nodes(k) /\ \A v : ~ Joins(e, u, v)
      BY <2>6 DEF Joins, Ends
    <3>2. DOMAIN g[k][u] = {}
      BY <2>2, <3>1
    <3> QED BY <2>3, <2>4, <2>7, <3>1, <3>2, LinkIs
  <2> QED BY <2>8, <2>9, <2>10
<1>6. Good(n)
  <2> HIDE DEF Good
  <2>1. Nat \subseteq P
    <3> HIDE DEF P
    <3> QED BY <1>4, <1>5, NatInd
  <2> QED BY <1>1, <2>1
<1>7. first(n) = lines
  BY <1>1
<1> QED BY <1>1, <1>3, <1>6, <1>7

------------------------------------------------------------------------------
\* The costs of a path.

IsTotal(f, costs) ==
  f = [k \in 0 .. Len(costs) |-> IF k = 0 THEN 0 ELSE f[k - 1] + costs[k]]

\* The sums that Total goes through.
LEMMA TotalIs ==
  ASSUME NEW costs \in Seq(Int)
  PROVE  \E f \in [0 .. Len(costs) -> Int] : IsTotal(f, costs) /\ Total(costs) = f[Len(costs)]
<1> DEFINE n == Len(costs)
           G == [k \in 1 .. n |-> [x \in Int |-> x + costs[k]]]
<1>1. n \in Nat /\ \A k \in 1 .. n : costs[k] \in Int
  OBVIOUS
<1> HIDE DEF n
<1>2. G \in [1 .. n -> [Int -> Int]] /\ 0 \in Int
  BY <1>1
<1>3. PICK f \in [0 .. n -> Int] : IsRecursion(f, n, 0, G)
  <2> HIDE DEF G
  <2> QED BY <1>1, <1>2, RecursionExists
<1>4. \A k \in 0 .. n : f[k] = IF k = 0 THEN 0 ELSE G[k][f[k - 1]]
  <2> HIDE DEF G
  <2> QED BY <1>3 DEF IsRecursion
<1>5. \A k \in 0 .. n : f[k] = IF k = 0 THEN 0 ELSE f[k - 1] + costs[k]
  <2> TAKE k \in 0 .. n
  <2>1. CASE k = 0
    BY <1>4, <2>1
  <2>2. CASE k # 0
    <3>1. k \in 1 .. n /\ k - 1 \in 0 .. n
      BY <1>1, <2>2
    <3>2. f[k - 1] \in Int
      BY <1>3, <3>1
    <3>3. f[k] = G[k][f[k - 1]]
      BY <1>4, <2>2
    <3> QED BY <2>2, <3>1, <3>2, <3>3
  <2> QED BY <2>1, <2>2
<1>6. IsTotal(f, costs)
  <2>1. f = [k \in 0 .. n |-> f[k]]
    BY <1>3
  <2> QED BY <1>5, <2>1 DEF IsTotal, n
<1> DEFINE sum == CHOOSE g : IsTotal(g, costs)
<1>7. IsTotal(sum, costs)
  BY <1>6
<1>8. Total(costs) = sum[n]
  BY DEF Total, IsTotal, n
<1> HIDE DEF sum, G
<1>9. \A k \in 0 .. n : sum[k] = IF k = 0 THEN 0 ELSE sum[k - 1] + costs[k]
  BY <1>7 DEF IsTotal, n
<1> DEFINE P == {k \in Nat : k <= n => sum[k] = f[k]}
<1>10. 0 \in P
  BY <1>1, <1>5, <1>9
<1>11. ASSUME NEW k \in Nat, k \in P PROVE k + 1 \in P
  <2> SUFFICES ASSUME k + 1 <= n PROVE sum[k + 1] = f[k + 1]
    OBVIOUS
  <2>1. k + 1 \in 0 .. n /\ k + 1 # 0 /\ (k + 1) - 1 = k /\ sum[k] = f[k]
    BY <1>1, <1>11
  <2>2. sum[k + 1] = sum[k] + costs[k + 1] /\ f[k + 1] = f[k] + costs[k + 1]
    BY <1>5, <1>9, <2>1
  <2> QED BY <2>1, <2>2
<1>12. n \in P
  <2> HIDE DEF P
  <2>1. Nat \subseteq P
    BY <1>10, <1>11, NatInd
  <2> QED BY <1>1, <2>1
<1>13. Total(costs) = f[n]
  BY <1>8, <1>12
<1> QED BY <1>3, <1>6, <1>13 DEF n

LEMMA TotalOfNone == Total(<<>>) = 0
<1>1. <<>> \in Seq(Int) /\ Len(<<>>) = 0
  OBVIOUS
<1>2. PICK f \in [0 .. 0 -> Int] : IsTotal(f, <<>>) /\ Total(<<>>) = f[0]
  BY <1>1, TotalIs
<1> QED BY <1>1, <1>2 DEF IsTotal

\* One cost more is added.
LEMMA TotalAppended ==
  ASSUME NEW costs \in Seq(Int), NEW x \in Int
  PROVE  Total(costs) \in Int /\ Total(Append(costs, x)) = Total(costs) + x
<1> DEFINE n == Len(costs)
           longer == Append(costs, x)
<1>1. /\ n \in Nat /\ longer \in Seq(Int) /\ Len(longer) = n + 1 /\ longer[n + 1] = x
      /\ \A k \in 1 .. n : longer[k] = costs[k]
  OBVIOUS
<1> HIDE DEF longer
<1>2. PICK f \in [0 .. n -> Int] : IsTotal(f, costs) /\ Total(costs) = f[n]
  BY TotalIs
<1>3. PICK g \in [0 .. n + 1 -> Int] : IsTotal(g, longer) /\ Total(longer) = g[n + 1]
  BY <1>1, TotalIs
<1>4. \A k \in 0 .. n : f[k] = IF k = 0 THEN 0 ELSE f[k - 1] + costs[k]
  BY <1>2 DEF IsTotal
<1>5. \A k \in 0 .. n + 1 : g[k] = IF k = 0 THEN 0 ELSE g[k - 1] + longer[k]
  BY <1>1, <1>3 DEF IsTotal
<1> HIDE DEF n
<1> DEFINE P == {k \in Nat : k <= n => g[k] = f[k]}
<1>6. 0 \in P
  BY <1>1, <1>4, <1>5
<1>7. ASSUME NEW k \in Nat, k \in P PROVE k + 1 \in P
  <2> SUFFICES ASSUME k + 1 <= n PROVE g[k + 1] = f[k + 1]
    OBVIOUS
  <2>1. /\ k + 1 \in 0 .. n /\ k + 1 \in 0 .. n + 1 /\ k + 1 \in 1 .. n /\ k + 1 # 0
        /\ (k + 1) - 1 = k /\ g[k] = f[k]
    BY <1>1, <1>7
  <2>2. f[k + 1] = f[k] + costs[k + 1] /\ g[k + 1] = g[k] + longer[k + 1]
    BY <1>4, <1>5, <2>1
  <2> QED BY <1>1, <2>1, <2>2
<1>8. n \in P
  <2> HIDE DEF P
  <2>1. Nat \subseteq P
    BY <1>6, <1>7, NatInd
  <2> QED BY <1>1, <2>1
<1>9. n + 1 \in 0 .. n + 1 /\ n + 1 # 0 /\ (n + 1) - 1 = n /\ n \in 0 .. n
  BY <1>1
<1>10. g[n + 1] = g[n] + x /\ g[n] = f[n]
  BY <1>1, <1>5, <1>8, <1>9
<1>11. Total(costs) \in Int
  BY <1>2, <1>9
<1> QED BY <1>2, <1>3, <1>10, <1>11 DEF longer

------------------------------------------------------------------------------
\* The tables, and what they say of a hop.

\* An entry has the cost of a shortest route; for another node it has a link that such
\* a route starts with.
IsEntry(u, walks, t, entry) ==
  /\ t \in NodeIds
  /\ entry.cost \in Nat /\ entry.cost = Distance(walks, u, t)
  /\ t # u =>
       /\ entry.next_hop \in DOMAIN adj_list[u] /\ entry.next_hop # u
       /\ t \in Reachable(walks, entry.next_hop)
       /\ adj_list[u][entry.next_hop] + Distance(walks, entry.next_hop, t) = entry.cost

LEMMA TableFacts ==
  ASSUME GraphHeld, NEW u \in NodeIds, NEW walks, walks = ShortestWalks(adj_list),
         NEW table \in RouteTables(u, walks)
  PROVE  /\ DOMAIN table = Reachable(walks, u)
         /\ u \in DOMAIN table /\ table[u] = [cost |-> 0, next_hop |-> u]
         /\ \A t \in DOMAIN table : IsEntry(u, walks, t, table[t])
<1>1. IsFiniteGraph(adj_list, NodeIds)
  BY NodeIdsAssumption DEF GraphHeld, IsFiniteGraph
<1>2. /\ Reachable(walks, u) = {t \in NodeIds : \E c \in Nat : <<u, t, c>> \in walks}
      /\ \A t \in NodeIds : \A c \in Nat : <<u, t, c>> \in walks => Distance(walks, u, t) = c
  BY <1>1, ReachFacts
<1>3. <<u, u, 0>> \in walks /\ 0 \in Nat
  BY <1>1, WalkFacts DEF HasSelves
<1>4. u \in Reachable(walks, u) /\ Distance(walks, u, u) = 0
  BY <1>2, <1>3
<1> DEFINE targets == Reachable(walks, u)
           Starts(n, t) ==
             IF t = u THEN n = u
             ELSE /\ n # u /\ t \in Reachable(walks, n)
                  /\ adj_list[u][n] + Distance(walks, n, t) = Distance(walks, u, t)
<1>5. PICK hop \in [targets -> DOMAIN adj_list[u] \cup {u}] :
        /\ \A t \in targets : Starts(hop[t], t)
        /\ table = [t \in targets |-> [cost |-> Distance(walks, u, t), next_hop |-> hop[t]]]
  BY DEF RouteTables
<1>6. /\ DOMAIN table = targets
      /\ \A t \in targets :
           table[t].cost = Distance(walks, u, t) /\ table[t].next_hop = hop[t]
  BY <1>5
<1>7. table[u] = [cost |-> 0, next_hop |-> u]
  BY <1>4, <1>5
<1>8. ASSUME NEW t \in targets PROVE IsEntry(u, walks, t, table[t])
  <2>1. t \in NodeIds /\ Distance(walks, u, t) \in Nat
    BY <1>2
  <2>2. Starts(hop[t], t) /\ hop[t] \in DOMAIN adj_list[u] \cup {u}
    BY <1>5
  <2> QED BY <1>6, <2>1, <2>2 DEF IsEntry
<1> QED BY <1>4, <1>6, <1>7, <1>8

\* A node that a vertex has a link to is a vertex.
LEMMA NeighboursAreVertices ==
  ASSUME GraphHeld, NEW u \in vertices, NEW n \in DOMAIN adj_list[u]
  PROVE  n \in vertices /\ adj_list[u][n] \in Nat
<1>1. n \in NodeIds /\ adj_list[u][n] \in Nat /\ u \in DOMAIN adj_list[n]
  BY LinkFacts DEF GraphHeld
<1> QED BY <1>1 DEF GraphHeld

\* The next hop of a node that is not the destination is a link, to a vertex that has
\* a route, and the route that is left is shorter by that link.
LEMMA NextHopFacts ==
  ASSUME GraphHeld, TablesHeld, pc = "walk", NEW u \in vertices, NEW t, t # u,
         t \in Targets(u), NEW n, n = forwarding_table[u][t].next_hop
  PROVE  /\ n \in DOMAIN adj_list[u] /\ n \in vertices /\ t \in Targets(n)
         /\ adj_list[u][n] \in Nat /\ forwarding_table[n][t].cost \in Nat
         /\ forwarding_table[u][t].cost = adj_list[u][n] + forwarding_table[n][t].cost
<1> DEFINE walks == ShortestWalks(adj_list)
<1>1. /\ u \in NodeIds /\ DOMAIN forwarding_table = vertices
      /\ \A v \in vertices : v \in NodeIds /\ forwarding_table[v] \in RouteTables(v, walks)
      /\ t \in DOMAIN forwarding_table[u]
  BY DEF GraphHeld, TablesHeld, Targets
<1> HIDE DEF walks
<1>2. /\ n \in DOMAIN adj_list[u] /\ t \in Reachable(walks, n)
      /\ adj_list[u][n] + Distance(walks, n, t) = forwarding_table[u][t].cost
  <2> DEFINE table == forwarding_table[u]
  <2>1. table \in RouteTables(u, walks) /\ t \in DOMAIN table /\ n = table[t].next_hop
    BY <1>1
  <2> HIDE DEF table
  <2>2. /\ n \in DOMAIN adj_list[u] /\ t \in Reachable(walks, n)
        /\ adj_list[u][n] + Distance(walks, n, t) = table[t].cost
    <3>1. IsEntry(u, walks, t, table[t])
      BY <1>1, <2>1, TableFacts DEF walks
    <3> QED BY <2>1, <3>1 DEF IsEntry
  <2> QED BY <2>2 DEF table
<1>3. n \in vertices /\ adj_list[u][n] \in Nat
  BY <1>2, NeighboursAreVertices
<1>4. /\ DOMAIN forwarding_table[n] = Reachable(walks, n)
      /\ forwarding_table[n][t].cost \in Nat
      /\ forwarding_table[n][t].cost = Distance(walks, n, t)
  <2> DEFINE table == forwarding_table[n]
  <2>1. table \in RouteTables(n, walks) /\ n \in NodeIds
    BY <1>1, <1>3
  <2> HIDE DEF table
  <2>2. DOMAIN table = Reachable(walks, n)
    BY <2>1, TableFacts DEF walks
  <2>3. table[t].cost \in Nat /\ table[t].cost = Distance(walks, n, t)
    <3>1. IsEntry(n, walks, t, table[t])
      BY <1>2, <2>1, <2>2, TableFacts DEF walks
    <3> QED BY <3>1 DEF IsEntry
  <2> QED BY <2>2, <2>3 DEF table
<1>5. t \in Targets(n)
  BY <1>2, <1>3, <1>4 DEF Targets
<1> QED BY <1>2, <1>3, <1>4, <1>5

------------------------------------------------------------------------------
\* The invariant holds in the beginning.

LEMMA SeqFacts ==
  ASSUME NEW n \in Nat, NEW s, s = [k \in 1 .. n |-> s[k]]
  PROVE  Len(s) = n /\ DOMAIN s = 1 .. n
<1> DEFINE S == {s[k] : k \in 1 .. n}
<1>1. \A k \in 1 .. n : s[k] \in S
  OBVIOUS
<1> HIDE DEF S
<1>2. s \in [1 .. n -> S]
  BY <1>1
<1>3. s \in Seq(S) /\ DOMAIN s = 1 .. n
  BY <1>2
<1>4. DOMAIN s = 1 .. Len(s) /\ Len(s) \in Nat
  BY <1>3
<1> QED BY <1>3

LEMMA InitIInv == Init => IInv
<1> SUFFICES ASSUME Init PROVE IInv
  OBVIOUS
<1>1. /\ edges \in Seq({e \in Links : Valid(e)}) /\ changes \in Seq(Links)
      /\ applied = 0 /\ message = 1
  BY FilesAssumption DEF Init
<1>2. Len(messages) \in Nat /\ DOMAIN messages = 1 .. Len(messages)
  <2>1. PICK lines \in MessageFiles : messages = <<>> \/ messages = ParsedMessages(lines)
    BY DEF Init
  <2>2. CASE messages = <<>>
    BY <2>2
  <2>3. CASE messages = ParsedMessages(lines)
    <3>1. Len(lines) \in Nat /\ DOMAIN lines = 1 .. Len(lines)
      BY FilesAssumption
    <3>2. messages = [k \in 1 .. Len(lines) |-> messages[k]]
      BY <2>3, <3>1 DEF ParsedMessages
    <3> QED BY <3>1, <3>2, SeqFacts
  <2> QED BY <2>1, <2>2, <2>3
<1>3. FilesRead
  <2>1. 0 \in 0 .. Len(changes)
    BY <1>1
  <2>2. 1 \in 1 .. Len(messages) + 1
    BY <1>2
  <2> QED BY <1>1, <1>2, <2>1, <2>2 DEF FilesRead
<1>4. /\ adj_list = FromEdges(NodeIds, edges)
      /\ vertices = UNION {Ends(edges[k]) : k \in DOMAIN edges}
  BY DEF Init
<1>5. GraphHeld
  <2>1. vertices \subseteq NodeIds
    <3> SUFFICES ASSUME NEW k \in DOMAIN edges PROVE Ends(edges[k]) \subseteq NodeIds
      BY <1>4
    <3>1. edges[k] \in Links
      BY <1>1
    <3> QED BY <3>1 DEF Links, Ends
  <2> QED BY <1>1, <1>4, <2>1, TopologyFollowed DEF GraphHeld
<1>6. EdgesFollowed
  <2>1. edges \o SubSeq(changes, 1, applied) = edges
    <3> DEFINE none == SubSeq(changes, 1, 0)
    <3>1. none = <<>>
      BY <1>1
    <3> HIDE DEF none
    <3>2. edges \o none = edges
      BY <1>1, <3>1
    <3> QED BY <1>1, <3>2 DEF none
  <2> QED BY <1>1, <1>4, <2>1, TopologyFollowed DEF EdgesFollowed
<1>7. forwarding_table = <<>> /\ pc \in {"tables", "thrown"} /\ unreachable = {}
  BY DEF Init
<1>8. TablesHeld
  BY <1>7 DEF TablesHeld
<1>9. UnreachableSoFar /\ WalkHeld
  BY <1>7 DEF UnreachableSoFar, WalkHeld
<1> QED BY <1>3, <1>5, <1>6, <1>8, <1>9 DEF IInv

------------------------------------------------------------------------------
\* Every action keeps it.  Those that do not read the files keep what was read.

LEMMA SameGraph ==
  ASSUME FilesRead, GraphHeld, EdgesFollowed, UNCHANGED <<files, graph>>,
         message' \in 1 .. Len(messages) + 1
  PROVE  FilesRead' /\ GraphHeld' /\ EdgesFollowed'
<1>1. UNCHANGED <<edges, changes, messages, vertices, adj_list, applied>>
  BY DEF files, graph
<1> QED BY <1>1 DEF FilesRead, GraphHeld, EdgesFollowed

LEMMA SameTables ==
  ASSUME UNCHANGED <<files, graph, forwarding_table>>
  PROVE  /\ \A u : Targets(u)' = Targets(u)
         /\ \A m : Cut(m)' = Cut(m)
<1>1. UNCHANGED <<messages, vertices, forwarding_table>>
  BY DEF files, graph
<1> QED BY <1>1 DEF Targets, Cut, SrcOf, DstOf

LEMMA SameRoutes ==
  ASSUME UNCHANGED adj_list, NEW u
  PROVE  RouteTables(u, ShortestWalks(adj_list))' = RouteTables(u, ShortestWalks(adj_list))
BY DEF RouteTables

LEMMA ComputeTableIInv ==
  ASSUME IInv, ComputeTable
  PROVE  IInv'
<1> USE DEF IInv
<1>1. /\ pc = "tables" /\ UNCHANGED <<files, graph, message, pc, walk, unreachable>>
      /\ \E u \in vertices \ DOMAIN forwarding_table :
           \E table \in RouteTables(u, ShortestWalks(adj_list)) :
             forwarding_table' = Put(forwarding_table, u, table)
  BY DEF ComputeTable
<1>2. FilesRead' /\ GraphHeld' /\ EdgesFollowed'
  <2>1. message' \in 1 .. Len(messages) + 1
    BY <1>1 DEF FilesRead
  <2> QED BY <1>1, <2>1, SameGraph
<1>3. TablesHeld'
  <2>1. PICK u \in vertices : \E table \in RouteTables(u, ShortestWalks(adj_list)) :
          forwarding_table' = Put(forwarding_table, u, table)
    BY <1>1
  <2>2. PICK table \in RouteTables(u, ShortestWalks(adj_list)) :
          forwarding_table' = Put(forwarding_table, u, table)
    BY <2>1
  <2>3. UNCHANGED <<vertices, adj_list, messages, message, pc>>
    BY <1>1 DEF files, graph
  <2>4. ASSUME NEW v \in DOMAIN forwarding_table'
        PROVE  /\ v \in vertices
               /\ forwarding_table'[v] \in RouteTables(v, ShortestWalks(adj_list))'
    <3>1. v \in vertices /\ forwarding_table'[v] \in RouteTables(v, ShortestWalks(adj_list))
      BY <2>2 DEF Put, TablesHeld
    <3> QED BY <2>3, <3>1, SameRoutes
  <2> QED BY <1>1, <2>3, <2>4 DEF TablesHeld
<1>4. UnreachableSoFar' /\ WalkHeld'
  BY <1>1 DEF UnreachableSoFar, WalkHeld
<1> QED BY <1>2, <1>3, <1>4

\* The tables stay those of the graph where neither changes.
LEMMA SameTablesHeld ==
  ASSUME TablesHeld, UNCHANGED <<files, graph, forwarding_table>>,
         pc' \in {"tables", "send", "walk", "done", "thrown"},
         pc' \in {"send", "walk"} => DOMAIN forwarding_table = vertices,
         pc' = "walk" => message' <= Len(messages)
  PROVE  TablesHeld'
<1>1. UNCHANGED <<messages, vertices, adj_list, forwarding_table>>
  BY DEF files, graph
<1>2. ASSUME NEW u \in DOMAIN forwarding_table
      PROVE  forwarding_table[u] \in RouteTables(u, ShortestWalks(adj_list))'
  BY <1>1, SameRoutes DEF TablesHeld
<1> QED BY <1>1, <1>2 DEF TablesHeld

LEMMA PrintTablesIInv ==
  ASSUME IInv, PrintTables
  PROVE  IInv'
<1> USE DEF IInv
<1>1. /\ pc = "tables" /\ DOMAIN forwarding_table = vertices /\ pc' = "send" /\ message' = 1
      /\ UNCHANGED <<files, graph, forwarding_table, walk, unreachable>>
  BY DEF PrintTables
<1>2. FilesRead' /\ GraphHeld' /\ EdgesFollowed'
  <2>1. message' \in 1 .. Len(messages) + 1
    BY <1>1 DEF FilesRead
  <2> QED BY <1>1, <2>1, SameGraph
<1>3. TablesHeld'
  BY <1>1, SameTablesHeld
<1>4. UnreachableSoFar' /\ WalkHeld'
  <2>1. 1 .. message' - 1 = {}
    BY <1>1
  <2>2. unreachable' = {}
    BY <1>1 DEF UnreachableSoFar
  <2> QED BY <1>1, <2>1, <2>2 DEF UnreachableSoFar, WalkHeld
<1> QED BY <1>2, <1>3, <1>4

LEMMA AnnounceIInv ==
  ASSUME IInv, Announce
  PROVE  IInv'
<1> USE DEF IInv
<1> DEFINE src == SrcOf(message)
           dst == DstOf(message)
<1>1. /\ pc = "send" /\ message <= Len(messages) /\ dst \in Targets(src)
      /\ announced' = forwarding_table[src][dst].cost
      /\ hops' = <<>> /\ at' = src /\ pc' = "walk"
      /\ UNCHANGED <<files, graph, forwarding_table, message, unreachable>>
  BY DEF Announce
<1>2. UNCHANGED <<messages, vertices, adj_list, message, forwarding_table>>
  BY <1>1 DEF files, graph
<1>3. FilesRead' /\ GraphHeld' /\ EdgesFollowed'
  <2>1. message' \in 1 .. Len(messages) + 1
    BY <1>1 DEF FilesRead
  <2> QED BY <1>1, <2>1, SameGraph
<1>4. TablesHeld'
  <2>1. DOMAIN forwarding_table = vertices
    BY <1>1 DEF TablesHeld
  <2> QED BY <1>1, <2>1, SameTablesHeld
<1>5. UnreachableSoFar'
  <2>1. \A m : Cut(m)' <=> Cut(m)
    BY <1>1, SameTables
  <2>2. ~ Cut(message)
    BY <1>1 DEF Cut
  <2>3. unreachable' = {m \in 1 .. message - 1 : Cut(m)}
    BY <1>1 DEF UnreachableSoFar
  <2> QED BY <1>1, <1>2, <2>1, <2>2, <2>3 DEF UnreachableSoFar
<1>6. /\ src \in vertices /\ dst \in DOMAIN forwarding_table[src]
      /\ forwarding_table[src][dst].cost \in Nat
  <2>1. src \in vertices /\ dst \in DOMAIN forwarding_table[src]
    BY <1>1 DEF Targets
  <2> DEFINE table == forwarding_table[src]
             u == src
             t == dst
  <2>2. /\ table \in RouteTables(u, ShortestWalks(adj_list)) /\ u \in NodeIds
        /\ t \in DOMAIN table
    BY <1>1, <2>1 DEF TablesHeld, GraphHeld
  <2> HIDE DEF table, u, t
  <2>3. table[t].cost \in Nat
    BY <2>2, TableFacts DEF IsEntry
  <2> QED BY <2>1, <2>3 DEF table, u, t
<1>7. HopsMatchCost'
  <2>1. (DstOf(message))' = dst
    BY <1>2 DEF DstOf
  <2>2. IsPath'
    BY <1>1 DEF IsPath
  <2>3. PathCost' = 0
    <3>1. PathCost' = Total(<<>>)
      BY <1>1 DEF PathCost
    <3> QED BY <3>1, TotalOfNone
  <2>4. (Targets(at))' = Targets(src)
    BY <1>1, <1>2 DEF Targets
  <2> HIDE DEF src, dst
  <2>5. announced' = 0 + forwarding_table'[at'][dst].cost
    <3> DEFINE cost == forwarding_table[src][dst].cost
    <3>1. announced' = cost /\ forwarding_table'[at'][dst].cost = cost /\ cost \in Nat
      BY <1>1, <1>2, <1>6
    <3> HIDE DEF cost
    <3> QED BY <3>1
  <2> QED BY <1>1, <2>1, <2>2, <2>3, <2>4, <2>5 DEF HopsMatchCost
<1>8. WalkHeld'
  <2>1. <<>> \in Seq(vertices)
    OBVIOUS
  <2> QED BY <1>1, <1>2, <1>6, <1>7, <2>1 DEF WalkHeld
<1> QED BY <1>3, <1>4, <1>5, <1>8

\* One message more is counted, as one without a route or not.
LEMMA OneMessageMore ==
  ASSUME NEW S, NEW m \in Nat, S = {x \in 1 .. m - 1 : Cut(x)}, m # 0
  PROVE  /\ Cut(m) => S \cup {m} = {x \in 1 .. (m + 1) - 1 : Cut(x)}
         /\ ~ Cut(m) => S = {x \in 1 .. (m + 1) - 1 : Cut(x)}
<1>1. 1 .. (m + 1) - 1 = (1 .. m - 1) \cup {m}
  OBVIOUS
<1> QED BY <1>1

LEMMA NextMessageIInv ==
  ASSUME IInv, Unreachable \/ Arrive
  PROVE  IInv'
<1> USE DEF IInv
<1>1. /\ pc \in {"send", "walk"} /\ message <= Len(messages) /\ message' = message + 1
      /\ pc' = "send"
      /\ UNCHANGED <<files, graph, forwarding_table>>
      /\ \/ pc = "send" /\ Cut(message) /\ unreachable' = unreachable \cup {message}
         \/ pc = "walk" /\ UNCHANGED unreachable
  BY DEF Unreachable, Arrive, TablesHeld, Cut
<1>2. UNCHANGED <<messages, vertices>>
  BY <1>1 DEF files, graph
<1>3. message \in Nat /\ message # 0 /\ message' \in 1 .. Len(messages) + 1
  BY <1>1 DEF FilesRead
<1>4. FilesRead' /\ GraphHeld' /\ EdgesFollowed'
  BY <1>1, <1>3, SameGraph
<1>5. TablesHeld'
  <2>1. DOMAIN forwarding_table = vertices
    BY <1>1 DEF TablesHeld
  <2> QED BY <1>1, <2>1, SameTablesHeld
<1>6. UnreachableSoFar'
  <2>1. \A m : Cut(m)' <=> Cut(m)
    BY <1>1, SameTables
  <2>2. unreachable = {x \in 1 .. message - 1 : Cut(x)} /\ (pc = "walk" => ~ Cut(message))
    BY <1>1 DEF UnreachableSoFar
  <2>3. unreachable' = {x \in 1 .. message' - 1 : Cut(x)}
    BY <1>1, <1>3, <2>2, OneMessageMore
  <2> QED BY <1>1, <2>1, <2>3 DEF UnreachableSoFar
<1> QED BY <1>1, <1>4, <1>5, <1>6 DEF WalkHeld

\* A sequence with one element more, as the function it is.
LEMMA AppendIs ==
  ASSUME NEW S, NEW s \in Seq(S), NEW x, NEW h, Len(s) = h
  PROVE  Append(s, x) = [k \in 1 .. h + 1 |-> IF k = h + 1 THEN x ELSE s[k]]
<1> DEFINE t == Append(s, x)
<1>1. t \in Seq(S \cup {x}) /\ Len(t) = h + 1
  OBVIOUS
<1>2. \A k \in 1 .. h + 1 : t[k] = IF k = h + 1 THEN x ELSE s[k]
  OBVIOUS
<1> HIDE DEF t
<1>3. t = [k \in 1 .. h + 1 |-> t[k]]
  BY <1>1
<1>4. t = [k \in 1 .. h + 1 |-> IF k = h + 1 THEN x ELSE s[k]]
  BY <1>2, <1>3
<1> QED BY <1>4 DEF t

\* A hop is a link, it is paid for, and it leads to a node that has a route.
LEMMA HopIInv ==
  ASSUME IInv, Hop
  PROVE  /\ IInv' /\ pc' = "walk"
         /\ at' \in DOMAIN adj_list[at]
         /\ forwarding_table[at][DstOf(message)].cost =
              adj_list[at][at'] + forwarding_table[at'][DstOf(message)].cost
<1> USE DEF IInv
<1> DEFINE dst == DstOf(message)
           h == Len(hops)
<1>1. /\ pc = "walk" /\ at # dst /\ hops' = Append(hops, at)
      /\ UNCHANGED <<files, graph, forwarding_table, announced, unreachable>>
  BY DEF Hop
<1>2. UNCHANGED <<messages, vertices, adj_list>>
  BY <1>1 DEF files, graph
<1>3. /\ hops \in Seq(vertices) /\ at \in vertices /\ IsPath /\ dst \in Targets(at)
      /\ announced = PathCost + forwarding_table[at][dst].cost
  BY <1>1 DEF WalkHeld, HopsMatchCost
<1> DEFINE n == forwarding_table[at][dst].next_hop
<1>4. at' = n /\ UNCHANGED <<message, pc>>
  BY <1>3 DEF Hop, NextHop
<1> HIDE DEF n, dst
<1>5. /\ n \in DOMAIN adj_list[at] /\ n \in vertices /\ dst \in Targets(n)
      /\ adj_list[at][n] \in Nat /\ forwarding_table[n][dst].cost \in Nat
      /\ forwarding_table[at][dst].cost = adj_list[at][n] + forwarding_table[n][dst].cost
  BY <1>1, <1>3, NextHopFacts DEF n
<1>6. FilesRead' /\ GraphHeld' /\ EdgesFollowed'
  <2>1. message' \in 1 .. Len(messages) + 1
    BY <1>4 DEF FilesRead
  <2> QED BY <1>1, <2>1, SameGraph
<1>7. TablesHeld'
  <2>1. DOMAIN forwarding_table = vertices /\ message <= Len(messages)
    BY <1>1 DEF TablesHeld
  <2> QED BY <1>1, <1>4, <2>1, SameTablesHeld
<1>8. UnreachableSoFar'
  <2>1. \A m : Cut(m)' <=> Cut(m)
    BY <1>1, SameTables
  <2>2. unreachable = {m \in 1 .. message - 1 : Cut(m)} /\ ~ Cut(message)
    BY <1>1 DEF UnreachableSoFar
  <2> QED BY <1>1, <1>4, <2>1, <2>2 DEF UnreachableSoFar
<1>9. dst' = dst
  BY <1>2, <1>4 DEF dst, DstOf
<1>10. (Targets(at))' = Targets(n)
  BY <1>1, <1>2, <1>4 DEF Targets
<1> DEFINE longer == Append(hops, at)
           p == Append(hops, at)
           q == Append(longer, n)
           costs == [k \in 1 .. h |-> adj_list[p[k]][p[k + 1]]]
           more == [k \in 1 .. h + 1 |-> adj_list[q[k]][q[k + 1]]]
<1>11. /\ h \in Nat /\ DOMAIN hops = 1 .. h /\ DOMAIN longer = 1 .. h + 1
       /\ Path = p /\ Path' = q
       /\ \A k \in 1 .. h + 1 : q[k] = p[k]
       /\ p[h + 1] = at /\ q[h + 1] = at /\ q[h + 2] = n
       /\ longer \in Seq(vertices)
       /\ \A k \in 1 .. h : p[k] \in vertices
  BY <1>1, <1>3, <1>4 DEF Path
<1>12. /\ PathCost = Total(costs) /\ PathCost' = Total(more)
       /\ \A k \in 1 .. h : p[k + 1] \in DOMAIN adj_list[p[k]]
       /\ IsPath' <=> \A k \in 1 .. h + 1 : q[k + 1] \in DOMAIN adj_list[q[k]]
  BY <1>1, <1>2, <1>3, <1>11 DEF PathCost, IsPath
<1> HIDE DEF p, q, longer, h
<1>13. ASSUME NEW k \in 1 .. h + 1
       PROVE  \/ k \in 1 .. h /\ q[k] = p[k] /\ q[k + 1] = p[k + 1]
              \/ k = h + 1 /\ q[k] = at /\ q[k + 1] = n
  <2>1. CASE k \in 1 .. h
    <3>1. k + 1 \in 1 .. h + 1
      BY <1>11, <2>1
    <3> QED BY <1>11, <2>1, <3>1
  <2>2. CASE k = h + 1
    <3>1. k + 1 = h + 2
      BY <1>11, <2>2
    <3> QED BY <1>11, <2>2, <3>1
  <2> QED BY <1>11, <2>1, <2>2
<1>14. IsPath'
  <2>1. ASSUME NEW k \in 1 .. h + 1 PROVE q[k + 1] \in DOMAIN adj_list[q[k]]
    BY <1>5, <1>12, <1>13
  <2> QED BY <1>12, <2>1
<1>15. costs \in Seq(Int) /\ more = Append(costs, adj_list[at][n])
  <2>1. ASSUME NEW k \in 1 .. h PROVE adj_list[p[k]][p[k + 1]] \in Int
    <3>1. adj_list[p[k]][p[k + 1]] \in Nat
      BY <1>11, <1>12, NeighboursAreVertices
    <3> QED BY <3>1
  <2>2. costs \in Seq(Int) /\ Len(costs) = h
    BY <1>11, <2>1
  <2>3. \A k \in 1 .. h + 1 :
          more[k] = IF k = h + 1 THEN adj_list[at][n] ELSE costs[k]
    <3> TAKE k \in 1 .. h + 1
    <3>1. more[k] = adj_list[q[k]][q[k + 1]]
      OBVIOUS
    <3>2. k \in 1 .. h => costs[k] = adj_list[p[k]][p[k + 1]] /\ k # h + 1
      BY <1>11
    <3> HIDE DEF more, costs
    <3> QED BY <1>13, <3>1, <3>2
  <2> DEFINE x == adj_list[at][n]
  <2>4. Append(costs, x) = [k \in 1 .. h + 1 |-> IF k = h + 1 THEN x ELSE costs[k]]
    <3> HIDE DEF costs, x
    <3> QED BY <2>2, AppendIs
  <2>5. more = [k \in 1 .. h + 1 |-> more[k]]
    OBVIOUS
  <2> HIDE DEF more, costs
  <2> QED BY <2>2, <2>3, <2>4, <2>5
<1>16. announced' = PathCost' + forwarding_table'[at'][dst].cost
  <2> DEFINE x == adj_list[at][n]
             c == forwarding_table[n][dst].cost
             total == Total(costs)
  <2>1. total \in Int /\ PathCost' = total + x
    <3> HIDE DEF costs, more
    <3>1. x \in Int
      BY <1>5
    <3> HIDE DEF x
    <3> QED BY <1>12, <1>15, <3>1, TotalAppended DEF x
  <2>2. x \in Nat /\ c \in Nat /\ announced = total + (x + c)
    BY <1>3, <1>5, <1>12
  <2>3. announced' = announced /\ forwarding_table'[at'][dst].cost = c
    BY <1>1, <1>4
  <2> HIDE DEF x, c, total
  <2>4. announced = (total + x) + c
    BY <2>1, <2>2
  <2> QED BY <2>1, <2>3, <2>4
<1>17. WalkHeld'
  <2>1. HopsMatchCost'
    BY <1>4, <1>5, <1>9, <1>10, <1>14, <1>16 DEF HopsMatchCost, dst
  <2> QED BY <1>1, <1>2, <1>4, <1>5, <1>11, <2>1 DEF WalkHeld, longer
<1> QED BY <1>1, <1>4, <1>5, <1>6, <1>7, <1>8, <1>17 DEF dst

\* Of a change, both the graph and the lines that it follows take notice.
LEMMA ChangeFollowed ==
  ASSUME FilesRead, GraphHeld, EdgesFollowed, applied < Len(changes),
         NEW e, e = changes[applied + 1], adj_list' = UpdateEdge(adj_list, e),
         applied' = applied + 1, UNCHANGED files
  PROVE  FilesRead' => EdgesFollowed'
<1> DEFINE n == applied
           some == SubSeq(changes, 1, n)
           more == SubSeq(changes, 1, n + 1)
<1>1. n \in Nat /\ n + 1 \in 1 .. Len(changes) /\ changes \in Seq(Links) /\ edges \in Seq(Links)
  <2>1. edges \in Seq({x \in Links : Valid(x)}) /\ changes \in Seq(Links)
    BY DEF FilesRead
  <2>2. \A k \in 1 .. Len(edges) : edges[k] \in Links
    BY <2>1
  <2>3. edges \in Seq(Links)
    BY <2>1, <2>2
  <2> QED BY <2>1, <2>3 DEF FilesRead
<1>2. UNCHANGED <<edges, changes>>
  BY DEF files
<1>3. e \in Links
  BY <1>1
<1> HIDE DEF n
<1>4. some \in Seq(Links) /\ more \in Seq(Links) /\ more = Append(some, e)
  BY <1>1 DEF n
<1> HIDE DEF some, more
<1> DEFINE lines == edges \o some
<1>5. lines \in Seq(Links) /\ edges \o more = Append(lines, e)
  BY <1>1, <1>3, <1>4
<1>6. Follows(adj_list, lines)
  BY DEF EdgesFollowed, some, n
<1> HIDE DEF lines
<1>7. Follows(UpdateEdge(adj_list, e), Append(lines, e))
  BY <1>3, <1>5, <1>6, LineAdded DEF GraphHeld, IsGraph
<1>8. Follows(adj_list', edges \o more)
  BY <1>5, <1>7
<1> QED BY <1>2, <1>8 DEF EdgesFollowed, more, n

LEMMA ApplyChangeIInv ==
  ASSUME IInv, ApplyChange
  PROVE  IInv'
<1> USE DEF IInv
<1> DEFINE e == changes[applied + 1]
<1>1. /\ applied < Len(changes) /\ applied' = applied + 1
      /\ adj_list' = UpdateEdge(adj_list, e)
      /\ vertices' = IF Valid(e) THEN vertices \cup Ends(e) ELSE vertices
      /\ forwarding_table' = <<>> /\ unreachable' = {} /\ pc' = "tables"
      /\ UNCHANGED <<files, message, walk>>
  BY DEF ApplyChange, FreshTables
<1>2. UNCHANGED <<edges, changes, messages>>
  BY <1>1 DEF files
<1>3. FilesRead'
  BY <1>1, <1>2 DEF FilesRead
<1>4. EdgesFollowed'
  <2> HIDE DEF e
  <2> QED BY <1>1, <1>3, ChangeFollowed DEF e
<1>5. e \in Links
  BY <1>1 DEF FilesRead
<1>6. IsLinkOf(e, NodeIds) /\ e.cost \in Int /\ Ends(e) \subseteq NodeIds
  BY <1>5, LinkTypes DEF Ends, IsLinkOf
<1>7. GraphHeld'
  <2> HIDE DEF e
  <2> DEFINE L == UpdateEdge(adj_list, e)
  <2>1. IsGraph(L, NodeIds)
    BY <1>6, UpdateKeepsGraph DEF GraphHeld
  <2>2. vertices \subseteq NodeIds /\ DOMAIN adj_list = NodeIds
    BY DEF GraphHeld, IsGraph
  <2>3. vertices' \subseteq NodeIds
    BY <1>1, <1>6, <2>2
  <2>4. ASSUME NEW u \in NodeIds \ vertices' PROVE DOMAIN L[u] = {}
    <3>1. DOMAIN adj_list[u] = {}
      BY <1>1, <2>4 DEF GraphHeld
    <3>2. CASE Valid(e)
      <4>1. L = Link(adj_list, e) /\ \A v : ~ Joins(e, u, v)
        BY <1>1, <2>4, <3>2 DEF UpdateEdge, Joins, Ends
      <4> HIDE DEF L
      <4> QED BY <1>6, <2>2, <3>1, <4>1, LinkIs
    <3>3. CASE ~ Valid(e)
      <4>1. L = Unlink(adj_list, e)
        BY <3>3 DEF UpdateEdge
      <4> HIDE DEF L
      <4> QED BY <1>6, <2>2, <3>1, <4>1, UnlinkIs
    <3> QED BY <3>2, <3>3
  <2> HIDE DEF L
  <2> QED BY <1>1, <2>1, <2>3, <2>4 DEF GraphHeld, L
<1>8. TablesHeld' /\ UnreachableSoFar' /\ WalkHeld'
  BY <1>1 DEF TablesHeld, UnreachableSoFar, WalkHeld
<1> QED BY <1>3, <1>4, <1>7, <1>8

LEMMA FinishIInv ==
  ASSUME IInv, Finish
  PROVE  IInv'
<1> USE DEF IInv
<1>1. pc' = "done" /\ UNCHANGED <<files, graph, forwarding_table, message, walk, unreachable>>
  BY DEF Finish
<1>2. FilesRead' /\ GraphHeld' /\ EdgesFollowed'
  <2>1. message' \in 1 .. Len(messages) + 1
    BY <1>1 DEF FilesRead
  <2> QED BY <1>1, <2>1, SameGraph
<1>3. TablesHeld'
  BY <1>1, SameTablesHeld
<1>4. UnreachableSoFar' /\ WalkHeld'
  BY <1>1 DEF UnreachableSoFar, WalkHeld
<1> QED BY <1>2, <1>3, <1>4

LEMMA StutterIInv ==
  ASSUME IInv, UNCHANGED vars
  PROVE  IInv'
<1> USE DEF IInv
<1>1. UNCHANGED <<files, graph, forwarding_table, message, pc, walk, unreachable>>
  BY DEF vars
<1>2. UNCHANGED <<messages, vertices, adj_list, announced, hops, at>>
  BY <1>1 DEF files, graph, walk
<1>3. FilesRead' /\ GraphHeld' /\ EdgesFollowed'
  <2>1. message' \in 1 .. Len(messages) + 1
    BY <1>1 DEF FilesRead
  <2> QED BY <1>1, <2>1, SameGraph
<1>4. TablesHeld'
  BY <1>1, SameTablesHeld DEF TablesHeld
<1>5. UnreachableSoFar'
  <2>1. \A m : Cut(m)' <=> Cut(m)
    BY <1>1, SameTables
  <2> QED BY <1>1, <2>1 DEF UnreachableSoFar
<1>6. WalkHeld'
  <2>1. HopsMatchCost' <=> HopsMatchCost
    BY <1>1, <1>2 DEF HopsMatchCost, IsPath, Path, PathCost, DstOf, Targets
  <2> QED BY <1>1, <1>2, <2>1 DEF WalkHeld
<1> QED BY <1>3, <1>4, <1>5, <1>6

LEMMA NextIInv == IInv /\ [Next]_vars => IInv'
BY ComputeTableIInv, PrintTablesIInv, AnnounceIInv, NextMessageIInv, HopIInv, ApplyChangeIInv,
   FinishIInv, StutterIInv DEF Next

LEMMA Invariance == Spec => []IInv
<1>1. Init => IInv
  BY InitIInv
<1>2. IInv /\ [Next]_vars => IInv'
  BY NextIInv
<1> QED BY <1>1, <1>2, PTL DEF Spec

------------------------------------------------------------------------------
\* The lines of the files, as they are parsed.

\* The line that says the i-th number last is this one, if it has so many, or the one
\* that says it last before.
SaidBy(lines, k, i) ==
  /\ i <= Len(lines[k]) => Said(lines, k, i) = lines[k][i]
  /\ ~ (i <= Len(lines[k])) =>
       k - 1 \in 1 .. Len(lines) /\ Said(lines, k, i) = Said(lines, k - 1, i)

LEMMA SaidOfLine ==
  ASSUME NEW lines \in Seq(Seq(Int)), NEW i \in Nat, lines # <<>> => i <= Len(lines[1]),
         NEW k \in 1 .. Len(lines)
  PROVE  SaidBy(lines, k, i)
<1> DEFINE having(m) == {j \in 1 .. m : i <= Len(lines[j])}
           n == Len(lines)
<1>1. n \in Nat /\ k \in 1 .. n /\ \A j \in 1 .. n : Len(lines[j]) \in Nat
  OBVIOUS
<1>2. i <= Len(lines[1])
  BY <1>1
<1> HIDE DEF n
<1>3. CASE i <= Len(lines[k])
  <2>1. k \in having(k) /\ having(k) \in SUBSET (0 .. k) /\ k \in Nat
    BY <1>1, <1>3
  <2>2. Max(having(k)) \in having(k) /\ \A x \in having(k) : x <= Max(having(k))
    <3> HIDE DEF having
    <3> QED BY <2>1, MaxIsGreatest
  <2>3. Max(having(k)) = k
    BY <1>1, <2>1, <2>2
  <2> QED BY <1>1, <1>3, <2>3 DEF Said, SaidBy
<1>4. CASE ~ (i <= Len(lines[k]))
  <2>1. k - 1 \in 1 .. n
    BY <1>1, <1>2, <1>4
  <2>2. having(k) = having(k - 1)
    BY <1>1, <1>4, <2>1
  <2>3. Said(lines, k, i) = Said(lines, k - 1, i)
    BY <2>2 DEF Said
  <2> QED BY <1>1, <1>4, <2>1, <2>3 DEF n, SaidBy
<1> QED BY <1>3, <1>4

\* What parse_link_file() makes of the lines is what they say.
LEMMA ParsedIsSaid ==
  ASSUME NEW lines \in Seq(Seq(Int)), lines # <<>> => Len(lines[1]) >= 3
  PROVE  ParsedLinks(lines) = SaidLinks(lines)
<1> DEFINE n == Len(lines)
           Number(g, k, i, name) == IF i <= Len(lines[k]) THEN lines[k][i] ELSE g[k - 1][name]
           LinkOf(g, k) == [src |-> Number(g, k, 1, "src"), dst |-> Number(g, k, 2, "dst"),
                            cost |-> Number(g, k, 3, "cost")]
           IsLinks(g) == g = [k \in 1 .. n |-> LinkOf(g, k)]
           said == SaidLinks(lines)
           link == CHOOSE g : IsLinks(g)
<1>1. n \in Nat /\ DOMAIN lines = 1 .. n
  OBVIOUS
<1>2. said = [k \in 1 .. n |-> [src |-> Said(lines, k, 1), dst |-> Said(lines, k, 2),
                                cost |-> Said(lines, k, 3)]]
  BY <1>1 DEF SaidLinks
<1>3. ASSUME NEW k \in 1 .. n, NEW i \in 1 .. 3
      PROVE  /\ i <= Len(lines[k]) => Said(lines, k, i) = lines[k][i]
             /\ ~ (i <= Len(lines[k])) =>
                  k - 1 \in 1 .. n /\ Said(lines, k, i) = Said(lines, k - 1, i)
  <2>1. lines # <<>> => i <= Len(lines[1])
    BY <1>1
  <2>2. SaidBy(lines, k, i)
    BY <2>1, SaidOfLine
  <2> QED BY <2>2 DEF SaidBy
<1>4. ASSUME NEW k \in 1 .. n PROVE said[k] = LinkOf(said, k)
  <2>1. Said(lines, k, 1) = Number(said, k, 1, "src")
    BY <1>2, <1>3
  <2>2. Said(lines, k, 2) = Number(said, k, 2, "dst")
    BY <1>2, <1>3
  <2>3. Said(lines, k, 3) = Number(said, k, 3, "cost")
    BY <1>2, <1>3
  <2> HIDE DEF Number
  <2> QED BY <1>2, <2>1, <2>2, <2>3
<1>5. IsLinks(said)
  <2> HIDE DEF LinkOf
  <2> QED BY <1>2, <1>4
<1>6. ParsedLinks(lines) = link
  BY DEF ParsedLinks
<1>7. link = [k \in 1 .. n |-> LinkOf(link, k)]
  <2> HIDE DEF IsLinks
  <2>1. IsLinks(link)
    BY <1>5
  <2> QED BY <2>1 DEF IsLinks
<1> HIDE DEF link, said
<1>8. \A k \in 1 .. n : link[k] = said[k]
  <2> DEFINE other == {k \in 1 .. n : link[k] # said[k]}
  <2> SUFFICES ASSUME other # {} PROVE FALSE
    OBVIOUS
  <2>1. other \in SUBSET Nat
    BY <1>1
  <2>2. PICK k \in other : \A x \in other : k <= x
    <3> HIDE DEF other
    <3> QED BY <2>1, NatMin
  <2>3. k \in 1 .. n /\ link[k] # said[k]
    BY <2>2
  <2>4. k - 1 \in 1 .. n => link[k - 1] = said[k - 1]
    BY <1>1, <2>2, <2>3
  <2>5. link[k] = LinkOf(link, k) /\ said[k] = LinkOf(said, k)
    <3> HIDE DEF LinkOf
    <3> QED BY <1>4, <1>7, <2>3
  <2>6. ASSUME NEW i \in 1 .. 3, NEW name PROVE Number(link, k, i, name) = Number(said, k, i, name)
    <3>1. i <= Len(lines[k]) \/ link[k - 1] = said[k - 1]
      BY <1>3, <2>3, <2>4
    <3> QED BY <3>1
  <2>7. LinkOf(link, k) = LinkOf(said, k)
    <3> HIDE DEF Number
    <3> QED BY <2>6
  <2> QED BY <2>3, <2>5, <2>7
<1>9. link = [k \in 1 .. n |-> link[k]] /\ said = [k \in 1 .. n |-> said[k]]
  <2> HIDE DEF LinkOf
  <2> QED BY <1>2, <1>7
<1> QED BY <1>6, <1>8, <1>9 DEF said

\* The edges and the changes are what two of the files say.
LinesRead ==
  \E topology \in TopologyFiles : \E lines \in ChangesFiles :
    edges = SaidLinks(topology) /\ changes = SaidLinks(lines)

LEMMA InitLinesRead == Init => LinesRead
<1> SUFFICES ASSUME Init PROVE LinesRead
  OBVIOUS
<1>1. PICK topology \in TopologyFiles : edges = ParsedLinks(topology)
  BY DEF Init
<1>2. PICK lines \in ChangesFiles : changes = ParsedLinks(lines)
  BY DEF Init
<1>3. edges = SaidLinks(topology) /\ changes = SaidLinks(lines)
  BY <1>1, <1>2, FilesAssumption, ParsedIsSaid
<1> QED BY <1>3 DEF LinesRead

LEMMA NextLinesRead == LinesRead /\ [Next]_vars => LinesRead'
<1> SUFFICES ASSUME LinesRead, [Next]_vars PROVE LinesRead'
  OBVIOUS
<1>1. UNCHANGED files
  BY DEF Next, vars, ComputeTable, PrintTables, Announce, Unreachable, Hop, Arrive,
         ApplyChange, Finish
<1> QED BY <1>1 DEF LinesRead, files

------------------------------------------------------------------------------
\* What follows.

\* The hops of a printed message are links of the current graph, and they and the
\* route that is left cost what was announced, whichever shortest routes the tables
\* of the nodes took.
THEOREM HopsCostWhatWasAnnounced == Spec => []HopsMatchCost
<1>1. IInv => HopsMatchCost
  BY DEF IInv, WalkHeld, HopsMatchCost
<1> QED BY <1>1, Invariance, PTL

\* A message is printed as unreachable in a round exactly when the graph of that round
\* has no route for it.
THEOREM UnreachableOnlyWhereCut == Spec => []UnreachableIsCut
<1> DEFINE walks == ShortestWalks(adj_list)
           Routed(m) == SrcOf(m) \in vertices /\ DstOf(m) \in Reachable(walks, SrcOf(m))
<1>1. IInv => UnreachableIsCut
  <2> SUFFICES ASSUME IInv, pc = "send", message > Len(messages)
               PROVE  unreachable = {m \in DOMAIN messages : ~ Routed(m)}
    BY DEF UnreachableIsCut
  <2>1. message = Len(messages) + 1 /\ DOMAIN messages = 1 .. message - 1
    BY DEF IInv, FilesRead
  <2>2. DOMAIN forwarding_table = vertices /\ vertices \subseteq NodeIds /\ GraphHeld
    BY DEF IInv, TablesHeld, GraphHeld
  <2>3. ASSUME NEW u \in vertices PROVE DOMAIN forwarding_table[u] = Reachable(walks, u)
    <3> DEFINE table == forwarding_table[u]
    <3>1. table \in RouteTables(u, walks) /\ u \in NodeIds
      BY <2>2 DEF IInv, TablesHeld
    <3> HIDE DEF table, walks
    <3>2. DOMAIN table = Reachable(walks, u)
      BY <2>2, <3>1, TableFacts DEF walks
    <3> QED BY <3>2 DEF table
  <2> HIDE DEF walks
  <2>4. \A m : Cut(m) <=> ~ Routed(m)
    BY <2>3 DEF Cut, Targets
  <2>5. unreachable = {m \in 1 .. message - 1 : Cut(m)}
    BY DEF IInv, UnreachableSoFar
  <2> QED BY <2>1, <2>4, <2>5
<1> QED BY <1>1, Invariance, PTL

\* The graph is what the last lines about its links say, whether they were read with
\* the topology or applied since, and although a line with too few numbers is parsed
\* with what the line before it left.
THEOREM FilesFollowed == Spec => []GraphFollowsFiles
<1>1. Init => LinesRead
  BY InitLinesRead
<1>2. LinesRead /\ [Next]_vars => LinesRead'
  BY NextLinesRead
<1>3. IInv /\ LinesRead => GraphFollowsFiles
  BY DEF IInv, LinesRead, EdgesFollowed, GraphFollowsFiles
<1> QED BY <1>1, <1>2, <1>3, Invariance, PTL DEF Spec

\* Every table in use is one that RouteTable promises for the current graph.
TablesPromised ==
  \A u \in DOMAIN forwarding_table : IsRouteTable(adj_list, u, forwarding_table[u])

\* No table outlives a change: all are route tables of the graph as it is.
THEOREM TablesAreCurrent == Spec => []TablesPromised
<1>1. IInv => TablesPromised
  <2> SUFFICES ASSUME IInv, NEW u \in DOMAIN forwarding_table
               PROVE  IsRouteTable(adj_list, u, forwarding_table[u])
    BY DEF TablesPromised
  <2> DEFINE walks == ShortestWalks(adj_list)
             table == forwarding_table[u]
  <2>1. table \in RouteTables(u, walks) /\ u \in NodeIds /\ GraphHeld
    BY DEF IInv, TablesHeld, GraphHeld
  <2> HIDE DEF table, walks
  <2>2. /\ DOMAIN table = Reachable(walks, u)
        /\ table[u] = [cost |-> 0, next_hop |-> u]
    BY <2>1, TableFacts DEF walks
  <2>3. ASSUME NEW t \in DOMAIN table, t # u
        PROVE  /\ table[t].cost = Distance(walks, u, t)
               /\ table[t].next_hop \in DOMAIN adj_list[u]
               /\ t \in Reachable(walks, table[t].next_hop)
               /\ adj_list[u][table[t].next_hop] + Distance(walks, table[t].next_hop, t)
                    = table[t].cost
    <3>1. IsEntry(u, walks, t, table[t])
      BY <2>1, TableFacts DEF walks
    <3> QED BY <2>3, <3>1 DEF IsEntry
  <2>4. IsRouteTable(adj_list, u, table)
    BY <2>2, <2>3 DEF IsRouteTable, walks
  <2> QED BY <2>4 DEF table
<1> QED BY <1>1, Invariance, PTL

\* What the route that is left of a walk costs, by the table of the node it is at.
CostLeft == forwarding_table[at][DstOf(message)].cost

CloserByHop ==
  pc = "walk" /\ pc' = "walk" /\ PositiveCosts(adj_list) => CostLeft' < CostLeft

\* With costs that are positive, as they always are, every hop of a message brings it
\* closer: it is at no node twice, although each node decides by a table of its own.
THEOREM HopsComeCloser == Spec => [][CloserByHop]_vars
<1>1. IInv /\ [Next]_vars => [CloserByHop]_vars
  <2> SUFFICES ASSUME IInv, Next, pc = "walk", pc' = "walk", PositiveCosts(adj_list)
               PROVE  CostLeft' < CostLeft
    BY DEF CloserByHop
  <2>1. Hop
    BY DEF Next, ComputeTable, PrintTables, Announce, Unreachable, Hop, Arrive, ApplyChange,
           Finish
  <2> DEFINE dst == DstOf(message)
             x == adj_list[at][at']
             a == forwarding_table[at][dst].cost
             b == forwarding_table[at'][dst].cost
  <2>2. at' \in DOMAIN adj_list[at] /\ a = x + b
    BY <2>1, HopIInv
  <2>3. /\ dst' = dst /\ UNCHANGED <<forwarding_table, messages, message>>
        /\ at \in vertices /\ at # dst /\ dst \in Targets(at)
    <3>1. WalkHeld /\ HopsMatchCost
      BY DEF IInv, WalkHeld
    <3>2. dst \in Targets(at) /\ at \in vertices
      BY <3>1 DEF WalkHeld, HopsMatchCost
    <3> QED BY <2>1, <3>2 DEF Hop, files, DstOf
  <2>4. CostLeft = a /\ CostLeft' = b
    BY <2>3 DEF CostLeft
  <2>5. x \in Nat /\ x > 0
    <3>1. GraphHeld
      BY DEF IInv
    <3>2. x \in Nat
      BY <2>2, <2>3, <3>1, NeighboursAreVertices
    <3>3. at \in DOMAIN adj_list
      BY <2>3, <3>1 DEF GraphHeld, IsGraph
    <3>4. x > 0
      BY <2>2, <3>3 DEF PositiveCosts
    <3> QED BY <3>2, <3>4
  <2>6. b \in Nat
    <3> DEFINE n == forwarding_table[at][dst].next_hop
    <3>1. at' = n
      BY <2>1, <2>3 DEF Hop, NextHop
    <3> HIDE DEF dst, n
    <3>2. GraphHeld /\ TablesHeld
      BY DEF IInv
    <3>3. forwarding_table[n][dst].cost \in Nat
      BY <2>3, <3>2, NextHopFacts DEF n
    <3> QED BY <3>1, <3>3
  <2> HIDE DEF a, b, x
  <2>7. b < a
    BY <2>2, <2>5, <2>6
  <2> QED BY <2>4, <2>7
<1> QED BY <1>1, Invariance, PTL DEF Spec

==============================================================================
