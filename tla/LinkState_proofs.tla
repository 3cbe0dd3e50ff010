--------------------------- MODULE LinkState_proofs ---------------------------
(***************************************************************************)
(* Proofs about LinkState, for every set of nodes and every graph over     *)
(* them whose costs are positive and too small for a sum of them to reach  *)
(* INT_MAX: the distances of known nodes are final and the least there     *)
(* are, with the lowest predecessors, though the queue keeps outdated      *)
(* items.                                                                  *)
(***************************************************************************)
EXTENDS LinkState, Graph_proofs

TypeOK ==
  /\ adj_list \in Graphs
  /\ src \in Vertices
  /\ known \subseteq Vertices /\ src \in known
  /\ distance \in [Vertices -> Nat] /\ distance[src] = 0
  /\ predecessor \in [Vertices -> Vertices \cup {-1}]
  /\ queue \subseteq [dst : Vertices, cost : Nat]

\* An outdated item costs more than its node does by now, never less.
ItemsNotBelow ==
  \A e \in queue : distance[e.dst] # INT_MAX /\ distance[e.dst] <= e.cost

\* A route found has at most one link for every known node, so that its cost does
\* not reach INT_MAX.
DistanceBounded ==
  \A v \in Vertices :
    distance[v] # INT_MAX =>
      distance[v] * Cardinality(Vertices) <= Cardinality(known) * (INT_MAX - 1)

\* The inductive invariant.
IInv ==
  /\ TypeOK
  /\ PredecessorBacksDistance
  /\ KnownAreNearest
  /\ FringeQueued
  /\ LowestPredecessor
  /\ ItemsNotBelow
  /\ DistanceBounded

------------------------------------------------------------------------------
LEMMA GraphFacts ==
  ASSUME TypeOK, NEW u \in Vertices
  PROVE  /\ Neighbors(u) \subseteq Vertices /\ u \notin Neighbors(u)
         /\ \A v \in Neighbors(u) : /\ adj_list[u][v] \in Nat
                                    /\ adj_list[u][v] > 0
                                    /\ adj_list[u][v] * Cardinality(Vertices) <= INT_MAX - 1
         /\ u \in Nat
<1>1. /\ IsGraph(adj_list, Vertices) /\ PositiveCosts(adj_list)
      /\ \A v \in DOMAIN adj_list[u] : adj_list[u][v] * Cardinality(Vertices) < INT_MAX
  BY GraphsAssumption DEF TypeOK
<1>2. /\ Neighbors(u) \subseteq Vertices /\ u \notin Neighbors(u)
      /\ \A v \in Neighbors(u) : adj_list[u][v] \in Nat /\ adj_list[u][v] > 0
  BY <1>1 DEF IsGraph, PositiveCosts, Neighbors
<1>3. Cardinality(Vertices) \in Nat
  BY VerticesAssumption, FS_CardinalityType
<1>4. ASSUME NEW v \in Neighbors(u)
      PROVE  adj_list[u][v] * Cardinality(Vertices) <= INT_MAX - 1
  <2> DEFINE x == adj_list[u][v] * Cardinality(Vertices)
  <2>1. x \in Nat /\ x < INT_MAX
    BY <1>1, <1>2, <1>3 DEF Neighbors
  <2> HIDE DEF x
  <2>2. x <= INT_MAX - 1
    BY <2>1 DEF INT_MAX
  <2> QED BY <2>2 DEF x
<1> QED BY <1>2, <1>4, VerticesAssumption

\* One link more for one known node more.
LEMMA OneLinkMore ==
  ASSUME NEW a \in Nat, NEW b \in Nat, NEW n \in Nat, NEW k \in Nat, NEW i \in Nat,
         a * n <= k * i, b * n <= i
  PROVE  (a + b) * n <= (k + 1) * i
<1>1. (a + b) * n = a * n + b * n /\ (k + 1) * i = k * i + i
  OBVIOUS
<1>2. a * n \in Nat /\ b * n \in Nat /\ k * i \in Nat
  OBVIOUS
<1> QED BY <1>1, <1>2

LEMMA NoMoreThan ==
  ASSUME NEW a \in Nat, NEW n \in Nat, NEW k \in Nat, NEW i \in Nat,
         n > 0, k <= n, a * n <= k * i
  PROVE  a <= i
<1>1. k * i <= n * i
  OBVIOUS
<1>2. a * n <= n * i
  <2>1. a * n \in Nat /\ k * i \in Nat /\ n * i \in Nat
    OBVIOUS
  <2> QED BY <1>1, <2>1
<1> SUFFICES ASSUME a >= i + 1 PROVE FALSE
  OBVIOUS
<1>3. a * n >= (i + 1) * n
  OBVIOUS
<1>4. (i + 1) * n = n * i + n
  OBVIOUS
<1> QED BY <1>2, <1>3, <1>4

\* While a node is not known there is room for one link more.
LEMMA KnownOneLess ==
  ASSUME known \subseteq Vertices, NEW u \in Vertices \ known
  PROVE  /\ Cardinality(Vertices) \in Nat /\ Cardinality(known) \in Nat
         /\ Cardinality(known \cup {u}) = Cardinality(known) + 1
         /\ Cardinality(known) + 1 <= Cardinality(Vertices)
         /\ Cardinality(Vertices) > 0
<1>1. IsFiniteSet(known) /\ IsFiniteSet(Vertices)
  BY VerticesAssumption, FS_Subset
<1>2. Cardinality(known \cup {u}) = Cardinality(known) + 1
  BY <1>1, FS_AddElement
<1>3. Cardinality(known \cup {u}) <= Cardinality(Vertices)
  BY <1>1, FS_Subset
<1>4. Cardinality(Vertices) \in Nat /\ Cardinality(known) \in Nat
  BY <1>1, FS_CardinalityType
<1> QED BY <1>2, <1>3, <1>4

\* A distance that is not INT_MAX is less.
LEMMA BelowMax ==
  ASSUME TypeOK, DistanceBounded, NEW v \in Vertices, distance[v] # INT_MAX
  PROVE  distance[v] < INT_MAX
<1>1. /\ Cardinality(Vertices) \in Nat /\ Cardinality(known) \in Nat
      /\ Cardinality(known) <= Cardinality(Vertices)
  BY VerticesAssumption, FS_CardinalityType, FS_Subset DEF TypeOK
<1>2. Cardinality(Vertices) > 0
  BY <1>1, VerticesAssumption, FS_EmptySet
<1>3. INT_MAX - 1 \in Nat /\ INT_MAX \in Nat
  BY DEF INT_MAX
<1>4. distance[v] \in Nat
  BY DEF TypeOK
<1>5. distance[v] * Cardinality(Vertices) <= Cardinality(known) * (INT_MAX - 1)
  BY DEF DistanceBounded
<1>6. distance[v] <= INT_MAX - 1
  BY <1>1, <1>2, <1>3, <1>4, <1>5, NoMoreThan
<1> QED BY <1>3, <1>4, <1>6

------------------------------------------------------------------------------
LEMMA InitIInv == Init => IInv
<1> SUFFICES ASSUME Init PROVE IInv
  OBVIOUS
<1>1. /\ adj_list \in Graphs /\ src \in Vertices
      /\ known = {src}
      /\ distance = [v \in Vertices |-> IF v = src THEN 0
                                        ELSE IF v \in Neighbors(src) THEN adj_list[src][v]
                                        ELSE INT_MAX]
      /\ predecessor = [v \in Vertices |-> IF v \in Neighbors(src) \cup {src}
                                           THEN src ELSE -1]
      /\ queue = {Item(v, adj_list[src][v]) : v \in Neighbors(src)}
  BY DEF Init
<1> DEFINE n == Cardinality(Vertices)
<1>2. n \in Nat /\ n > 0 /\ Cardinality(known) = 1
  <2>1. n \in Nat /\ (n = 0 <=> Vertices = {})
    BY VerticesAssumption, FS_CardinalityType, FS_EmptySet
  <2>2. Cardinality(known) = 1
    BY <1>1, FS_Singleton
  <2> HIDE DEF n
  <2> QED BY <1>1, <2>1, <2>2
<1>3. INT_MAX - 1 \in Nat /\ INT_MAX \in Nat /\ INT_MAX > 0
  BY DEF INT_MAX
<1>4. /\ IsGraph(adj_list, Vertices) /\ PositiveCosts(adj_list)
      /\ \A v \in DOMAIN adj_list[src] : adj_list[src][v] * n < INT_MAX
  BY <1>1, GraphsAssumption
<1>5. /\ Neighbors(src) \subseteq Vertices /\ src \notin Neighbors(src)
      /\ \A v \in Neighbors(src) : adj_list[src][v] \in Nat /\ adj_list[src][v] > 0
  BY <1>1, <1>4 DEF IsGraph, PositiveCosts, Neighbors
<1>6. TypeOK
  BY <1>1, <1>3, <1>5 DEF TypeOK, Item
<1> HIDE DEF n
<1>7. ASSUME NEW v \in Neighbors(src)
      PROVE  adj_list[src][v] * n <= INT_MAX - 1 /\ adj_list[src][v] < INT_MAX
  <2>0. adj_list[src][v] * n <= INT_MAX - 1
    BY <1>1, <1>6, GraphFacts DEF n
  <2>1. adj_list[src][v] * n <= 1 * (INT_MAX - 1)
    <3>1. 1 * (INT_MAX - 1) = INT_MAX - 1
      BY <1>3
    <3> QED BY <2>0, <3>1
  <2>2. adj_list[src][v] <= INT_MAX - 1
    BY <1>2, <1>3, <1>5, <2>1, NoMoreThan
  <2> QED BY <1>3, <1>5, <2>0, <2>2
<1>8. PredecessorBacksDistance
  <2> SUFFICES ASSUME NEW v \in Vertices \ {src}
               PROVE  IF distance[v] = INT_MAX
                      THEN predecessor[v] = -1 /\ v \notin known
                      ELSE /\ predecessor[v] \in known /\ v \in Neighbors(predecessor[v])
                           /\ distance[v] = distance[predecessor[v]] + adj_list[predecessor[v]][v]
    BY DEF PredecessorBacksDistance
  <2>1. CASE v \in Neighbors(src)
    <3>1. /\ distance[v] = adj_list[src][v] /\ predecessor[v] = src /\ distance[src] = 0
      BY <1>1, <2>1
    <3>2. distance[v] # INT_MAX
      BY <1>3, <1>5, <1>7, <2>1, <3>1
    <3> QED BY <1>1, <1>5, <2>1, <3>1, <3>2
  <2>2. CASE v \notin Neighbors(src)
    BY <1>1, <2>2
  <2> QED BY <2>1, <2>2
<1>9. KnownAreNearest
  BY <1>1, <1>3, <1>5 DEF KnownAreNearest
<1>10. FringeQueued
  BY <1>1 DEF FringeQueued
<1>11. LowestPredecessor
  <2>1. src \in Nat
    BY <1>1, VerticesAssumption
  <2> QED BY <1>1, <2>1 DEF LowestPredecessor
<1>12. ItemsNotBelow
  <2> SUFFICES ASSUME NEW v \in Neighbors(src), NEW e, e = Item(v, adj_list[src][v])
               PROVE  distance[e.dst] # INT_MAX /\ distance[e.dst] <= e.cost
    BY <1>1 DEF ItemsNotBelow
  <2>1. e.dst = v /\ e.cost = adj_list[src][v]
    BY DEF Item
  <2>2. distance[v] = adj_list[src][v]
    BY <1>1, <1>5
  <2> QED BY <1>3, <1>5, <1>7, <2>1, <2>2
<1>13. DistanceBounded
  <2> SUFFICES ASSUME NEW v \in Vertices, distance[v] # INT_MAX
               PROVE  distance[v] * n <= Cardinality(known) * (INT_MAX - 1)
    BY DEF DistanceBounded, n
  <2>1. CASE v = src
    BY <1>1, <1>2, <1>3, <2>1
  <2>2. CASE v \in Neighbors(src)
    <3>1. distance[v] = adj_list[src][v]
      BY <1>1, <1>5, <2>2
    <3>2. Cardinality(known) * (INT_MAX - 1) = INT_MAX - 1
      BY <1>2, <1>3
    <3> QED BY <1>7, <2>2, <3>1, <3>2
  <2> QED BY <1>1, <2>1, <2>2
<1> QED BY <1>6, <1>8, <1>9, <1>10, <1>11, <1>12, <1>13 DEF IInv

\* While a node is not known, a route can be lengthened by a link.
LEMMA RoomForALink ==
  ASSUME IInv, NEW w \in Vertices \ known, NEW u \in Vertices, distance[u] # INT_MAX,
         NEW v \in Neighbors(u)
  PROVE  distance[u] + adj_list[u][v] < INT_MAX
<1> DEFINE n == Cardinality(Vertices)
           k == Cardinality(known)
           c == adj_list[u][v]
           i == INT_MAX - 1
<1>1. n \in Nat /\ k \in Nat /\ k + 1 <= n /\ n > 0
  BY KnownOneLess DEF IInv, TypeOK
<1>2. c \in Nat /\ c * n <= i /\ i \in Nat /\ INT_MAX = i + 1
  BY GraphFacts DEF IInv, INT_MAX
<1>3. distance[u] \in Nat /\ distance[u] * n <= k * i
  BY DEF IInv, TypeOK, DistanceBounded
<1> HIDE DEF n, k, c, i
<1>4. (distance[u] + c) * n <= (k + 1) * i
  BY <1>1, <1>2, <1>3, OneLinkMore
<1>5. distance[u] + c <= i
  <2>1. distance[u] + c \in Nat /\ k + 1 \in Nat
    BY <1>1, <1>2, <1>3
  <2> QED BY <1>1, <1>2, <1>4, <2>1, NoMoreThan
<1>6. distance[u] + c < INT_MAX
  BY <1>2, <1>3, <1>5
<1> QED BY <1>6 DEF c

------------------------------------------------------------------------------
\* The item on top of the queue, when its node is not known yet, is not outdated;
\* no node that is not known is nearer.
LEMMA TopIsNearest ==
  ASSUME IInv, NEW e \in queue, IsTop(e), e.dst \notin known
  PROVE  /\ e.dst \in Vertices /\ e.dst # src
         /\ distance[e.dst] # INT_MAX /\ distance[e.dst] < INT_MAX
         /\ \A v \in Vertices \ known : distance[e.dst] <= distance[v]
         /\ \A k \in known : distance[k] <= distance[e.dst]
<1>1. /\ e.dst \in Vertices /\ e.cost \in Nat /\ e.dst # src
      /\ distance[e.dst] # INT_MAX /\ distance[e.dst] <= e.cost
      /\ distance \in [Vertices -> Nat]
  BY DEF IInv, TypeOK, ItemsNotBelow
<1>2. distance[e.dst] < INT_MAX
  BY <1>1, BelowMax DEF IInv
<1>3. ASSUME NEW v \in Vertices \ known PROVE distance[e.dst] <= distance[v]
  <2>1. CASE distance[v] = INT_MAX
    BY <1>1, <1>2, <2>1 DEF INT_MAX
  <2>2. CASE distance[v] # INT_MAX
    <3>1. Item(v, distance[v]) \in queue
      BY <2>2 DEF IInv, FringeQueued
    <3>2. Item(v, distance[v]).cost = distance[v]
      BY DEF Item
    <3>3. e.cost <= distance[v]
      BY <1>1, <3>1, <3>2 DEF IsTop
    <3> QED BY <1>1, <3>3
  <2> QED BY <2>1, <2>2
<1>4. \A k \in known : distance[k] <= distance[e.dst]
  BY <1>1 DEF IInv, KnownAreNearest
<1> QED BY <1>1, <1>2, <1>3, <1>4

\* What settling the node u does to the distances: none of a known node changes.
LEMMA SettleFacts ==
  ASSUME IInv, NEW e \in queue, Settle(e), NEW u, u = e.dst
  PROVE  /\ u \in Vertices \ known /\ u # src /\ distance[u] < INT_MAX
         /\ known' = known \cup {u}
         /\ queue' = (queue \ {e}) \cup {Item(v, distance'[v]) : v \in Neighbors(u)}
         /\ UNCHANGED <<adj_list, src>>
         /\ Improved(u) \subseteq Vertices \ (known \cup {u})
         /\ distance' \in [Vertices -> Nat]
         /\ predecessor' \in [Vertices -> Vertices \cup {-1}]
         /\ \A v \in Improved(u) : /\ distance'[v] = distance[u] + adj_list[u][v]
                                   /\ distance'[v] <= distance[v]
                                   /\ predecessor'[v] = u
         /\ \A v \in Vertices \ Improved(u) : /\ distance'[v] = distance[v]
                                              /\ predecessor'[v] = predecessor[v]
         /\ \A v \in Neighbors(u) :
              /\ distance'[v] <= distance[u] + adj_list[u][v]
              /\ distance[u] + adj_list[u][v] < INT_MAX
         /\ \A v \in Vertices \ known : distance[u] <= distance[v]
         /\ \A k \in known : distance[k] <= distance[u]
<1>1. /\ TypeOK /\ IsTop(e) /\ u \notin known
      /\ known' = known \cup {u}
      /\ distance' = NewDistance(u)
      /\ predecessor' = NewPredecessor(u)
      /\ queue' = (queue \ {e}) \cup Pushed(u)
      /\ UNCHANGED <<adj_list, src>>
  BY DEF Settle, IInv, Marked
<1>2. /\ u \in Vertices /\ u # src /\ distance[u] # INT_MAX /\ distance[u] < INT_MAX
      /\ \A v \in Vertices \ known : distance[u] <= distance[v]
      /\ \A k \in known : distance[k] <= distance[u]
  BY <1>1, TopIsNearest
<1>3. /\ Neighbors(u) \subseteq Vertices /\ u \notin Neighbors(u) /\ u \in Nat
      /\ \A v \in Neighbors(u) : adj_list[u][v] \in Nat /\ adj_list[u][v] > 0
  BY <1>1, <1>2, GraphFacts
<1>4. distance \in [Vertices -> Nat] /\ known \subseteq Vertices
  BY <1>1 DEF TypeOK
<1>5. Improved(u) \subseteq Vertices \ (known \cup {u})
  <2> SUFFICES ASSUME NEW v \in Improved(u), v \in known PROVE FALSE
    BY <1>3 DEF Improved
  <2>1. v \in Neighbors(u) /\ distance[u] + adj_list[u][v] <= distance[v]
    BY <1>2, <1>3, <1>4 DEF Improved, Improves
  <2>2. distance[v] <= distance[u] /\ adj_list[u][v] > 0
    BY <1>2, <1>3, <2>1
  <2> QED BY <1>2, <1>3, <1>4, <2>1, <2>2
<1>6. /\ distance' \in [Vertices -> Nat]
      /\ predecessor' \in [Vertices -> Vertices \cup {-1}]
      /\ \A v \in Improved(u) : /\ distance'[v] = distance[u] + adj_list[u][v]
                                /\ predecessor'[v] = u
      /\ \A v \in Vertices \ Improved(u) : /\ distance'[v] = distance[v]
                                           /\ predecessor'[v] = predecessor[v]
  BY <1>1, <1>2, <1>3, <1>4, <1>5 DEF NewDistance, NewPredecessor, Improved, TypeOK
<1>7. \A v \in Improved(u) : distance'[v] <= distance[v]
  BY <1>2, <1>3, <1>4, <1>6 DEF Improved, Improves
<1>8. ASSUME NEW v \in Neighbors(u)
      PROVE  distance'[v] <= distance[u] + adj_list[u][v]
  BY <1>2, <1>3, <1>4, <1>6 DEF Improved, Improves
<1>9. ASSUME NEW v \in Neighbors(u)
      PROVE  distance[u] + adj_list[u][v] < INT_MAX
  BY <1>1, <1>2, <1>9, RoomForALink
<1>10. queue' = (queue \ {e}) \cup {Item(v, distance'[v]) : v \in Neighbors(u)}
  BY <1>1 DEF Pushed
<1> QED BY <1>1, <1>2, <1>5, <1>6, <1>7, <1>8, <1>9, <1>10

LEMMA SettleIInv ==
  ASSUME IInv, NEW e \in queue, Settle(e)
  PROVE  IInv'
<1> DEFINE u == e.dst
<1>1. /\ u \in Vertices \ known /\ u # src /\ distance[u] < INT_MAX
      /\ known' = known \cup {u}
      /\ queue' = (queue \ {e}) \cup {Item(v, distance'[v]) : v \in Neighbors(u)}
      /\ UNCHANGED <<adj_list, src>>
      /\ Improved(u) \subseteq Vertices \ (known \cup {u})
      /\ distance' \in [Vertices -> Nat]
      /\ predecessor' \in [Vertices -> Vertices \cup {-1}]
      /\ \A v \in Improved(u) : /\ distance'[v] = distance[u] + adj_list[u][v]
                                /\ distance'[v] <= distance[v]
                                /\ predecessor'[v] = u
      /\ \A v \in Vertices \ Improved(u) : /\ distance'[v] = distance[v]
                                           /\ predecessor'[v] = predecessor[v]
      /\ \A v \in Neighbors(u) :
           /\ distance'[v] <= distance[u] + adj_list[u][v]
           /\ distance[u] + adj_list[u][v] < INT_MAX
      /\ \A v \in Vertices \ known : distance[u] <= distance[v]
      /\ \A k \in known : distance[k] <= distance[u]
  BY SettleFacts
<1>2. /\ TypeOK /\ known \subseteq Vertices /\ src \in known /\ src \in Vertices
      /\ distance \in [Vertices -> Nat] /\ distance[src] = 0
      /\ predecessor \in [Vertices -> Vertices \cup {-1}]
      /\ queue \subseteq [dst : Vertices, cost : Nat]
      /\ Vertices \subseteq Nat /\ INT_MAX \in Nat /\ INT_MAX - 1 \in Nat
  BY VerticesAssumption DEF IInv, TypeOK, INT_MAX
<1>3. /\ \A v \in Vertices : Neighbors(v) \subseteq Vertices
      /\ \A v \in Vertices : \A w \in Neighbors(v) : adj_list[v][w] \in Nat /\ adj_list[v][w] > 0
      /\ \A v : Neighbors(v)' = Neighbors(v)
  BY <1>1, <1>2, GraphFacts DEF Neighbors
<1>4. \A v \in Vertices : distance'[v] <= distance[v] /\ distance'[v] \in Nat
  BY <1>1, <1>2
<1> HIDE DEF u
<1>5. \A k \in known \cup {u} : distance'[k] = distance[k] /\ predecessor'[k] = predecessor[k]
  BY <1>1, <1>2
<1>6. Improved(u) \subseteq Neighbors(u)
  BY DEF Improved
<1>7. TypeOK'
  <2>1. distance'[src] = 0
    BY <1>2, <1>5
  <2>2. queue' \subseteq [dst : Vertices, cost : Nat]
    <3>1. \A v \in Neighbors(u) : Item(v, distance'[v]) \in [dst : Vertices, cost : Nat]
      BY <1>1, <1>3, <1>4 DEF Item
    <3> QED BY <1>1, <1>2, <3>1
  <2> QED BY <1>1, <1>2, <2>1, <2>2 DEF TypeOK
<1>8. PredecessorBacksDistance'
  <2> SUFFICES ASSUME NEW v \in Vertices \ {src}
               PROVE  IF distance'[v] = INT_MAX
                      THEN predecessor'[v] = -1 /\ v \notin known'
                      ELSE /\ predecessor'[v] \in known' /\ v \in Neighbors(predecessor'[v])
                           /\ distance'[v] = distance'[predecessor'[v]] + adj_list[predecessor'[v]][v]
    BY <1>1, <1>3 DEF PredecessorBacksDistance
  <2>1. CASE v \in Improved(u)
    <3>1. /\ predecessor'[v] = u /\ v \in Neighbors(u)
          /\ distance'[v] = distance[u] + adj_list[u][v]
          /\ distance[u] + adj_list[u][v] < INT_MAX
          /\ distance'[u] = distance[u]
      BY <1>1, <1>5, <1>6, <2>1
    <3>2. distance'[v] # INT_MAX
      BY <1>2, <1>4, <3>1
    <3> QED BY <1>1, <3>1, <3>2
  <2>2. CASE v \notin Improved(u)
    <3>1. distance'[v] = distance[v] /\ predecessor'[v] = predecessor[v]
      BY <1>1, <2>2
    <3>2. CASE distance[v] = INT_MAX
      <4>1. v # u
        BY <1>1, <1>2, <3>2
      <4>2. predecessor[v] = -1 /\ v \notin known
        BY <3>2 DEF IInv, PredecessorBacksDistance
      <4> QED BY <1>1, <3>1, <3>2, <4>1, <4>2
    <3>3. CASE distance[v] # INT_MAX
      <4>1. /\ predecessor[v] \in known /\ v \in Neighbors(predecessor[v])
            /\ distance[v] = distance[predecessor[v]] + adj_list[predecessor[v]][v]
        BY <3>3 DEF IInv, PredecessorBacksDistance
      <4>2. distance'[predecessor[v]] = distance[predecessor[v]]
        BY <1>5, <4>1
      <4> QED BY <1>1, <3>1, <3>3, <4>1, <4>2
    <3> QED BY <3>2, <3>3
  <2> QED BY <2>1, <2>2
<1>9. KnownAreNearest'
  <2> SUFFICES ASSUME NEW k \in known \cup {u}, NEW v \in Vertices
               PROVE  /\ v \notin known \cup {u} => distance[k] <= distance'[v]
                      /\ v \in Neighbors(k) => distance'[v] <= distance[k] + adj_list[k][v]
    BY <1>1, <1>3, <1>5 DEF KnownAreNearest
  <2>1. k \in Vertices /\ distance[k] \in Nat /\ distance[u] \in Nat /\ distance[k] <= distance[u]
    BY <1>1, <1>2
  <2>2. ASSUME v \notin known \cup {u} PROVE distance[k] <= distance'[v]
    <3>1. distance[u] <= distance'[v]
      <4>1. CASE v \in Improved(u)
        BY <1>1, <1>3, <1>6, <2>1, <4>1
      <4>2. CASE v \notin Improved(u)
        BY <1>1, <2>2, <4>2
      <4> QED BY <4>1, <4>2
    <3> QED BY <1>4, <2>1, <3>1
  <2>3. ASSUME v \in Neighbors(k) PROVE distance'[v] <= distance[k] + adj_list[k][v]
    <3>1. CASE k = u
      BY <1>1, <2>3, <3>1
    <3>2. CASE k # u
      <4>1. distance[v] <= distance[k] + adj_list[k][v] /\ adj_list[k][v] \in Nat
        BY <1>3, <2>1, <2>3, <3>2 DEF IInv, KnownAreNearest
      <4> QED BY <1>2, <1>4, <2>1, <4>1
    <3> QED BY <3>1, <3>2
  <2> QED BY <2>2, <2>3
<1>10. FringeQueued'
  <2> SUFFICES ASSUME NEW v \in Vertices \ (known \cup {u}), distance'[v] # INT_MAX
               PROVE  Item(v, distance'[v]) \in queue'
    BY <1>1 DEF FringeQueued, Item
  <2>1. CASE v \in Neighbors(u)
    BY <1>1, <2>1
  <2>2. CASE v \notin Neighbors(u)
    <3>1. distance'[v] = distance[v]
      BY <1>1, <1>6, <2>2
    <3>2. Item(v, distance[v]) \in queue
      BY <2>2, <3>1 DEF IInv, FringeQueued
    <3>3. Item(v, distance[v]).dst = v
      BY DEF Item
    <3>4. Item(v, distance[v]) # e
      BY <3>3 DEF u
    <3> QED BY <1>1, <3>1, <3>2, <3>4
  <2> QED BY <2>1, <2>2
<1>11. ItemsNotBelow'
  <2> SUFFICES ASSUME NEW f \in queue'
               PROVE  distance'[f.dst] # INT_MAX /\ distance'[f.dst] <= f.cost
    BY DEF ItemsNotBelow
  <2>1. CASE f \in queue
    <3>1. /\ f.dst \in Vertices /\ f.cost \in Nat
          /\ distance[f.dst] # INT_MAX /\ distance[f.dst] <= f.cost
      BY <1>2, <2>1 DEF IInv, ItemsNotBelow
    <3>2. distance[f.dst] < INT_MAX
      BY <3>1, BelowMax DEF IInv
    <3> DEFINE d == distance[f.dst]
               dNew == distance'[f.dst]
    <3>3. d \in Nat /\ dNew \in Nat /\ dNew <= d /\ d < INT_MAX /\ d <= f.cost
      BY <1>2, <1>4, <3>1, <3>2
    <3> HIDE DEF d, dNew
    <3>4. dNew # INT_MAX /\ dNew <= f.cost
      BY <1>2, <3>1, <3>3
    <3> QED BY <3>4 DEF dNew
  <2>2. CASE f \notin queue
    <3>1. PICK v \in Neighbors(u) : f = Item(v, distance'[v])
      BY <1>1, <2>2
    <3>2. f.dst = v /\ f.cost = distance'[v] /\ v \in Vertices
      BY <1>1, <1>3, <3>1 DEF Item
    <3>3. /\ distance'[v] <= distance[u] + adj_list[u][v]
          /\ distance[u] + adj_list[u][v] < INT_MAX
          /\ adj_list[u][v] \in Nat /\ distance[u] \in Nat
      BY <1>1, <1>2, <1>3, <3>1
    <3> DEFINE dNew == distance'[v]
               bound == distance[u] + adj_list[u][v]
    <3>4. dNew \in Nat /\ dNew <= bound /\ bound < INT_MAX /\ bound \in Nat
      BY <1>4, <3>2, <3>3
    <3> HIDE DEF dNew, bound
    <3>5. dNew # INT_MAX /\ dNew <= dNew
      BY <1>2, <3>4
    <3> QED BY <3>2, <3>5 DEF dNew
  <2> QED BY <2>1, <2>2
<1>12. DistanceBounded'
  <2> DEFINE n == Cardinality(Vertices)
             k == Cardinality(known)
             i == INT_MAX - 1
  <2>1. /\ n \in Nat /\ k \in Nat /\ i \in Nat
        /\ Cardinality(known') = k + 1
    BY <1>1, <1>2, KnownOneLess
  <2> SUFFICES ASSUME NEW v \in Vertices, distance'[v] # INT_MAX
               PROVE  distance'[v] * n <= (k + 1) * i
    BY <2>1 DEF DistanceBounded
  <2>2. CASE v \in Improved(u)
    <3> DEFINE c == adj_list[u][v]
    <3>1. c \in Nat /\ c * n <= i /\ distance'[v] = distance[u] + c
      BY <1>1, <1>2, <1>6, <2>2, GraphFacts
    <3>2. distance[u] \in Nat /\ distance[u] # INT_MAX
      <4>1. distance[u] \in Nat /\ distance[u] < INT_MAX
        BY <1>1, <1>2
      <4> QED BY <1>2, <4>1
    <3>3. distance[u] * n <= k * i
      BY <1>1, <3>2 DEF IInv, DistanceBounded
    <3> HIDE DEF n, k, i, c
    <3> QED BY <2>1, <3>1, <3>2, <3>3, OneLinkMore
  <2>3. CASE v \notin Improved(u)
    <3>1. distance'[v] = distance[v]
      BY <1>1, <2>3
    <3>2. distance[v] * n <= k * i /\ distance[v] \in Nat
      BY <1>2, <3>1 DEF IInv, DistanceBounded
    <3> HIDE DEF n, k, i
    <3>3. 0 * n <= i
      BY <2>1
    <3>4. (distance[v] + 0) * n <= (k + 1) * i
      BY <2>1, <3>2, <3>3, OneLinkMore
    <3>5. distance[v] + 0 = distance[v]
      BY <3>2
    <3> QED BY <3>1, <3>4, <3>5
  <2> QED BY <2>2, <2>3
<1>13. LowestPredecessor'
  <2> SUFFICES ASSUME NEW v \in Vertices \ {src}, NEW k \in known \cup {u},
                      v \in Neighbors(k), distance[k] + adj_list[k][v] = distance'[v]
               PROVE  predecessor'[v] <= k
    BY <1>1, <1>3, <1>5 DEF LowestPredecessor
  <2>1. /\ k \in Nat /\ u \in Nat /\ k \in Vertices
        /\ distance[k] \in Nat /\ distance[u] \in Nat /\ distance[v] \in Nat
        /\ adj_list[k][v] \in Nat /\ predecessor[v] \in Int
    <3>1. k \in Vertices /\ u \in Vertices /\ v \in Vertices
      BY <1>1, <1>2
    <3>2. k \in Nat /\ u \in Nat
      BY <1>2, <3>1
    <3>3. distance[k] \in Nat /\ distance[u] \in Nat /\ distance[v] \in Nat
      BY <1>2, <3>1
    <3>4. adj_list[k][v] \in Nat
      BY <1>3, <3>1
    <3>5. predecessor[v] \in Vertices \cup {-1}
      BY <1>2, <3>1
    <3>6. predecessor[v] \in Int
      <4>1. CASE predecessor[v] \in Vertices
        <5>1. predecessor[v] \in Nat
          BY <1>2, <4>1
        <5> QED BY <5>1
      <4>2. CASE predecessor[v] = -1
        BY <4>2
      <4> QED BY <3>5, <4>1, <4>2
    <3> QED BY <3>1, <3>2, <3>3, <3>4, <3>6
  <2>2. CASE v \in Improved(u)
    <3>1. /\ predecessor'[v] = u /\ distance'[v] = distance[u] + adj_list[u][v]
          /\ Improves(u, v)
      BY <1>1, <2>2 DEF Improved
    <3>2. CASE k = u
      BY <2>1, <3>1, <3>2
    <3>3. CASE k # u
      <4>1. /\ distance[v] <= distance[k] + adj_list[k][v]
            /\ distance[k] + adj_list[k][v] = distance[v] => predecessor[v] <= k
        BY <3>3 DEF IInv, KnownAreNearest, LowestPredecessor
      <4>2. distance[u] + adj_list[u][v] = distance[k] + adj_list[k][v]
        BY <3>1
      <4>3. distance[u] + adj_list[u][v] = distance[v] /\ u < predecessor[v]
        BY <2>1, <3>1, <4>1, <4>2 DEF Improves
      <4> QED BY <2>1, <3>1, <4>1, <4>2, <4>3
    <3> QED BY <3>2, <3>3
  <2>3. CASE v \notin Improved(u)
    <3>1. distance'[v] = distance[v] /\ predecessor'[v] = predecessor[v]
      BY <1>1, <2>3
    <3>2. CASE k = u
      <4>1. ~Improves(u, v)
        BY <2>3, <3>2 DEF Improved
      <4> QED BY <2>1, <3>1, <3>2, <4>1 DEF Improves
    <3>3. CASE k # u
      BY <3>1, <3>3 DEF IInv, LowestPredecessor
    <3> QED BY <3>2, <3>3
  <2> QED BY <2>2, <2>3
<1> QED BY <1>7, <1>8, <1>9, <1>10, <1>11, <1>12, <1>13 DEF IInv

\* An item of a known node is not needed any more.
LEMMA SkipIInv ==
  ASSUME IInv, NEW e \in queue, Skip(e)
  PROVE  IInv'
<1>1. /\ e.dst \in known /\ queue' = queue \ {e}
      /\ UNCHANGED <<adj_list, src, known, distance, predecessor>>
  BY DEF Skip
<1>2. FringeQueued'
  <2> SUFFICES ASSUME NEW v \in Vertices \ known, distance[v] # INT_MAX
               PROVE  Item(v, distance[v]) \in queue \ {e}
    BY <1>1 DEF FringeQueued, Item
  <2>1. Item(v, distance[v]) \in queue /\ Item(v, distance[v]).dst = v
    BY DEF IInv, FringeQueued, Item
  <2> QED BY <1>1, <2>1
<1>3. TypeOK' /\ ItemsNotBelow'
  BY <1>1 DEF IInv, TypeOK, ItemsNotBelow
<1>4. PredecessorBacksDistance' /\ KnownAreNearest' /\ LowestPredecessor' /\ DistanceBounded'
  BY <1>1 DEF IInv, PredecessorBacksDistance, KnownAreNearest, LowestPredecessor,
              DistanceBounded, Neighbors
<1> QED BY <1>2, <1>3, <1>4 DEF IInv

LEMMA NextIInv == IInv /\ [Next]_vars => IInv'
<1> SUFFICES ASSUME IInv, [Next]_vars PROVE IInv'
  OBVIOUS
<1>1. CASE \E e \in queue : Skip(e) \/ Settle(e)
  BY <1>1, SkipIInv, SettleIInv
<1>2. CASE StartWalk \/ StepBack \/ EndWalk \/ Return \/ UNCHANGED vars
  <2>1. UNCHANGED <<adj_list, src, known, distance, predecessor, queue>>
    BY <1>2 DEF StartWalk, StepBack, EndWalk, Return, search, vars
  <2>2. TypeOK' /\ ItemsNotBelow' /\ FringeQueued'
    BY <2>1 DEF IInv, TypeOK, ItemsNotBelow, FringeQueued, Item
  <2>3. PredecessorBacksDistance' /\ KnownAreNearest' /\ LowestPredecessor' /\ DistanceBounded'
    BY <2>1 DEF IInv, PredecessorBacksDistance, KnownAreNearest, LowestPredecessor,
                DistanceBounded, Neighbors
  <2> QED BY <2>2, <2>3 DEF IInv
<1> QED BY <1>1, <1>2 DEF Next

LEMMA Invariance == Spec => []IInv
<1>1. IInv /\ [Next]_vars => IInv'
  BY NextIInv
<1> QED BY <1>1, InitIInv, PTL DEF Spec

\* A route found leads over a known node, and its cost is that of the route to this
\* node and of the last link, whatever was improved since.
THEOREM PredecessorsBack == Spec => []PredecessorBacksDistance
<1>1. IInv => PredecessorBacksDistance
  BY DEF IInv
<1> QED BY <1>1, Invariance, PTL

\* The items left in the queue notwithstanding, nodes become known in the order of
\* their distance.
THEOREM KnownFirst == Spec => []KnownAreNearest
<1>1. IInv => KnownAreNearest
  BY DEF IInv
<1> QED BY <1>1, Invariance, PTL

\* Every node with a distance is known or has a current item.
THEOREM NoNodeForgotten == Spec => []FringeQueued
<1>1. IInv => FringeQueued
  BY DEF IInv
<1> QED BY <1>1, Invariance, PTL

\* Of the last nodes of equally short routes the lowest is kept.
THEOREM LowestLastNode == Spec => []LowestPredecessor
<1>1. IInv => LowestPredecessor
  BY DEF IInv
<1> QED BY <1>1, Invariance, PTL

\* With an empty queue the distances satisfy the equation of shortest routes: no
\* link leads further at less, a node without a distance has no neighbour with one,
\* and every distance is that of a route.
Settled ==
  queue = {} =>
    \A u \in Vertices : distance[u] # INT_MAX =>
      /\ u \in known
      /\ \A v \in Neighbors(u) : /\ distance[v] # INT_MAX
                                 /\ distance[v] <= distance[u] + adj_list[u][v]
                                 /\ distance[u] + adj_list[u][v] = distance[v] /\ v # src
                                      => predecessor[v] <= u

LEMMA SettledFacts == IInv => Settled
<1> SUFFICES ASSUME IInv, queue = {}, NEW u \in Vertices, distance[u] # INT_MAX,
                    NEW v \in Neighbors(u)
             PROVE  /\ u \in known
                    /\ distance[v] # INT_MAX
                    /\ distance[v] <= distance[u] + adj_list[u][v]
                    /\ distance[u] + adj_list[u][v] = distance[v] /\ v # src
                         => predecessor[v] <= u
  BY DEF Settled, IInv, FringeQueued
<1>1. u \in known
  BY DEF IInv, FringeQueued
<1>2. v \in Vertices /\ distance \in [Vertices -> Nat]
  BY GraphFacts DEF IInv, TypeOK
<1>3. /\ distance[v] <= distance[u] + adj_list[u][v]
      /\ distance[u] + adj_list[u][v] = distance[v] /\ v # src => predecessor[v] <= u
  BY <1>1, <1>2 DEF IInv, KnownAreNearest, LowestPredecessor
<1>4. distance[v] # INT_MAX
  <2>1. CASE v = src
    BY <2>1 DEF IInv, TypeOK, INT_MAX
  <2>2. CASE v \in known /\ v # src
    BY <1>2, <2>2 DEF IInv, PredecessorBacksDistance
  <2>3. CASE v \notin known
    <3>1. distance[u] + adj_list[u][v] < INT_MAX /\ adj_list[u][v] \in Nat
      BY <1>2, <2>3, RoomForALink, GraphFacts DEF IInv
    <3>2. distance[u] \in Nat /\ distance[v] \in Nat /\ INT_MAX \in Nat
      BY <1>2 DEF INT_MAX
    <3> QED BY <1>3, <3>1, <3>2
  <2> QED BY <2>1, <2>2, <2>3
<1> QED BY <1>1, <1>3, <1>4

\* What the search ends with, from which the walks back take the first hops.
THEOREM SearchSettles == Spec => []Settled
<1> QED BY SettledFacts, Invariance, PTL

------------------------------------------------------------------------------
(***************************************************************************)
(* The shortest walks of the graph, and the walks back.                    *)
(***************************************************************************)
\* No node is nearer than the graph has it: there is a walk to a node with a
\* distance, of that cost or of less.
NotTooNear ==
  \A v \in Vertices :
    distance[v] # INT_MAX =>
      \E c \in Nat : c <= distance[v] /\ <<src, v, c>> \in ShortestWalks(adj_list)

\* A shortest walk to the target goes on from h, if h can be had at this cost.
RouteGoesOn(t, h, cost) ==
  \E c \in Nat : <<h, t, c>> \in ShortestWalks(adj_list) /\ cost + c = distance[t]

\* The walk back never leaves the shortest routes to its target: what is before it
\* begins the rest of one, and where it stands is the node of the route before that.
WalkedBack ==
  back # NoWalk =>
    /\ queue = {}
    /\ back \in [target : Vertices, at : Vertices \cup {-1}, before : Vertices]
    /\ distance[back.target] # INT_MAX =>
         /\ back.at \in known /\ back.before \in known
         /\ RouteGoesOn(back.target, back.before, distance[back.before])
         /\ IF back.at = back.before
            THEN back.at = back.target
            ELSE /\ back.target # src /\ back.before # src
                 /\ back.at = predecessor[back.before]

IsFirstHop(t, h) ==
  distance[t] # INT_MAX =>
    IF t = src THEN h = src
               ELSE h \in Neighbors(src) /\ RouteGoesOn(t, h, adj_list[src][h])

\* The hops found begin shortest routes.
HopsFound ==
  /\ DOMAIN forwardingTable \subseteq Vertices
  /\ DOMAIN forwardingTable # {} => queue = {}
  /\ \A t \in DOMAIN forwardingTable : IsFirstHop(t, forwardingTable[t])

LEMMA FiniteGraph ==
  ASSUME TypeOK
  PROVE  IsFiniteGraph(adj_list, Vertices) /\ src \in Vertices
BY VerticesAssumption, GraphsAssumption DEF TypeOK, IsFiniteGraph

LEMMA InitNotTooNear == Init => NotTooNear
<1> SUFFICES ASSUME Init, NEW v \in Vertices, distance[v] # INT_MAX
             PROVE  \E c \in Nat : /\ c <= distance[v]
                                   /\ <<src, v, c>> \in ShortestWalks(adj_list)
  BY DEF NotTooNear
<1> DEFINE S == ShortestWalks(adj_list)
<1>1. TypeOK /\ src \in Vertices
  BY InitIInv DEF IInv, TypeOK
<1>2. HasSelves(S, Vertices) /\ HasLongerOrLess(S, adj_list, Vertices)
  BY <1>1, FiniteGraph, WalkFacts
<1> HIDE DEF S
<1>3. CASE v = src
  <2>1. distance[v] = 0
    BY <1>1, <1>3 DEF TypeOK
  <2>2. <<src, v, 0>> \in S
    BY <1>1, <1>2, <1>3 DEF HasSelves
  <2> QED BY <2>1, <2>2 DEF S
<1>4. CASE v # src
  <2>1. v \in Neighbors(src) /\ distance[v] = adj_list[src][v]
    BY <1>4 DEF Init
  <2>2. adj_list[src][v] \in Nat
    BY <1>1, <2>1, GraphFacts
  <2>3. <<v, v, 0>> \in S
    BY <1>2 DEF HasSelves
  <2>4. PICK c \in Nat : c <= adj_list[src][v] + 0 /\ <<src, v, c>> \in S
    BY <1>1, <1>2, <2>1, <2>3 DEF HasLongerOrLess, Neighbors
  <2>5. c <= distance[v]
    BY <2>1, <2>2, <2>4
  <2> QED BY <2>4, <2>5 DEF S
<1> QED BY <1>3, <1>4

LEMMA StepNotTooNear ==
  ASSUME IInv, NotTooNear, [Next]_vars
  PROVE  NotTooNear'
<1> DEFINE S == ShortestWalks(adj_list)
<1>1. TypeOK /\ IsFiniteGraph(adj_list, Vertices) /\ src \in Vertices
  BY FiniteGraph DEF IInv
<1> HIDE DEF S
<1>2. ASSUME NEW e \in queue, Settle(e) PROVE NotTooNear'
  <2> DEFINE u == e.dst
  <2>1. /\ u \in Vertices /\ distance[u] < INT_MAX /\ UNCHANGED <<adj_list, src>>
        /\ Improved(u) \subseteq Vertices
        /\ \A v \in Improved(u) : distance'[v] = distance[u] + adj_list[u][v]
        /\ \A v \in Vertices \ Improved(u) : distance'[v] = distance[v]
    BY <1>2, SettleFacts
  <2> HIDE DEF u
  <2>2. distance[u] \in Nat /\ distance[u] # INT_MAX
    <3>1. distance[u] \in Nat
      BY <1>1, <2>1 DEF TypeOK
    <3> QED BY <2>1, <3>1 DEF INT_MAX
  <2> SUFFICES ASSUME NEW v \in Vertices, distance'[v] # INT_MAX
               PROVE  \E c \in Nat : c <= distance'[v] /\ <<src, v, c>> \in S
    BY <2>1 DEF NotTooNear, S
  <2>3. CASE v \in Improved(u)
    <3>1. PICK d \in Nat : d <= distance[u] /\ <<src, u, d>> \in S
      BY <2>1, <2>2 DEF NotTooNear, S
    <3>2. v \in DOMAIN adj_list[u]
      BY <2>3 DEF Improved, Neighbors
    <3>3. adj_list[u][v] \in Nat
      BY <1>1, <2>1, <3>2, GraphFacts DEF Neighbors
    <3>4. PICK c \in Nat : c <= d + adj_list[u][v] /\ <<src, v, c>> \in S
      BY <1>1, <2>1, <3>1, <3>2, WalksEndOn DEF S
    <3>5. c <= distance[u] + adj_list[u][v]
      BY <2>2, <3>1, <3>3, <3>4
    <3>6. distance'[v] = distance[u] + adj_list[u][v]
      BY <2>1, <2>3
    <3> QED BY <3>4, <3>5, <3>6
  <2>4. CASE v \notin Improved(u)
    <3>1. distance'[v] = distance[v]
      BY <2>1, <2>4
    <3> QED BY <3>1 DEF NotTooNear, S
  <2> QED BY <2>3, <2>4
<1>3. CASE UNCHANGED <<adj_list, src, distance>>
  BY <1>3 DEF NotTooNear
<1> QED BY <1>2, <1>3 DEF Next, Skip, StartWalk, StepBack, EndWalk, Return, search, vars

\* With an empty queue the distances are the costs of the shortest walks from src.
LEMMA DistancesAreShortest ==
  ASSUME IInv, NotTooNear, queue = {}, NEW t \in Vertices, NEW c \in Nat
  PROVE  <<src, t, c>> \in ShortestWalks(adj_list) <=> distance[t] # INT_MAX /\ distance[t] = c
<1> DEFINE S == ShortestWalks(adj_list)
           Q == {w \in Triples(Vertices) :
                   w[2] = src => distance[w[1]] # INT_MAX /\ distance[w[1]] <= w[3]}
<1>1. /\ TypeOK /\ IsFiniteGraph(adj_list, Vertices) /\ src \in Vertices /\ Settled
      /\ distance \in [Vertices -> Nat] /\ distance[src] = 0 /\ INT_MAX # 0
  BY FiniteGraph, SettledFacts DEF IInv, TypeOK, INT_MAX
<1>2. \A u, v \in Vertices : \A d \in Nat :
        <<u, v, d>> \in Q <=> (v = src => distance[u] # INT_MAX /\ distance[u] <= d)
  BY DEF Triples
<1> HIDE DEF Q
<1>3. HasSelves(Q, Vertices)
  <2> SUFFICES ASSUME NEW u \in Vertices PROVE <<u, u, 0>> \in Q
    BY DEF HasSelves
  <2>1. u = src => distance[u] # INT_MAX /\ distance[u] <= 0
    BY <1>1
  <2> QED BY <1>2, <2>1
<1>4. HasLonger(Q, adj_list, Vertices)
  <2> SUFFICES ASSUME NEW u \in Vertices, NEW n \in DOMAIN adj_list[u], NEW v \in Vertices,
                      NEW d \in Nat, <<n, v, d>> \in Q
               PROVE  <<u, v, adj_list[u][n] + d>> \in Q
    BY DEF HasLonger
  <2>1. /\ n \in Vertices /\ u \in Neighbors(n) /\ adj_list[u][n] \in Nat
        /\ adj_list[n][u] = adj_list[u][n]
    BY <1>1, LinkFacts DEF IsFiniteGraph, Neighbors
  <2>2. ASSUME v = src
        PROVE  distance[u] # INT_MAX /\ distance[u] <= adj_list[u][n] + d
    <3>1. distance[n] # INT_MAX /\ distance[n] <= d
      BY <1>2, <2>1, <2>2
    <3>2. distance[u] # INT_MAX /\ distance[u] <= distance[n] + adj_list[n][u]
      BY <1>1, <2>1, <3>1 DEF Settled
    <3>3. distance[n] \in Nat /\ distance[u] \in Nat
      BY <1>1, <2>1
    <3> QED BY <2>1, <3>1, <3>2, <3>3
  <2>3. adj_list[u][n] + d \in Nat
    BY <2>1
  <2> QED BY <1>2, <2>2, <2>3
<1>5. ASSUME NEW d \in Nat, <<src, t, d>> \in S
      PROVE  distance[t] # INT_MAX /\ distance[t] <= d
  <2>1. <<t, src, d>> \in S
    BY <1>1, <1>5, WalksBack
  <2>2. S \subseteq Q
    BY <1>1, <1>3, <1>4, WalksLeast
  <2> QED BY <1>1, <1>2, <2>1, <2>2
<1>6. OneCost(S, Vertices)
  BY <1>1, WalkFacts
<1>7. ASSUME distance[t] # INT_MAX
      PROVE  \E e \in Nat : e <= distance[t] /\ <<src, t, e>> \in S
  BY <1>7 DEF NotTooNear
<1>8. distance[t] \in Nat
  BY <1>1
<1> HIDE DEF S
<1>9. ASSUME <<src, t, c>> \in S PROVE distance[t] # INT_MAX /\ distance[t] = c
  <2>1. distance[t] # INT_MAX /\ distance[t] <= c
    BY <1>5, <1>9
  <2>2. PICK e \in Nat : e <= distance[t] /\ <<src, t, e>> \in S
    BY <1>7, <2>1
  <2>3. e = c
    BY <1>1, <1>6, <1>9, <2>2 DEF OneCost
  <2> QED BY <1>8, <2>1, <2>2, <2>3
<1>10. ASSUME distance[t] # INT_MAX, distance[t] = c PROVE <<src, t, c>> \in S
  <2>1. PICK e \in Nat : e <= c /\ <<src, t, e>> \in S
    BY <1>7, <1>10
  <2>2. c <= e
    BY <1>5, <1>10, <2>1
  <2>3. e = c
    BY <2>1, <2>2
  <2> QED BY <2>1, <2>3
<1> QED BY <1>9, <1>10 DEF S

\* The node before one on a shortest route: the rest of the route is a link longer.
LEMMA OneLinkBack ==
  ASSUME IInv, NotTooNear, queue = {}, NEW t \in Vertices, distance[t] # INT_MAX,
         NEW h \in known, h # src, RouteGoesOn(t, h, distance[h]), NEW p, p = predecessor[h]
  PROVE  /\ p \in known /\ p # h
         /\ RouteGoesOn(t, p, distance[p]) /\ RouteGoesOn(t, h, distance[p] + adj_list[p][h])
         /\ h \in Neighbors(p)
<1> DEFINE S == ShortestWalks(adj_list)
<1>1. /\ TypeOK /\ IsFiniteGraph(adj_list, Vertices) /\ src \in Vertices
      /\ known \subseteq Vertices /\ distance \in [Vertices -> Nat]
  BY FiniteGraph DEF IInv, TypeOK
<1>2. /\ p \in known /\ h \in Neighbors(p)
      /\ distance[h] = distance[p] + adj_list[p][h]
  BY <1>1 DEF IInv, PredecessorBacksDistance
<1>3. /\ p \in Vertices /\ h \in Vertices /\ p # h /\ adj_list[p][h] \in Nat
      /\ distance[p] \in Nat /\ distance[h] \in Nat /\ distance[t] \in Nat
  BY <1>1, <1>2, GraphFacts
<1>4. distance[p] # INT_MAX
  <2>1. CASE p = src
    BY <1>1, <2>1 DEF TypeOK, INT_MAX
  <2>2. CASE p # src
    BY <1>2, <1>3, <2>2 DEF IInv, PredecessorBacksDistance
  <2> QED BY <2>1, <2>2
<1>5. <<src, p, distance[p]>> \in S /\ <<src, t, distance[t]>> \in S
  BY <1>3, <1>4, DistancesAreShortest
<1>6. PICK c \in Nat : <<h, t, c>> \in S /\ distance[h] + c = distance[t]
  BY DEF RouteGoesOn
<1>7. OneCost(S, Vertices) /\ HasLongerOrLess(S, adj_list, Vertices)
  BY <1>1, WalkFacts
<1>8. \A d \in Nat : <<p, t, d>> \in S =>
        \E f \in Nat : f <= distance[p] + d /\ <<src, t, f>> \in S
  BY <1>1, <1>3, <1>5, WalksCompose
<1> HIDE DEF S
<1>9. PICK d \in Nat : d <= adj_list[p][h] + c /\ <<p, t, d>> \in S
  BY <1>2, <1>3, <1>6, <1>7 DEF HasLongerOrLess, Neighbors
<1>10. PICK f \in Nat : f <= distance[p] + d /\ <<src, t, f>> \in S
  BY <1>8, <1>9
<1>11. f = distance[t]
  BY <1>1, <1>3, <1>5, <1>7, <1>10 DEF OneCost
<1>12. distance[p] + d = distance[t]
  <2> DEFINE x == distance[p]
             a == adj_list[p][h]
             y == distance[t]
  <2>1. x \in Nat /\ a \in Nat /\ y \in Nat /\ x + a + c = y /\ y <= x + d /\ d <= a + c
    BY <1>2, <1>3, <1>6, <1>9, <1>10, <1>11
  <2> HIDE DEF x, a, y
  <2>2. x + d = y
    BY <2>1
  <2> QED BY <2>2 DEF x, y
<1>13. RouteGoesOn(t, p, distance[p])
  BY <1>9, <1>12 DEF RouteGoesOn, S
<1>14. RouteGoesOn(t, h, distance[p] + adj_list[p][h])
  BY <1>2, <1>6 DEF RouteGoesOn, S
<1> QED BY <1>2, <1>3, <1>13, <1>14

\* What is returned, when it is.
ResultLast == result # <<>> => queue = {}

\* The inductive invariant of search and walks together.
RoutesInv == IInv /\ NotTooNear /\ WalkedBack /\ HopsFound /\ ResultLast

LEMMA StartWalkStep ==
  ASSUME RoutesInv, StartWalk
  PROVE  WalkedBack' /\ HopsFound'
<1>1. /\ queue = {} /\ UNCHANGED <<adj_list, src, known, distance, predecessor, queue>>
      /\ UNCHANGED forwardingTable
  BY DEF StartWalk, search
<1>2. PICK t \in Vertices : back' = [target |-> t, at |-> t, before |-> t]
  BY DEF StartWalk
<1>3. HopsFound'
  BY <1>1 DEF RoutesInv, HopsFound, IsFirstHop, RouteGoesOn, Neighbors
<1>4. back'.target = t /\ back'.at = t /\ back'.before = t
  BY <1>2
<1>5. ASSUME distance[t] # INT_MAX
      PROVE  t \in known /\ RouteGoesOn(t, t, distance[t])
  <2>1. t \in known
    BY <1>1, <1>5, SettledFacts DEF RoutesInv, Settled
  <2>2. <<t, t, 0>> \in ShortestWalks(adj_list)
    BY FiniteGraph, WalkFacts DEF RoutesInv, IInv, HasSelves
  <2>3. distance[t] + 0 = distance[t]
    BY DEF RoutesInv, IInv, TypeOK
  <2> QED BY <2>1, <2>2, <2>3 DEF RouteGoesOn
<1>6. back' \in [target : Vertices, at : Vertices \cup {-1}, before : Vertices]
  BY <1>2
<1>7. WalkedBack'
  BY <1>1, <1>4, <1>5, <1>6 DEF WalkedBack, RouteGoesOn
<1> QED BY <1>3, <1>7

LEMMA StepBackStep ==
  ASSUME RoutesInv, StepBack
  PROVE  WalkedBack' /\ HopsFound'
<1>1. /\ back # NoWalk /\ back.at \notin {-1, src}
      /\ back' = [back EXCEPT !.at = predecessor[back.at], !.before = back.at]
      /\ UNCHANGED <<adj_list, src, known, distance, predecessor, queue, forwardingTable>>
  BY DEF StepBack, search
<1>2. HopsFound'
  BY <1>1 DEF RoutesInv, HopsFound, IsFirstHop, RouteGoesOn, Neighbors
<1> DEFINE t == back.target
           h == back.before
           at == back.at
           p == predecessor[back.at]
<1>3. /\ queue = {} /\ t \in Vertices /\ at \in Vertices /\ h \in Vertices
      /\ back' = [target |-> t, at |-> p, before |-> at] /\ p \in Vertices \cup {-1}
      /\ distance[t] # INT_MAX =>
           /\ at \in known /\ h \in known /\ RouteGoesOn(t, h, distance[h])
           /\ IF at = h THEN at = t
              ELSE t # src /\ h # src /\ at = predecessor[h]
  <2>1. /\ queue = {} /\ t \in Vertices /\ at \in Vertices /\ h \in Vertices
        /\ back \in [target : Vertices, at : Vertices \cup {-1}, before : Vertices]
    BY <1>1 DEF RoutesInv, WalkedBack
  <2>2. back' = [target |-> t, at |-> p, before |-> at]
    BY <1>1, <2>1
  <2>3. p \in Vertices \cup {-1}
    BY <2>1 DEF RoutesInv, IInv, TypeOK
  <2>4. distance[t] # INT_MAX =>
           /\ at \in known /\ h \in known /\ RouteGoesOn(t, h, distance[h])
           /\ IF at = h THEN at = t
              ELSE t # src /\ h # src /\ at = predecessor[h]
    BY <1>1 DEF RoutesInv, WalkedBack
  <2> QED BY <2>1, <2>2, <2>3, <2>4
<1>4. at # src
  BY <1>1
<1> HIDE DEF t, h, at, p
<1>5. ASSUME distance[t] # INT_MAX
      PROVE  /\ p \in known /\ at \in known /\ RouteGoesOn(t, at, distance[at])
             /\ p # at /\ t # src
  <2>1. RouteGoesOn(t, at, distance[at]) /\ t # src
    <3>1. CASE at = h
      BY <1>3, <1>4, <1>5, <3>1
    <3>2. CASE at # h
      BY <1>3, <1>5, <3>2, OneLinkBack DEF RoutesInv
    <3> QED BY <3>1, <3>2
  <2>2. at \in known
    BY <1>3, <1>5
  <2>3. p = predecessor[at]
    BY DEF p, at
  <2> QED BY <1>3, <1>4, <1>5, <2>1, <2>2, <2>3, OneLinkBack DEF RoutesInv
<1>6. back'.target = t /\ back'.at = p /\ back'.before = at /\ p = predecessor[at]
  BY <1>3 DEF p, at
<1>7. back' \in [target : Vertices, at : Vertices \cup {-1}, before : Vertices]
  BY <1>3
<1>8. WalkedBack'
  BY <1>1, <1>3, <1>4, <1>5, <1>6, <1>7 DEF WalkedBack, RouteGoesOn
<1> QED BY <1>2, <1>8

LEMMA EndWalkStep ==
  ASSUME RoutesInv, EndWalk
  PROVE  WalkedBack' /\ HopsFound'
<1>1. /\ back # NoWalk /\ back.at \in {-1, src} /\ back' = NoWalk
      /\ forwardingTable' = Put(forwardingTable, back.target, back.before)
      /\ UNCHANGED <<adj_list, src, known, distance, predecessor, queue>>
  BY DEF EndWalk, FirstHop, search
<1> DEFINE t == back.target
           h == back.before
<1>2. /\ queue = {} /\ t \in Vertices
      /\ distance[t] # INT_MAX =>
           /\ back.at \in known /\ h \in known
           /\ RouteGoesOn(t, h, distance[h])
           /\ IF back.at = h
              THEN back.at = t
              ELSE t # src /\ h # src /\ back.at = predecessor[h]
  BY <1>1 DEF RoutesInv, WalkedBack
<1> HIDE DEF t, h
<1>3. IsFirstHop(t, h)
  <2> SUFFICES ASSUME distance[t] # INT_MAX
               PROVE  IF t = src THEN h = src
                      ELSE h \in Neighbors(src) /\ RouteGoesOn(t, h, adj_list[src][h])
    BY DEF IsFirstHop
  <2>1. back.at = src
    <3>1. back.at \in Nat
      BY <1>2, VerticesAssumption DEF RoutesInv, IInv, TypeOK
    <3> QED BY <1>1, <3>1
  <2>2. CASE back.at = h
    BY <1>2, <2>1, <2>2
  <2>3. CASE back.at # h
    <3>1. t # src /\ h # src /\ src = predecessor[h] /\ h \in known
      BY <1>2, <2>1, <2>3
    <3>2. h \in Neighbors(src) /\ RouteGoesOn(t, h, distance[src] + adj_list[src][h])
      BY <1>2, <3>1, OneLinkBack DEF RoutesInv
    <3>3. distance[src] + adj_list[src][h] = adj_list[src][h]
      <4>1. distance[src] = 0 /\ adj_list[src][h] \in Nat
        BY <3>2, GraphFacts DEF RoutesInv, IInv, TypeOK
      <4> QED BY <4>1
    <3> QED BY <3>1, <3>2, <3>3
  <2> QED BY <2>2, <2>3
<1>4. ASSUME NEW x \in DOMAIN forwardingTable'
      PROVE  x \in Vertices /\ IsFirstHop(x, forwardingTable'[x])
  <2>1. CASE x = t
    BY <1>1, <1>2, <1>3, <2>1 DEF Put, t, h
  <2>2. CASE x # t
    <3>1. x \in DOMAIN forwardingTable /\ forwardingTable'[x] = forwardingTable[x]
      BY <1>1, <1>4, <2>2 DEF Put, t
    <3> QED BY <3>1 DEF RoutesInv, HopsFound
  <2> QED BY <2>1, <2>2
<1>5. HopsFound'
  BY <1>1, <1>2, <1>4 DEF HopsFound, IsFirstHop, RouteGoesOn, Neighbors
<1> QED BY <1>1, <1>5 DEF WalkedBack

LEMMA InitRoutesInv == Init => RoutesInv
<1> SUFFICES ASSUME Init PROVE RoutesInv
  OBVIOUS
<1>1. IInv /\ NotTooNear
  BY InitIInv, InitNotTooNear
<1>2. back = NoWalk /\ forwardingTable = <<>> /\ result = <<>>
  BY DEF Init
<1>3. DOMAIN forwardingTable = {}
  BY <1>2
<1> QED BY <1>1, <1>2, <1>3 DEF RoutesInv, WalkedBack, HopsFound, ResultLast

LEMMA NextRoutesInv == RoutesInv /\ [Next]_vars => RoutesInv'
<1> SUFFICES ASSUME RoutesInv, [Next]_vars PROVE RoutesInv'
  OBVIOUS
<1>1. IInv' /\ NotTooNear'
  BY NextIInv, StepNotTooNear DEF RoutesInv
<1>2. ASSUME NEW e \in queue, Skip(e) \/ Settle(e)
      PROVE  WalkedBack' /\ HopsFound' /\ ResultLast'
  <2>1. back = NoWalk /\ DOMAIN forwardingTable = {} /\ result = <<>>
    BY <1>2 DEF RoutesInv, WalkedBack, HopsFound, ResultLast
  <2>2. UNCHANGED <<forwardingTable, back, result>>
    BY <1>2 DEF Skip, Settle
  <2> QED BY <2>1, <2>2 DEF WalkedBack, HopsFound, ResultLast
<1>3. CASE StartWalk
  BY <1>3, <1>1, StartWalkStep DEF StartWalk, search, RoutesInv, ResultLast
<1>4. CASE StepBack
  BY <1>4, <1>1, StepBackStep DEF StepBack, search, RoutesInv, ResultLast
<1>5. CASE EndWalk
  BY <1>5, <1>1, EndWalkStep DEF EndWalk, search, RoutesInv, ResultLast
<1>6. CASE Return \/ UNCHANGED vars
  <2>1. UNCHANGED <<adj_list, src, known, distance, predecessor, queue, forwardingTable, back>>
    BY <1>6 DEF Return, search, vars
  <2>2. WalkedBack' /\ HopsFound'
    BY <2>1 DEF RoutesInv, WalkedBack, HopsFound, IsFirstHop, RouteGoesOn, Neighbors
  <2>3. ResultLast'
    BY <1>6, <2>1 DEF RoutesInv, ResultLast, Return, vars
  <2> QED BY <1>1, <2>2, <2>3 DEF RoutesInv
<1> QED BY <1>1, <1>2, <1>3, <1>4, <1>5, <1>6 DEF RoutesInv, Next

\* The search and the walks back keep to the shortest walks of the graph.
LEMMA RoutesInvariance == Spec => []RoutesInv
<1> QED BY InitRoutesInv, NextRoutesInv, PTL DEF Spec

\* The table returned is one of shortest routes.
LEMMA ResultFacts ==
  ASSUME RoutesInv, Return
  PROVE  LeadsAlong(adj_list, Vertices, src, result') /\ src \in DOMAIN result'
<1> DEFINE S == ShortestWalks(adj_list)
           reached == {v \in Vertices : distance[v] # INT_MAX}
<1>1. /\ queue = {} /\ DOMAIN forwardingTable = Vertices
      /\ result' = [t \in reached |->
                      [cost |-> distance[t], next_hop |-> forwardingTable[t]]]
  BY DEF Return
<1>2. /\ distance \in [Vertices -> Nat] /\ distance[src] = 0 /\ src \in reached
  BY DEF RoutesInv, IInv, TypeOK, INT_MAX
<1>3. \A t \in Vertices : \A c \in Nat :
        <<src, t, c>> \in S <=> distance[t] # INT_MAX /\ distance[t] = c
  BY <1>1, DistancesAreShortest DEF RoutesInv
<1> HIDE DEF S
<1>4. DOMAIN result' = {t \in Vertices : \E c \in Nat : <<src, t, c>> \in S}
  <2>1. DOMAIN result' = reached
    BY <1>1
  <2>2. \A t \in Vertices : t \in reached <=> \E c \in Nat : <<src, t, c>> \in S
    BY <1>2, <1>3
  <2> QED BY <2>1, <2>2
<1>5. \A t \in Vertices : IsFirstHop(t, forwardingTable[t])
  BY <1>1 DEF RoutesInv, HopsFound
<1>6. \A t \in reached : result'[t].cost = distance[t] /\ result'[t].next_hop = forwardingTable[t]
  BY <1>1
<1>7. result'[src] = [cost |-> 0, next_hop |-> src]
  BY <1>1, <1>2, <1>5 DEF IsFirstHop
<1>8. ASSUME NEW t \in reached \ {src}, NEW hop, hop = forwardingTable[t]
      PROVE  /\ distance[t] \in Nat /\ <<src, t, distance[t]>> \in S
             /\ hop \in DOMAIN adj_list[src]
             /\ \E c \in Nat : <<hop, t, c>> \in S /\ adj_list[src][hop] + c = distance[t]
  BY <1>2, <1>3, <1>5, <1>8 DEF IsFirstHop, RouteGoesOn, Neighbors, S
<1>9. src \in DOMAIN result' /\ DOMAIN result' = reached
  BY <1>1, <1>2
<1> HIDE DEF reached
<1> QED BY <1>4, <1>6, <1>7, <1>8, <1>9 DEF LeadsAlong, S

\* The operators of RouteTable are those of Graph.
LEMMA SameWalks ==
  /\ \A adj : Routes!ShortestWalks(adj) = ShortestWalks(adj)
  /\ \A S, u : Routes!Reachable(S, u) = Reachable(S, u)
  /\ \A S, u, t : Routes!Distance(S, u, t) = Distance(S, u, t)
<1>1. \A adj, W : Routes!NextRound(adj, W) = NextRound(adj, W)
  BY DEF Routes!NextRound, Routes!Shortest, Routes!Further, NextRound, Shortest, Further
<1>2. \A adj : Routes!Rounds(adj) = Rounds(adj)
  BY <1>1 DEF Routes!Rounds, Rounds
<1>3. \A S : Routes!Cardinality(S) = Cardinality(S)
  BY DEF Routes!Cardinality, Cardinality
<1>4. \A adj : Routes!ShortestWalks(adj) = ShortestWalks(adj)
  BY <1>2, <1>3 DEF Routes!ShortestWalks, ShortestWalks
<1> QED BY <1>4 DEF Routes!Reachable, Reachable, Routes!Distance, Distance

LEMMA RouteTableOf ==
  ASSUME NEW adj, IsFiniteGraph(adj, Vertices), NEW s \in Vertices,
         NEW table, LeadsAlong(adj, Vertices, s, table)
  PROVE  Routes!IsRouteTable(adj, s, table)
BY RouteTableFacts, SameWalks DEF Routes!IsRouteTable

\* construct_fte() returns, once, a table with an entry for every node that can be
\* reached and for no other, of the cost of a shortest route and a first hop of one:
\* Dijkstra's algorithm with outdated items, and the walks back along the
\* predecessors, implement what RouteTable promises.
THEOREM ShortestRoutes == Spec => ImplementsRouteTable
<1>1. Init => Routes!Init
  <2>1. Init => /\ IsGraph(adj_list, Vertices) /\ src \in Vertices /\ result = <<>>
    BY GraphsAssumption DEF Init
  <2> QED BY <2>1 DEF Routes!Init, IsGraph, Routes!IsGraph
<1>2. RoutesInv /\ [Next]_vars => [Routes!Deliver]_(Routes!vars)
  <2> SUFFICES ASSUME RoutesInv, [Next]_vars
               PROVE  [Routes!Deliver]_(Routes!vars)
    OBVIOUS
  <2>1. CASE Return
    <3>1. result = <<>> /\ UNCHANGED <<adj_list, src>>
      BY <2>1 DEF Return
    <3>2. LeadsAlong(adj_list, Vertices, src, result') /\ src \in DOMAIN result'
      BY <2>1, ResultFacts
    <3>3. src \in Vertices /\ IsFiniteGraph(adj_list, Vertices)
      BY FiniteGraph DEF RoutesInv, IInv
    <3>4. Routes!IsRouteTable(adj_list, src, result')
      BY <3>2, <3>3, RouteTableOf
    <3>5. result' # <<>>
      BY <3>2
    <3> QED BY <3>1, <3>4, <3>5 DEF Routes!Deliver
  <2>2. CASE UNCHANGED <<adj_list, src, result>>
    BY <2>2 DEF Routes!vars
  <2> QED BY <2>1, <2>2 DEF Next, Skip, Settle, StartWalk, StepBack, EndWalk, search, vars
<1> QED BY <1>1, <1>2, RoutesInvariance, PTL DEF Spec, ImplementsRouteTable, Routes!Spec

==============================================================================
