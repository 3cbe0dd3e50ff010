---------------------------- MODULE DistVec_proofs ----------------------------
(***************************************************************************)
(* Proofs about DistVec, for every set of nodes and every graph over them  *)
(* with costs of at least zero: in every state of the relaxation entries   *)
(* are backed by the neighbours they lead to and no notification is lost,  *)
(* so that the tables it ends with satisfy the shortest route equation     *)
(* with the lowest next hops; no entry ever costs less than a shortest     *)
(* walk, so that these tables are those of the shortest walks.             *)
(***************************************************************************)
EXTENDS DistVec, Graph_proofs

\* The inductive invariant.
IInv == TypeOK /\ RoutesBacked /\ SettledUnlessQueued

------------------------------------------------------------------------------
\* The choice among candidates is one of them, and none is better.
LEMMA BestOfAll ==
  ASSUME NEW C, C # {}, \A e \in C : e.cost \in Nat /\ e.next_hop \in Nat
  PROVE  Best(C) \in C /\ \A f \in C : ~Better(f, Best(C))
<1>1. PICK m \in {e.cost : e \in C} : \A x \in {e.cost : e \in C} : m <= x
  <2> DEFINE S == {e.cost : e \in C}
  <2>1. S \in SUBSET Nat /\ S # {}
    OBVIOUS
  <2> HIDE DEF S
  <2>2. \E k \in S : \A x \in S : k <= x
    BY <2>1, NatMin
  <2> QED BY <2>2 DEF S
<1> DEFINE T == {e \in C : e.cost = m}
<1>2. PICK h \in {e.next_hop : e \in T} : \A x \in {e.next_hop : e \in T} : h <= x
  <2> DEFINE S == {e.next_hop : e \in T}
  <2>1. S \in SUBSET Nat /\ S # {}
    BY <1>1
  <2> HIDE DEF S
  <2>2. \E k \in S : \A x \in S : k <= x
    BY <2>1, NatMin
  <2> QED BY <2>2 DEF S
<1>3. PICK e \in C : e.cost = m /\ e.next_hop = h
  BY <1>2
<1>4. \A f \in C : m <= f.cost /\ (f.cost = m => h <= f.next_hop)
  BY <1>1, <1>2
<1>5. \A f \in C : ~Better(f, e)
  BY <1>3, <1>4 DEF Better
<1> DEFINE P(x) == \A f \in C : ~Better(f, x)
<1>6. \E x \in C : P(x)
  BY <1>3, <1>5
<1> HIDE DEF P
<1>7. (CHOOSE x \in C : P(x)) \in C /\ P(CHOOSE x \in C : P(x))
  BY <1>6
<1> QED BY <1>7 DEF P, Best

------------------------------------------------------------------------------
\* What the graph and the tables give to a relaxation.
LEMMA GraphFacts ==
  ASSUME TypeOK, NEW u \in Vertices
  PROVE  /\ Neighbors(u) \subseteq Vertices /\ u \notin Neighbors(u)
         /\ \A n \in Neighbors(u) : adj_list[u][n] \in Nat /\ u \in Neighbors(n)
         /\ u \in Nat
BY VerticesAssumption DEF TypeOK, IsGraph, Neighbors

LEMMA EntryFacts ==
  ASSUME TypeOK, NEW u \in Vertices, NEW t \in DOMAIN distanceTables[u]
  PROVE  /\ t \in Vertices
         /\ distanceTables[u][t] \in [cost : Nat, next_hop : Vertices]
         /\ distanceTables[u][t].cost \in Nat
         /\ distanceTables[u][t].next_hop \in Nat
BY VerticesAssumption DEF TypeOK

\* The candidates for a route are entries: the own one and the offers, no other.
LEMMA CandidateFacts ==
  ASSUME TypeOK, NEW u \in Vertices, NEW t
  PROVE  /\ \A e \in Candidates(u, t) : e \in [cost : Nat, next_hop : Vertices]
         /\ Has(u, t) => distanceTables[u][t] \in Candidates(u, t)
         /\ \A n \in Neighbors(u) : Has(n, t) => Offer(u, n, t) \in Candidates(u, t)
         /\ \A e \in Candidates(u, t) :
              \/ Has(u, t) /\ e = distanceTables[u][t]
              \/ \E n \in Neighbors(u) : Has(n, t) /\ e = Offer(u, n, t)
<1>1. \A n \in Neighbors(u) : Has(n, t) => Offer(u, n, t) \in [cost : Nat, next_hop : Vertices]
  <2> SUFFICES ASSUME NEW n \in Neighbors(u), Has(n, t)
               PROVE  Offer(u, n, t) \in [cost : Nat, next_hop : Vertices]
    OBVIOUS
  <2>1. n \in Vertices /\ adj_list[u][n] \in Nat
    BY GraphFacts
  <2>2. distanceTables[n][t].cost \in Nat
    BY <2>1, EntryFacts DEF Has
  <2> QED BY <2>1, <2>2 DEF Offer, Entry
<1>2. Has(u, t) => distanceTables[u][t] \in [cost : Nat, next_hop : Vertices]
  BY EntryFacts DEF Has
<1> QED BY <1>1, <1>2 DEF Candidates

\* A relaxed table: it has every entry that the node or a neighbour had, at no
\* more than it cost, each backed by a neighbour; and no offer is better.
LEMMA RelaxedFacts ==
  ASSUME TypeOK, RoutesBacked, NEW u \in Vertices
  PROVE  /\ DOMAIN Relaxed(u) \subseteq Vertices
         /\ u \in DOMAIN Relaxed(u) /\ Relaxed(u)[u] = Entry(0, u)
         /\ \A t \in DOMAIN Relaxed(u) :
              Relaxed(u)[t] \in [cost : Nat, next_hop : Vertices]
         /\ \A t \in DOMAIN distanceTables[u] :
              /\ t \in DOMAIN Relaxed(u)
              /\ Relaxed(u)[t].cost <= distanceTables[u][t].cost
         /\ \A t \in DOMAIN Relaxed(u) \ {u} : \A n : n = Relaxed(u)[t].next_hop =>
              /\ n \in Neighbors(u) /\ Has(n, t)
              /\ adj_list[u][n] + distanceTables[n][t].cost <= Relaxed(u)[t].cost
         /\ \A n \in Neighbors(u) : \A t \in DOMAIN distanceTables[n] \ {u} :
              /\ t \in DOMAIN Relaxed(u)
              /\ ~Better(Offer(u, n, t), Relaxed(u)[t])
<1>1. /\ Has(u, u) /\ distanceTables[u][u] = Entry(0, u)
      /\ Candidates(u, u) # {}
  BY CandidateFacts DEF RoutesBacked
<1>2. /\ DOMAIN Relaxed(u) = {x \in Vertices : Candidates(u, x) # {}}
      /\ Relaxed(u)[u] = Entry(0, u)
      /\ \A t \in DOMAIN Relaxed(u) \ {u} : Relaxed(u)[t] = Best(Candidates(u, t))
  BY <1>1 DEF Relaxed
<1>3. ASSUME NEW t \in DOMAIN Relaxed(u) \ {u}
      PROVE  /\ Relaxed(u)[t] \in Candidates(u, t)
             /\ \A f \in Candidates(u, t) : ~Better(f, Relaxed(u)[t])
  <2>1. Candidates(u, t) # {}
    BY <1>2
  <2>2. \A e \in Candidates(u, t) : e.cost \in Nat /\ e.next_hop \in Nat
    <3> SUFFICES ASSUME NEW e \in Candidates(u, t)
                 PROVE  e.cost \in Nat /\ e.next_hop \in Nat
      OBVIOUS
    <3>1. e \in [cost : Nat, next_hop : Vertices]
      BY CandidateFacts
    <3> QED BY <3>1, VerticesAssumption
  <2>3. Relaxed(u)[t] = Best(Candidates(u, t))
    BY <1>2
  <2> QED BY <2>1, <2>2, <2>3, BestOfAll
<1>4. \A t \in DOMAIN Relaxed(u) : Relaxed(u)[t] \in [cost : Nat, next_hop : Vertices]
  <2> SUFFICES ASSUME NEW t \in DOMAIN Relaxed(u)
               PROVE  Relaxed(u)[t] \in [cost : Nat, next_hop : Vertices]
    OBVIOUS
  <2>1. CASE t = u
    BY <1>2, <2>1 DEF Entry
  <2>2. CASE t # u
    BY <1>3, <2>2, CandidateFacts
  <2> QED BY <2>1, <2>2
<1>5. ASSUME NEW t \in DOMAIN distanceTables[u]
      PROVE  /\ t \in DOMAIN Relaxed(u)
             /\ Relaxed(u)[t].cost <= distanceTables[u][t].cost
  <2>1. t \in Vertices /\ distanceTables[u][t].cost \in Nat
    BY EntryFacts
  <2>2. distanceTables[u][t] \in Candidates(u, t)
    BY CandidateFacts DEF Has
  <2>3. t \in DOMAIN Relaxed(u)
    BY <1>2, <2>1, <2>2
  <2>4. CASE t = u
    BY <1>1, <1>2, <2>3, <2>4 DEF Entry
  <2>5. CASE t # u
    <3>1. ~Better(distanceTables[u][t], Relaxed(u)[t])
      BY <1>3, <2>2, <2>3, <2>5
    <3>2. Relaxed(u)[t].cost \in Nat
      BY <1>4, <2>3
    <3> QED BY <2>1, <2>3, <3>1, <3>2 DEF Better
  <2> QED BY <2>4, <2>5
<1>6. ASSUME NEW t \in DOMAIN Relaxed(u) \ {u}, NEW h, h = Relaxed(u)[t].next_hop
      PROVE  /\ h \in Neighbors(u) /\ Has(h, t)
             /\ adj_list[u][h] + distanceTables[h][t].cost <= Relaxed(u)[t].cost
  <2>1. \/ Has(u, t) /\ Relaxed(u)[t] = distanceTables[u][t]
        \/ \E n \in Neighbors(u) : Has(n, t) /\ Relaxed(u)[t] = Offer(u, n, t)
    BY <1>3, CandidateFacts
  <2>2. CASE Has(u, t) /\ Relaxed(u)[t] = distanceTables[u][t]
    BY <1>6, <2>2 DEF RoutesBacked, Has
  <2>3. CASE \E n \in Neighbors(u) : Has(n, t) /\ Relaxed(u)[t] = Offer(u, n, t)
    <3>1. PICK n \in Neighbors(u) : Has(n, t) /\ Relaxed(u)[t] = Offer(u, n, t)
      BY <2>3
    <3>2. /\ Relaxed(u)[t].next_hop = n
          /\ Relaxed(u)[t].cost = adj_list[u][n] + distanceTables[n][t].cost
      BY <3>1 DEF Offer, Entry
    <3>3. adj_list[u][n] \in Nat /\ distanceTables[n][t].cost \in Nat
      BY <3>1, GraphFacts, EntryFacts DEF Has
    <3> QED BY <1>6, <3>1, <3>2, <3>3
  <2> QED BY <2>1, <2>2, <2>3
<1>7. ASSUME NEW n \in Neighbors(u), NEW t \in DOMAIN distanceTables[n] \ {u}
      PROVE  t \in DOMAIN Relaxed(u) /\ ~Better(Offer(u, n, t), Relaxed(u)[t])
  <2>1. Offer(u, n, t) \in Candidates(u, t)
    BY CandidateFacts DEF Has
  <2>2. n \in Vertices
    BY GraphFacts
  <2>3. t \in DOMAIN Relaxed(u)
    BY <1>2, <2>1, <2>2, EntryFacts
  <2> QED BY <1>3, <2>1, <2>3
<1> QED BY <1>1, <1>2, <1>4, <1>5, <1>6, <1>7

------------------------------------------------------------------------------
\* The queue: the nodes behind its head stay in it, and those pushed enter it.
Occurs(v, q) == \E i \in DOMAIN q : q[i] = v

LEMMA QueueFacts ==
  ASSUME NEW q \in Seq(Vertices), q # <<>>, NEW p \in Seq(Vertices), NEW v
  PROVE  /\ Tail(q) \o p \in Seq(Vertices)
         /\ Occurs(v, q) /\ v # Head(q) => Occurs(v, Tail(q) \o p)
         /\ Occurs(v, p) => Occurs(v, Tail(q) \o p)
<1>1. /\ Head(q) \in Vertices /\ Tail(q) \in Seq(Vertices)
      /\ Len(Tail(q)) = Len(q) - 1
      /\ \A i \in 1 .. Len(q) - 1 : Tail(q)[i] = q[i + 1]
      /\ Len(q) \in Nat /\ Len(q) > 0
  OBVIOUS
<1>2. /\ Tail(q) \o p \in Seq(Vertices)
      /\ Len(Tail(q) \o p) = Len(q) - 1 + Len(p)
      /\ \A i \in 1 .. Len(q) - 1 : (Tail(q) \o p)[i] = Tail(q)[i]
      /\ \A i \in 1 .. Len(p) : (Tail(q) \o p)[Len(q) - 1 + i] = p[i]
      /\ Len(p) \in Nat
  BY <1>1
<1> DEFINE r == Tail(q) \o p
<1>3. DOMAIN r = 1 .. Len(q) - 1 + Len(p) /\ DOMAIN q = 1 .. Len(q) /\ DOMAIN p = 1 .. Len(p)
  BY <1>2
<1>4. ASSUME NEW i \in DOMAIN q, q[i] = v, v # Head(q)
      PROVE  \E j \in DOMAIN r : r[j] = v
  <2>1. i \in 1 .. Len(q) /\ i # 1
    BY <1>3, <1>4
  <2>2. i - 1 \in 1 .. Len(q) - 1 /\ q[(i - 1) + 1] = v
    BY <1>1, <1>4, <2>1
  <2>3. i - 1 \in DOMAIN r
    BY <1>1, <1>2, <1>3, <2>2
  <2>4. r[i - 1] = v
    BY <1>1, <1>2, <2>2
  <2> QED BY <2>3, <2>4
<1>5. ASSUME NEW i \in DOMAIN p, p[i] = v
      PROVE  \E j \in DOMAIN r : r[j] = v
  <2>1. Len(q) - 1 + i \in DOMAIN r
    BY <1>1, <1>2, <1>3
  <2>2. r[Len(q) - 1 + i] = v
    BY <1>2, <1>3, <1>5
  <2> QED BY <2>1, <2>2
<1> QED BY <1>2, <1>4, <1>5 DEF Occurs

\* An ascending traversal of a set of nodes visits all of them.
LEMMA InOrderFacts ==
  ASSUME NEW S \in SUBSET Vertices, NEW p \in InOrder(S)
  PROVE  p \in Seq(Vertices) /\ \A x \in S : Occurs(x, p)
<1>1. Cardinality(S) \in Nat
  BY VerticesAssumption, FS_Subset, FS_CardinalityType
<1>2. p \in [1 .. Cardinality(S) -> S]
  BY DEF InOrder
<1>3. p \in Seq(S)
  BY <1>1, <1>2
<1> QED BY <1>3 DEF InOrder, Occurs

------------------------------------------------------------------------------
LEMMA InitIInv == Init => IInv
<1> SUFFICES ASSUME Init PROVE IInv
  OBVIOUS
<1>1. IsGraph(adj_list, Vertices) /\ src \in Vertices /\ result = <<>>
  BY GraphsAssumption DEF Init
<1>2. \A u \in Vertices : /\ Neighbors(u) \subseteq Vertices \ {u}
                          /\ \A n \in Neighbors(u) : adj_list[u][n] \in Nat
  BY <1>1 DEF IsGraph, Neighbors
<1>3. nodesToUpdate \in Seq(Vertices) /\ \A u \in Vertices : Queued(u)
  BY InOrderFacts DEF Init, Queued, Occurs
<1>4. /\ DOMAIN distanceTables = Vertices
      /\ \A u \in Vertices :
           /\ DOMAIN distanceTables[u] = Neighbors(u) \cup {u}
           /\ distanceTables[u][u] = Entry(0, u)
           /\ \A t \in Neighbors(u) : distanceTables[u][t] = Entry(adj_list[u][t], t)
  BY <1>2 DEF Init, FirstTable
<1>5. TypeOK
  <2>1. ASSUME NEW u \in Vertices, NEW t \in DOMAIN distanceTables[u]
        PROVE  distanceTables[u][t] \in [cost : Nat, next_hop : Vertices]
    <3>1. CASE t = u
      <4>1. distanceTables[u][t] = Entry(0, u)
        BY <1>4, <3>1
      <4> QED BY <4>1 DEF Entry
    <3>2. CASE t \in Neighbors(u)
      <4>1. distanceTables[u][t] = Entry(adj_list[u][t], t)
        BY <1>4, <3>2
      <4>2. adj_list[u][t] \in Nat /\ t \in Vertices
        BY <1>2, <3>2
      <4> QED BY <4>1, <4>2 DEF Entry
    <3> QED BY <1>4, <3>1, <3>2
  <2>2. \A u \in Vertices : DOMAIN distanceTables[u] \subseteq Vertices
    BY <1>2, <1>4
  <2> QED BY <1>1, <1>3, <1>4, <2>1, <2>2 DEF TypeOK
<1>6. RoutesBacked
  <2> SUFFICES ASSUME NEW u \in Vertices, NEW t \in Neighbors(u)
               PROVE  LET n == distanceTables[u][t].next_hop IN
                      /\ n \in Neighbors(u) /\ Has(n, t)
                      /\ adj_list[u][n] + distanceTables[n][t].cost
                           <= distanceTables[u][t].cost
    BY <1>4 DEF RoutesBacked, Has
  <2>1. t \in Vertices /\ adj_list[u][t] \in Nat
    BY <1>2
  <2>2. distanceTables[u][t] = Entry(adj_list[u][t], t)
    BY <1>4
  <2>3. t \in DOMAIN distanceTables[t] /\ distanceTables[t][t] = Entry(0, t)
    BY <1>4, <2>1
  <2> QED BY <2>1, <2>2, <2>3 DEF Has, Entry
<1>7. SettledUnlessQueued
  BY <1>3 DEF SettledUnlessQueued
<1> QED BY <1>5, <1>6, <1>7 DEF IInv

\* The relaxation of one node.
LEMMA UpdateStep ==
  ASSUME IInv, Update
  PROVE  IInv'
<1>pick. PICK u, T :
            /\ u = Head(nodesToUpdate)
            /\ T = Relaxed(u)
            /\ distanceTables' = [distanceTables EXCEPT ![u] = T]
            /\ \E p \in InOrder(Notified(u)) :
                 nodesToUpdate' = Tail(nodesToUpdate) \o p
  BY DEF Update
<1>1. TypeOK /\ RoutesBacked /\ SettledUnlessQueued
  BY DEF IInv
<1>2. /\ nodesToUpdate \in Seq(Vertices) /\ nodesToUpdate # <<>>
      /\ u \in Vertices
  BY <1>1, <1>pick DEF TypeOK, Update
<1>3. /\ UNCHANGED <<adj_list, src, result>>
      /\ distanceTables' = [distanceTables EXCEPT ![u] = T]
  BY <1>pick DEF Update
<1>head. u = Head(nodesToUpdate)
  BY <1>pick
<1>relaxed. /\ DOMAIN T \subseteq Vertices
            /\ u \in DOMAIN T /\ T[u] = Entry(0, u)
            /\ \A t \in DOMAIN T : T[t] \in [cost : Nat, next_hop : Vertices]
            /\ \A t \in DOMAIN distanceTables[u] :
                 t \in DOMAIN T /\ T[t].cost <= distanceTables[u][t].cost
  BY <1>1, <1>2, <1>pick, RelaxedFacts
<1>backed. \A t \in DOMAIN T \ {u} : \A n : n = T[t].next_hop =>
              /\ n \in Neighbors(u) /\ Has(n, t)
              /\ adj_list[u][n] + distanceTables[n][t].cost <= T[t].cost
  BY <1>1, <1>2, <1>pick, RelaxedFacts
<1>best. \A n \in Neighbors(u) : \A t \in DOMAIN distanceTables[n] \ {u} :
           t \in DOMAIN T /\ ~Better(Offer(u, n, t), T[t])
  BY <1>1, <1>2, <1>pick, RelaxedFacts
<1>4. PICK p \in Seq(Vertices) :
        /\ nodesToUpdate' = Tail(nodesToUpdate) \o p
        /\ T # distanceTables[u] =>
             \A n \in Neighbors(u) : Occurs(n, p)
  <2>1. PICK p \in InOrder(Notified(u)) : nodesToUpdate' = Tail(nodesToUpdate) \o p
    BY <1>pick
  <2>2. Neighbors(u) \in SUBSET Vertices
    BY <1>1, <1>2, GraphFacts
  <2>3. /\ Notified(u) \in SUBSET Vertices
        /\ T # distanceTables[u] => Notified(u) = Neighbors(u)
    BY <1>pick, <2>2 DEF Notified
  <2>4. p \in Seq(Vertices) /\ \A n \in Notified(u) : Occurs(n, p)
    BY <2>1, <2>3, InOrderFacts
  <2> QED BY <2>1, <2>3, <2>4
<1>5. /\ nodesToUpdate' \in Seq(Vertices)
      /\ \A v \in Vertices : ~Queued(v)' /\ v # u => ~Queued(v)
      /\ \A v \in Vertices : ~Queued(v)' /\ T # distanceTables[u] => v \notin Neighbors(u)
  <2> SUFFICES ASSUME NEW v \in Vertices
               PROVE  /\ nodesToUpdate' \in Seq(Vertices)
                      /\ ~Queued(v)' /\ v # u => ~Queued(v)
                      /\ ~Queued(v)' /\ T # distanceTables[u] => v \notin Neighbors(u)
    BY <1>2
  <2>1. /\ Tail(nodesToUpdate) \o p \in Seq(Vertices)
        /\ Occurs(v, nodesToUpdate) /\ v # Head(nodesToUpdate)
             => Occurs(v, Tail(nodesToUpdate) \o p)
        /\ Occurs(v, p) => Occurs(v, Tail(nodesToUpdate) \o p)
    BY <1>2, QueueFacts
  <2>2. Queued(v) <=> Occurs(v, nodesToUpdate)
    BY DEF Queued, Occurs
  <2>3. Queued(v)' <=> Occurs(v, nodesToUpdate')
    BY DEF Queued, Occurs
  <2>4. nodesToUpdate' = Tail(nodesToUpdate) \o p /\ u = Head(nodesToUpdate)
    BY <1>head, <1>4
  <2> QED BY <1>4, <2>1, <2>2, <2>3, <2>4
<1>6. /\ DOMAIN distanceTables = Vertices
      /\ DOMAIN distanceTables' = Vertices
      /\ distanceTables'[u] = T
      /\ \A v \in Vertices \ {u} : distanceTables'[v] = distanceTables[v]
      /\ Neighbors(u) \subseteq Vertices \ {u}
  BY <1>1, <1>2, <1>3, GraphFacts DEF TypeOK
<1>8. TypeOK'
  <2>1. ASSUME NEW v \in Vertices
        PROVE  /\ DOMAIN distanceTables'[v] \subseteq Vertices
               /\ \A t \in DOMAIN distanceTables'[v] :
                    distanceTables'[v][t] \in [cost : Nat, next_hop : Vertices]
    <3>1. CASE v = u
      BY <1>6, <1>relaxed, <3>1
    <3>2. CASE v # u
      BY <1>1, <1>6, <3>2 DEF TypeOK
    <3> QED BY <3>1, <3>2
  <2>2. result = <<>>
    BY <1>1, <1>2 DEF TypeOK
  <2> QED BY <1>1, <1>3, <1>5, <1>6, <2>1, <2>2 DEF TypeOK
<1>9. \A v \in Vertices : Neighbors(v)' = Neighbors(v)
  BY <1>3 DEF Neighbors
<1>10. RoutesBacked'
  <2>1. ASSUME NEW v \in Vertices
        PROVE  /\ v \in DOMAIN distanceTables'[v] /\ distanceTables'[v][v] = Entry(0, v)
               /\ \A t \in DOMAIN distanceTables'[v] \ {v} :
                    LET n == distanceTables'[v][t].next_hop IN
                    /\ n \in Neighbors(v) /\ t \in DOMAIN distanceTables'[n]
                    /\ adj_list[v][n] + distanceTables'[n][t].cost
                         <= distanceTables'[v][t].cost
    <3>1. CASE v = u
      <4>1. distanceTables'[u] = T
        BY <1>6
      <4>2. ASSUME NEW t \in DOMAIN T \ {u}, NEW n, n = T[t].next_hop
            PROVE  /\ n \in Neighbors(u) /\ t \in DOMAIN distanceTables'[n]
                   /\ adj_list[u][n] + distanceTables'[n][t].cost <= T[t].cost
        <5>1. /\ n \in Neighbors(u) /\ Has(n, t)
              /\ adj_list[u][n] + distanceTables[n][t].cost <= T[t].cost
          BY <1>backed, <4>2
        <5>2. distanceTables'[n] = distanceTables[n]
          BY <1>6, <5>1
        <5> QED BY <5>1, <5>2 DEF Has
      <4>3. u \in DOMAIN T /\ T[u] = Entry(0, u)
        BY <1>relaxed
      <4> QED BY <3>1, <4>1, <4>2, <4>3
    <3>2. CASE v # u
      <4>1. distanceTables'[v] = distanceTables[v]
        BY <1>6, <3>2
      <4>2. v \in DOMAIN distanceTables[v] /\ distanceTables[v][v] = Entry(0, v)
        BY <1>1 DEF RoutesBacked, Has
      <4>3. ASSUME NEW t \in DOMAIN distanceTables[v] \ {v}, NEW n,
                   n = distanceTables[v][t].next_hop
            PROVE  /\ n \in Neighbors(v) /\ t \in DOMAIN distanceTables'[n]
                   /\ adj_list[v][n] + distanceTables'[n][t].cost
                        <= distanceTables[v][t].cost
        <5>1. /\ n \in Neighbors(v) /\ t \in DOMAIN distanceTables[n]
              /\ adj_list[v][n] + distanceTables[n][t].cost <= distanceTables[v][t].cost
          BY <1>1, <4>3 DEF RoutesBacked, Has
        <5>2. n \in Vertices /\ adj_list[v][n] \in Nat
          BY <1>1, <5>1, GraphFacts
        <5>3. distanceTables[n][t].cost \in Nat /\ distanceTables[v][t].cost \in Nat
          BY <1>1, <5>1, <5>2, EntryFacts
        <5>4. CASE n # u
          BY <1>6, <5>1, <5>2, <5>4
        <5>5. CASE n = u
          <6>1. t \in DOMAIN T /\ T[t].cost <= distanceTables[n][t].cost
            BY <1>relaxed, <5>1, <5>5
          <6>2. T[t].cost \in Nat
            BY <1>relaxed, <6>1
          <6>3. distanceTables'[n] = T
            BY <1>6, <5>5
          <6> QED BY <5>1, <5>2, <5>3, <6>1, <6>2, <6>3
        <5> QED BY <5>4, <5>5
      <4> QED BY <4>1, <4>2, <4>3
    <3> QED BY <3>1, <3>2
  <2> QED BY <1>3, <2>1 DEF RoutesBacked, Has, Entry, Neighbors
<1>11. SettledUnlessQueued'
  <2>1. ASSUME NEW v \in Vertices, ~Queued(v)',
               NEW n \in Neighbors(v), NEW t \in DOMAIN distanceTables'[n] \ {v}
        PROVE  /\ t \in DOMAIN distanceTables'[v]
               /\ ~Better(Entry(adj_list[v][n] + distanceTables'[n][t].cost, n),
                          distanceTables'[v][t])
    <3>1. n \in Vertices /\ n # v /\ v \in Neighbors(n)
      BY <1>1, GraphFacts
    <3>2. CASE v = u
      <4>1. distanceTables'[n] = distanceTables[n] /\ distanceTables'[v] = T
        BY <1>6, <3>1, <3>2
      <4>2. n \in Neighbors(u) /\ t \in DOMAIN distanceTables[n] \ {u}
        BY <2>1, <3>2, <4>1
      <4>3. t \in DOMAIN T /\ ~Better(Offer(u, n, t), T[t])
        BY <1>best, <4>2
      <4>4. Entry(adj_list[v][n] + distanceTables'[n][t].cost, n) = Offer(u, n, t)
        BY <3>2, <4>1 DEF Offer
      <4> QED BY <3>2, <4>1, <4>3, <4>4
    <3>3. CASE v # u
      <4>1. ~Queued(v) /\ distanceTables'[v] = distanceTables[v]
        BY <1>5, <1>6, <2>1, <3>3
      <4>2. distanceTables'[n] = distanceTables[n]
        <5>1. CASE T = distanceTables[u]
          BY <1>6, <3>1, <5>1
        <5>2. CASE T # distanceTables[u]
          BY <1>5, <1>6, <2>1, <3>1, <5>2
        <5> QED BY <5>1, <5>2
      <4> QED BY <1>1, <2>1, <4>1, <4>2 DEF SettledUnlessQueued, Has, Offer
    <3> QED BY <3>2, <3>3
  <2> QED BY <1>3, <1>9, <2>1 DEF SettledUnlessQueued, Has, Offer, Entry, Better
<1> QED BY <1>8, <1>10, <1>11 DEF IInv

LEMMA StepIInv == IInv /\ [Next]_vars => IInv'
<1> SUFFICES ASSUME IInv, [Next]_vars PROVE IInv'
  OBVIOUS
<1>1. CASE Update
  BY <1>1, UpdateStep
<1>2. CASE Return
  <2>1. /\ UNCHANGED <<adj_list, src, distanceTables, nodesToUpdate>>
        /\ nodesToUpdate = <<>> /\ result' = distanceTables[src]
    BY <1>2 DEF Return, Settled
  <2>2. TypeOK'
    BY <2>1 DEF IInv, TypeOK
  <2>3. RoutesBacked'
    BY <2>1 DEF IInv, RoutesBacked, Has, Neighbors, Entry
  <2>4. SettledUnlessQueued'
    BY <2>1 DEF IInv, SettledUnlessQueued, Queued, Has, Neighbors, Offer, Entry, Better
  <2> QED BY <2>2, <2>3, <2>4 DEF IInv
<1>3. CASE UNCHANGED vars
  <2>1. TypeOK'
    BY <1>3 DEF IInv, TypeOK, vars
  <2>2. RoutesBacked'
    BY <1>3 DEF IInv, RoutesBacked, Has, Neighbors, Entry, vars
  <2>3. SettledUnlessQueued'
    BY <1>3 DEF IInv, SettledUnlessQueued, Queued, Has, Neighbors, Offer, Entry, Better, vars
  <2> QED BY <2>1, <2>2, <2>3 DEF IInv
<1> QED BY <1>1, <1>2, <1>3 DEF Next

\* Strictly positive link costs make the next hop of every route strictly closer.
LEMMA DescentFacts == IInv => HopsDescend
<1> SUFFICES ASSUME IInv, PositiveCosts(adj_list), NEW u \in Vertices,
                    NEW t \in DOMAIN distanceTables[u] \ {u},
                    NEW n, n = distanceTables[u][t].next_hop
             PROVE  Has(n, t) /\ distanceTables[n][t].cost < distanceTables[u][t].cost
  BY DEF HopsDescend
<1>1. TypeOK /\ RoutesBacked
  BY DEF IInv
<1>2. /\ n \in Neighbors(u) /\ Has(n, t)
      /\ adj_list[u][n] + distanceTables[n][t].cost <= distanceTables[u][t].cost
  BY <1>1 DEF RoutesBacked
<1>3. n \in Vertices /\ adj_list[u][n] \in Nat
  BY <1>1, <1>2, GraphFacts
<1>4. distanceTables[n][t].cost \in Nat /\ distanceTables[u][t].cost \in Nat
  BY <1>1, <1>2, <1>3, EntryFacts DEF Has
<1>5. adj_list[u][n] > 0
  BY <1>1, <1>2 DEF PositiveCosts, Neighbors, TypeOK, IsGraph
<1> QED BY <1>2, <1>3, <1>4, <1>5

\* With nobody left to notify, every entry is exactly what its hop offers, and none
\* of the other offers is better.
LEMMA SettledFacts == IInv => Converged
<1> SUFFICES ASSUME IInv, nodesToUpdate = <<>>, NEW u \in Vertices,
                    NEW t \in DOMAIN distanceTables[u] \ {u},
                    NEW e, e = distanceTables[u][t]
             PROVE  /\ e = Offer(u, e.next_hop, t)
                    /\ \A n \in Neighbors(u) :
                         Has(n, t) => /\ e.cost <= Offer(u, n, t).cost
                                      /\ e.cost = Offer(u, n, t).cost => e.next_hop <= n
  BY DEF Converged
<1>1. TypeOK /\ RoutesBacked /\ SettledUnlessQueued
  BY DEF IInv
<1>2. ~Queued(u)
  BY DEF Queued
<1>3. e \in [cost : Nat, next_hop : Vertices] /\ e.cost \in Nat /\ e.next_hop \in Nat
  BY <1>1, EntryFacts
<1>4. ASSUME NEW n \in Neighbors(u), Has(n, t)
      PROVE  /\ Offer(u, n, t).cost = adj_list[u][n] + distanceTables[n][t].cost
             /\ Offer(u, n, t).next_hop = n
             /\ Offer(u, n, t).cost \in Nat /\ n \in Nat
             /\ e.cost <= Offer(u, n, t).cost
             /\ e.cost = Offer(u, n, t).cost => e.next_hop <= n
  <2>1. n \in Vertices /\ n \in Nat /\ adj_list[u][n] \in Nat
    BY <1>1, GraphFacts, VerticesAssumption
  <2>2. distanceTables[n][t].cost \in Nat
    BY <1>1, <1>4, <2>1, EntryFacts DEF Has
  <2>3. /\ Offer(u, n, t).cost = adj_list[u][n] + distanceTables[n][t].cost
        /\ Offer(u, n, t).next_hop = n
    BY DEF Offer, Entry
  <2>4. ~Better(Offer(u, n, t), e)
    BY <1>1, <1>2, <1>4 DEF SettledUnlessQueued, Has
  <2>5. Offer(u, n, t).cost \in Nat
    BY <2>1, <2>2, <2>3
  <2>6. /\ ~ (Offer(u, n, t).cost < e.cost)
        /\ ~ (Offer(u, n, t).cost = e.cost /\ n < e.next_hop)
    BY <2>3, <2>4 DEF Better
  <2> QED BY <1>3, <2>1, <2>3, <2>5, <2>6
<1>5. /\ e.next_hop \in Neighbors(u) /\ Has(e.next_hop, t)
      /\ adj_list[u][e.next_hop] + distanceTables[e.next_hop][t].cost <= e.cost
  BY <1>1 DEF RoutesBacked
<1>6. Offer(u, e.next_hop, t).cost = e.cost
  <2>1. /\ Offer(u, e.next_hop, t).cost
             = adj_list[u][e.next_hop] + distanceTables[e.next_hop][t].cost
        /\ Offer(u, e.next_hop, t).cost \in Nat
        /\ e.cost <= Offer(u, e.next_hop, t).cost
    BY <1>4, <1>5
  <2> QED BY <1>3, <1>5, <2>1
<1>7. e = [cost |-> e.cost, next_hop |-> e.next_hop]
  BY <1>3
<1>8. Offer(u, e.next_hop, t) = [cost |-> Offer(u, e.next_hop, t).cost, next_hop |-> e.next_hop]
  BY DEF Offer, Entry
<1> QED BY <1>4, <1>6, <1>7, <1>8

------------------------------------------------------------------------------
\* Every state of construct_fte() satisfies the invariant.
THEOREM Invariance == Spec => []IInv
<1> QED BY InitIInv, StepIInv, PTL DEF Spec

\* The tables hold routes with costs of at least zero and hops that are nodes, and
\* only the final table is returned.
THEOREM TypeCorrect == Spec => []TypeOK
<1>1. IInv => TypeOK
  BY DEF IInv
<1> QED BY <1>1, Invariance, PTL

\* Every route is backed by the neighbour it leads to: no entry is ever cheaper
\* than what its hop can deliver.
THEOREM RoutesAlwaysBacked == Spec => []RoutesBacked
<1>1. IInv => RoutesBacked
  BY DEF IInv
<1> QED BY <1>1, Invariance, PTL

\* With positive costs the next hop is always strictly closer to the target, so no
\* intermediate set of tables holds a forwarding loop.
THEOREM LoopFree == Spec => []HopsDescend
<1> QED BY DescentFacts, Invariance, PTL

\* A node whose neighbour knows something better is always in the queue.
THEOREM NotificationsKept == Spec => []SettledUnlessQueued
<1>1. IInv => SettledUnlessQueued
  BY DEF IInv
<1> QED BY <1>1, Invariance, PTL

\* The tables that construct_fte() ends with solve the shortest route equation,
\* and take the lowest next hop among the equally good ones.
THEOREM ConvergedTables == Spec => []Converged
<1> QED BY SettledFacts, Invariance, PTL

------------------------------------------------------------------------------
(***************************************************************************)
(* The shortest walks of the graph, and the tables.                        *)
(***************************************************************************)
\* No entry promises more than the graph has: there is a walk to the target that
\* costs no more.
NotTooCheap ==
  \A u \in Vertices : \A t \in DOMAIN distanceTables[u] :
    \E c \in Nat : /\ c <= distanceTables[u][t].cost
                   /\ <<u, t, c>> \in ShortestWalks(adj_list)

LEMMA FiniteGraph == TypeOK => IsFiniteGraph(adj_list, Vertices)
BY VerticesAssumption DEF TypeOK, IsFiniteGraph

LEMMA InitNotTooCheap == Init => NotTooCheap
<1> SUFFICES ASSUME Init, NEW u \in Vertices, NEW t \in Neighbors(u) \cup {u}
             PROVE  \E c \in Nat : /\ c <= distanceTables[u][t].cost
                                   /\ <<u, t, c>> \in ShortestWalks(adj_list)
  BY DEF NotTooCheap, Init, FirstTable
<1> DEFINE S == ShortestWalks(adj_list)
<1>1. TypeOK
  BY InitIInv DEF IInv
<1>2. HasSelves(S, Vertices) /\ HasLongerOrLess(S, adj_list, Vertices)
  BY <1>1, FiniteGraph, WalkFacts
<1> HIDE DEF S
<1>3. distanceTables[u][t] = IF t = u THEN Entry(0, u) ELSE Entry(adj_list[u][t], t)
  BY DEF Init, FirstTable
<1>4. CASE t = u
  <2>1. distanceTables[u][t].cost = 0 /\ <<u, t, 0>> \in S /\ 0 <= 0
    BY <1>2, <1>3, <1>4 DEF Entry, HasSelves
  <2> QED BY <2>1 DEF S
<1>5. CASE t # u
  <2>1. /\ t \in Neighbors(u) /\ t \in Vertices /\ adj_list[u][t] \in Nat
        /\ distanceTables[u][t].cost = adj_list[u][t]
    BY <1>1, <1>3, <1>5, GraphFacts DEF Entry
  <2>2. <<t, t, 0>> \in S
    BY <1>2, <2>1 DEF HasSelves
  <2>3. PICK c \in Nat : c <= adj_list[u][t] + 0 /\ <<u, t, c>> \in S
    BY <1>2, <2>1, <2>2 DEF HasLongerOrLess, Neighbors
  <2>4. c <= distanceTables[u][t].cost
    BY <2>1, <2>3
  <2> QED BY <2>3, <2>4 DEF S
<1> QED BY <1>4, <1>5

LEMMA StepNotTooCheap ==
  ASSUME IInv, NotTooCheap, [Next]_vars
  PROVE  NotTooCheap'
<1> DEFINE S == ShortestWalks(adj_list)
<1>1. TypeOK /\ RoutesBacked /\ UNCHANGED adj_list
  BY DEF IInv, Next, Update, Return, vars
<1>2. HasSelves(S, Vertices) /\ HasLongerOrLess(S, adj_list, Vertices)
  BY <1>1, FiniteGraph, WalkFacts
<1> HIDE DEF S
<1>3. CASE Update
  <2>1. PICK u, T : /\ u = Head(nodesToUpdate) /\ T = Relaxed(u)
                    /\ distanceTables' = [distanceTables EXCEPT ![u] = T]
    BY <1>3 DEF Update
  <2>2. u \in Vertices /\ DOMAIN distanceTables = Vertices
    BY <1>1, <1>3, <2>1 DEF TypeOK, Update
  <2>3. /\ DOMAIN T \subseteq Vertices /\ u \in DOMAIN T /\ T[u] = Entry(0, u)
        /\ \A t \in DOMAIN T : T[t] \in [cost : Nat, next_hop : Vertices]
    BY <1>1, <2>1, <2>2, RelaxedFacts
  <2>4. \A t \in DOMAIN T \ {u} : \A n : n = T[t].next_hop =>
          /\ n \in Neighbors(u) /\ Has(n, t)
          /\ adj_list[u][n] + distanceTables[n][t].cost <= T[t].cost
    BY <1>1, <2>1, <2>2, RelaxedFacts
  <2>5. ASSUME NEW t \in DOMAIN T
        PROVE  \E c \in Nat : c <= T[t].cost /\ <<u, t, c>> \in S
    <3>1. CASE t = u
      <4>1. T[t].cost = 0 /\ <<u, t, 0>> \in S /\ 0 <= 0
        BY <1>2, <2>2, <2>3, <3>1 DEF Entry, HasSelves
      <4> QED BY <4>1
    <3>2. CASE t # u
      <4>1. PICK n : n = T[t].next_hop
        OBVIOUS
      <4>2. /\ n \in Neighbors(u) /\ Has(n, t)
            /\ adj_list[u][n] + distanceTables[n][t].cost <= T[t].cost
        BY <2>4, <3>2, <4>1
      <4>3. n \in Vertices /\ adj_list[u][n] \in Nat /\ t \in Vertices
        BY <1>1, <2>2, <2>3, <4>2, GraphFacts
      <4>4. PICK d \in Nat : d <= distanceTables[n][t].cost /\ <<n, t, d>> \in S
        BY <4>2, <4>3 DEF NotTooCheap, Has, S
      <4>5. PICK c \in Nat : c <= adj_list[u][n] + d /\ <<u, t, c>> \in S
        BY <1>2, <2>2, <4>2, <4>3, <4>4 DEF HasLongerOrLess, Neighbors
      <4>6. distanceTables[n][t].cost \in Nat /\ T[t].cost \in Nat
        BY <1>1, <2>3, <4>2, <4>3, EntryFacts DEF Has
      <4>7. c <= T[t].cost
        BY <4>2, <4>3, <4>4, <4>5, <4>6
      <4> QED BY <4>5, <4>7
    <3> QED BY <3>1, <3>2
  <2>6. ASSUME NEW v \in Vertices, NEW t \in DOMAIN distanceTables'[v]
        PROVE  \E c \in Nat : c <= distanceTables'[v][t].cost /\ <<v, t, c>> \in S
    <3>1. CASE v = u
      BY <2>1, <2>2, <2>5, <3>1
    <3>2. CASE v # u
      BY <2>1, <2>2, <3>2 DEF NotTooCheap, S
    <3> QED BY <3>1, <3>2
  <2> QED BY <1>1, <2>6 DEF NotTooCheap, S
<1>4. CASE UNCHANGED <<adj_list, distanceTables>>
  BY <1>4 DEF NotTooCheap
<1> QED BY <1>3, <1>4 DEF Next, Return, vars

\* With an empty queue the tables are the shortest walks.
LEMMA TablesAreShortest ==
  ASSUME IInv, NotTooCheap, nodesToUpdate = <<>>,
         NEW u \in Vertices, NEW t \in Vertices, NEW c \in Nat
  PROVE  <<u, t, c>> \in ShortestWalks(adj_list)
           <=> Has(u, t) /\ distanceTables[u][t].cost = c
<1> DEFINE S == ShortestWalks(adj_list)
           R == {w \in Triples(Vertices) :
                   Has(w[1], w[2]) /\ distanceTables[w[1]][w[2]].cost = w[3]}
<1>1. TypeOK /\ RoutesBacked /\ SettledUnlessQueued /\ IsFiniteGraph(adj_list, Vertices)
  BY FiniteGraph DEF IInv
<1>2. \A x, y \in Vertices : \A d \in Nat :
        <<x, y, d>> \in R <=> Has(x, y) /\ distanceTables[x][y].cost = d
  BY DEF Triples
<1>3. OneCost(S, Vertices)
  BY <1>1, WalkFacts
<1>4. \A x, y \in Vertices : Has(x, y) => distanceTables[x][y].cost \in Nat
  BY <1>1, EntryFacts DEF Has
<1> HIDE DEF R
<1>5. HasSelves(R, Vertices)
  <2> SUFFICES ASSUME NEW x \in Vertices PROVE <<x, x, 0>> \in R
    BY DEF HasSelves
  <2>1. Has(x, x) /\ distanceTables[x][x] = Entry(0, x)
    BY <1>1 DEF RoutesBacked
  <2>2. distanceTables[x][x].cost = 0
    BY <2>1 DEF Entry
  <2> QED BY <1>2, <2>1, <2>2
<1>6. HasLongerOrLess(R, adj_list, Vertices)
  <2> SUFFICES ASSUME NEW x \in Vertices, NEW n \in DOMAIN adj_list[x], NEW y \in Vertices,
                      NEW d \in Nat, <<n, y, d>> \in R
               PROVE  \E e \in Nat : e <= adj_list[x][n] + d /\ <<x, y, e>> \in R
    BY DEF HasLongerOrLess
  <2>1. n \in Neighbors(x) /\ n \in Vertices /\ adj_list[x][n] \in Nat
    BY <1>1, GraphFacts DEF Neighbors
  <2>2. Has(n, y) /\ distanceTables[n][y].cost = d
    BY <1>2, <2>1
  <2>3. CASE y = x
    <3>1. <<x, y, 0>> \in R /\ 0 <= adj_list[x][n] + d
      BY <1>5, <2>1, <2>3 DEF HasSelves
    <3> QED BY <3>1
  <2>4. CASE y # x
    <3>1. ~Queued(x)
      BY DEF Queued
    <3>2. Has(x, y) /\ ~Better(Offer(x, n, y), distanceTables[x][y])
      BY <1>1, <2>1, <2>2, <2>4, <3>1 DEF SettledUnlessQueued, Has
    <3>3. Offer(x, n, y).cost = adj_list[x][n] + d
      BY <2>2 DEF Offer, Entry
    <3> DEFINE e == distanceTables[x][y].cost
    <3>4. e \in Nat /\ <<x, y, e>> \in R
      BY <1>2, <1>4, <3>2
    <3>5. ~ (adj_list[x][n] + d < e)
      BY <3>2, <3>3 DEF Better
    <3> HIDE DEF e
    <3>6. e <= adj_list[x][n] + d
      BY <2>1, <3>4, <3>5
    <3> QED BY <3>4, <3>6
  <2> QED BY <2>3, <2>4
<1>7. ASSUME NEW d \in Nat, <<u, t, d>> \in S
      PROVE  Has(u, t) /\ distanceTables[u][t].cost <= d
  <2>1. PICK e \in Nat : e <= d /\ <<u, t, e>> \in R
    BY <1>1, <1>5, <1>6, <1>7, WalksNotBelow
  <2> QED BY <1>2, <2>1
<1>8. ASSUME Has(u, t)
      PROVE  \E e \in Nat : e <= distanceTables[u][t].cost /\ <<u, t, e>> \in S
  BY <1>8 DEF NotTooCheap, Has
<1> HIDE DEF S
<1>9. ASSUME <<u, t, c>> \in S PROVE Has(u, t) /\ distanceTables[u][t].cost = c
  <2>1. Has(u, t) /\ distanceTables[u][t].cost <= c
    BY <1>7, <1>9
  <2>2. PICK e \in Nat : e <= distanceTables[u][t].cost /\ <<u, t, e>> \in S
    BY <1>8, <2>1
  <2>3. e = c
    BY <1>3, <1>9, <2>2 DEF OneCost
  <2> QED BY <1>4, <2>1, <2>2, <2>3
<1>10. ASSUME Has(u, t), distanceTables[u][t].cost = c PROVE <<u, t, c>> \in S
  <2>1. PICK e \in Nat : e <= c /\ <<u, t, e>> \in S
    BY <1>8, <1>10
  <2>2. c <= e
    BY <1>7, <1>10, <2>1
  <2>3. e = c
    BY <2>1, <2>2
  <2> QED BY <2>1, <2>3
<1> QED BY <1>9, <1>10 DEF S

\* The table asked for is one of shortest routes.
LEMMA ResultFacts ==
  ASSUME IInv, NotTooCheap, nodesToUpdate = <<>>
  PROVE  LeadsAlong(adj_list, Vertices, src, distanceTables[src])
<1> DEFINE S == ShortestWalks(adj_list)
           table == distanceTables[src]
<1>1. TypeOK /\ RoutesBacked /\ Converged /\ src \in Vertices
  BY SettledFacts DEF IInv, TypeOK
<1>2. \A u, t \in Vertices : \A c \in Nat :
        <<u, t, c>> \in S <=> Has(u, t) /\ distanceTables[u][t].cost = c
  BY TablesAreShortest
<1> HIDE DEF S
<1>3. DOMAIN table = {t \in Vertices : \E c \in Nat : <<src, t, c>> \in S}
  <2>1. DOMAIN table \subseteq Vertices
    BY <1>1 DEF TypeOK
  <2>2. \A t \in DOMAIN table : table[t].cost \in Nat /\ Has(src, t)
    BY <1>1, EntryFacts DEF Has
  <2>3. \A t \in Vertices : t \in DOMAIN table => \E c \in Nat : <<src, t, c>> \in S
    BY <1>1, <1>2, <2>2
  <2>4. \A t \in Vertices : (\E c \in Nat : <<src, t, c>> \in S) => t \in DOMAIN table
    BY <1>1, <1>2 DEF Has
  <2> QED BY <2>1, <2>3, <2>4
<1>4. table[src] = [cost |-> 0, next_hop |-> src]
  BY <1>1 DEF RoutesBacked, Entry
<1>5. ASSUME NEW t \in DOMAIN table \ {src}, NEW hop, hop = table[t].next_hop
      PROVE  /\ table[t].cost \in Nat /\ <<src, t, table[t].cost>> \in S
             /\ hop \in DOMAIN adj_list[src]
             /\ \E c \in Nat : <<hop, t, c>> \in S /\ adj_list[src][hop] + c = table[t].cost
  <2>1. t \in Vertices /\ Has(src, t) /\ table[t].cost \in Nat
    BY <1>1, EntryFacts DEF Has, TypeOK
  <2>2. hop \in Neighbors(src) /\ Has(hop, t)
    BY <1>1, <1>5 DEF RoutesBacked
  <2>3. hop \in Vertices
    BY <1>1, <2>2, GraphFacts
  <2>4. distanceTables[hop][t].cost \in Nat
    BY <1>1, <2>2, <2>3, EntryFacts DEF Has
  <2>5. <<hop, t, distanceTables[hop][t].cost>> \in S
    BY <1>2, <2>1, <2>2, <2>3, <2>4
  <2>6. table[t] = Offer(src, hop, t)
    BY <1>1, <1>5 DEF Converged
  <2>7. adj_list[src][hop] + distanceTables[hop][t].cost = table[t].cost
    BY <2>6 DEF Offer, Entry
  <2> QED BY <1>1, <1>2, <2>1, <2>2, <2>4, <2>5, <2>7 DEF Neighbors
<1> QED BY <1>3, <1>4, <1>5 DEF LeadsAlong, S

\* The operators of RouteTable are those of Graph.
LEMMA SameWalks ==
  /\ \A adj : Routes!ShortestWalks(adj) = ShortestWalks(adj)
  /\ \A S, u : Routes!Reachable(S, u) = Reachable(S, u)
  /\ \A S, u, t : Routes!Distance(S, u, t) = Distance(S, u, t)
<1>1. \A adj, W : Routes!NextRound(adj, W) = NextRound(adj, W)
  BY DEF Routes!NextRound, Routes!Shortest, Routes!Further, NextRound, Shortest, Further
<1>2. \A adj : Routes!Rounds(adj) = Rounds(adj)
  BY <1>1 DEF Routes!Rounds, Rounds
<1>3. \A S : Routes!Cardinality(S) = Cardinality(S)
  BY DEF Routes!Cardinality, Cardinality
<1>4. \A adj : Routes!ShortestWalks(adj) = ShortestWalks(adj)
  BY <1>2, <1>3 DEF Routes!ShortestWalks, ShortestWalks
<1> QED BY <1>4 DEF Routes!Reachable, Reachable, Routes!Distance, Distance

\* construct_fte() returns, once, a table with an entry for every node that can be
\* reached and for no other, of the cost of a shortest route and a first hop of one:
\* the distance vector algorithm implements what RouteTable promises, on every graph.
THEOREM ShortestRoutes == Spec => ImplementsRouteTable
<1>1. Init => Routes!Init
  <2>1. Init => /\ IsGraph(adj_list, Vertices) /\ src \in Vertices /\ result = <<>>
    BY GraphsAssumption DEF Init
  <2> QED BY <2>1 DEF Routes!Init, IsGraph, Routes!IsGraph
<1>2. IInv /\ NotTooCheap /\ [Next]_vars => [Routes!Deliver]_(Routes!vars)
  <2> SUFFICES ASSUME IInv, NotTooCheap, [Next]_vars
               PROVE  [Routes!Deliver]_(Routes!vars)
    OBVIOUS
  <2>1. CASE Return
    <3>1. /\ result = <<>> /\ nodesToUpdate = <<>> /\ result' = distanceTables[src]
          /\ UNCHANGED <<adj_list, src>>
      BY <2>1 DEF Return, Settled
    <3>2. LeadsAlong(adj_list, Vertices, src, result')
      BY <3>1, ResultFacts
    <3>3. src \in Vertices /\ IsFiniteGraph(adj_list, Vertices) /\ src \in DOMAIN distanceTables[src]
      BY FiniteGraph DEF IInv, TypeOK, RoutesBacked, Has
    <3>4. Routes!IsRouteTable(adj_list, src, result')
      BY <3>2, <3>3, RouteTableFacts, SameWalks DEF Routes!IsRouteTable
    <3>5. result' # <<>>
      BY <3>1, <3>3
    <3> QED BY <3>1, <3>4, <3>5 DEF Routes!Deliver
  <2>2. CASE UNCHANGED <<adj_list, src, result>>
    BY <2>2 DEF Routes!vars
  <2> QED BY <2>1, <2>2 DEF Next, Update, vars
<1>3. Init => NotTooCheap
  BY InitNotTooCheap
<1>4. IInv /\ NotTooCheap /\ [Next]_vars => NotTooCheap'
  BY StepNotTooCheap
<1> QED BY <1>1, <1>2, <1>3, <1>4, Invariance, PTL DEF Spec, ImplementsRouteTable, Routes!Spec

==============================================================================
