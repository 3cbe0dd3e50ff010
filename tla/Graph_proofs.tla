----------------------------- MODULE Graph_proofs -----------------------------
(***************************************************************************)
(* Proofs about the shortest walks of Graph, for every finite graph: the   *)
(* rounds come to an end where ShortestWalks takes their result, and what  *)
(* they end with has the properties that the proofs about the routing      *)
(* algorithms use.                                                         *)
(***************************************************************************)
EXTENDS Graph, FiniteSetTheorems, NaturalLemmas

Triples(nodes) == nodes \X nodes \X Nat

\* A set of walks has those without a link, and with a walk every one that begins a
\* link before it.
HasSelves(Q, nodes) == \A u \in nodes : <<u, u, 0>> \in Q
HasLonger(Q, adj, nodes) ==
  \A u \in nodes : \A n \in DOMAIN adj[u] : \A t \in nodes : \A d \in Nat :
    <<n, t, d>> \in Q => <<u, t, adj[u][n] + d>> \in Q

\* The same, where one that costs less will do.
HasLongerOrLess(Q, adj, nodes) ==
  \A u \in nodes : \A n \in DOMAIN adj[u] : \A t \in nodes : \A d \in Nat :
    <<n, t, d>> \in Q => \E c \in Nat : c <= adj[u][n] + d /\ <<u, t, c>> \in Q

\* Every walk of Z is one of W, or one of W with a link before it.
StemsFrom(Z, W, adj, nodes) ==
  \A u, t \in nodes : \A c \in Nat :
    <<u, t, c>> \in Z =>
      \/ <<u, t, c>> \in W
      \/ \E n \in DOMAIN adj[u] : \E d \in Nat :
           <<n, t, d>> \in W /\ c = adj[u][n] + d

OneCost(Q, nodes) ==
  \A u, t \in nodes : \A c, d \in Nat : <<u, t, c>> \in Q /\ <<u, t, d>> \in Q => c = d

------------------------------------------------------------------------------
LEMMA LinkFacts ==
  ASSUME NEW nodes, NEW adj, IsGraph(adj, nodes), NEW u \in nodes, NEW n \in DOMAIN adj[u]
  PROVE  /\ n \in nodes /\ n # u /\ adj[u][n] \in Nat
         /\ u \in DOMAIN adj[n] /\ adj[n][u] = adj[u][n]
BY DEF IsGraph

\* The walks that are a link longer.
LEMMA FurtherFacts ==
  ASSUME NEW nodes, NEW adj, IsGraph(adj, nodes), NEW W \in SUBSET Triples(nodes)
  PROVE  /\ Further(adj, W) \in SUBSET Triples(nodes)
         /\ \A u \in nodes : \A n \in DOMAIN adj[u] : \A t \in nodes : \A d \in Nat :
              <<n, t, d>> \in W => <<u, t, adj[u][n] + d>> \in Further(adj, W)
         /\ StemsFrom(Further(adj, W), W, adj, nodes)
<1>1. ASSUME NEW w \in W, NEW u \in DOMAIN adj[w[1]]
      PROVE  /\ w[1] \in nodes /\ w[2] \in nodes /\ w[3] \in Nat
             /\ w = <<w[1], w[2], w[3]>>
             /\ u \in nodes /\ w[1] \in DOMAIN adj[u] /\ adj[u][w[1]] \in Nat
  <2>1. /\ w[1] \in nodes /\ w[2] \in nodes /\ w[3] \in Nat
        /\ w = <<w[1], w[2], w[3]>>
    BY DEF Triples
  <2>2. u \in nodes /\ w[1] \in DOMAIN adj[u] /\ adj[u][w[1]] \in Nat
    BY <1>1, <2>1, LinkFacts
  <2> QED BY <2>1, <2>2
<1>2. Further(adj, W) \in SUBSET Triples(nodes)
  <2> SUFFICES ASSUME NEW w \in W, NEW u \in DOMAIN adj[w[1]]
               PROVE  <<u, w[2], adj[u][w[1]] + w[3]>> \in Triples(nodes)
    BY DEF Further
  <2> QED BY <1>1 DEF Triples
<1>3. ASSUME NEW u \in nodes, NEW n \in DOMAIN adj[u], NEW t \in nodes, NEW d \in Nat,
             <<n, t, d>> \in W
      PROVE  <<u, t, adj[u][n] + d>> \in Further(adj, W)
  <2> DEFINE w == <<n, t, d>>
  <2>1. u \in DOMAIN adj[w[1]]
    BY LinkFacts
  <2>2. w \in W /\ <<u, w[2], adj[u][w[1]] + w[3]>> = <<u, t, adj[u][n] + d>>
    BY <1>3
  <2> HIDE DEF w
  <2> QED BY <2>1, <2>2 DEF Further
<1>4. ASSUME NEW u \in nodes, NEW t \in nodes, NEW c \in Nat, <<u, t, c>> \in Further(adj, W)
      PROVE  \E n \in DOMAIN adj[u] : \E d \in Nat :
               <<n, t, d>> \in W /\ c = adj[u][n] + d
  <2>1. PICK w \in W : \E x \in DOMAIN adj[w[1]] :
               <<u, t, c>> = <<x, w[2], adj[x][w[1]] + w[3]>>
    BY <1>4 DEF Further
  <2>2. u \in DOMAIN adj[w[1]] /\ t = w[2] /\ c = adj[u][w[1]] + w[3]
    BY <2>1
  <2> QED BY <1>1, <2>1, <2>2
<1>5. StemsFrom(Further(adj, W), W, adj, nodes)
  BY <1>4 DEF StemsFrom
<1> QED BY <1>2, <1>3, <1>5

\* Of all walks between two nodes there is a shortest.
LEMMA ShortestFacts ==
  ASSUME NEW nodes, NEW X \in SUBSET Triples(nodes)
  PROVE  /\ Shortest(X) \in SUBSET X
         /\ OneCost(Shortest(X), nodes)
         /\ \A u, t \in nodes : \A c, d \in Nat :
              <<u, t, c>> \in Shortest(X) /\ <<u, t, d>> \in X => c <= d
         /\ \A u, t \in nodes : \A d \in Nat :
              <<u, t, d>> \in X => \E c \in Nat : c <= d /\ <<u, t, c>> \in Shortest(X)
<1>1. Shortest(X) \in SUBSET X
  BY DEF Shortest
<1>2. ASSUME NEW u \in nodes, NEW t \in nodes, NEW c \in Nat, NEW d \in Nat,
             <<u, t, c>> \in Shortest(X), <<u, t, d>> \in X
      PROVE  c <= d
  <2>1. \A x \in X : x[1] = u /\ x[2] = t => c <= x[3]
    BY <1>2 DEF Shortest
  <2> QED BY <1>2, <2>1
<1>3. OneCost(Shortest(X), nodes)
  BY <1>1, <1>2 DEF OneCost
<1>4. ASSUME NEW u \in nodes, NEW t \in nodes, NEW d \in Nat, <<u, t, d>> \in X
      PROVE  \E c \in Nat : c <= d /\ <<u, t, c>> \in Shortest(X)
  <2> DEFINE C == {c \in Nat : <<u, t, c>> \in X}
  <2>1. C \in SUBSET Nat /\ d \in C
    BY <1>4
  <2>2. PICK m \in C : \A x \in C : m <= x
    BY <2>1, NatMin
  <2>3. \A x \in X : x[1] = u /\ x[2] = t => m <= x[3]
    <3> SUFFICES ASSUME NEW x \in X, x[1] = u, x[2] = t PROVE m <= x[3]
      OBVIOUS
    <3>1. x[3] \in Nat /\ x = <<u, t, x[3]>>
      BY DEF Triples
    <3> QED BY <2>2, <3>1
  <2>4. <<u, t, m>> \in Shortest(X)
    BY <2>2, <2>3 DEF Shortest
  <2> QED BY <2>1, <2>2, <2>4
<1> QED BY <1>1, <1>2, <1>3, <1>4

------------------------------------------------------------------------------
\* The rounds: the first has the walks without a link, and each takes the shortest
\* of the walks before it and those that are a link longer.
LEMMA RoundsUnfold ==
  ASSUME NEW nodes, NEW adj, IsGraph(adj, nodes)
  PROVE  /\ Rounds(adj)[0] = {<<u, u, 0>> : u \in nodes}
         /\ \A k \in Nat : Rounds(adj)[k + 1] = NextRound(adj, Rounds(adj)[k])
         /\ Rounds(adj) \in [Nat -> SUBSET Triples(nodes)]
<1> DEFINE T == SUBSET Triples(nodes)
           b == {<<u, u, 0>> : u \in nodes}
           G == [w \in T |-> NextRound(adj, w)]
           Step(f) == [k \in Nat |-> IF k = 0 THEN b ELSE NextRound(adj, f[k - 1])]
<1>1. b \in T
  BY DEF Triples
<1>2. G \in [T -> T]
  <2> SUFFICES ASSUME NEW w \in T PROVE NextRound(adj, w) \in T
    OBVIOUS
  <2>1. w \cup Further(adj, w) \in T
    BY FurtherFacts
  <2>2. Shortest(w \cup Further(adj, w)) \in SUBSET (w \cup Further(adj, w))
    BY DEF Shortest
  <2> QED BY <2>1, <2>2 DEF NextRound
<1> HIDE DEF G, b, T
<1>3. PICK f \in [Nat -> T] : IsNatRecursion(f, b, G)
  BY <1>1, <1>2, NatRecursionExists
<1>4. f = Step(f)
  <2>1. \A k \in Nat : k # 0 => f[k - 1] \in T /\ G[f[k - 1]] = NextRound(adj, f[k - 1])
    BY DEF G
  <2>2. f = [k \in Nat |-> IF k = 0 THEN b ELSE G[f[k - 1]]]
    BY <1>3 DEF IsNatRecursion
  <2>3. \A k \in Nat : f[k] = IF k = 0 THEN b ELSE NextRound(adj, f[k - 1])
    BY <2>1, <2>2
  <2> QED BY <2>2, <2>3
<1>5. DOMAIN adj = nodes
  BY DEF IsGraph
<1>6. Rounds(adj) = CHOOSE g : g = Step(g)
  BY <1>5 DEF Rounds, b
<1> DEFINE W == CHOOSE g : g = Step(g)
<1>7. W = Step(W)
  <2> DEFINE P(g) == g = Step(g)
  <2>1. P(f)
    BY <1>4
  <2> HIDE DEF P
  <2>2. P(CHOOSE g : P(g))
    BY <2>1
  <2> QED BY <2>2 DEF P
<1> HIDE DEF W
<1>8. W[0] = b /\ \A k \in Nat : W[k + 1] = NextRound(adj, W[k])
  <2>1. \A k \in Nat : W[k] = IF k = 0 THEN b ELSE NextRound(adj, W[k - 1])
    BY <1>7
  <2>2. \A k \in Nat : k + 1 \in Nat /\ k + 1 # 0 /\ (k + 1) - 1 = k
    OBVIOUS
  <2> HIDE DEF Step
  <2> QED BY <2>1, <2>2
<1>9. \A k \in Nat : W[k] \in T
  <2> DEFINE P == {k \in Nat : W[k] \in T}
  <2>1. 0 \in P
    BY <1>1, <1>8
  <2>2. \A k \in Nat : k \in P => k + 1 \in P
    BY <1>2, <1>8 DEF G
  <2> HIDE DEF P
  <2>3. Nat \subseteq P
    BY <2>1, <2>2, NatInd
  <2> QED BY <2>3 DEF P
<1>10. W \in [Nat -> T]
  BY <1>7, <1>9
<1>11. Rounds(adj) = W
  BY <1>6 DEF W
<1> QED BY <1>8, <1>10, <1>11 DEF b, T

\* What a round keeps of the one before, and what it adds.
LEMMA RoundStep ==
  ASSUME NEW nodes, NEW adj, IsGraph(adj, nodes), NEW k \in Nat,
         NEW W, W = Rounds(adj)[k], NEW Z, Z = Rounds(adj)[k + 1]
  PROVE  /\ W \in SUBSET Triples(nodes) /\ Z \in SUBSET Triples(nodes)
         /\ OneCost(Z, nodes)
         /\ \A u, t \in nodes : \A d \in Nat :
              <<u, t, d>> \in W => \E c \in Nat : c <= d /\ <<u, t, c>> \in Z
         /\ \A u \in nodes : \A n \in DOMAIN adj[u] : \A t \in nodes : \A d \in Nat :
              <<n, t, d>> \in W => \E c \in Nat : c <= adj[u][n] + d /\ <<u, t, c>> \in Z
         /\ StemsFrom(Z, W, adj, nodes)
<1> DEFINE X == W \cup Further(adj, W)
<1>1. W \in SUBSET Triples(nodes) /\ Z = Shortest(X)
  BY RoundsUnfold DEF NextRound
<1>2. X \in SUBSET Triples(nodes)
  BY <1>1, FurtherFacts
<1>3. \A u \in nodes : \A n \in DOMAIN adj[u] : \A t \in nodes : \A d \in Nat :
        <<n, t, d>> \in W => <<u, t, adj[u][n] + d>> \in X /\ adj[u][n] + d \in Nat
  BY <1>1, FurtherFacts, LinkFacts
<1>4. StemsFrom(X, W, adj, nodes)
  <2> SUFFICES ASSUME NEW u \in nodes, NEW t \in nodes, NEW c \in Nat, <<u, t, c>> \in X,
                      <<u, t, c>> \notin W
               PROVE  \E n \in DOMAIN adj[u] : \E d \in Nat :
                        <<n, t, d>> \in W /\ c = adj[u][n] + d
    BY DEF StemsFrom
  <2>1. <<u, t, c>> \in Further(adj, W)
    OBVIOUS
  <2> HIDE DEF X
  <2>2. StemsFrom(Further(adj, W), W, adj, nodes)
    BY <1>1, FurtherFacts
  <2> QED BY <2>1, <2>2 DEF StemsFrom
<1>5. W \subseteq X
  OBVIOUS
<1> HIDE DEF X
<1>6. /\ Z \in SUBSET X
      /\ OneCost(Z, nodes)
      /\ \A u, t \in nodes : \A d \in Nat :
           <<u, t, d>> \in X => \E c \in Nat : c <= d /\ <<u, t, c>> \in Z
  BY <1>1, <1>2, ShortestFacts
<1>7. StemsFrom(Z, W, adj, nodes)
  <2> SUFFICES ASSUME NEW u \in nodes, NEW t \in nodes, NEW c \in Nat, <<u, t, c>> \in Z,
                      <<u, t, c>> \notin W
               PROVE  \E n \in DOMAIN adj[u] : \E d \in Nat :
                        <<n, t, d>> \in W /\ c = adj[u][n] + d
    BY DEF StemsFrom
  <2>1. <<u, t, c>> \in X
    BY <1>6
  <2> QED BY <1>4, <2>1 DEF StemsFrom
<1> QED BY <1>1, <1>2, <1>3, <1>5, <1>6, <1>7

\* The walks that some round finds, and the shortest of them.
Found(adj) == UNION {Rounds(adj)[k] : k \in Nat}
Final(adj) == Shortest(Found(adj))

\* What holds of the walks of round 0 and is kept by one link more holds of all.
LEMMA WalkInduction ==
  ASSUME NEW nodes, NEW adj, IsGraph(adj, nodes), NEW Q,
         HasSelves(Q, nodes), HasLonger(Q, adj, nodes)
  PROVE  Found(adj) \subseteq Q
<1> DEFINE P == {k \in Nat : Rounds(adj)[k] \subseteq Q}
<1>1. 0 \in P
  BY RoundsUnfold DEF HasSelves
<1>2. ASSUME NEW k \in Nat, k \in P PROVE k + 1 \in P
  <2> SUFFICES ASSUME NEW w \in Rounds(adj)[k + 1] PROVE w \in Q
    BY <1>2
  <2>0. w \in Triples(nodes)
    <3>1. Rounds(adj)[k + 1] \in SUBSET Triples(nodes)
      BY RoundsUnfold
    <3> QED BY <3>1
  <2>1. PICK u, t \in nodes : \E c \in Nat : w = <<u, t, c>>
    BY <2>0 DEF Triples
  <2>2. PICK c \in Nat : w = <<u, t, c>>
    BY <2>1
  <2>3. \/ <<u, t, c>> \in Rounds(adj)[k]
        \/ \E n \in DOMAIN adj[u] : \E d \in Nat :
             <<n, t, d>> \in Rounds(adj)[k] /\ c = adj[u][n] + d
    <3>1. <<u, t, c>> \in Rounds(adj)[k + 1]
      BY <2>2
    <3>2. StemsFrom(Rounds(adj)[k + 1], Rounds(adj)[k], adj, nodes)
      BY RoundStep
    <3> QED BY <3>1, <3>2 DEF StemsFrom
  <2>4. Rounds(adj)[k] \subseteq Q
    BY <1>2
  <2> QED BY <2>2, <2>3, <2>4 DEF HasLonger
<1> HIDE DEF P
<1>3. Nat \subseteq P
  BY <1>1, <1>2, NatInd
<1> QED BY <1>3 DEF P, Found

\* The shortest of all walks.
LEMMA FinalFacts ==
  ASSUME NEW nodes, NEW adj, IsGraph(adj, nodes)
  PROVE  /\ Found(adj) \in SUBSET Triples(nodes)
         /\ Final(adj) \in SUBSET Found(adj)
         /\ HasSelves(Final(adj), nodes)
         /\ OneCost(Final(adj), nodes)
         /\ HasLongerOrLess(Final(adj), adj, nodes)
         /\ \A u, t \in nodes : \A d \in Nat :
              <<u, t, d>> \in Found(adj) => \E c \in Nat : c <= d /\ <<u, t, c>> \in Final(adj)
         /\ \A u, t \in nodes : \A c, d \in Nat :
              <<u, t, c>> \in Final(adj) /\ <<u, t, d>> \in Found(adj) => c <= d
<1> DEFINE A == Found(adj)
           B == Final(adj)
<1>1. A \in SUBSET Triples(nodes)
  BY RoundsUnfold DEF Found
<1>2. /\ B \in SUBSET A
      /\ OneCost(B, nodes)
      /\ \A u, t \in nodes : \A d \in Nat :
           <<u, t, d>> \in A => \E c \in Nat : c <= d /\ <<u, t, c>> \in B
      /\ \A u, t \in nodes : \A c, d \in Nat :
           <<u, t, c>> \in B /\ <<u, t, d>> \in A => c <= d
  BY <1>1, ShortestFacts DEF Final
<1>3. HasSelves(B, nodes)
  <2> SUFFICES ASSUME NEW u \in nodes PROVE <<u, u, 0>> \in B
    BY DEF HasSelves
  <2>1. <<u, u, 0>> \in Rounds(adj)[0]
    BY RoundsUnfold
  <2>2. <<u, u, 0>> \in A
    BY <2>1 DEF Found
  <2>3. PICK c \in Nat : c <= 0 /\ <<u, u, c>> \in B
    BY <1>2, <2>2
  <2>4. c = 0
    BY <2>3
  <2> QED BY <2>3, <2>4
<1>4. HasLongerOrLess(B, adj, nodes)
  <2> SUFFICES ASSUME NEW u \in nodes, NEW n \in DOMAIN adj[u], NEW t \in nodes,
                      NEW d \in Nat, <<n, t, d>> \in B
               PROVE  \E c \in Nat : c <= adj[u][n] + d /\ <<u, t, c>> \in B
    BY DEF HasLongerOrLess
  <2>1. PICK k \in Nat : <<n, t, d>> \in Rounds(adj)[k]
    BY <1>2 DEF Found
  <2>2. PICK e \in Nat : e <= adj[u][n] + d /\ <<u, t, e>> \in Rounds(adj)[k + 1]
    BY <2>1, RoundStep
  <2>3. <<u, t, e>> \in A
    BY <2>2 DEF Found
  <2>4. PICK c \in Nat : c <= e /\ <<u, t, c>> \in B
    BY <1>2, <2>3
  <2>5. adj[u][n] \in Nat
    BY LinkFacts
  <2> QED BY <2>2, <2>4, <2>5
<1> QED BY <1>1, <1>2, <1>3, <1>4

------------------------------------------------------------------------------
\* How the rounds come to an end.  At(k, t): the nodes from which round k has the
\* shortest of all walks to t; Ever(t): those from which there is a walk.
At(adj, nodes, k, t) ==
  {u \in nodes : \E c \in Nat : <<u, t, c>> \in Final(adj) /\ <<u, t, c>> \in Rounds(adj)[k]}
Ever(adj, nodes, t) ==
  {u \in nodes : \E c \in Nat : <<u, t, c>> \in Final(adj)}

\* Every round has the walks without a link, and one cost for two nodes.
LEMMA RoundFacts ==
  ASSUME NEW nodes, NEW adj, IsGraph(adj, nodes), NEW k \in Nat
  PROVE  HasSelves(Rounds(adj)[k], nodes) /\ OneCost(Rounds(adj)[k], nodes)
<1> DEFINE P == {j \in Nat : HasSelves(Rounds(adj)[j], nodes) /\ OneCost(Rounds(adj)[j], nodes)}
<1>1. 0 \in P
  BY RoundsUnfold DEF HasSelves, OneCost
<1>2. ASSUME NEW j \in Nat, j \in P PROVE j + 1 \in P
  <2>1. OneCost(Rounds(adj)[j + 1], nodes)
    BY RoundStep
  <2>2. ASSUME NEW u \in nodes PROVE <<u, u, 0>> \in Rounds(adj)[j + 1]
    <3>1. <<u, u, 0>> \in Rounds(adj)[j]
      BY <1>2 DEF HasSelves
    <3>2. PICK c \in Nat : c <= 0 /\ <<u, u, c>> \in Rounds(adj)[j + 1]
      BY <3>1, RoundStep
    <3>3. c = 0
      BY <3>2
    <3> QED BY <3>2, <3>3
  <2> QED BY <2>1, <2>2 DEF HasSelves
<1> HIDE DEF P
<1>3. Nat \subseteq P
  BY <1>1, <1>2, NatInd
<1> QED BY <1>3 DEF P

\* A shortest walk that a round has is kept by the next.
LEMMA AtGrows ==
  ASSUME NEW nodes, NEW adj, IsGraph(adj, nodes), NEW k \in Nat, NEW t \in nodes
  PROVE  At(adj, nodes, k, t) \subseteq At(adj, nodes, k + 1, t)
<1> SUFFICES ASSUME NEW u \in nodes, NEW c \in Nat,
                    <<u, t, c>> \in Final(adj), <<u, t, c>> \in Rounds(adj)[k]
             PROVE  <<u, t, c>> \in Rounds(adj)[k + 1]
  BY DEF At
<1>1. PICK d \in Nat : d <= c /\ <<u, t, d>> \in Rounds(adj)[k + 1]
  BY RoundStep
<1>2. <<u, t, d>> \in Found(adj)
  BY <1>1 DEF Found
<1>3. c <= d
  BY <1>2, FinalFacts
<1>4. c = d
  BY <1>1, <1>3
<1> QED BY <1>1, <1>4

\* While a round misses a shortest walk, the next one has one that it misses: of
\* those missed, the one that is found first begins with a link to a node whose
\* shortest walk is not missed.
LEMMA AtGrowsMore ==
  ASSUME NEW nodes, NEW adj, IsGraph(adj, nodes), NEW k \in Nat, NEW t \in nodes,
         At(adj, nodes, k, t) # Ever(adj, nodes, t)
  PROVE  \E u \in At(adj, nodes, k + 1, t) : u \notin At(adj, nodes, k, t)
<1> DEFINE Missed == Ever(adj, nodes, t) \ At(adj, nodes, k, t)
           When == {j \in Nat : \E u \in Missed : u \in At(adj, nodes, j, t)}
<1>1. Missed # {}
  BY DEF At, Ever
<1>2. When \in SUBSET Nat /\ When # {}
  <2>1. PICK u \in Missed : TRUE
    BY <1>1
  <2>2. PICK c \in Nat : u \in nodes /\ <<u, t, c>> \in Final(adj)
    BY <2>1 DEF Ever
  <2>3. PICK j \in Nat : <<u, t, c>> \in Rounds(adj)[j]
    BY <2>2, FinalFacts DEF Found
  <2>4. u \in At(adj, nodes, j, t)
    BY <2>2, <2>3 DEF At
  <2> QED BY <2>1, <2>4
<1>3. PICK m \in When : \A x \in When : m <= x
  BY <1>2, NatMin
<1>4. PICK u \in Missed : u \in At(adj, nodes, m, t)
  BY <1>3
<1>5. PICK c \in Nat : /\ u \in nodes
                       /\ <<u, t, c>> \in Final(adj) /\ <<u, t, c>> \in Rounds(adj)[m]
  BY <1>4 DEF At
<1>6. m \in Nat /\ m # 0
  <2> SUFFICES ASSUME m = 0 PROVE FALSE
    OBVIOUS
  <2>1. u = t /\ c = 0
    BY <1>5, RoundsUnfold
  <2>2. <<u, t, c>> \in Rounds(adj)[k]
    BY <2>1, RoundFacts DEF HasSelves
  <2> QED BY <1>4, <1>5, <2>2 DEF At
<1> DEFINE j == m - 1
<1>7. j \in Nat /\ j + 1 = m /\ j \notin When
  BY <1>3, <1>6
<1> HIDE DEF j
<1>8. <<u, t, c>> \notin Rounds(adj)[j]
  <2> SUFFICES ASSUME <<u, t, c>> \in Rounds(adj)[j] PROVE FALSE
    OBVIOUS
  <2>1. u \in At(adj, nodes, j, t)
    BY <1>5 DEF At
  <2> QED BY <1>4, <1>7, <2>1
<1>9. PICK n \in DOMAIN adj[u] : \E d \in Nat :
        <<n, t, d>> \in Rounds(adj)[j] /\ c = adj[u][n] + d
  <2>1. StemsFrom(Rounds(adj)[j + 1], Rounds(adj)[j], adj, nodes)
    BY <1>7, RoundStep
  <2> QED BY <1>5, <1>7, <1>8, <2>1 DEF StemsFrom
<1>10. PICK d \in Nat : <<n, t, d>> \in Rounds(adj)[j] /\ c = adj[u][n] + d
  BY <1>9
<1>11. n \in nodes /\ adj[u][n] \in Nat
  BY <1>5, LinkFacts
<1>12. <<n, t, d>> \in Final(adj)
  <2>1. <<n, t, d>> \in Found(adj)
    BY <1>7, <1>10 DEF Found
  <2>2. PICK e \in Nat : e <= d /\ <<n, t, e>> \in Final(adj)
    BY <1>11, <2>1, FinalFacts
  <2>3. PICK f \in Nat : f <= adj[u][n] + e /\ <<u, t, f>> \in Final(adj)
    BY <1>5, <1>11, <2>2, FinalFacts DEF HasLongerOrLess
  <2>4. f = c
    BY <1>5, <2>3, FinalFacts DEF OneCost
  <2>5. e = d
    BY <1>10, <1>11, <2>2, <2>3, <2>4
  <2> QED BY <2>2, <2>5
<1>13. n \in At(adj, nodes, j, t) /\ n \in Ever(adj, nodes, t)
  BY <1>10, <1>11, <1>12 DEF At, Ever
<1>14. n \in At(adj, nodes, k, t)
  BY <1>7, <1>13
<1>15. <<n, t, d>> \in Rounds(adj)[k]
  <2>1. PICK e \in Nat : <<n, t, e>> \in Final(adj) /\ <<n, t, e>> \in Rounds(adj)[k]
    BY <1>14 DEF At
  <2>2. e = d
    BY <1>11, <1>12, <2>1, FinalFacts DEF OneCost
  <2> QED BY <2>1, <2>2
<1>16. PICK f \in Nat : f <= adj[u][n] + d /\ <<u, t, f>> \in Rounds(adj)[k + 1]
  BY <1>5, <1>15, RoundStep
<1>17. f = c
  <2>1. <<u, t, f>> \in Found(adj)
    BY <1>16 DEF Found
  <2>2. c <= f
    BY <1>5, <2>1, FinalFacts
  <2> QED BY <1>10, <1>16, <2>2
<1>18. u \in At(adj, nodes, k + 1, t)
  BY <1>5, <1>16, <1>17 DEF At
<1> QED BY <1>4, <1>18

\* Until it has all, round k has the shortest walks from more than k nodes.
LEMMA AtCounted ==
  ASSUME NEW nodes, IsFiniteSet(nodes), NEW adj, IsGraph(adj, nodes), NEW t \in nodes,
         NEW k \in Nat
  PROVE  \/ At(adj, nodes, k, t) = Ever(adj, nodes, t)
         \/ Cardinality(At(adj, nodes, k, t)) >= k + 1
<1> DEFINE A(j) == At(adj, nodes, j, t)
           E == Ever(adj, nodes, t)
           P == {j \in Nat : A(j) = E \/ Cardinality(A(j)) >= j + 1}
<1>1. \A j \in Nat : /\ A(j) \subseteq E /\ A(j) \subseteq nodes
                     /\ A(j) \subseteq A(j + 1)
                     /\ IsFiniteSet(A(j)) /\ Cardinality(A(j)) \in Nat
  <2> TAKE j \in Nat
  <2>1. A(j) \subseteq E /\ A(j) \subseteq nodes
    BY DEF At, Ever
  <2>2. A(j) \subseteq A(j + 1)
    BY AtGrows
  <2> HIDE DEF A
  <2>3. IsFiniteSet(A(j))
    BY <2>1, FS_Subset
  <2> QED BY <2>1, <2>2, <2>3, FS_CardinalityType
<1>2. 0 \in P
  <2>1. t \in A(0)
    BY RoundsUnfold, FinalFacts DEF At, HasSelves
  <2> HIDE DEF A
  <2>2. Cardinality(A(0)) # 0
    BY <1>1, <2>1, FS_EmptySet
  <2>3. Cardinality(A(0)) >= 0 + 1
    BY <1>1, <2>2
  <2> QED BY <2>3
<1>3. ASSUME NEW j \in Nat, j \in P PROVE j + 1 \in P
  <2>1. CASE A(j) = E
    <3>0. j + 1 \in Nat
      OBVIOUS
    <3> HIDE DEF A, E
    <3>1. A(j) \subseteq A(j + 1)
      BY <1>1
    <3>2. A(j + 1) \subseteq E
      BY <1>1, <3>0
    <3>3. A(j + 1) = E
      BY <2>1, <3>1, <3>2
    <3> QED BY <3>0, <3>3 DEF P
  <2>2. CASE A(j) # E
    <3>1. PICK u \in A(j + 1) : u \notin A(j)
      BY <2>2, AtGrowsMore
    <3> HIDE DEF A, E
    <3>2. Cardinality(A(j) \cup {u}) = Cardinality(A(j)) + 1
      BY <1>1, <3>1, FS_AddElement
    <3>3. A(j) \cup {u} \in SUBSET A(j + 1)
      BY <1>1, <3>1
    <3>4. Cardinality(A(j) \cup {u}) <= Cardinality(A(j + 1))
      BY <1>1, <3>3, FS_Subset
    <3>5. Cardinality(A(j)) >= j + 1
      BY <1>3, <2>2
    <3> DEFINE x == Cardinality(A(j))
               y == Cardinality(A(j + 1))
    <3>6. x \in Nat /\ y \in Nat /\ x + 1 <= y /\ x >= j + 1
      BY <1>1, <3>2, <3>4, <3>5
    <3> HIDE DEF x, y
    <3>7. y >= (j + 1) + 1
      BY <3>6
    <3> QED BY <3>7 DEF y
  <2> QED BY <2>1, <2>2
<1> HIDE DEF P
<1>4. Nat \subseteq P
  BY <1>2, <1>3, NatInd
<1> QED BY <1>4 DEF P

\* The round that ShortestWalks takes has all shortest walks and no others.
LEMMA RoundsSettle ==
  ASSUME NEW nodes, IsFiniteSet(nodes), nodes # {}, NEW adj, IsGraph(adj, nodes)
  PROVE  ShortestWalks(adj) = Final(adj)
<1> DEFINE n == Cardinality(nodes)
           k == n - 1
           W == Rounds(adj)[k]
<1>1. n \in Nat /\ n # 0
  BY FS_CardinalityType, FS_EmptySet
<1>2. ShortestWalks(adj) = W
  BY DEF ShortestWalks, IsGraph
<1>3. k \in Nat /\ k + 1 = n
  BY <1>1
<1> HIDE DEF n, k, W
<1>4. \A t \in nodes : At(adj, nodes, k, t) = Ever(adj, nodes, t)
  <2> SUFFICES ASSUME NEW t \in nodes, Cardinality(At(adj, nodes, k, t)) >= k + 1
               PROVE  At(adj, nodes, k, t) = Ever(adj, nodes, t)
    BY <1>3, AtCounted
  <2> DEFINE A == At(adj, nodes, k, t)
             E == Ever(adj, nodes, t)
  <2>1. A \subseteq E /\ E \subseteq nodes
    BY DEF At, Ever
  <2> HIDE DEF A, E
  <2>2. A \in SUBSET nodes
    BY <2>1
  <2>3. /\ Cardinality(A) <= Cardinality(nodes)
        /\ Cardinality(nodes) = Cardinality(A) => nodes = A
        /\ IsFiniteSet(A)
    BY <2>2, FS_Subset
  <2>4. Cardinality(A) \in Nat
    BY <2>3, FS_CardinalityType
  <2>5. Cardinality(nodes) = Cardinality(A)
    BY <1>1, <1>3, <2>3, <2>4 DEF n, A
  <2>6. A = E
    BY <2>1, <2>3, <2>5
  <2> QED BY <2>6 DEF A, E
<1>5. /\ W \in SUBSET Triples(nodes) /\ W \subseteq Found(adj)
      /\ OneCost(W, nodes)
  BY <1>3, RoundsUnfold, RoundFacts DEF W, Found
<1>6. ASSUME NEW u \in nodes, NEW t \in nodes, NEW c \in Nat
      PROVE  <<u, t, c>> \in W <=> <<u, t, c>> \in Final(adj)
  <2>1. ASSUME <<u, t, c>> \in Final(adj) PROVE <<u, t, c>> \in W
    <3>1. u \in At(adj, nodes, k, t)
      BY <1>4, <2>1 DEF Ever
    <3>2. PICK d \in Nat : <<u, t, d>> \in Final(adj) /\ <<u, t, d>> \in W
      BY <3>1 DEF At, W
    <3>3. d = c
      BY <2>1, <3>2, FinalFacts DEF OneCost
    <3> QED BY <3>2, <3>3
  <2>2. ASSUME <<u, t, c>> \in W PROVE <<u, t, c>> \in Final(adj)
    <3>1. PICK e \in Nat : <<u, t, e>> \in Final(adj)
      BY <1>5, <2>2, FinalFacts
    <3>2. u \in At(adj, nodes, k, t)
      BY <1>4, <3>1 DEF Ever
    <3>3. PICK d \in Nat : <<u, t, d>> \in Final(adj) /\ <<u, t, d>> \in W
      BY <3>2 DEF At, W
    <3>4. d = c
      BY <1>5, <2>2, <3>3 DEF OneCost
    <3> QED BY <3>3, <3>4
  <2> QED BY <2>1, <2>2
<1>7. Final(adj) \in SUBSET Triples(nodes)
  BY FinalFacts
<1>8. W = Final(adj)
  <2>1. ASSUME NEW w \in Triples(nodes) PROVE w \in W <=> w \in Final(adj)
    <3>1. PICK u \in nodes, t \in nodes, c \in Nat : w = <<u, t, c>>
      BY DEF Triples
    <3> QED BY <1>6, <3>1
  <2> QED BY <1>5, <1>7, <2>1
<1> QED BY <1>2, <1>8

------------------------------------------------------------------------------
(***************************************************************************)
(* What the proofs about routes use.                                       *)
(***************************************************************************)
IsFiniteGraph(adj, nodes) == IsFiniteSet(nodes) /\ nodes # {} /\ IsGraph(adj, nodes)

\* The shortest walks, one cost for two nodes, go on over every link.
LEMMA WalkFacts ==
  ASSUME NEW nodes, NEW adj, IsFiniteGraph(adj, nodes)
  PROVE  /\ ShortestWalks(adj) \in SUBSET Triples(nodes)
         /\ HasSelves(ShortestWalks(adj), nodes)
         /\ OneCost(ShortestWalks(adj), nodes)
         /\ HasLongerOrLess(ShortestWalks(adj), adj, nodes)
BY RoundsSettle, FinalFacts DEF IsFiniteGraph

\* They are among those that any other definition of walks gives.
LEMMA WalksLeast ==
  ASSUME NEW nodes, NEW adj, IsFiniteGraph(adj, nodes), NEW Q,
         HasSelves(Q, nodes), HasLonger(Q, adj, nodes)
  PROVE  ShortestWalks(adj) \subseteq Q
BY RoundsSettle, FinalFacts, WalkInduction DEF IsFiniteGraph

\* Reachable and Distance say what the walks do.
LEMMA ReachFacts ==
  ASSUME NEW nodes, NEW adj, IsFiniteGraph(adj, nodes), NEW u \in nodes,
         NEW S, S = ShortestWalks(adj)
  PROVE  /\ Reachable(S, u) = {t \in nodes : \E c \in Nat : <<u, t, c>> \in S}
         /\ \A t \in nodes : \A c \in Nat : <<u, t, c>> \in S => Distance(S, u, t) = c
<1>1. S \in SUBSET Triples(nodes) /\ OneCost(S, nodes)
  BY WalkFacts
<1>2. ASSUME NEW w \in S
      PROVE  /\ w[1] \in nodes /\ w[2] \in nodes /\ w[3] \in Nat
             /\ w = <<w[1], w[2], w[3]>>
  BY <1>1 DEF Triples
<1>3. ASSUME NEW t, t \in Reachable(S, u)
      PROVE  t \in nodes /\ \E c \in Nat : <<u, t, c>> \in S
  <2>1. PICK w \in S : w[1] = u /\ t = w[2]
    BY <1>3 DEF Reachable
  <2>2. w[3] \in Nat /\ <<u, t, w[3]>> \in S
    BY <1>2, <2>1
  <2> QED BY <1>2, <2>1, <2>2
<1>4. ASSUME NEW t \in nodes, NEW c \in Nat, <<u, t, c>> \in S
      PROVE  t \in Reachable(S, u) /\ Distance(S, u, t) = c
  <2> DEFINE w == <<u, t, c>>
             P(x) == x[1] = u /\ x[2] = t
             v == CHOOSE x \in S : P(x)
  <2>1. w \in S /\ P(w) /\ w[2] = t /\ w[1] = u
    BY <1>4
  <2>2. t \in Reachable(S, u)
    BY <2>1 DEF Reachable
  <2> HIDE DEF w, P
  <2>3. v \in S /\ P(v)
    BY <2>1
  <2> HIDE DEF v
  <2>4. v[1] = u /\ v[2] = t
    BY <2>3 DEF P
  <2>5. v[3] \in Nat /\ <<u, t, v[3]>> \in S
    BY <1>2, <2>3, <2>4
  <2>6. v[3] = c
    BY <1>1, <1>4, <2>5 DEF OneCost
  <2>7. Distance(S, u, t) = v[3]
    BY DEF Distance, v, P
  <2> QED BY <2>2, <2>6, <2>7
<1> QED BY <1>3, <1>4

\* Routes that are closed under the links cost no more than the shortest walks.
LEMMA WalksNotBelow ==
  ASSUME NEW nodes, NEW adj, IsFiniteGraph(adj, nodes), NEW R,
         HasSelves(R, nodes), HasLongerOrLess(R, adj, nodes),
         NEW u \in nodes, NEW t \in nodes, NEW c \in Nat, <<u, t, c>> \in ShortestWalks(adj)
  PROVE  \E d \in Nat : d <= c /\ <<u, t, d>> \in R
<1> DEFINE Has(v, x, d) == \E e \in Nat : e <= d /\ <<v, x, e>> \in R
           Q == {w \in Triples(nodes) : Has(w[1], w[2], w[3])}
<1>1. \A v, x \in nodes : \A d \in Nat : <<v, x, d>> \in Q <=> Has(v, x, d)
  BY DEF Triples
<1> HIDE DEF Q
<1>2. HasSelves(Q, nodes)
  <2> SUFFICES ASSUME NEW x \in nodes PROVE Has(x, x, 0)
    BY <1>1 DEF HasSelves
  <2>1. <<x, x, 0>> \in R /\ 0 <= 0
    BY DEF HasSelves
  <2> QED BY <2>1
<1>3. HasLonger(Q, adj, nodes)
  <2> SUFFICES ASSUME NEW v \in nodes, NEW n \in DOMAIN adj[v], NEW x \in nodes,
                      NEW d \in Nat, <<n, x, d>> \in Q
               PROVE  <<v, x, adj[v][n] + d>> \in Q
    BY DEF HasLonger
  <2>1. n \in nodes /\ adj[v][n] \in Nat
    BY LinkFacts DEF IsFiniteGraph
  <2>2. PICK e \in Nat : e <= d /\ <<n, x, e>> \in R
    BY <1>1, <2>1
  <2>3. PICK f \in Nat : f <= adj[v][n] + e /\ <<v, x, f>> \in R
    BY <2>1, <2>2 DEF HasLongerOrLess
  <2>4. f <= adj[v][n] + d /\ adj[v][n] + d \in Nat
    BY <2>1, <2>2, <2>3
  <2>5. Has(v, x, adj[v][n] + d)
    BY <2>3, <2>4
  <2> QED BY <1>1, <2>4, <2>5
<1>4. <<u, t, c>> \in Q
  BY <1>2, <1>3, WalksLeast
<1> QED BY <1>1, <1>4

\* A way over a third node costs no less.
LEMMA WalksCompose ==
  ASSUME NEW nodes, NEW adj, IsFiniteGraph(adj, nodes),
         NEW u \in nodes, NEW v \in nodes, NEW t \in nodes, NEW a \in Nat, NEW b \in Nat,
         <<u, v, a>> \in ShortestWalks(adj), <<v, t, b>> \in ShortestWalks(adj)
  PROVE  \E c \in Nat : c <= a + b /\ <<u, t, c>> \in ShortestWalks(adj)
<1> DEFINE S == ShortestWalks(adj)
           On(x, y, d) == <<y, t, b>> \in S =>
                            \E e \in Nat : e <= d + b /\ <<x, t, e>> \in S
           Q == {w \in Triples(nodes) : On(w[1], w[2], w[3])}
<1>0. HasSelves(S, nodes) /\ HasLongerOrLess(S, adj, nodes)
  BY WalkFacts
<1> HIDE DEF S
<1>1. \A x, y \in nodes : \A d \in Nat : <<x, y, d>> \in Q <=> On(x, y, d)
  BY DEF Triples
<1> HIDE DEF Q
<1>2. HasSelves(Q, nodes)
  <2> SUFFICES ASSUME NEW x \in nodes PROVE On(x, x, 0)
    BY <1>1 DEF HasSelves
  <2>1. b <= 0 + b
    OBVIOUS
  <2> QED BY <2>1
<1>3. HasLonger(Q, adj, nodes)
  <2> SUFFICES ASSUME NEW x \in nodes, NEW n \in DOMAIN adj[x], NEW y \in nodes,
                      NEW d \in Nat, <<n, y, d>> \in Q
               PROVE  <<x, y, adj[x][n] + d>> \in Q
    BY DEF HasLonger
  <2>1. n \in nodes /\ adj[x][n] \in Nat
    BY LinkFacts DEF IsFiniteGraph
  <2>2. On(n, y, d)
    BY <1>1, <2>1
  <2>3. ASSUME <<y, t, b>> \in S
        PROVE  \E e \in Nat : e <= (adj[x][n] + d) + b /\ <<x, t, e>> \in S
    <3>1. PICK e \in Nat : e <= d + b /\ <<n, t, e>> \in S
      BY <2>2, <2>3
    <3>2. PICK f \in Nat : f <= adj[x][n] + e /\ <<x, t, f>> \in S
      BY <1>0, <2>1, <3>1 DEF HasLongerOrLess
    <3>3. f <= (adj[x][n] + d) + b
      BY <2>1, <3>1, <3>2
    <3> QED BY <3>2, <3>3
  <2>4. On(x, y, adj[x][n] + d) /\ adj[x][n] + d \in Nat
    BY <2>1, <2>3
  <2> QED BY <1>1, <2>4
<1>4. <<u, v, a>> \in Q
  BY <1>2, <1>3, WalksLeast DEF S
<1> QED BY <1>1, <1>4 DEF S

\* A link at the end makes a walk longer as one at the beginning does.
LEMMA WalksEndOn ==
  ASSUME NEW nodes, NEW adj, IsFiniteGraph(adj, nodes),
         NEW u \in nodes, NEW n \in nodes, NEW t \in DOMAIN adj[n], NEW d \in Nat,
         <<u, n, d>> \in ShortestWalks(adj)
  PROVE  \E c \in Nat : c <= d + adj[n][t] /\ <<u, t, c>> \in ShortestWalks(adj)
<1>1. t \in nodes /\ adj[n][t] \in Nat
  BY LinkFacts DEF IsFiniteGraph
<1>2. <<t, t, 0>> \in ShortestWalks(adj)
  BY <1>1, WalkFacts DEF HasSelves
<1>3. PICK e \in Nat : e <= adj[n][t] + 0 /\ <<n, t, e>> \in ShortestWalks(adj)
  BY <1>1, <1>2, WalkFacts DEF HasLongerOrLess
<1>4. PICK c \in Nat : c <= d + e /\ <<u, t, c>> \in ShortestWalks(adj)
  BY <1>1, <1>3, WalksCompose
<1> QED BY <1>1, <1>3, <1>4

\* The walks lead back at the same cost.
LEMMA WalksBack ==
  ASSUME NEW nodes, NEW adj, IsFiniteGraph(adj, nodes),
         NEW u \in nodes, NEW t \in nodes, NEW c \in Nat, <<u, t, c>> \in ShortestWalks(adj)
  PROVE  <<t, u, c>> \in ShortestWalks(adj)
<1> DEFINE S == ShortestWalks(adj)
           Back == {w \in Triples(nodes) : <<w[2], w[1], w[3]>> \in S}
<1>1. \A x, y \in nodes : \A d \in Nat : <<x, y, d>> \in Back <=> <<y, x, d>> \in S
  BY DEF Triples
<1>2. HasSelves(S, nodes) /\ OneCost(S, nodes)
  BY WalkFacts
<1>3. \A x, y \in nodes : \A z \in DOMAIN adj[y] : \A d \in Nat :
        <<x, y, d>> \in S => \E e \in Nat : e <= d + adj[y][z] /\ <<x, z, e>> \in S
  BY WalksEndOn
<1>4. \A R : HasSelves(R, nodes) /\ HasLongerOrLess(R, adj, nodes) =>
        \A x, y \in nodes : \A d \in Nat :
          <<x, y, d>> \in S => \E e \in Nat : e <= d /\ <<x, y, e>> \in R
  BY WalksNotBelow
<1> HIDE DEF S, Back
<1>5. HasSelves(Back, nodes)
  BY <1>1, <1>2 DEF HasSelves
<1>6. HasLongerOrLess(Back, adj, nodes)
  <2> SUFFICES ASSUME NEW x \in nodes, NEW n \in DOMAIN adj[x], NEW y \in nodes,
                      NEW d \in Nat, <<n, y, d>> \in Back
               PROVE  \E e \in Nat : e <= adj[x][n] + d /\ <<x, y, e>> \in Back
    BY DEF HasLongerOrLess
  <2>1. /\ n \in nodes /\ adj[x][n] \in Nat
        /\ x \in DOMAIN adj[n] /\ adj[n][x] = adj[x][n]
    BY LinkFacts DEF IsFiniteGraph
  <2>2. <<y, n, d>> \in S
    BY <1>1, <2>1
  <2>3. PICK e \in Nat : e <= d + adj[n][x] /\ <<y, x, e>> \in S
    BY <1>3, <2>1, <2>2
  <2>4. <<x, y, e>> \in Back /\ e <= adj[x][n] + d
    BY <1>1, <2>1, <2>3
  <2> QED BY <2>4
<1>7. PICK d \in Nat : d <= c /\ <<u, t, d>> \in Back
  BY <1>4, <1>5, <1>6 DEF S
<1>8. <<t, u, d>> \in S
  BY <1>1, <1>7
<1>9. PICK e \in Nat : e <= d /\ <<t, u, e>> \in Back
  BY <1>4, <1>5, <1>6, <1>8
<1>10. <<u, t, e>> \in S
  BY <1>1, <1>9
<1>11. e = c
  BY <1>2, <1>10 DEF OneCost, S
<1>12. d = c
  BY <1>7, <1>9, <1>11
<1> QED BY <1>8, <1>12 DEF S

------------------------------------------------------------------------------
\* A table with the walks that begin at s: a node that has one, its cost, and a
\* neighbour from which what is left of the cost leads on.
LeadsAlong(adj, nodes, s, table) ==
  LET S == ShortestWalks(adj) IN
  /\ DOMAIN table = {t \in nodes : \E c \in Nat : <<s, t, c>> \in S}
  /\ table[s] = [cost |-> 0, next_hop |-> s]
  /\ \A t \in DOMAIN table \ {s} :
       /\ table[t].cost \in Nat /\ <<s, t, table[t].cost>> \in S
       /\ table[t].next_hop \in DOMAIN adj[s]
       /\ \E c \in Nat : /\ <<table[t].next_hop, t, c>> \in S
                         /\ adj[s][table[t].next_hop] + c = table[t].cost

\* It is a table of the routes that RouteTable promises.
LEMMA RouteTableFacts ==
  ASSUME NEW nodes, NEW adj, IsFiniteGraph(adj, nodes), NEW s \in nodes,
         NEW table, LeadsAlong(adj, nodes, s, table), NEW S, S = ShortestWalks(adj)
  PROVE  /\ DOMAIN table = Reachable(S, s)
         /\ table[s] = [cost |-> 0, next_hop |-> s]
         /\ \A t \in DOMAIN table \ {s} : \A hop : hop = table[t].next_hop =>
              /\ table[t].cost = Distance(S, s, t)
              /\ hop \in DOMAIN adj[s]
              /\ t \in Reachable(S, hop)
              /\ adj[s][hop] + Distance(S, hop, t) = table[t].cost
<1>1. DOMAIN table = Reachable(S, s) /\ table[s] = [cost |-> 0, next_hop |-> s]
  BY ReachFacts DEF LeadsAlong
<1>2. ASSUME NEW t \in DOMAIN table \ {s}, NEW hop, hop = table[t].next_hop
      PROVE  /\ table[t].cost = Distance(S, s, t)
             /\ hop \in DOMAIN adj[s]
             /\ t \in Reachable(S, hop)
             /\ adj[s][hop] + Distance(S, hop, t) = table[t].cost
  <2>1. /\ t \in nodes /\ table[t].cost \in Nat /\ <<s, t, table[t].cost>> \in S
        /\ hop \in DOMAIN adj[s]
    BY <1>2 DEF LeadsAlong
  <2>2. PICK c \in Nat : <<hop, t, c>> \in S /\ adj[s][hop] + c = table[t].cost
    BY <1>2 DEF LeadsAlong
  <2>3. hop \in nodes
    BY <2>1, LinkFacts DEF IsFiniteGraph
  <2>4. table[t].cost = Distance(S, s, t)
    BY <2>1, ReachFacts
  <2>5. t \in Reachable(S, hop) /\ Distance(S, hop, t) = c
    BY <2>1, <2>2, <2>3, ReachFacts
  <2> QED BY <2>1, <2>2, <2>4, <2>5
<1> QED BY <1>1, <1>2

------------------------------------------------------------------------------
\* The links that files add and remove.
Joins(e, u, v) == (u = e.src /\ v = e.dst) \/ (u = e.dst /\ v = e.src)

IsLinkOf(e, nodes) == e.src \in nodes /\ e.dst \in nodes /\ e.src # e.dst

LEMMA LinkIs ==
  ASSUME NEW nodes, NEW adj, DOMAIN adj = nodes, NEW e, IsLinkOf(e, nodes)
  PROVE  /\ DOMAIN Link(adj, e) = nodes
         /\ \A u \in nodes : \A v :
              /\ v \in DOMAIN Link(adj, e)[u] <=> Joins(e, u, v) \/ v \in DOMAIN adj[u]
              /\ v \in DOMAIN Link(adj, e)[u] =>
                   Link(adj, e)[u][v] = IF Joins(e, u, v) THEN e.cost ELSE adj[u][v]
<1> DEFINE L == Link(adj, e)
<1>1. /\ DOMAIN L = nodes
      /\ L[e.src] = Put(adj[e.src], e.dst, e.cost)
      /\ L[e.dst] = Put(adj[e.dst], e.src, e.cost)
      /\ \A u \in nodes \ {e.src, e.dst} : L[u] = adj[u]
  BY DEF Link, IsLinkOf
<1> HIDE DEF L
<1>2. ASSUME NEW u \in nodes, NEW v
      PROVE  /\ v \in DOMAIN L[u] <=> Joins(e, u, v) \/ v \in DOMAIN adj[u]
             /\ v \in DOMAIN L[u] => L[u][v] = IF Joins(e, u, v) THEN e.cost ELSE adj[u][v]
  <2>1. CASE u = e.src
    BY <1>1, <2>1 DEF Put, Joins, IsLinkOf
  <2>2. CASE u = e.dst
    BY <1>1, <2>2 DEF Put, Joins, IsLinkOf
  <2>3. CASE u \notin {e.src, e.dst}
    BY <1>1, <2>3 DEF Joins
  <2> QED BY <2>1, <2>2, <2>3
<1> QED BY <1>1, <1>2 DEF L

LEMMA UnlinkIs ==
  ASSUME NEW nodes, NEW adj, DOMAIN adj = nodes, NEW e, IsLinkOf(e, nodes)
  PROVE  /\ DOMAIN Unlink(adj, e) = nodes
         /\ \A u \in nodes : \A v :
              /\ v \in DOMAIN Unlink(adj, e)[u] <=> ~ Joins(e, u, v) /\ v \in DOMAIN adj[u]
              /\ v \in DOMAIN Unlink(adj, e)[u] => Unlink(adj, e)[u][v] = adj[u][v]
<1> DEFINE L == Unlink(adj, e)
<1>1. /\ DOMAIN L = nodes
      /\ L[e.src] = Erase(adj[e.src], e.dst)
      /\ L[e.dst] = Erase(adj[e.dst], e.src)
      /\ \A u \in nodes \ {e.src, e.dst} : L[u] = adj[u]
  BY DEF Unlink, IsLinkOf
<1> HIDE DEF L
<1>2. ASSUME NEW u \in nodes, NEW v
      PROVE  /\ v \in DOMAIN L[u] <=> ~ Joins(e, u, v) /\ v \in DOMAIN adj[u]
             /\ v \in DOMAIN L[u] => L[u][v] = adj[u][v]
  <2>1. CASE u = e.src
    BY <1>1, <2>1 DEF Erase, Joins, IsLinkOf
  <2>2. CASE u = e.dst
    BY <1>1, <2>2 DEF Erase, Joins, IsLinkOf
  <2>3. CASE u \notin {e.src, e.dst}
    BY <1>1, <2>3 DEF Joins
  <2> QED BY <2>1, <2>2, <2>3
<1> QED BY <1>1, <1>2 DEF L

\* A graph stays one: links lead both ways at the same cost.
LEMMA UpdateKeepsGraph ==
  ASSUME NEW nodes, NEW adj, IsGraph(adj, nodes), NEW e, IsLinkOf(e, nodes), e.cost \in Int
  PROVE  IsGraph(UpdateEdge(adj, e), nodes)
<1> DEFINE L == UpdateEdge(adj, e)
<1>0. DOMAIN adj = nodes
  BY DEF IsGraph
<1>1. \A u, v : Joins(e, u, v) => u \in nodes /\ v \in nodes /\ u # v /\ Joins(e, v, u)
  BY DEF Joins, IsLinkOf
<1>2. \A u \in nodes : \A v \in DOMAIN adj[u] :
        v \in nodes /\ v # u /\ adj[u][v] \in Nat /\ u \in DOMAIN adj[v] /\ adj[v][u] = adj[u][v]
  BY LinkFacts
<1>3. CASE Valid(e)
  <2>1. L = Link(adj, e) /\ e.cost \in Nat
    BY <1>3 DEF UpdateEdge, Valid
  <2>2. /\ DOMAIN L = nodes
        /\ \A u \in nodes : \A v :
              /\ v \in DOMAIN L[u] <=> Joins(e, u, v) \/ v \in DOMAIN adj[u]
              /\ v \in DOMAIN L[u] => L[u][v] = IF Joins(e, u, v) THEN e.cost ELSE adj[u][v]
    BY <1>0, <2>1, LinkIs
  <2> HIDE DEF L
  <2>3. ASSUME NEW u \in nodes, NEW v \in DOMAIN L[u]
        PROVE  v \in nodes /\ v # u /\ L[u][v] \in Nat /\ u \in DOMAIN L[v] /\ L[v][u] = L[u][v]
    <3>1. v \in nodes /\ v # u
      BY <1>1, <1>2, <2>2, <2>3
    <3>2. CASE Joins(e, u, v)
      BY <1>1, <2>1, <2>2, <3>1, <3>2
    <3>3. CASE ~ Joins(e, u, v)
      <4>1. ~ Joins(e, v, u)
        BY <3>3 DEF Joins
      <4> QED BY <1>2, <2>2, <3>1, <3>3, <4>1
    <3> QED BY <3>1, <3>2, <3>3
  <2> QED BY <2>2, <2>3 DEF IsGraph, L
<1>4. CASE ~ Valid(e)
  <2>1. L = Unlink(adj, e)
    BY <1>4 DEF UpdateEdge
  <2>2. /\ DOMAIN L = nodes
        /\ \A u \in nodes : \A v :
              /\ v \in DOMAIN L[u] <=> ~ Joins(e, u, v) /\ v \in DOMAIN adj[u]
              /\ v \in DOMAIN L[u] => L[u][v] = adj[u][v]
    BY <1>0, <2>1, UnlinkIs
  <2> HIDE DEF L
  <2>3. ASSUME NEW u \in nodes, NEW v \in DOMAIN L[u]
        PROVE  v \in nodes /\ v # u /\ L[u][v] \in Nat /\ u \in DOMAIN L[v] /\ L[v][u] = L[u][v]
    <3>1. v \in nodes /\ v # u /\ v \in DOMAIN adj[u] /\ ~ Joins(e, u, v)
      BY <1>2, <2>2, <2>3
    <3>2. ~ Joins(e, v, u)
      BY <3>1 DEF Joins
    <3> QED BY <1>2, <2>2, <3>1, <3>2
  <2> QED BY <2>2, <2>3 DEF IsGraph, L
<1> QED BY <1>3, <1>4

LEMMA EmptyGraph == ASSUME NEW nodes PROVE IsGraph([u \in nodes |-> <<>>], nodes)
<1> DEFINE E == [u \in nodes |-> <<>>]
<1>1. DOMAIN E = nodes /\ \A u \in nodes : DOMAIN E[u] = {}
  OBVIOUS
<1> HIDE DEF E
<1> QED BY <1>1 DEF IsGraph, E

\* The graph of a topology file comes about link by link.
IsBuilt(g, nodes, edges) ==
  /\ g[0] = [u \in nodes |-> <<>>]
  /\ \A k \in 1 .. Len(edges) : g[k] = Link(g[k - 1], edges[k])

LEMMA EdgesAreBuilt ==
  ASSUME NEW nodes, NEW edges, Len(edges) \in Nat,
         \A k \in 1 .. Len(edges) : IsLinkOf(edges[k], nodes) /\ edges[k].cost \in Int
  PROVE  \E g : IsBuilt(g, nodes, edges) /\ FromEdges(nodes, edges) = g[Len(edges)]
<1> DEFINE n == Len(edges)
           E == [u \in nodes |-> <<>>]
           Maps == UNION {[D -> Int] : D \in SUBSET nodes}
           T == [nodes -> Maps]
           G == [k \in 1 .. n |-> [adj \in T |-> Link(adj, edges[k])]]
           Steps(g) == g = [k \in 0 .. n |-> IF k = 0 THEN E ELSE Link(g[k - 1], edges[k])]
           built == CHOOSE g : Steps(g)
<1>1. E \in T
  <2>1. <<>> \in [{} -> Int] /\ {} \in SUBSET nodes
    OBVIOUS
  <2>2. <<>> \in Maps
    BY <2>1
  <2> HIDE DEF Maps
  <2> QED BY <2>2
<1>2. ASSUME NEW adj \in T, NEW e, IsLinkOf(e, nodes), e.cost \in Int PROVE Link(adj, e) \in T
  <2>1. ASSUME NEW m \in Maps, NEW x \in nodes PROVE Put(m, x, e.cost) \in Maps
    <3>1. PICK D \in SUBSET nodes : m \in [D -> Int]
      OBVIOUS
    <3>2. Put(m, x, e.cost) \in [D \cup {x} -> Int]
      BY <1>2, <3>1 DEF Put
    <3> QED BY <3>2
  <2> HIDE DEF Maps
  <2> QED BY <1>2, <2>1 DEF Link, IsLinkOf
<1>3. G \in [1 .. n -> [T -> T]]
  <2> HIDE DEF T
  <2> QED BY <1>2
<1> HIDE DEF E, Maps
<1>4. PICK f \in [0 .. n -> T] : IsRecursion(f, n, E, G)
  <2> HIDE DEF T, G, n
  <2>1. n \in Nat
    BY DEF n
  <2> QED BY <1>1, <1>3, <2>1, RecursionExists
<1>5. ASSUME NEW k \in 1 .. n PROVE G[k][f[k - 1]] = Link(f[k - 1], edges[k])
  <2>1. f[k - 1] \in T
    <3> HIDE DEF T
    <3>1. k - 1 \in 0 .. n
      OBVIOUS
    <3> QED BY <1>4, <3>1
  <2> HIDE DEF T
  <2> QED BY <2>1
<1> HIDE DEF T, G
<1>6. Steps(f)
  <2>1. f = [k \in 0 .. n |-> IF k = 0 THEN E ELSE G[k][f[k - 1]]]
    BY <1>4 DEF IsRecursion
  <2>2. \A k \in 0 .. n : f[k] = IF k = 0 THEN E ELSE G[k][f[k - 1]]
    BY <2>1
  <2>3. \A k \in 0 .. n : f[k] = IF k = 0 THEN E ELSE Link(f[k - 1], edges[k])
    <3> TAKE k \in 0 .. n
    <3>1. k = 0 \/ k \in 1 .. n
      OBVIOUS
    <3> HIDE DEF n
    <3> QED BY <1>5, <2>2, <3>1
  <2> HIDE DEF n
  <2>4. f = [k \in 0 .. n |-> f[k]]
    BY <1>4
  <2> QED BY <2>3, <2>4
<1>7. Steps(built)
  <2> HIDE DEF Steps
  <2> QED BY <1>6
<1>8. FromEdges(nodes, edges) = built[n]
  BY DEF FromEdges, E
<1> HIDE DEF built
<1>9. \A k \in 0 .. n : built[k] = IF k = 0 THEN E ELSE Link(built[k - 1], edges[k])
  <2> HIDE DEF n, E
  <2> QED BY <1>7
<1>10. IsBuilt(built, nodes, edges)
  <2>1. built[0] = E
    BY <1>9
  <2>2. ASSUME NEW k \in 1 .. n PROVE built[k] = Link(built[k - 1], edges[k])
    <3>1. k \in 0 .. n /\ k # 0
      OBVIOUS
    <3> QED BY <1>9, <3>1
  <2> QED BY <2>1, <2>2 DEF IsBuilt, E
<1> QED BY <1>8, <1>10

==============================================================================
