---------------------------- MODULE NaturalLemmas -----------------------------
(***************************************************************************)
(* What the proofs about numbers, sequences and walks have in common:      *)
(* induction over the natural numbers, and what functions that are defined *)
(* recursively are.  Every lemma speaks of sets and functions and of no    *)
(* operator: an induction is over a set of numbers, a recursion steps by a *)
(* function.                                                               *)
(***************************************************************************)
EXTENDS Integers, Sequences, FiniteSetsExt, WellFoundedInduction, TLAPS

------------------------------------------------------------------------------
\* Every nonempty set of natural numbers has a least element.
LEMMA NatMin ==
  ASSUME NEW S \in SUBSET Nat, S # {}
  PROVE  \E m \in S : \A x \in S : m <= x
<1> DEFINE R == {ss \in Nat \X Nat : ss[1] < ss[2]}
<1>1. IsWellFoundedOn(R, Nat)
  BY NatLessThanWellFounded DEF OpToRel
<1>2. \A x, y \in Nat : <<x, y>> \in R <=> x < y
  OBVIOUS
<1> HIDE DEF R
<1>3. PICK m \in S : \A y \in S : ~ (<<y, m>> \in R)
  BY <1>1, WFMin
<1>4. \A y \in S : m <= y
  <2> SUFFICES ASSUME NEW y \in S PROVE m <= y
    OBVIOUS
  <2>1. ~ (<<y, m>> \in R)
    BY <1>3
  <2>2. ~ (y < m)
    BY <2>1, <1>2
  <2> QED BY <2>2
<1> QED BY <1>4

\* The operators of FiniteSetsExt take the least element of a set of numbers, and the
\* greatest one when it has a bound.
LEMMA MinIsLeast ==
  ASSUME NEW S \in SUBSET Nat, S # {}
  PROVE  Min(S) \in S /\ \A x \in S : Min(S) <= x
<1> DEFINE least(m) == \A x \in S : m <= x
<1>1. \E m \in S : least(m)
  BY NatMin
<1> HIDE DEF least
<1>2. (CHOOSE k \in S : least(k)) \in S /\ least(CHOOSE k \in S : least(k))
  BY <1>1
<1> QED BY <1>2 DEF least, Min

LEMMA MaxIsGreatest ==
  ASSUME NEW n \in Nat, NEW S \in SUBSET (0 .. n), S # {}
  PROVE  Max(S) \in S /\ \A x \in S : x <= Max(S)
<1> DEFINE Behind == {x \in Nat : n - x \in S}
           greatest(m) == \A x \in S : m >= x
<1>1. PICK s \in S : TRUE
  OBVIOUS
<1>2. n - s \in Nat /\ n - (n - s) = s
  BY <1>1
<1>3. Behind \in SUBSET Nat /\ Behind # {}
  BY <1>2
<1>4. PICK x \in Behind : \A y \in Behind : x <= y
  <2> HIDE DEF Behind
  <2> QED BY <1>3, NatMin
<1>5. n - x \in S /\ x \in Nat
  BY <1>4
<1>6. greatest(n - x)
  <2> SUFFICES ASSUME NEW k \in S PROVE n - x >= k
    OBVIOUS
  <2>1. n - k \in Nat /\ n - (n - k) = k
    OBVIOUS
  <2>2. x <= n - k
    BY <1>4, <2>1
  <2> QED BY <1>5, <2>1, <2>2
<1> HIDE DEF greatest
<1>7. (CHOOSE k \in S : greatest(k)) \in S /\ greatest(CHOOSE k \in S : greatest(k))
  BY <1>5, <1>6
<1>8. Max(S) \in S /\ \A x_1 \in S : Max(S) >= x_1
  BY <1>7 DEF greatest, Max
<1> QED BY <1>8

\* A set that has 0, and with every number the next one, has all numbers.
LEMMA NatInd ==
  ASSUME NEW P, 0 \in P, \A n \in Nat : n \in P => n + 1 \in P
  PROVE  Nat \subseteq P
<1> SUFFICES ASSUME Nat \ P # {} PROVE FALSE
  OBVIOUS
<1> DEFINE C == Nat \ P
<1>1. C \in SUBSET Nat /\ C # {}
  OBVIOUS
<1> HIDE DEF C
<1>2. PICK m \in C : \A x \in C : m <= x
  BY <1>1, NatMin
<1>3. m \in Nat /\ m \notin P /\ m # 0
  BY <1>2 DEF C
<1>4. m - 1 \in Nat /\ m - 1 \notin C /\ (m - 1) + 1 = m
  BY <1>2, <1>3
<1> QED BY <1>3, <1>4 DEF C

------------------------------------------------------------------------------
\* A recursive definition over the numbers up to n: G says for every number how it
\* goes on from the value at the number before.
IsRecursion(f, n, b, G) ==
  f = [k \in 0 .. n |-> IF k = 0 THEN b ELSE G[k][f[k - 1]]]

\* There is such a function, for every n.
LEMMA RecursionExists ==
  ASSUME NEW T, NEW b \in T, NEW n \in Nat, NEW G \in [1 .. n -> [T -> T]]
  PROVE  \E f \in [0 .. n -> T] : IsRecursion(f, n, b, G)
<1> DEFINE P == {m \in Nat : m <= n => \E f \in [0 .. m -> T] : IsRecursion(f, m, b, G)}
<1>1. 0 \in P
  <2>1. [k \in 0 .. 0 |-> b] \in [0 .. 0 -> T]
    OBVIOUS
  <2>2. IsRecursion([k \in 0 .. 0 |-> b], 0, b, G)
    BY DEF IsRecursion
  <2> QED BY <2>1, <2>2
<1>2. ASSUME NEW m \in Nat, m \in P PROVE m + 1 \in P
  <2> SUFFICES ASSUME m + 1 <= n
               PROVE  \E f \in [0 .. m + 1 -> T] : IsRecursion(f, m + 1, b, G)
    OBVIOUS
  <2>1. PICK f \in [0 .. m -> T] : IsRecursion(f, m, b, G)
    BY <1>2
  <2> DEFINE g == [k \in 0 .. m + 1 |-> IF k = m + 1 THEN G[m + 1][f[m]] ELSE f[k]]
  <2>2. G[m + 1][f[m]] \in T
    <3>1. m + 1 \in 1 .. n /\ f[m] \in T
      OBVIOUS
    <3> QED BY <3>1
  <2>3. g \in [0 .. m + 1 -> T]
    BY <2>2
  <2>4. \A k \in 0 .. m : f[k] = IF k = 0 THEN b ELSE G[k][f[k - 1]]
    BY <2>1 DEF IsRecursion
  <2>5. \A k \in 0 .. m + 1 : g[k] = IF k = 0 THEN b ELSE G[k][g[k - 1]]
    <3> TAKE k \in 0 .. m + 1
    <3>1. CASE k = m + 1
      <4>1. k # 0 /\ k - 1 = m /\ m \in 0 .. m + 1 /\ m # m + 1
        BY <3>1
      <4>2. g[k] = G[k][f[m]] /\ g[m] = f[m]
        BY <3>1, <4>1
      <4> QED BY <4>1, <4>2
    <3>2. CASE k # m + 1
      <4>1. k \in 0 .. m /\ (k # 0 => k - 1 \in 0 .. m /\ k - 1 # m + 1)
        BY <3>2
      <4>2. g[k] = f[k] /\ (k # 0 => g[k - 1] = f[k - 1])
        BY <4>1
      <4>3. f[k] = IF k = 0 THEN b ELSE G[k][f[k - 1]]
        BY <2>4, <4>1
      <4> HIDE DEF g
      <4> QED BY <4>2, <4>3
    <3> QED BY <3>1, <3>2
  <2>6. IsRecursion(g, m + 1, b, G)
    <3>1. g = [k \in 0 .. m + 1 |-> g[k]]
      BY <2>3
    <3> HIDE DEF g
    <3> QED BY <2>5, <3>1 DEF IsRecursion
  <2> QED BY <2>3, <2>6
<1> HIDE DEF P
<1>3. n \in P
  BY <1>1, <1>2, NatInd
<1> QED BY <1>3 DEF P

\* A recursion is known from its steps: two that step alike agree.
LEMMA RecursionsAgree ==
  ASSUME NEW b, NEW n \in Nat, NEW m \in Nat, n <= m, NEW f, NEW g, NEW G, NEW H,
         IsRecursion(f, n, b, G), IsRecursion(g, m, b, H), \A k \in 1 .. n : G[k] = H[k]
  PROVE  \A k \in 0 .. n : f[k] = g[k]
<1> DEFINE P == {k \in Nat : k <= n => f[k] = g[k]}
<1>1. \A k \in 0 .. n : f[k] = IF k = 0 THEN b ELSE G[k][f[k - 1]]
  BY DEF IsRecursion
<1>2. \A k \in 0 .. n : g[k] = IF k = 0 THEN b ELSE H[k][g[k - 1]]
  <2>1. \A k \in 0 .. m : g[k] = IF k = 0 THEN b ELSE H[k][g[k - 1]]
    BY DEF IsRecursion
  <2>2. \A k \in 0 .. n : k \in 0 .. m
    OBVIOUS
  <2> QED BY <2>1, <2>2
<1>3. 0 \in P
  BY <1>1, <1>2
<1>4. ASSUME NEW k \in Nat, k \in P PROVE k + 1 \in P
  <2> SUFFICES ASSUME k + 1 <= n PROVE f[k + 1] = g[k + 1]
    OBVIOUS
  <2>1. f[k] = g[k] /\ k + 1 \in 0 .. n /\ k + 1 \in 1 .. n /\ k + 1 # 0 /\ (k + 1) - 1 = k
    BY <1>4
  <2>2. f[k + 1] = G[k + 1][f[k]] /\ g[k + 1] = H[k + 1][g[k]]
    BY <1>1, <1>2, <2>1
  <2> QED BY <2>1, <2>2
<1> HIDE DEF P
<1>5. Nat \subseteq P
  BY <1>3, <1>4, NatInd
<1> QED BY <1>5 DEF P

\* A recursive definition over all numbers, of steps that are all alike.
IsNatRecursion(f, b, G) ==
  f = [k \in Nat |-> IF k = 0 THEN b ELSE G[f[k - 1]]]

LEMMA NatRecursionExists ==
  ASSUME NEW T, NEW b \in T, NEW G \in [T -> T]
  PROVE  \E f \in [Nat -> T] : IsNatRecursion(f, b, G)
<1> DEFINE Upto(n) == [k \in 1 .. n |-> G]
           h == [n \in Nat |-> CHOOSE f \in [0 .. n -> T] : IsRecursion(f, n, b, Upto(n))]
           f == [n \in Nat |-> h[n][n]]
<1>1. \A n \in Nat : h[n] \in [0 .. n -> T] /\ IsRecursion(h[n], n, b, Upto(n))
  <2> TAKE n \in Nat
  <2>1. Upto(n) \in [1 .. n -> [T -> T]]
    OBVIOUS
  <2>2. \E e \in [0 .. n -> T] : IsRecursion(e, n, b, Upto(n))
    BY <2>1, RecursionExists
  <2> QED BY <2>2
<1> HIDE DEF h, Upto
<1>2. f \in [Nat -> T]
  <2>1. ASSUME NEW n \in Nat PROVE h[n][n] \in T
    <3>1. n \in 0 .. n /\ h[n] \in [0 .. n -> T]
      BY <1>1
    <3> QED BY <3>1
  <2> QED BY <2>1
<1>3. f[0] = b
  <2>1. IsRecursion(h[0], 0, b, Upto(0)) /\ 0 \in 0 .. 0
    BY <1>1
  <2>2. h[0][0] = b
    BY <2>1 DEF IsRecursion
  <2> QED BY <2>2
<1>4. ASSUME NEW n \in Nat, n # 0 PROVE f[n] = G[f[n - 1]]
  <2>1. n - 1 \in Nat /\ n - 1 \in 0 .. n /\ n - 1 <= n /\ n \in 0 .. n /\ n \in 1 .. n
    BY <1>4
  <2>2. h[n][n] = Upto(n)[n][h[n][n - 1]]
    BY <1>1, <1>4, <2>1 DEF IsRecursion
  <2>3. Upto(n)[n] = G
    BY <2>1 DEF Upto
  <2>4. \A k \in 1 .. n - 1 : Upto(n - 1)[k] = Upto(n)[k]
    BY <2>1 DEF Upto
  <2>5. IsRecursion(h[n - 1], n - 1, b, Upto(n - 1)) /\ IsRecursion(h[n], n, b, Upto(n))
    BY <1>1, <2>1
  <2>6. \A k \in 0 .. n - 1 : h[n - 1][k] = h[n][k]
    <3> DEFINE m == n - 1
               hm == h[m]
               hn == h[n]
    <3>1. /\ m \in Nat /\ m <= n
          /\ IsRecursion(hm, m, b, Upto(m)) /\ IsRecursion(hn, n, b, Upto(n))
          /\ \A k \in 1 .. m : Upto(m)[k] = Upto(n)[k]
      BY <2>1, <2>4, <2>5
    <3> HIDE DEF m, hm, hn
    <3>2. \A k \in 0 .. m : hm[k] = hn[k]
      BY <3>1, RecursionsAgree
    <3> QED BY <3>2 DEF m, hm, hn
  <2>7. h[n - 1][n - 1] = h[n][n - 1]
    BY <2>1, <2>6
  <2>8. f[n] = h[n][n] /\ f[n - 1] = h[n - 1][n - 1]
    BY <2>1
  <2> HIDE DEF f
  <2> QED BY <2>2, <2>3, <2>7, <2>8
<1>5. IsNatRecursion(f, b, G)
  <2>1. f = [k \in Nat |-> f[k]]
    BY <1>2
  <2> HIDE DEF f
  <2>2. \A k \in Nat : f[k] = IF k = 0 THEN b ELSE G[f[k - 1]]
    BY <1>3, <1>4
  <2> QED BY <2>1, <2>2 DEF IsNatRecursion
<1> HIDE DEF f
<1> QED BY <1>2, <1>5

==============================================================================
