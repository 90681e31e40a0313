------------------------------ MODULE Recursion ------------------------------
(***************************************************************************)
(* Induction and recursion over the natural numbers, stated for sets and   *)
(* functions: what holds of 0 and of n + 1 with n is all of Nat, and what  *)
(* is defined from 0 and from one step to the next is a function.          *)
(***************************************************************************)
EXTENDS Integers, Sequences, FiniteSetTheorems, TLAPS

\* A set of natural numbers with 0 that has n + 1 with n is Nat: the least
\* interval 0..n that ends outside of it would have a smaller one below.
LEMMA SetInduction ==
  ASSUME NEW S \in SUBSET Nat, 0 \in S, \A n \in S : n + 1 \in S
  PROVE  S = Nat
<1> DEFINE R == StrictSubsetOrdering(Nat)
           T == {0..n : n \in Nat \ S}
<1>1. IsWellFoundedOn(R, FiniteSubsetsOf(Nat))
  BY FS_StrictSubsetOrderingWellFounded
<1>2. SUFFICES ASSUME T # {} PROVE FALSE
  OBVIOUS
<1>3. T \subseteq FiniteSubsetsOf(Nat)
  <2>1. \A n \in Nat : IsFiniteSet(0..n)
    BY FS_Interval
  <2> QED BY <2>1 DEF FiniteSubsetsOf
<1>4. PICK x \in T : \A y \in T : ~(<<y, x>> \in R)
  <2> HIDE DEF R, T
  <2> QED BY <1>1, <1>2, <1>3, WFMin
<1>5. PICK m \in Nat \ S : x = 0..m
  BY <1>4
<1>6. m # 0 /\ m - 1 \in Nat /\ m - 1 \notin S
  OBVIOUS
<1>7. 0..(m-1) \in T
  BY <1>6
<1>8. <<0..(m-1), 0..m>> \in R
  BY <1>6 DEF StrictSubsetOrdering
<1> QED BY <1>4, <1>5, <1>7, <1>8

\* Up to a bound.
LEMMA UpToInduction ==
  ASSUME NEW m \in Nat, NEW S, 0 \in S, \A n \in 0..(m-1) : n \in S => n + 1 \in S
  PROVE  0..m \subseteq S
<1> DEFINE T == {n \in Nat : n <= m => n \in S}
<1>1. 0 \in T /\ \A n \in T : n + 1 \in T
  OBVIOUS
<1>2. T = Nat
  <2>1. T \in SUBSET Nat
    OBVIOUS
  <2> HIDE DEF T
  <2> QED BY <1>1, <2>1, SetInduction
<1> QED BY <1>2

\* Numbers up to a bound have a greatest one.
LEMMA Greatest ==
  ASSUME NEW n \in Nat, NEW S \in SUBSET (0..n), S # {}
  PROVE  \E x \in S : \A y \in S : x >= y
<1> DEFINE T == {m \in 0..n : \A x \in S : x <= n - m}
<1>1. SUFFICES ASSUME \A x \in S : \E y \in S : x < y PROVE FALSE
  OBVIOUS
<1>2. 0 \in T
  OBVIOUS
<1>3. ASSUME NEW m \in 0..(n-1), m \in T PROVE m + 1 \in T
  BY <1>1, <1>3
<1>4. 0..n \subseteq T
  <2> HIDE DEF T
  <2> QED BY <1>2, <1>3, UpToInduction
<1>5. n \in T /\ n - n = 0
  BY <1>4
<1>6. \A x \in S : x = 0
  BY <1>5
<1>7. PICK x \in S : TRUE
  OBVIOUS
<1>8. PICK y \in S : x < y
  BY <1>1, <1>7
<1>9. x = 0 /\ y = 0
  BY <1>6, <1>7, <1>8
<1> QED BY <1>8, <1>9

\* And a least one.
LEMMA Least ==
  ASSUME NEW n \in Nat, NEW S \in SUBSET (0..n), S # {}
  PROVE  \E x \in S : \A y \in S : x <= y
<1> DEFINE T == {n - x : x \in S}
<1>1. T \in SUBSET (0..n) /\ T # {}
  <2>1. \A x \in S : n - x \in 0..n
    OBVIOUS
  <2> QED BY <2>1
<1> HIDE DEF T
<1>2. PICK z \in T : \A y \in T : z >= y
  BY <1>1, Greatest
<1>3. PICK x \in S : z = n - x
  BY <1>2 DEF T
<1>4. \A y \in S : n - x >= n - y
  BY <1>2, <1>3 DEF T
<1> QED BY <1>4

\* What takes the value at k - 1 to the one at k, for k in 1..m.
Steps(m, V) == [1..m -> [V -> V]]

\* f begins with b and goes on as E says.
Follows(f, m, V, b, E) ==
  f \in [0..m -> V] /\ f[0] = b /\ \A k \in 1..m : f[k] = E[k][f[k-1]]

LEMMA RecursionExists ==
  ASSUME NEW m \in Nat, NEW V, NEW b \in V, NEW E \in Steps(m, V)
  PROVE  \E f : Follows(f, m, V, b, E)
<1> DEFINE D(n, f) == f[0] = b /\ \A k \in 1..n : f[k] = E[k][f[k-1]]
           S == {n \in 0..m : \E f \in [0..n -> V] : D(n, f)}
<1>0. E \in [1..m -> [V -> V]]
  BY DEF Steps
<1>1. 0 \in S
  <2>1. 0 \in 0..m /\ D(0, [k \in 0..0 |-> b]) /\ [k \in 0..0 |-> b] \in [0..0 -> V]
    OBVIOUS
  <2> HIDE DEF D
  <2> QED BY <2>1
<1>2. ASSUME NEW n \in 0..(m-1), n \in S PROVE n + 1 \in S
  <2>1. PICK f \in [0..n -> V] : D(n, f)
    BY <1>2
  <2> DEFINE g == [k \in 0..(n+1) |-> IF k = n + 1 THEN E[k][f[n]] ELSE f[k]]
  <2>2. n + 1 \in 1..m /\ f[n] \in V /\ E[n + 1][f[n]] \in V
    BY <1>0
  <2>3. g \in [0..(n+1) -> V]
    BY <2>2
  <2>4. g[0] = b /\ \A k \in 1..(n+1) : g[k] = E[k][g[k-1]]
    <3>1. g[0] = b
      BY <2>1
    <3>2. ASSUME NEW k \in 1..(n+1) PROVE g[k] = E[k][g[k-1]]
      <4>1. CASE k = n + 1
        BY <4>1
      <4>2. CASE k \in 1..n
        <5>1. g[k] = f[k] /\ g[k-1] = f[k-1]
          BY <4>2
        <5> QED BY <2>1, <4>2, <5>1
      <4> QED BY <4>1, <4>2
    <3> QED BY <3>1, <3>2
  <2>5. D(n + 1, g)
    BY <2>4
  <2> HIDE DEF D, g
  <2> QED BY <2>2, <2>3, <2>5
<1>3. 0..m \subseteq S
  <2> HIDE DEF S
  <2> QED BY <1>1, <1>2, UpToInduction
<1> QED BY <1>3 DEF Follows

\* Two functions that begin alike and go on alike are alike.
LEMMA FollowsAlike ==
  ASSUME NEW m \in Nat, NEW V, NEW b, NEW E, NEW f, Follows(f, m, V, b, E),
         NEW l \in Nat, NEW D, NEW g, Follows(g, l, V, b, D),
         NEW c \in 0..m, c <= l, \A k \in 1..c : D[k] = E[k]
  PROVE  \A k \in 0..c : g[k] = f[k]
<1> DEFINE S == {k \in 0..c : g[k] = f[k]}
<1>1. 0 \in S
  BY DEF Follows
<1>2. ASSUME NEW n \in 0..(c-1), n \in S PROVE n + 1 \in S
  <2>1. n + 1 \in 1..c /\ n + 1 \in 1..m /\ n + 1 \in 1..l /\ (n + 1) - 1 = n
    OBVIOUS
  <2>2. g[n + 1] = D[n + 1][g[n]] /\ f[n + 1] = E[n + 1][f[n]]
    BY <2>1 DEF Follows
  <2> QED BY <1>2, <2>1, <2>2
<1>3. 0..c \subseteq S
  <2> HIDE DEF S
  <2> QED BY <1>1, <1>2, UpToInduction
<1> QED BY <1>3
-----------------------------------------------------------------------------
(***************************************************************************)
(* Counting the numbers of an interval that are in a set.                  *)
(***************************************************************************)
Tally(S, i, j) == Cardinality({k \in i..j : k \in S})

LEMMA TallyNone ==
  ASSUME NEW S, NEW i \in Int, NEW j \in Int, j < i
  PROVE  Tally(S, i, j) = 0
<1>1. {k \in i..j : k \in S} = {}
  OBVIOUS
<1> QED BY <1>1, FS_EmptySet DEF Tally

LEMMA TallyNext ==
  ASSUME NEW S, NEW i \in Int, NEW j \in Int, i <= j
  PROVE  Tally(S, i, j) = Tally(S, i, j - 1) + (IF j \in S THEN 1 ELSE 0)
<1> DEFINE T == {k \in i..(j-1) : k \in S}
<1>1. IsFiniteSet(T) /\ j \notin T /\ Cardinality(T) \in Nat
  <2>1. IsFiniteSet(i..(j-1)) /\ T \in SUBSET (i..(j-1))
    BY FS_Interval
  <2> HIDE DEF T
  <2>2. IsFiniteSet(T)
    BY <2>1, FS_Subset
  <2>3. j \notin T
    BY <2>1
  <2> QED BY <2>2, <2>3, FS_CardinalityType
<1>2. {k \in i..j : k \in S} = IF j \in S THEN T \union {j} ELSE T
  OBVIOUS
<1>3. Cardinality(T \union {j}) = Cardinality(T) + 1
  <2> HIDE DEF T
  <2> QED BY <1>1, FS_AddElement
<1>4. Tally(S, i, j - 1) = Cardinality(T)
  BY DEF Tally
<1>5. Tally(S, i, j) = Cardinality(IF j \in S THEN T \union {j} ELSE T)
  BY <1>2 DEF Tally
<1> HIDE DEF T
<1> QED BY <1>1, <1>3, <1>4, <1>5

LEMMA TallyType ==
  ASSUME NEW S, NEW i \in Int, NEW j \in Int
  PROVE  Tally(S, i, j) \in Nat
<1>1. IsFiniteSet(i..j) /\ {k \in i..j : k \in S} \in SUBSET (i..j)
  BY FS_Interval
<1>2. IsFiniteSet({k \in i..j : k \in S})
  BY <1>1, FS_Subset
<1> QED BY <1>2, FS_CardinalityType DEF Tally

\* Two intervals in a row.
LEMMA TallySplit ==
  ASSUME NEW S, NEW i \in Int, NEW j \in Int, i <= j + 1, NEW l \in Nat
  PROVE  Tally(S, i, j + l) = Tally(S, i, j) + Tally(S, j + 1, j + l)
<1> DEFINE T == {n \in 0..l : Tally(S, i, j + n) = Tally(S, i, j) + Tally(S, j + 1, j + n)}
<1>1. 0 \in T
  BY TallyNone, TallyType
<1>2. ASSUME NEW n \in 0..(l-1), n \in T PROVE n + 1 \in T
  <2>1. Tally(S, i, j + (n + 1)) = Tally(S, i, j + n) + (IF j + (n + 1) \in S THEN 1 ELSE 0)
    <3>1. (j + (n + 1)) - 1 = j + n /\ i <= j + (n + 1) /\ j + (n + 1) \in Int
      OBVIOUS
    <3> QED BY <3>1, TallyNext
  <2>2. Tally(S, j + 1, j + (n + 1)) = Tally(S, j + 1, j + n) + (IF j + (n + 1) \in S THEN 1 ELSE 0)
    <3>1. (j + (n + 1)) - 1 = j + n /\ j + 1 <= j + (n + 1) /\ j + (n + 1) \in Int /\ j + 1 \in Int
      OBVIOUS
    <3> QED BY <3>1, TallyNext
  <2>3. /\ Tally(S, i, j) \in Nat /\ Tally(S, i, j + n) \in Nat
        /\ Tally(S, j + 1, j + n) \in Nat
    BY TallyType
  <2> QED BY <1>2, <2>1, <2>2, <2>3
<1>3. 0..l \subseteq T
  <2> HIDE DEF T
  <2> QED BY <1>1, <1>2, UpToInduction
<1> QED BY <1>3

\* The longer interval counts at least as many.
LEMMA TallyGrows ==
  ASSUME NEW S, NEW i \in Int, NEW j \in Int, NEW k \in Int, j <= k
  PROVE  Tally(S, i, j) <= Tally(S, i, k)
<1>1. IsFiniteSet(i..k) /\ {l \in i..k : l \in S} \in SUBSET (i..k)
  BY FS_Interval
<1>2. IsFiniteSet({l \in i..k : l \in S})
  BY <1>1, FS_Subset
<1>3. {l \in i..j : l \in S} \in SUBSET {l \in i..k : l \in S}
  OBVIOUS
<1> QED BY <1>2, <1>3, FS_Subset DEF Tally

\* Sets that agree on an interval have as many there, also when one of them
\* is moved.
LEMMA TallyAlike ==
  ASSUME NEW S, NEW T, NEW i \in Int, NEW j \in Int, \A k \in i..j : k \in S <=> k \in T
  PROVE  Tally(S, i, j) = Tally(T, i, j)
<1>1. {k \in i..j : k \in S} = {k \in i..j : k \in T}
  OBVIOUS
<1> QED BY <1>1 DEF Tally

LEMMA TallyMoved ==
  ASSUME NEW S, NEW T, NEW l \in Nat, NEW n \in Int,
         \A k \in 1..l : k \in S <=> n + k \in T
  PROVE  Tally(S, 1, l) = Tally(T, n + 1, n + l)
<1> DEFINE A == {k \in 0..l : Tally(S, 1, k) = Tally(T, n + 1, n + k)}
<1>1. 0 \in A
  BY TallyNone
<1>2. ASSUME NEW k \in 0..(l-1), k \in A PROVE k + 1 \in A
  <2>1. Tally(S, 1, k + 1) = Tally(S, 1, k) + (IF k + 1 \in S THEN 1 ELSE 0)
    <3>1. (k + 1) - 1 = k /\ 1 <= k + 1 /\ k + 1 \in Int
      OBVIOUS
    <3> QED BY <3>1, TallyNext
  <2>2. Tally(T, n + 1, n + (k + 1)) = Tally(T, n + 1, n + k) + (IF n + (k + 1) \in T THEN 1 ELSE 0)
    <3>1. (n + (k + 1)) - 1 = n + k /\ n + 1 <= n + (k + 1) /\ n + (k + 1) \in Int /\ n + 1 \in Int
      OBVIOUS
    <3> QED BY <3>1, TallyNext
  <2> QED BY <1>2, <2>1, <2>2
<1>3. 0..l \subseteq A
  <2> HIDE DEF A
  <2> QED BY <1>1, <1>2, UpToInduction
<1> QED BY <1>3
=============================================================================
