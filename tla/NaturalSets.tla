---------------------------- MODULE NaturalSets -----------------------------
(***************************************************************************)
(* Induction and recursion on natural numbers, as statements about sets    *)
(* and functions: the proofs about Message and ServerLifecycle need to     *)
(* know what their recursive functions compute.  Both rest on a theorem of *)
(* the library: strict inclusion of finite sets is well-founded.           *)
(***************************************************************************)
EXTENDS Naturals, FiniteSets, FiniteSetTheorems, WellFoundedInduction, TLAPS

\* A set of numbers that is not empty has a least element: that whose
\* numbers up to it are a minimal set.
LEMMA LeastElement ==
    ASSUME NEW T \in SUBSET Nat, T # {}
    PROVE  \E m \in T : \A n \in T : m <= n
<1> DEFINE Upto == {0..n : n \in T}
           Below == StrictSubsetOrdering(Nat)
<1>1. Upto \subseteq FiniteSubsetsOf(Nat)
  <2>1. ASSUME NEW n \in T
        PROVE  0..n \in FiniteSubsetsOf(Nat)
    <3>1. 0 \in Int /\ n \in Int /\ 0..n \subseteq Nat
      OBVIOUS
    <3>2. IsFiniteSet(0..n)
      BY <3>1, FS_Interval
    <3> QED BY <3>1, <3>2 DEF FiniteSubsetsOf
  <2> QED BY <2>1
<1>2. Upto # {}
  OBVIOUS
<1>3. IsWellFoundedOn(Below, FiniteSubsetsOf(Nat))
  BY FS_StrictSubsetOrderingWellFounded
<1>4. PICK x \in Upto : \A y \in Upto : <<y, x>> \notin Below
  <2> HIDE DEF Upto, Below
  <2> QED BY <1>1, <1>2, <1>3, WFMin
<1>5. PICK m \in T : x = 0..m
  OBVIOUS
<1>6. ASSUME NEW n \in T, ~ (m <= n)
      PROVE  FALSE
  <2>1. 0..n \in Upto
    OBVIOUS
  <2>2. 0..n \subseteq 0..m /\ 0..n # 0..m
    <3>1. m \in 0..m /\ m \notin 0..n /\ n < m
      BY <1>6
    <3> QED BY <3>1
  <2>3. <<0..n, 0..m>> \in Below
    BY <2>2 DEF StrictSubsetOrdering
  <2> QED BY <1>4, <1>5, <2>1, <2>3
<1> QED BY <1>6

\* A set that has 0, and with a number the next one, has all numbers.
LEMMA SetInduction ==
    ASSUME NEW T \in SUBSET Nat, 0 \in T, \A n \in T : n + 1 \in T
    PROVE  T = Nat
<1> SUFFICES ASSUME Nat \ T # {} PROVE FALSE
  OBVIOUS
<1>1. PICK m \in Nat \ T : \A n \in Nat \ T : m <= n
  BY LeastElement
<1>2. m # 0 /\ m - 1 \in Nat /\ m - 1 \notin Nat \ T
  BY <1>1
<1>3. (m - 1) + 1 \in T
  BY <1>2
<1> QED BY <1>1, <1>2, <1>3

-----------------------------------------------------------------------------
\* Function f on D is b in the base, and elsewhere what the step makes of its
\* own value at the next place.
Defined(f, D, base, b, next, step) ==
    f = [n \in D |-> IF n \in base THEN b[n] ELSE step[n][f[next[n]]]]

\* Two functions so defined, each as far as some rank, agree as far as both go.
LEMMA Agree ==
    ASSUME NEW D, NEW base, NEW b, NEW next, NEW step,
           NEW rank \in [D -> Nat],
           \A n \in D \ base : next[n] \in D /\ rank[next[n]] < rank[n],
           NEW j \in Nat, NEW g, Defined(g, {n \in D : rank[n] < j}, base, b, next, step),
           NEW k \in Nat, NEW h, Defined(h, {n \in D : rank[n] < k}, base, b, next, step)
    PROVE  \A n \in D : rank[n] < j /\ rank[n] < k => g[n] = h[n]
<1> DEFINE T == {r \in Nat : \A n \in D : rank[n] < r /\ rank[n] < j /\ rank[n] < k => g[n] = h[n]}
<1>1. 0 \in T
  OBVIOUS
<1>2. ASSUME NEW r \in T
      PROVE  r + 1 \in T
  <2> SUFFICES ASSUME NEW n \in D, rank[n] < r + 1, rank[n] < j, rank[n] < k
               PROVE  g[n] = h[n]
    OBVIOUS
  <2>1. CASE n \in base
    BY <2>1 DEF Defined
  <2>2. CASE n \notin base
    <3>1. next[n] \in D /\ rank[next[n]] < rank[n] /\ rank[next[n]] \in Nat /\ rank[n] \in Nat
      BY <2>2
    <3>2. rank[next[n]] < r /\ rank[next[n]] < j /\ rank[next[n]] < k
      BY <3>1
    <3>3. g[next[n]] = h[next[n]]
      BY <3>1, <3>2
    <3>4. n \in {i \in D : rank[i] < j} /\ n \in {i \in D : rank[i] < k}
      OBVIOUS
    <3>5. g[n] = step[n][g[next[n]]]
      BY <2>2, <3>4 DEF Defined
    <3>6. h[n] = step[n][h[next[n]]]
      BY <2>2, <3>4 DEF Defined
    <3> QED BY <3>3, <3>5, <3>6
  <2> QED BY <2>1, <2>2
<1>3. T = Nat
  <2> HIDE DEF T
  <2>1. T \in SUBSET Nat
    BY DEF T
  <2> QED BY <1>1, <1>2, <2>1, SetInduction
<1> QED BY <1>3

\* When the next place always has a smaller rank, there is such a function.
LEMMA Recursion ==
    ASSUME NEW D, NEW S, NEW base, NEW b, NEW next, NEW step,
           NEW rank \in [D -> Nat],
           \A n \in D \cap base : b[n] \in S,
           \A n \in D \ base : /\ next[n] \in D /\ rank[next[n]] < rank[n]
                               /\ \A x \in S : step[n][x] \in S
    PROVE  \E f \in [D -> S] : Defined(f, D, base, b, next, step)
<1> DEFINE Below(k) == {n \in D : rank[n] < k}
           Part(g, k) == g \in [Below(k) -> S] /\ Defined(g, Below(k), base, b, next, step)
           T == {k \in Nat : \E g : Part(g, k)}
<1>1. 0 \in T
  <2>1. Below(0) = {}
    OBVIOUS
  <2>2. Part([n \in {} |-> 0], 0)
    BY <2>1 DEF Defined
  <2> QED BY <2>2
<1>2. ASSUME NEW k \in T
      PROVE  k + 1 \in T
  <2>1. PICK g : Part(g, k)
    OBVIOUS
  <2> DEFINE h == [n \in Below(k + 1) |-> IF n \in base THEN b[n] ELSE step[n][g[next[n]]]]
  <2>2. \A n \in Below(k + 1) : n \notin base => next[n] \in Below(k) /\ next[n] \in Below(k + 1)
    OBVIOUS
  <2>3. ASSUME NEW n \in Below(k)
        PROVE  n \in Below(k + 1) /\ h[n] = g[n]
    <3>1. n \in D /\ rank[n] \in Nat /\ rank[n] < k
      OBVIOUS
    <3>2. n \in Below(k + 1)
      BY <3>1
    <3>3. g = [i \in Below(k) |-> IF i \in base THEN b[i] ELSE step[i][g[next[i]]]]
      BY <2>1 DEF Defined
    <3> HIDE DEF Below
    <3>4. h[n] = IF n \in base THEN b[n] ELSE step[n][g[next[n]]]
      BY <3>2
    <3> HIDE DEF h
    <3>5. g[n] = IF n \in base THEN b[n] ELSE step[n][g[next[n]]]
      BY <3>3
    <3> QED BY <3>2, <3>4, <3>5
  <2>4. h \in [Below(k + 1) -> S]
    <3>1. ASSUME NEW n \in Below(k + 1)
          PROVE  h[n] \in S
      <4>1. CASE n \in base
        BY <4>1
      <4>2. CASE n \notin base
        <5>1. g[next[n]] \in S
          BY <2>1, <2>2, <4>2
        <5> QED BY <5>1, <4>2
      <4> QED BY <4>1, <4>2
    <3> QED BY <3>1
  <2>5. \A n \in Below(k + 1) : n \notin base => g[next[n]] = h[next[n]]
    <3> HIDE DEF h, Below
    <3> QED BY <2>2, <2>3
  <2>6. h = [n \in Below(k + 1) |-> IF n \in base THEN b[n] ELSE step[n][h[next[n]]]]
    <3> DEFINE h2 == [n \in Below(k + 1) |-> IF n \in base THEN b[n] ELSE step[n][h[next[n]]]]
    <3>1. \A n \in Below(k + 1) : h[n] = h2[n]
      <4> SUFFICES ASSUME NEW n \in Below(k + 1) PROVE h[n] = h2[n]
        OBVIOUS
      <4> HIDE DEF Below
      <4>1. h[n] = IF n \in base THEN b[n] ELSE step[n][g[next[n]]]
        OBVIOUS
      <4> HIDE DEF h
      <4>2. h2[n] = IF n \in base THEN b[n] ELSE step[n][h[next[n]]]
        OBVIOUS
      <4> HIDE DEF h2
      <4> QED BY <4>1, <4>2, <2>5
    <3> QED BY <3>1
  <2>7. Part(h, k + 1)
    <3> HIDE DEF h
    <3> QED BY <2>4, <2>6 DEF Defined
  <2> HIDE DEF Part, h
  <2>8. k + 1 \in Nat /\ \E g2 : Part(g2, k + 1)
    BY <2>7
  <2> QED BY <2>8
<1>3. T = Nat
  <2> HIDE DEF T
  <2>1. T \in SUBSET Nat
    BY DEF T
  <2> QED BY <1>1, <1>2, <2>1, SetInduction
<1> DEFINE G(k) == CHOOSE g : Part(g, k)
           f == [n \in D |-> G(rank[n] + 1)[n]]
<1>4. \A k \in Nat : Part(G(k), k)
  <2>1. \A k \in Nat : \E g : Part(g, k)
    BY <1>3
  <2> HIDE DEF Part
  <2> QED BY <2>1
<1> HIDE DEF G, T
<1>5. ASSUME NEW n \in D
      PROVE  f[n] \in S /\ f[n] = IF n \in base THEN b[n] ELSE step[n][f[next[n]]]
  <2>1. rank[n] + 1 \in Nat /\ n \in Below(rank[n] + 1) /\ f[n] = G(rank[n] + 1)[n]
    OBVIOUS
  <2>2. Part(G(rank[n] + 1), rank[n] + 1)
    BY <2>1, <1>4
  <2>3. f[n] \in S
    BY <2>1, <2>2
  <2>4. f[n] = IF n \in base THEN b[n] ELSE step[n][G(rank[n] + 1)[next[n]]]
    BY <2>1, <2>2 DEF Defined
  <2>5. CASE n \notin base
    <3>1. /\ next[n] \in D /\ rank[next[n]] \in Nat /\ rank[n] \in Nat
          /\ rank[next[n]] < rank[n] + 1 /\ rank[next[n]] < rank[next[n]] + 1
          /\ f[next[n]] = G(rank[next[n]] + 1)[next[n]]
      BY <2>5
    <3>2. Part(G(rank[next[n]] + 1), rank[next[n]] + 1)
      <4> DEFINE k == rank[next[n]] + 1
      <4>1. k \in Nat
        BY <3>1
      <4> HIDE DEF Part, k
      <4>2. Part(G(k), k)
        BY <1>4, <4>1
      <4> QED BY <4>2 DEF k
    <3>3. G(rank[n] + 1)[next[n]] = G(rank[next[n]] + 1)[next[n]]
      <4> DEFINE j == rank[n] + 1
                 k == rank[next[n]] + 1
      <4>1. /\ j \in Nat /\ Defined(G(j), {m \in D : rank[m] < j}, base, b, next, step)
            /\ k \in Nat /\ Defined(G(k), {m \in D : rank[m] < k}, base, b, next, step)
        BY <2>1, <2>2, <3>1, <3>2
      <4>2. rank[next[n]] < j /\ rank[next[n]] < k
        BY <3>1
      <4> HIDE DEF j, k
      <4>3. \A m \in D : rank[m] < j /\ rank[m] < k => G(j)[m] = G(k)[m]
        BY <4>1, Agree
      <4>4. G(j)[next[n]] = G(k)[next[n]]
        BY <4>2, <4>3, <3>1
      <4> QED BY <4>4 DEF j, k
    <3> QED BY <2>3, <2>4, <2>5, <3>1, <3>3
  <2> QED BY <2>3, <2>4, <2>5
<1>6. f \in [D -> S]
  <2>1. f = [n \in D |-> f[n]]
    OBVIOUS
  <2> HIDE DEF f
  <2> QED BY <1>5, <2>1
<1>7. Defined(f, D, base, b, next, step)
  <2> DEFINE f2 == [n \in D |-> IF n \in base THEN b[n] ELSE step[n][f[next[n]]]]
  <2>1. f = [n \in D |-> f[n]]
    OBVIOUS
  <2> HIDE DEF f
  <2>2. \A n \in D : f[n] = f2[n]
    BY <1>5
  <2>3. f = f2
    BY <2>1, <2>2
  <2> QED BY <2>3 DEF Defined
<1> QED BY <1>6, <1>7
=============================================================================
