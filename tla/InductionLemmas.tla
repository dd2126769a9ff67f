-------------------------- MODULE InductionLemmas --------------------------
(***************************************************************************)
(* Induction over the natural numbers stated with sets, and the existence  *)
(* of the functions that a definition by recursion over 0 .. N chooses.    *)
(***************************************************************************)
EXTENDS Integers, WellFoundedInduction, TLAPS

LEMMA Least ==
    ASSUME NEW T \in SUBSET Nat, T # {}
    PROVE  \E n \in T : \A m \in T : n <= m
<1>1. PICK n \in T : \A m \in T : ~(<<m, n>> \in OpToRel(<, Nat))
  BY NatLessThanWellFounded, WFMin, Zenon
<1>2. \A m \in T : ~(m < n)
  BY <1>1 DEF OpToRel
<1>3. QED  BY <1>2

LEMMA Greatest ==
    ASSUME NEW N \in Nat, NEW T \in SUBSET (0 .. N), T # {}
    PROVE  \E n \in T : \A m \in T : n >= m
<1> DEFINE U == {u \in 0 .. N : N - u \in T}
<1>1. U \in SUBSET Nat
  OBVIOUS
<1>2. U # {}
  <2>1. PICK n : n \in T
    OBVIOUS
  <2>2. n \in 0 .. N
    BY <2>1
  <2>3. N - n \in 0 .. N /\ N - (N - n) = n
    BY <2>2
  <2>4. QED  BY <2>1, <2>3
<1>3. PICK u \in U : \A x \in U : u <= x
  BY <1>1, <1>2, Least
<1>4. ASSUME NEW m \in T PROVE N - u >= m
  <2>1. m \in 0 .. N /\ u \in 0 .. N
    BY <1>3
  <2>2. N - m \in 0 .. N /\ N - (N - m) = m
    BY <2>1
  <2>3. N - m \in U
    BY <2>2
  <2>4. u <= N - m
    BY <1>3, <2>3
  <2>5. QED  BY <2>1, <2>4
<1>5. QED  BY <1>3, <1>4

LEMMA Induct ==
    ASSUME NEW S, 0 \in S, \A n \in Nat : n \in S => n + 1 \in S
    PROVE  Nat \subseteq S
<1> DEFINE T == Nat \ S
<1>1. SUFFICES ASSUME T # {} PROVE FALSE
  OBVIOUS
<1>2. PICK n \in T : \A m \in T : n <= m
  BY <1>1, Least
<1>3. n # 0 /\ n - 1 \in Nat /\ n - 1 \notin T
  BY <1>2
<1>4. QED  BY <1>3

LEMMA InductUpTo ==
    ASSUME NEW a \in Int, NEW b \in Int, NEW S, a <= b => a \in S,
           \A k \in a .. b - 1 : k \in S => k + 1 \in S
    PROVE  a .. b \subseteq S
<1> DEFINE T == {n \in Nat : a + n <= b => a + n \in S}
<1>1. 0 \in T
  OBVIOUS
<1>2. ASSUME NEW n \in Nat, n \in T PROVE n + 1 \in T
  <2>1. SUFFICES ASSUME a + (n + 1) <= b PROVE a + (n + 1) \in S
    OBVIOUS
  <2>2. a + n \in a .. b - 1 /\ (a + n) + 1 = a + (n + 1) /\ a + n <= b
    BY <2>1
  <2>3. a + n \in S
    BY <1>2, <2>2
  <2>4. QED  BY <2>2, <2>3
<1>3. Nat \subseteq T
  <2> HIDE DEF T
  <2>1. QED  BY <1>1, <1>2, Induct
<1>4. ASSUME NEW k \in a .. b PROVE k \in S
  <2>1. k - a \in Nat /\ a + (k - a) = k /\ k <= b
    OBVIOUS
  <2>2. k - a \in T
    BY <1>3, <2>1
  <2>3. QED  BY <2>1, <2>2
<1>5. QED  BY <1>4

\* G says how the value at i comes from the one before.
Follows(f, N, v, G) == f = [i \in 0 .. N |-> IF i = 0 THEN v ELSE G[<<f[i - 1], i>>]]

LEMMA PrimitiveRecursion ==
    ASSUME NEW N \in Nat, NEW V, NEW v \in V, NEW G \in [V \X (1 .. N) -> V]
    PROVE  \E f \in [0 .. N -> V] : Follows(f, N, v, G)
<1> DEFINE S == {n \in Nat : n <= N => \E f \in [0 .. n -> V] : Follows(f, n, v, G)}
<1>1. 0 \in S
  <2> DEFINE f == [i \in 0 .. 0 |-> v]
  <2>1. f \in [0 .. 0 -> V] /\ 0 .. 0 = {0}
    OBVIOUS
  <2>2. Follows(f, 0, v, G)
    BY <2>1 DEF Follows
  <2>3. QED  BY <2>1, <2>2
<1>2. ASSUME NEW n \in Nat, n \in S PROVE n + 1 \in S
  <2>1. SUFFICES ASSUME n + 1 <= N
                 PROVE  \E f \in [0 .. n + 1 -> V] : Follows(f, n + 1, v, G)
    OBVIOUS
  <2>2. PICK g \in [0 .. n -> V] : Follows(g, n, v, G)
    BY <1>2, <2>1
  <2> DEFINE w == G[<<g[n], n + 1>>]
             f == [i \in 0 .. n + 1 |-> IF i = n + 1 THEN w ELSE g[i]]
  <2>3. w \in V
    BY <2>1
  <2>4. f \in [0 .. n + 1 -> V]
    BY <2>3
  <2>5. ASSUME NEW i \in 0 .. n + 1
        PROVE  f[i] = IF i = 0 THEN v ELSE G[<<f[i - 1], i>>]
    <3>1. CASE i = n + 1
      <4>1. f[i] = w /\ i # 0 /\ f[i - 1] = g[n]
        BY <3>1
      <4>2. QED  BY <3>1, <4>1
    <3>2. CASE i = 0
      BY <2>2, <3>2 DEF Follows
    <3>3. CASE i \in 1 .. n
      <4>1. f[i] = g[i] /\ f[i - 1] = g[i - 1] /\ i # 0 /\ i \in 0 .. n
        BY <3>3
      <4>2. g[i] = G[<<g[i - 1], i>>]
        BY <2>2, <4>1 DEF Follows
      <4>3. QED  BY <4>1, <4>2
    <3>4. QED  BY <3>1, <3>2, <3>3
  <2>6. Follows(f, n + 1, v, G)
    BY <2>5 DEF Follows
  <2>7. QED  BY <2>4, <2>6
<1>3. N \in S
  BY <1>1, <1>2, Induct
<1>4. QED  BY <1>3

\* The same, by what is known of each value.
Computes(f, N, v, G) == f[0] = v /\ \A i \in 1 .. N : f[i] = G[<<f[i - 1], i>>]

LEMMA Recursion ==
    ASSUME NEW N \in Nat, NEW V, NEW v \in V, NEW G \in [V \X (1 .. N) -> V]
    PROVE  \E f \in [0 .. N -> V] : Computes(f, N, v, G)
<1>1. PICK f \in [0 .. N -> V] : Follows(f, N, v, G)
  BY PrimitiveRecursion
<1>2. \A i \in 0 .. N : f[i] = IF i = 0 THEN v ELSE G[<<f[i - 1], i>>]
  BY <1>1 DEF Follows
<1>3. 0 \in 0 .. N /\ \A i \in 1 .. N : i \in 0 .. N /\ i # 0
  OBVIOUS
<1>4. Computes(f, N, v, G)
  BY <1>2, <1>3 DEF Computes
<1>5. QED  BY <1>4

\* The value at i is what G makes of i and of the values before it.
Values(f, G) == \A i \in Nat : f[i] = G[<<i, f>>]

\* G looks at earlier values only.
LooksBack(G, V) ==
    \A i \in Nat : \A f, g \in [Nat -> V] :
        (\A j \in 0 .. i - 1 : f[j] = g[j]) => G[<<i, f>>] = G[<<i, g>>]

LEMMA CourseOfValues ==
    ASSUME NEW V, NEW v \in V, NEW G \in [Nat \X [Nat -> V] -> V], LooksBack(G, V)
    PROVE  \E f \in [Nat -> V] : Values(f, G)
<1> DEFINE F == [Nat -> V]
           Good(f, n) == \A i \in 0 .. n - 1 : f[i] = G[<<i, f>>]
           S == {n \in Nat : \E f \in F : Good(f, n)}
<1>1. ASSUME NEW i \in Nat, NEW f \in F PROVE G[<<i, f>>] \in V
  OBVIOUS
<1>2. ASSUME NEW i \in Nat, NEW f \in F, NEW g \in F, \A j \in 0 .. i - 1 : f[j] = g[j]
      PROVE  G[<<i, f>>] = G[<<i, g>>]
  BY <1>2 DEF LooksBack
<1>3. 0 \in S
  <2>1. [i \in Nat |-> v] \in F
    OBVIOUS
  <2>2. \A i \in 0 .. 0 - 1 : FALSE
    OBVIOUS
  <2>3. QED  BY <2>1, <2>2
<1>4. ASSUME NEW n \in Nat, n \in S PROVE n + 1 \in S
  <2>1. PICK f \in F : Good(f, n)
    BY <1>4
  <2> DEFINE g == [f EXCEPT ![n] = G[<<n, f>>]]
  <2>2. G[<<n, f>>] \in V
    BY <1>1
  <2>3. g \in F /\ g[n] = G[<<n, f>>] /\ \A j \in Nat : j # n => g[j] = f[j]
    BY <2>2
  <2> HIDE DEF g, F
  <2>4. ASSUME NEW i \in 0 .. (n + 1) - 1 PROVE g[i] = G[<<i, g>>]
    <3>1. i \in Nat /\ i <= n /\ \A j \in 0 .. i - 1 : j \in Nat /\ j # n
      OBVIOUS
    <3>2. G[<<i, f>>] = G[<<i, g>>]
      BY <1>2, <2>3, <3>1
    <3>3. CASE i = n
      BY <2>3, <3>2, <3>3
    <3>4. CASE i # n
      <4>1. i \in 0 .. n - 1
        BY <3>1, <3>4
      <4>2. f[i] = G[<<i, f>>]
        BY <2>1, <4>1
      <4>3. QED  BY <2>3, <3>1, <3>2, <3>4, <4>2
    <3>5. QED  BY <3>3, <3>4
  <2>5. Good(g, n + 1)
    BY <2>4
  <2> HIDE DEF Good
  <2>6. n + 1 \in Nat /\ \E e \in F : Good(e, n + 1)
    BY <2>3, <2>5
  <2>7. QED  BY <2>6
<1>5. \A n \in Nat : n \in S
  <2> HIDE DEF S
  <2>1. QED  BY <1>3, <1>4, Induct
<1> DEFINE H == [n \in Nat |-> CHOOSE f \in F : Good(f, n)]
<1>6. ASSUME NEW n \in Nat PROVE H[n] \in F /\ Good(H[n], n)
  <2>1. \E f \in F : Good(f, n)
    BY <1>5
  <2> HIDE DEF F, Good
  <2>2. QED  BY <2>1
<1> HIDE DEF F, S, H
<1>7. ASSUME NEW n \in Nat, NEW f \in F, NEW g \in F, Good(f, n), Good(g, n)
      PROVE  \A j \in 0 .. n - 1 : f[j] = g[j]
  <2> DEFINE T == {j \in 0 .. n - 1 : f[j] # g[j]}
  <2>1. SUFFICES ASSUME T # {} PROVE FALSE
    OBVIOUS
  <2>2. T \in SUBSET Nat
    OBVIOUS
  <2>3. PICK j \in T : \A m \in T : j <= m
    <3> HIDE DEF T
    <3>1. QED  BY <2>1, <2>2, Least
  <2>4. j \in 0 .. n - 1 /\ j \in Nat /\ f[j] # g[j]
    BY <2>3
  <2>5. \A i \in 0 .. j - 1 : f[i] = g[i]
    <3>1. \A i \in 0 .. j - 1 : i \in 0 .. n - 1 /\ ~(j <= i)
      BY <2>4
    <3>2. QED  BY <2>3, <3>1
  <2>6. G[<<j, f>>] = G[<<j, g>>]
    BY <1>2, <2>4, <2>5
  <2>7. QED  BY <1>7, <2>4, <2>6
<1> DEFINE h == [n \in Nat |-> H[n + 1][n]]
<1>8. ASSUME NEW n \in Nat PROVE H[n + 1] \in F /\ Good(H[n + 1], n + 1) /\ h[n] = H[n + 1][n]
  BY <1>6
<1>9. h \in F
  BY <1>8 DEF F
<1> HIDE DEF h
<1>10. ASSUME NEW n \in Nat PROVE h[n] = G[<<n, h>>]
  <2> DEFINE f == H[n + 1]
  <2>1. f \in F /\ Good(f, n + 1) /\ h[n] = f[n]
    BY <1>8
  <2> HIDE DEF f
  <2>2. ASSUME NEW j \in 0 .. n - 1 PROVE f[j] = h[j]
    <3> DEFINE g == H[j + 1]
    <3>1. j \in Nat /\ j + 1 \in Nat
      OBVIOUS
    <3>2. g \in F /\ Good(g, j + 1) /\ h[j] = g[j]
      BY <1>8, <3>1
    <3> HIDE DEF g
    <3>3. Good(f, j + 1)
      <4>1. \A i \in 0 .. (j + 1) - 1 : i \in 0 .. (n + 1) - 1
        OBVIOUS
      <4>2. QED  BY <2>1, <4>1
    <3> HIDE DEF Good
    <3>4. \A i \in 0 .. (j + 1) - 1 : f[i] = g[i]
      BY <1>7, <2>1, <3>1, <3>2, <3>3
    <3>5. j \in 0 .. (j + 1) - 1
      OBVIOUS
    <3>6. QED  BY <3>2, <3>4, <3>5
  <2>3. f[n] = G[<<n, f>>]
    <3>1. n \in 0 .. (n + 1) - 1
      OBVIOUS
    <3>2. QED  BY <2>1, <3>1
  <2>4. G[<<n, f>>] = G[<<n, h>>]
    BY <1>2, <1>9, <2>1, <2>2
  <2>5. QED  BY <2>1, <2>3, <2>4
<1>11. QED  BY <1>9, <1>10 DEF Values, F
=============================================================================
