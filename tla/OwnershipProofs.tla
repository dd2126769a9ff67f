--------------------------- MODULE OwnershipProofs ---------------------------
(***************************************************************************)
(* Proofs about AstBuilder, for every text over any of the productions:    *)
(* the reference counts of the syntax tree are exact at every step, so     *)
(* nothing is deleted too early and, after an accepted parse, nothing is   *)
(* left.                                                                   *)
(*                                                                         *)
(* The invariant keeps a ledger: the references of an object are the       *)
(* members, stack entries and dec_ref calls to come that hold it.  It is   *)
(* kept because a row uses every item exactly once (RowsSound), and it     *)
(* ends in deletion because the tree has no cycles.                        *)
(***************************************************************************)
EXTENDS AstBuilder, GrammarProofs, InductionLemmas, FiniteSetTheorems

\* Where x is among the sequences s[k].
LEMMA SpotsAre ==
    ASSUME NEW x, NEW s, NEW K, NEW p
    PROVE  p \in Spots(x, s, K) <=> \E k \in K : \E j \in DOMAIN s[k] : s[k][j] = x /\ p = <<k, j>>
BY DEF Spots

Count(x, s, K) == Cardinality(Spots(x, s, K))

\* The sequences s[k], k in K, can be counted.
Countable(s, K) == IsFiniteSet(K) /\ \A k \in K : s[k] \in Seq(Nat)

\* Sequences that can be counted hold x a number of times.
LEMMA SpotsFinite ==
    ASSUME NEW x, NEW s, NEW K, Countable(s, K)
    PROVE  IsFiniteSet(Spots(x, s, K)) /\ Count(x, s, K) \in Nat
<1> DEFINE at(k) == {k} \X {j \in DOMAIN s[k] : s[k][j] = x}
<1>1. ASSUME NEW k \in K PROVE IsFiniteSet(at(k))
  <2>1. Len(s[k]) \in Nat /\ DOMAIN s[k] = 1 .. Len(s[k])
    BY LenProperties DEF Countable
  <2>2. IsFiniteSet(DOMAIN s[k])
    BY <2>1, FS_Interval
  <2>3. IsFiniteSet({j \in DOMAIN s[k] : s[k][j] = x})
    BY <2>2, FS_Subset
  <2>4. IsFiniteSet({k})
    BY FS_Singleton
  <2>5. QED  BY <2>3, <2>4, FS_Product
<1>2. IsFiniteSet({at(k) : k \in K})
  <2> DEFINE f == [k \in K |-> at(k)]
             T == {at(k) : k \in K}
  <2>1. f \in [K -> T] /\ \A z \in T : \E k \in K : f[k] = z
    <3> HIDE DEF at
    <3>1. QED  OBVIOUS
  <2> HIDE DEF f, T
  <2>2. f \in Surjection(K, T)
    BY <2>1 DEF Surjection
  <2>3. IsFiniteSet(T)
    BY <2>2, FS_Surjection DEF Countable
  <2>4. QED  BY <2>3 DEF T
<1>3. \A T \in {at(k) : k \in K} : IsFiniteSet(T)
  BY <1>1
<1>4. IsFiniteSet(Spots(x, s, K))
  <2>1. IsFiniteSet(UNION {at(k) : k \in K})
    <3> HIDE DEF at
    <3>1. QED  BY <1>2, <1>3, FS_UNION
  <2>2. QED  BY <2>1 DEF Spots
<1>5. QED  BY <1>4, FS_CardinalityType DEF Count

\* Counting in two parts and adding.
LEMMA SpotsSplit ==
    ASSUME NEW x, NEW s, NEW K, NEW L, Countable(s, K), Countable(s, L), K \cap L = {}
    PROVE  Count(x, s, K \cup L) = Count(x, s, K) + Count(x, s, L) /\ Countable(s, K \cup L)
<1> DEFINE a == Spots(x, s, K)
           b == Spots(x, s, L)
<1>1. Spots(x, s, K \cup L) = a \cup b
  BY SpotsAre
<1>2. a \cap b = {}
  BY SpotsAre
<1>3. IsFiniteSet(a) /\ IsFiniteSet(b) /\ Cardinality(a) \in Nat /\ Cardinality(b) \in Nat
  BY SpotsFinite DEF Count
<1> HIDE DEF a, b
<1>4. Cardinality(a \cup b) = Cardinality(a) + Cardinality(b)
  BY <1>2, <1>3, FS_Union, FS_EmptySet
<1>5. Countable(s, K \cup L)
  BY FS_Union DEF Countable
<1>6. QED  BY <1>1, <1>4, <1>5 DEF Count, a, b

\* Counting in the same sequences.
LEMMA SpotsSame ==
    ASSUME NEW x, NEW s, NEW t, NEW K, \A k \in K : s[k] = t[k]
    PROVE  Count(x, s, K) = Count(x, t, K)
<1>1. Spots(x, s, K) = Spots(x, t, K)
  <2>1. \A p : p \in Spots(x, s, K) <=> p \in Spots(x, t, K)
    BY SpotsAre
  <2>2. QED  BY <2>1
<1>2. QED  BY <1>1 DEF Count

\* Counted nowhere, x is nowhere.
LEMMA SpotsNone ==
    ASSUME NEW x, NEW s, NEW K, Countable(s, K)
    PROVE  Count(x, s, K) = 0 <=> \A k \in K : \A j \in DOMAIN s[k] : s[k][j] # x
<1>1. IsFiniteSet(Spots(x, s, K))
  BY SpotsFinite
<1>2. Count(x, s, K) = 0 <=> Spots(x, s, K) = {}
  BY <1>1, FS_EmptySet DEF Count
<1>3. Spots(x, s, K) = {} <=> \A k \in K : \A j \in DOMAIN s[k] : s[k][j] # x
  <2>1. \A p : p \in Spots(x, s, K) <=> \E k \in K : \E j \in DOMAIN s[k] : s[k][j] = x /\ p = <<k, j>>
    BY SpotsAre
  <2>2. QED  BY <2>1
<1>4. QED  BY <1>2, <1>3

\* Counted once, x is in one place.
LEMMA SpotsSingle ==
    ASSUME NEW x, NEW s, NEW K, Countable(s, K), Count(x, s, K) = 1,
           NEW k \in K, NEW l \in K, NEW i \in DOMAIN s[k], NEW j \in DOMAIN s[l],
           s[k][i] = x, s[l][j] = x
    PROVE  k = l /\ i = j
<1>1. <<k, i>> \in Spots(x, s, K) /\ <<l, j>> \in Spots(x, s, K)
  BY SpotsAre
<1>2. PICK p : Spots(x, s, K) = {p}
  BY SpotsFinite, FS_Singleton DEF Count
<1>3. QED  BY <1>1, <1>2

\* A set in one-to-one correspondence with a finite set has as many elements.
LEMMA SameSize ==
    ASSUME NEW K, IsFiniteSet(K), NEW M, NEW f \in [K -> M],
           \A x, y \in K : f[x] = f[y] => x = y, \A z \in M : \E x \in K : f[x] = z
    PROVE  Cardinality(M) = Cardinality(K)
<1>1. f \in Bijection(K, M)
  BY DEF Bijection, Injection, Surjection, IsInjective
<1>2. ExistsBijection(K, M)
  BY <1>1 DEF ExistsBijection
<1>3. QED  BY <1>2, FS_Bijection

\* Sequences kept under other keys.
Moved(x, s, K, t, L, p) ==
    /\ p \in [K -> L]
    /\ \A k, l \in K : p[k] = p[l] => k = l
    /\ \A k \in K : t[p[k]] = s[k]
    /\ \A l \in L : (\E k \in K : p[k] = l) \/ \A j \in DOMAIN t[l] : t[l][j] # x

\* Keeping sequences under other keys does not change how often they hold x.
LEMMA SpotsMoved ==
    ASSUME NEW x, NEW s, NEW K, NEW t, NEW L, NEW p, Countable(s, K), Moved(x, s, K, t, L, p)
    PROVE  Count(x, t, L) = Count(x, s, K)
<1> DEFINE a == Spots(x, s, K)
           b == Spots(x, t, L)
           f == [q \in a |-> <<p[q[1]], q[2]>>]
<1>0. IsFiniteSet(a)
  BY SpotsFinite
<1>1. \A q \in a : q[1] \in K /\ q[2] \in DOMAIN s[q[1]] /\ s[q[1]][q[2]] = x /\ q = <<q[1], q[2]>>
  BY SpotsAre
<1>2. \A q \in b : q[1] \in L /\ q[2] \in DOMAIN t[q[1]] /\ t[q[1]][q[2]] = x /\ q = <<q[1], q[2]>>
  BY SpotsAre
<1>3. f \in [a -> b]
  <2>1. ASSUME NEW q \in a PROVE f[q] \in b
    <3>1. p[q[1]] \in L /\ t[p[q[1]]] = s[q[1]]
      BY <1>1 DEF Moved
    <3>2. QED  BY <3>1, <1>1, SpotsAre
  <2>2. QED  BY <2>1
<1>4. \A q, r \in a : f[q] = f[r] => q = r
  <2>1. ASSUME NEW q \in a, NEW r \in a, f[q] = f[r] PROVE q = r
    <3>1. p[q[1]] = p[r[1]] /\ q[2] = r[2]
      BY <2>1
    <3>2. q[1] = r[1]
      BY <3>1, <1>1 DEF Moved
    <3>3. QED  BY <3>1, <3>2, <1>1
  <2>2. QED  BY <2>1
<1>5. ASSUME NEW r \in b PROVE \E q \in a : f[q] = r
  <2>1. PICK k \in K : p[k] = r[1]
    BY <1>2 DEF Moved
  <2>2. s[k] = t[r[1]]
    BY <2>1 DEF Moved
  <2>3. <<k, r[2]>> \in a
    BY <2>2, <1>2, SpotsAre
  <2>4. f[<<k, r[2]>>] = r
    BY <2>1, <2>3, <1>2
  <2>5. QED  BY <2>3, <2>4
<1> HIDE DEF a, b, f
<1>6. Cardinality(b) = Cardinality(a)
  BY <1>0, <1>3, <1>4, <1>5, SameSize
<1>7. QED  BY <1>6 DEF Count, a, b

\* Where i occurs in a sequence.
Occurs(i, s) == {k \in DOMAIN s : s[k] = i}

\* An element occurs in a sequence a number of times.
LEMMA OccursFinite ==
    ASSUME NEW s \in Seq(Nat), NEW i
    PROVE  IsFiniteSet(Occurs(i, s)) /\ Cardinality(Occurs(i, s)) \in Nat
<1>1. Len(s) \in Nat /\ DOMAIN s = 1 .. Len(s)
  BY LenProperties
<1>2. IsFiniteSet(1 .. Len(s))
  BY <1>1, FS_Interval
<1>3. Occurs(i, s) \in SUBSET (1 .. Len(s))
  BY <1>1 DEF Occurs
<1>4. QED  BY <1>2, <1>3, FS_Subset, FS_CardinalityType

\* Occurrences in two sequences joined.
LEMMA OccursConcat ==
    ASSUME NEW s \in Seq(Nat), NEW t \in Seq(Nat), NEW i
    PROVE  Cardinality(Occurs(i, s \o t)) = Cardinality(Occurs(i, s)) + Cardinality(Occurs(i, t))
<1> DEFINE r == s \o t
           m == Len(s)
           K == Occurs(i, t)
           M == {m + k : k \in K}
           f == [k \in K |-> m + k]
<1>1. /\ m \in Nat /\ Len(t) \in Nat /\ DOMAIN s = 1 .. m /\ DOMAIN t = 1 .. Len(t)
      /\ r \in Seq(Nat) /\ DOMAIN r = 1 .. m + Len(t)
      /\ \A k \in 1 .. m : r[k] = s[k]
      /\ \A k \in 1 .. Len(t) : r[m + k] = t[k]
  <2>1. /\ m \in Nat /\ Len(t) \in Nat /\ DOMAIN s = 1 .. m /\ DOMAIN t = 1 .. Len(t)
        /\ r \in Seq(Nat) /\ Len(r) = m + Len(t)
        /\ \A k \in 1 .. m + Len(t) : r[k] = IF k <= m THEN s[k] ELSE t[k - m]
    BY LenProperties, ConcatProperties
  <2>2. DOMAIN r = 1 .. m + Len(t)
    BY <2>1, LenProperties
  <2> HIDE DEF r, m
  <2>3. \A k \in 1 .. m : r[k] = s[k]
    BY <2>1
  <2>4. ASSUME NEW k \in 1 .. Len(t) PROVE r[m + k] = t[k]
    <3>1. m + k \in 1 .. m + Len(t) /\ ~(m + k <= m) /\ (m + k) - m = k
      BY <2>1
    <3>2. QED  BY <2>1, <3>1
  <2>5. QED  BY <2>1, <2>2, <2>3, <2>4
<1> HIDE DEF r, m
<1>2. K \subseteq 1 .. Len(t) /\ Occurs(i, s) \subseteq 1 .. m
  BY <1>1 DEF Occurs
<1>3. Occurs(i, r) = Occurs(i, s) \cup M
  <2>1. ASSUME NEW x \in Occurs(i, r) PROVE x \in Occurs(i, s) \cup M
    <3>1. x \in 1 .. m + Len(t) /\ r[x] = i
      BY <1>1 DEF Occurs
    <3>2. CASE x <= m
      <4>1. x \in 1 .. m
        BY <1>1, <3>1, <3>2
      <4>2. QED  BY <1>1, <3>1, <4>1 DEF Occurs
    <3>3. CASE x > m
      <4>1. x - m \in 1 .. Len(t) /\ m + (x - m) = x
        BY <1>1, <3>1, <3>3
      <4>2. x - m \in K
        BY <1>1, <3>1, <4>1 DEF Occurs
      <4>3. QED  BY <4>1, <4>2
    <3>4. QED  BY <1>1, <3>1, <3>2, <3>3
  <2>2. ASSUME NEW x \in Occurs(i, s) PROVE x \in Occurs(i, r)
    <3>1. x \in 1 .. m + Len(t) /\ x \in 1 .. m
      BY <1>1, <1>2
    <3>2. QED  BY <1>1, <3>1 DEF Occurs
  <2>3. ASSUME NEW k \in K PROVE m + k \in Occurs(i, r)
    <3>1. m + k \in 1 .. m + Len(t) /\ k \in 1 .. Len(t)
      BY <1>1, <1>2
    <3>2. QED  BY <1>1, <3>1 DEF Occurs
  <2>4. QED  BY <2>1, <2>2, <2>3
<1>4. IsFiniteSet(K) /\ IsFiniteSet(Occurs(i, s))
  BY OccursFinite
<1>5. f \in Bijection(K, M)
  <2>1. f \in [K -> M]
    OBVIOUS
  <2>2. \A x, y \in K : f[x] = f[y] => x = y
    BY <1>1, <1>2
  <2>3. \A z \in M : \E x \in K : f[x] = z
    OBVIOUS
  <2> HIDE DEF f, K, M
  <2>4. QED  BY <2>1, <2>2, <2>3 DEF Bijection, Injection, Surjection, IsInjective
<1>6. IsFiniteSet(M) /\ Cardinality(M) = Cardinality(K)
  <2> HIDE DEF f, K, M
  <2>1. ExistsBijection(K, M)
    BY <1>5 DEF ExistsBijection
  <2>2. QED  BY <1>4, <2>1, FS_Bijection
<1>7. Occurs(i, s) \cap M = {}
  BY <1>1, <1>2
<1> HIDE DEF K, M
<1>8. Cardinality(Occurs(i, r)) = Cardinality(Occurs(i, s)) + Cardinality(K)
  <2>1. Cardinality(Occurs(i, s)) \in Nat /\ Cardinality(M) \in Nat /\ Cardinality({}) = 0
    BY <1>4, <1>6, FS_CardinalityType, FS_EmptySet
  <2>2. Cardinality(Occurs(i, r)) = Cardinality(Occurs(i, s)) + Cardinality(M) - Cardinality({})
    BY <1>3, <1>4, <1>6, <1>7, FS_Union
  <2>3. QED  BY <1>6, <2>1, <2>2
<1>9. QED  BY <1>8 DEF r, K

\* A function on 1 .. n is a sequence of length n.
LEMMA FromFunction ==
    ASSUME NEW S, NEW n \in Nat, NEW f \in [1 .. n -> S]
    PROVE  f \in Seq(S) /\ Len(f) = n
<1>1. f \in Seq(S)
  BY SeqDef
<1>2. DOMAIN f = 1 .. n /\ DOMAIN f = 1 .. Len(f) /\ Len(f) \in Nat
  BY <1>1, LenProperties
<1>3. Len(f) = n
  <2>1. Len(f) \in 1 .. n \/ Len(f) = 0
    BY <1>2
  <2>2. n \in 1 .. Len(f) \/ n = 0
    BY <1>2
  <2>3. QED  BY <1>2, <2>1, <2>2
<1>4. QED  BY <1>1, <1>3

\* Occurrences in the head and in the tail.
LEMMA OccursHead ==
    ASSUME NEW s \in Seq(Nat), s # <<>>, NEW i
    PROVE  /\ Head(s) \in Nat /\ Tail(s) \in Seq(Nat)
           /\ Cardinality(Occurs(i, s)) =
                (IF Head(s) = i THEN 1 ELSE 0) + Cardinality(Occurs(i, Tail(s)))
<1> DEFINE a == <<Head(s)>>
           b == Tail(s)
           old == Head(s)
<1>1. old \in Nat /\ b \in Seq(Nat) /\ s = a \o b
  BY HeadTailProperties, HeadTailAppend
<1>2. a \in Seq(Nat) /\ DOMAIN a = {1} /\ a[1] = old
  BY <1>1
<1>3. Cardinality(Occurs(i, a)) = IF old = i THEN 1 ELSE 0
  <2>1. Occurs(i, a) = IF old = i THEN {1} ELSE {}
    BY <1>2 DEF Occurs
  <2>2. QED  BY <2>1, FS_Singleton, FS_EmptySet
<1> HIDE DEF a, b
<1>4. Cardinality(Occurs(i, a \o b)) = Cardinality(Occurs(i, a)) + Cardinality(Occurs(i, b))
  BY <1>1, <1>2, OccursConcat
<1>5. QED  BY <1>1, <1>3, <1>4 DEF b

\* Times is the number of occurrences.
LEMMA TimesIs == ASSUME NEW s \in Seq(Nat), NEW x PROVE Times(x, s) = Cardinality(Occurs(x, s)) /\ Times(x, s) \in Nat
BY OccursFinite DEF Times, Occurs

\* What is known of every prefix that FlattenSeq puts together.
Flattens(f, ss, S) ==
    /\ f \in [0 .. Len(ss) -> Seq(S)]
    /\ f[0] = <<>>
    /\ \A i \in 1 .. Len(ss) : f[i] = f[i - 1] \o ss[i]
    /\ FlattenSeq(ss) = f[Len(ss)]

\* Sequences are joined one after the other (FlattenSeq).
LEMMA FlattenIs ==
    ASSUME NEW S, NEW ss \in Seq(Seq(S))
    PROVE  \E f : Flattens(f, ss, S)
<1> DEFINE N == Len(ss)
           V == Seq(S)
           G == [q \in V \X (1 .. N) |-> q[1] \o ss[q[2]]]
<1>1. N \in Nat /\ DOMAIN ss = 1 .. N /\ \A i \in 1 .. N : ss[i] \in Seq(S)
  BY LenProperties, ElementOfSeq
<1>2. G \in [V \X (1 .. N) -> V] /\ <<>> \in V
  <2>1. ASSUME NEW q \in V \X (1 .. N) PROVE q[1] \o ss[q[2]] \in V
    <3>1. q[1] \in Seq(S) /\ ss[q[2]] \in Seq(S)
      BY <1>1
    <3>2. QED  BY <3>1, ConcatProperties
  <2>2. QED  BY <2>1
<1>3. \A q \in V \X (1 .. N) : G[q] = q[1] \o ss[q[2]]
  OBVIOUS
<1> HIDE DEF G, N
<1>4. PICK f \in [0 .. N -> V] : Computes(f, N, <<>>, G)
  <2> HIDE DEF V
  <2>1. QED  BY <1>1, <1>2, Recursion
<1>5. /\ f[0] = <<>> /\ \A i \in 1 .. N : f[i] = f[i - 1] \o ss[i] /\ f[i] \in Seq(S)
      /\ 1 \in 1 .. N => f[1] = <<>> \o ss[1]
  <2>1. ASSUME NEW i \in 1 .. N PROVE f[i] = f[i - 1] \o ss[i]
    <3>1. i - 1 \in 0 .. N /\ f[i] = G[<<f[i - 1], i>>]
      BY <1>1, <1>4 DEF Computes
    <3>2. f[i - 1] \in V
      BY <3>1
    <3>3. <<f[i - 1], i>> \in V \X (1 .. N)
      BY <3>2
    <3>4. QED  BY <1>3, <3>1, <3>3
  <2>2. \A i \in 1 .. N : i \in 0 .. N
    BY <1>1
  <2>3. ASSUME 1 \in 1 .. N PROVE f[1] = <<>> \o ss[1]
    <3>1. PICK i \in 1 .. N : i = 1
      BY <2>3
    <3>2. i - 1 = 0
      BY <3>1
    <3>3. f[i] = f[i - 1] \o ss[i]
      BY <2>1, Zenon
    <3>4. f[0] = <<>>
      BY <1>4 DEF Computes
    <3>5. QED  BY <3>1, <3>2, <3>3, <3>4, Zenon
  <2>4. QED  BY <2>1, <2>2, <2>3, <1>4 DEF Computes
<1> DEFINE Is(g) == g = [i \in 1 .. N |-> IF i = 1 THEN ss[i] ELSE g[i - 1] \o ss[i]]
           d == [i \in 1 .. N |-> f[i]]
           c == CHOOSE g : Is(g)
<1>6. Is(d)
  <2>1. ASSUME NEW i \in 1 .. N PROVE d[i] = IF i = 1 THEN ss[i] ELSE d[i - 1] \o ss[i]
    <3>1. CASE i = 1
      <4>1. f[1] = <<>> \o ss[1] /\ ss[1] \in Seq(S)
        BY <1>1, <1>5, <3>1
      <4>2. <<>> \o ss[1] = ss[1]
        BY <4>1, ConcatEmptySeq
      <4>3. QED  BY <3>1, <4>1, <4>2
    <3>2. CASE i # 1
      <4>1. i - 1 \in 1 .. N
        BY <1>1, <3>2
      <4>2. QED  BY <1>5, <3>2, <4>1
    <3>3. QED  BY <3>1, <3>2
  <2>2. d = [i \in 1 .. N |-> d[i]]
    OBVIOUS
  <2> HIDE DEF d
  <2>3. QED  BY <2>1, <2>2
<1>7. Is(c)
  <2> HIDE DEF d, Is
  <2>1. QED  BY <1>6
<1>8. \A i \in 1 .. N : c[i] = IF i = 1 THEN ss[i] ELSE c[i - 1] \o ss[i]
  <2> HIDE DEF c
  <2>1. QED  BY <1>7
<1> HIDE DEF c, Is
<1>9. \A i \in 1 .. N : c[i] = f[i]
  <2> DEFINE T == {i \in 1 .. N : c[i] = f[i]}
  <2>1. 1 <= N => 1 \in T
    <3>1. ASSUME 1 <= N PROVE c[1] = f[1]
      <4>1. 1 \in 1 .. N
        BY <1>1, <3>1
      <4>2. f[1] = <<>> \o ss[1] /\ ss[1] \in Seq(S)
        BY <1>1, <1>5, <4>1
      <4>3. <<>> \o ss[1] = ss[1]
        BY <4>2, ConcatEmptySeq
      <4>4. QED  BY <1>8, <4>1, <4>2, <4>3
    <3>2. QED  BY <3>1, <1>1
  <2>2. ASSUME NEW k \in 1 .. N - 1, k \in T PROVE k + 1 \in T
    <3>1. k + 1 \in 1 .. N /\ k + 1 # 1 /\ (k + 1) - 1 = k
      BY <1>1
    <3>2. c[k + 1] = c[k] \o ss[k + 1] /\ f[k + 1] = f[k] \o ss[k + 1]
      BY <1>8, <1>5, <3>1
    <3>3. QED  BY <2>2, <3>1, <3>2
  <2> HIDE DEF T
  <2>3. 1 .. N \subseteq T
    <3>1. 1 \in Int /\ N \in Int
      BY <1>1
    <3>2. QED  BY <3>1, <2>1, <2>2, InductUpTo
  <2>4. QED  BY <2>3 DEF T
<1>10. FlattenSeq(ss) = f[N]
  <2>1. CASE N = 0
    <3>1. FlattenSeq(ss) = ss /\ ss = <<>>
      BY <2>1, EmptySeq DEF FlattenSeq, N
    <3>2. QED  BY <1>5, <2>1, <3>1
  <2>2. CASE N # 0
    <3>1. FlattenSeq(ss) = c[N]
      BY <2>2 DEF FlattenSeq, c, Is, N
    <3>2. QED  BY <1>1, <1>9, <2>2, <3>1
  <2>3. QED  BY <2>1, <2>2
<1>11. Flattens(f, ss, S)
  BY <1>4, <1>5, <1>10 DEF Flattens, N, V
<1>12. QED  BY <1>11

\* Counting in one sequence.
LEMMA SpotsOne ==
    ASSUME NEW x, NEW s, NEW k, s[k] \in Seq(Nat)
    PROVE  Countable(s, {k}) /\ Count(x, s, {k}) = Times(x, s[k]) /\ Times(x, s[k]) \in Nat
<1> DEFINE K == Occurs(x, s[k])
           M == Spots(x, s, {k})
           f == [j \in K |-> <<k, j>>]
<1>1. IsFiniteSet(K) /\ Times(x, s[k]) = Cardinality(K) /\ Times(x, s[k]) \in Nat
  BY OccursFinite, TimesIs
<1>2. \A u : u \in M <=> \E j \in K : u = <<k, j>>
  BY SpotsAre DEF Occurs
<1>3. f \in [K -> M] /\ (\A i, j \in K : f[i] = f[j] => i = j) /\ \A z \in M : \E j \in K : f[j] = z
  <2> HIDE DEF K, M
  <2>1. QED  BY <1>2
<1> HIDE DEF K, M, f
<1>4. Cardinality(M) = Cardinality(K)
  BY <1>1, <1>3, SameSize
<1>5. Countable(s, {k})
  BY FS_Singleton DEF Countable
<1>6. QED  BY <1>1, <1>4, <1>5 DEF Count, M

\* Counting in no sequence.
LEMMA SpotsEmpty == \A x, s : Countable(s, {}) /\ Count(x, s, {}) = 0
<1> SUFFICES ASSUME NEW x, NEW s PROVE Countable(s, {}) /\ Count(x, s, {}) = 0
  OBVIOUS
<1>1. Countable(s, {})
  BY FS_EmptySet DEF Countable
<1>2. QED  BY <1>1, SpotsNone

\* Sequences over a set are sequences over a larger one.
LEMMA SequencesInclude ==
    ASSUME NEW S, NEW T, S \subseteq T
    PROVE  Seq(S) \subseteq Seq(T)
<1>1. SUFFICES ASSUME NEW s \in Seq(S) PROVE s \in Seq(T)
  OBVIOUS
<1>2. Len(s) \in Nat /\ s \in [1 .. Len(s) -> S]
  BY LenProperties
<1>3. s \in [1 .. Len(s) -> T]
  BY <1>2
<1>4. QED  BY <1>2, <1>3, SeqDef

\* What FlattenSeq makes of sequences of objects.
LEMMA FlattenTimes ==
    ASSUME NEW S \in SUBSET Nat, NEW ss \in Seq(Seq(S))
    PROVE  /\ FlattenSeq(ss) \in Seq(S) /\ Countable(ss, DOMAIN ss)
           /\ \A x : Times(x, FlattenSeq(ss)) = Count(x, ss, DOMAIN ss)
<1> DEFINE N == Len(ss)
<1>1. N \in Nat /\ DOMAIN ss = 1 .. N /\ \A i \in 1 .. N : ss[i] \in Seq(S)
  BY LenProperties, ElementOfSeq
<1>2. Seq(S) \subseteq Seq(Nat)
  BY SequencesInclude
<1>3. PICK f : Flattens(f, ss, S)
  BY FlattenIs
<1>4. /\ \A i \in 0 .. N : f[i] \in Seq(S)
      /\ f[0] = <<>> /\ FlattenSeq(ss) = f[N]
      /\ \A i \in 1 .. N : f[i] = f[i - 1] \o ss[i]
  BY <1>3 DEF Flattens
<1> HIDE DEF N
<1>5. FlattenSeq(ss) \in Seq(S)
  BY <1>1, <1>4
<1>6. \A K \in SUBSET (1 .. N) : Countable(ss, K)
  <2>1. ASSUME NEW K \in SUBSET (1 .. N) PROVE Countable(ss, K)
    <3>1. IsFiniteSet(1 .. N)
      BY <1>1, FS_Interval
    <3>2. IsFiniteSet(K)
      BY <3>1, FS_Subset
    <3>3. QED  BY <3>2, <1>1, <1>2 DEF Countable
  <2>2. QED  BY <2>1
<1>7. ASSUME NEW x PROVE Times(x, FlattenSeq(ss)) = Count(x, ss, DOMAIN ss)
  <2> DEFINE T == {i \in 0 .. N : Cardinality(Occurs(x, f[i])) = Count(x, ss, 1 .. i)}
  <2>1. 0 <= N => 0 \in T
    <3>1. Occurs(x, f[0]) = {} /\ 1 .. 0 = {}
      BY <1>4 DEF Occurs
    <3>2. Cardinality(Occurs(x, f[0])) = Count(x, ss, 1 .. 0)
      BY <3>1, SpotsEmpty, FS_EmptySet
    <3>3. QED  BY <1>1, <3>2
  <2>2. ASSUME NEW k \in 0 .. N - 1, k \in T PROVE k + 1 \in T
    <3> DEFINE n == k + 1
               a == f[k]
               b == ss[n]
    <3>1. /\ n \in 1 .. N /\ n \in 0 .. N /\ n - 1 = k /\ k \in 0 .. N
          /\ 1 .. n = (1 .. k) \cup {n} /\ (1 .. k) \cap {n} = {}
          /\ 1 .. k \in SUBSET (1 .. N) /\ {n} \in SUBSET (1 .. N)
      BY <1>1
    <3>2. a \in Seq(Nat) /\ b \in Seq(Nat)
      BY <1>1, <1>2, <1>4, <3>1
    <3>3. f[n] = a \o b
      <4>1. f[n] = f[n - 1] \o ss[n]
        BY <1>4, <3>1
      <4>2. QED  BY <4>1, <3>1
    <3>4. Cardinality(Occurs(x, a)) = Count(x, ss, 1 .. k)
      BY <2>2
    <3> HIDE DEF n, a, b
    <3>5. Cardinality(Occurs(x, a \o b)) = Cardinality(Occurs(x, a)) + Cardinality(Occurs(x, b))
      BY <3>2, OccursConcat
    <3>6. Count(x, ss, {n}) = Cardinality(Occurs(x, b))
      <4>1. ss[n] \in Seq(Nat)
        BY <3>2 DEF b
      <4>2. Count(x, ss, {n}) = Times(x, ss[n])
        BY <4>1, SpotsOne
      <4>3. Times(x, b) = Cardinality(Occurs(x, b))
        BY <3>2, TimesIs
      <4>4. QED  BY <4>2, <4>3 DEF b
    <3>7. Count(x, ss, (1 .. k) \cup {n}) = Count(x, ss, 1 .. k) + Count(x, ss, {n})
      <4> DEFINE K == 1 .. k
                 L == {n}
      <4>1. Countable(ss, K) /\ Countable(ss, L) /\ K \cap L = {}
        BY <1>6, <3>1
      <4> HIDE DEF K, L
      <4>2. Count(x, ss, K \cup L) = Count(x, ss, K) + Count(x, ss, L)
        BY <4>1, SpotsSplit
      <4>3. QED  BY <4>2 DEF K, L
    <3>8. Cardinality(Occurs(x, f[n])) = Count(x, ss, 1 .. n)
      BY <3>1, <3>3, <3>4, <3>5, <3>6, <3>7
    <3>9. n \in T
      BY <3>1, <3>8
    <3>10. QED  BY <3>9 DEF n
  <2> HIDE DEF T
  <2>3. 0 .. N \subseteq T
    <3>1. 0 \in Int /\ N \in Int
      BY <1>1
    <3>2. QED  BY <3>1, <2>1, <2>2, InductUpTo
  <2>4. N \in 0 .. N
    BY <1>1
  <2>5. Cardinality(Occurs(x, f[N])) = Count(x, ss, 1 .. N)
    BY <2>3, <2>4 DEF T
  <2>6. FlattenSeq(ss) \in Seq(Nat)
    BY <1>2, <1>5
  <2>7. Times(x, FlattenSeq(ss)) = Cardinality(Occurs(x, FlattenSeq(ss)))
    BY <2>6, TimesIs
  <2>8. QED  BY <1>1, <1>4, <2>5, <2>7
<1>8. Countable(ss, DOMAIN ss)
  BY <1>1, <1>6
<1>9. QED  BY <1>5, <1>7, <1>8

\* One sequence joined is that sequence.
LEMMA FlattenOne ==
    ASSUME NEW S, NEW ss \in Seq(Seq(S)), Len(ss) = 1
    PROVE  FlattenSeq(ss) = ss[1]
<1>1. PICK f : Flattens(f, ss, S)
  BY FlattenIs
<1>2. /\ f[0] = <<>> /\ FlattenSeq(ss) = f[1]
      /\ \A i \in 1 .. 1 : f[i] = f[i - 1] \o ss[i]
  BY <1>1 DEF Flattens
<1>3. PICK i \in 1 .. 1 : i = 1
  OBVIOUS
<1>4. i - 1 = 0
  BY <1>3
<1>5. f[i] = f[i - 1] \o ss[i]
  BY <1>2, Zenon
<1>6. f[1] = <<>> \o ss[1]
  BY <1>2, <1>3, <1>4, <1>5, Zenon
<1>7. ss[1] \in Seq(S)
  BY ElementOfSeq
<1>8. QED  BY <1>2, <1>6, <1>7, ConcatEmptySeq

\* Counting in sequences one of which has become longer.
LEMMA SpotsLonger ==
    ASSUME NEW x, NEW s, NEW K, Countable(s, K), NEW k \in K, NEW e \in Seq(Nat),
           NEW t, t[k] = s[k] \o e, \A l \in K : l # k => t[l] = s[l]
    PROVE  Countable(t, K) /\ Count(x, t, K) = Count(x, s, K) + Times(x, e)
<1> DEFINE L == K \ {k}
<1>1. K = L \cup {k} /\ L \cap {k} = {} /\ Countable(s, L) /\ s[k] \in Seq(Nat)
  BY FS_Subset DEF Countable
<1>2. t[k] \in Seq(Nat)
  BY <1>1, ConcatProperties
<1>3. Countable(t, L)
  BY <1>1 DEF Countable
<1>4. Count(x, s, L) = Count(x, t, L)
  BY SpotsSame
<1>5. Countable(s, {k}) /\ Countable(t, {k}) /\ Count(x, s, {k}) = Times(x, s[k]) /\ Count(x, t, {k}) = Times(x, t[k])
  BY <1>1, <1>2, SpotsOne
<1>6. Times(x, t[k]) = Times(x, s[k]) + Times(x, e)
  <2>1. Cardinality(Occurs(x, s[k] \o e)) = Cardinality(Occurs(x, s[k])) + Cardinality(Occurs(x, e))
    BY <1>1, OccursConcat
  <2>2. QED  BY <1>1, <1>2, <2>1, TimesIs
<1>7. /\ Count(x, s, L \cup {k}) = Count(x, s, L) + Count(x, s, {k})
      /\ Count(x, t, L \cup {k}) = Count(x, t, L) + Count(x, t, {k}) /\ Countable(t, L \cup {k})
  <2>1. L \cap {k} = {} /\ Countable(s, L) /\ Countable(s, {k}) /\ Countable(t, L) /\ Countable(t, {k})
    BY <1>1, <1>3, <1>5
  <2> DEFINE M == {k}
  <2> HIDE DEF L, M
  <2>2. L \cap M = {} /\ Countable(s, L) /\ Countable(s, M) /\ Countable(t, L) /\ Countable(t, M)
    BY <2>1 DEF M
  <2>3. Count(x, s, L \cup M) = Count(x, s, L) + Count(x, s, M)
    BY <2>2, SpotsSplit
  <2>4. Count(x, t, L \cup M) = Count(x, t, L) + Count(x, t, M) /\ Countable(t, L \cup M)
    BY <2>2, SpotsSplit
  <2>5. QED  BY <2>3, <2>4 DEF M
<1>8. Count(x, s, L) \in Nat /\ Times(x, s[k]) \in Nat /\ Times(x, e) \in Nat
  BY <1>1, SpotsFinite, TimesIs
<1> HIDE DEF L
<1>9. QED  BY <1>1, <1>4, <1>5, <1>6, <1>7, <1>8

(***************************************************************************)
(* Heaps.                                                                  *)
(***************************************************************************)

Objects(n) == [class : DOMAIN Modes, members : Seq(Seq(0 .. n)), refs : Nat \ {0}]

\* A heap of objects with addresses up to n.
IsHeap(h, n) ==
    /\ n \in Nat /\ DOMAIN h \subseteq 1 .. n
    /\ \A x \in DOMAIN h : h[x] \in Objects(n) /\ DOMAIN h[x].members = DOMAIN Modes[h[x].class]

Taken(class) == {k \in DOMAIN Modes[class] : Modes[class][k] = "take"}

Refs(h, z) == IF z \in DOMAIN h THEN h[z].refs ELSE 0

\* The members whose pointers an object is answerable for, and those of them that it
\* counted or took over.
Slots(h) == UNION {{y} \X Released(h[y].class) : y \in DOMAIN h}
CountedSlots(h) == UNION {{y} \X Counted(h[y].class) : y \in DOMAIN h}
TakenSlots(h) == UNION {{y} \X Taken(h[y].class) : y \in DOMAIN h}

\* The members of the objects of a heap by address and number.
Link(h) == [p \in (DOMAIN h) \X (1 .. 4) |-> h[p[1]].members[p[2]]]

\* A destructor gives back what the constructor counted or took over: everything
\* but the body of a for statement (node.cc:873).
LEMMA ReleasedAre ==
    ASSUME NEW c \in DOMAIN Modes
    PROVE  /\ Released(c) = Counted(c) \cup Taken(c) /\ Counted(c) \cap Taken(c) = {}
           /\ Released(c) \subseteq DOMAIN Modes[c] /\ DOMAIN Modes[c] \subseteq 1 .. 4
           /\ c # "For" => Released(c) = DOMAIN Modes[c]
<1>1. PICK n \in 0 .. 4 : DOMAIN Modes[c] = 1 .. n
  BY ModesKnown
<1>2. \A k \in DOMAIN Modes[c] :
        Modes[c][k] \in {"count", "take", "look"} /\ (Modes[c][k] = "look" <=> c = "For" /\ k = 4)
  BY ModesKnown
<1>3. Released(c) = {k \in DOMAIN Modes[c] : Modes[c][k] # "look"}
  <2>1. CASE c = "For"
    BY <2>1, <1>2, ForKnown DEF Released
  <2>2. CASE c # "For"
    BY <2>2, <1>2 DEF Released
  <2>3. QED  BY <2>1, <2>2
<1>4. Released(c) = Counted(c) \cup Taken(c) /\ Counted(c) \cap Taken(c) = {}
  BY <1>2, <1>3 DEF Counted, Taken
<1>5. Released(c) \subseteq DOMAIN Modes[c] /\ DOMAIN Modes[c] \subseteq 1 .. 4
  BY <1>1, <1>3
<1>6. c # "For" => Released(c) = DOMAIN Modes[c]
  BY DEF Released
<1>7. QED  BY <1>4, <1>5, <1>6

\* The members an object is answerable for, one by one.
LEMMA SlotsAre ==
    ASSUME NEW h, NEW p
    PROVE  /\ p \in Slots(h) <=> \E y \in DOMAIN h : \E k \in Released(h[y].class) : p = <<y, k>>
           /\ p \in CountedSlots(h) <=> \E y \in DOMAIN h : \E k \in Counted(h[y].class) : p = <<y, k>>
           /\ p \in TakenSlots(h) <=> \E y \in DOMAIN h : \E k \in Taken(h[y].class) : p = <<y, k>>
BY DEF Slots, CountedSlots, TakenSlots

\* The pointers that objects are answerable for can be counted by member.
LEMMA LinksCount ==
    ASSUME NEW h, NEW n, IsHeap(h, n)
    PROVE  /\ Slots(h) = CountedSlots(h) \cup TakenSlots(h)
           /\ CountedSlots(h) \cap TakenSlots(h) = {}
           /\ Countable(Link(h), Slots(h))
           /\ Countable(Link(h), CountedSlots(h)) /\ Countable(Link(h), TakenSlots(h))
           /\ \A z : /\ Cardinality(PointersTo(z, h, Released)) = Count(z, Link(h), Slots(h))
                     /\ Cardinality(PointersTo(z, h, Counted)) = Count(z, Link(h), CountedSlots(h))
<1> DEFINE R == Slots(h)
           C == CountedSlots(h)
           T == TakenSlots(h)
           s == Link(h)
<1>1. ASSUME NEW y \in DOMAIN h
      PROVE  /\ h[y].class \in DOMAIN Modes /\ y \in 1 .. n /\ DOMAIN h[y].members = DOMAIN Modes[h[y].class]
             /\ \A k \in DOMAIN h[y].members : h[y].members[k] \in Seq(0 .. n)
  <2>1. h[y] \in Objects(n) /\ y \in 1 .. n /\ DOMAIN h[y].members = DOMAIN Modes[h[y].class]
    BY DEF IsHeap
  <2>2. h[y].members \in Seq(Seq(0 .. n)) /\ h[y].class \in DOMAIN Modes
    BY <2>1 DEF Objects
  <2>3. \A k \in DOMAIN h[y].members : h[y].members[k] \in Seq(0 .. n)
    BY <2>2, ElementOfSeq, LenProperties
  <2>4. QED  BY <2>1, <2>2, <2>3
<1>2. \A y \in DOMAIN h : LET c == h[y].class IN
        /\ Released(c) = Counted(c) \cup Taken(c) /\ Counted(c) \cap Taken(c) = {}
        /\ Released(c) \subseteq DOMAIN h[y].members /\ Released(c) \subseteq 1 .. 4
  BY <1>1, ReleasedAre
<1>3. R = C \cup T
  <2>1. ASSUME NEW p PROVE p \in R <=> p \in C \/ p \in T
    <3>1. /\ p \in R <=> \E y \in DOMAIN h : \E k \in Released(h[y].class) : p = <<y, k>>
          /\ p \in C <=> \E y \in DOMAIN h : \E k \in Counted(h[y].class) : p = <<y, k>>
          /\ p \in T <=> \E y \in DOMAIN h : \E k \in Taken(h[y].class) : p = <<y, k>>
      BY SlotsAre
    <3> HIDE DEF R, C, T, s
    <3>2. CASE p \in R
      BY <1>2, <3>1, <3>2
    <3>3. CASE p \in C \/ p \in T
      BY <1>2, <3>1, <3>3
    <3>4. QED  BY <3>2, <3>3
  <2>2. QED  BY <2>1
<1>4. C \cap T = {}
  <2>1. \A p : ~(p \in C /\ p \in T)
    BY <1>2, SlotsAre
  <2>2. QED  BY <2>1
<1>5. \A p \in R : p \in (DOMAIN h) \X (1 .. 4) /\ p[1] \in DOMAIN h /\ p[2] \in DOMAIN h[p[1]].members
  <2>1. ASSUME NEW p \in R PROVE p \in (DOMAIN h) \X (1 .. 4) /\ p[1] \in DOMAIN h /\ p[2] \in DOMAIN h[p[1]].members
    <3>1. PICK y \in DOMAIN h : \E k \in Released(h[y].class) : p = <<y, k>>
      BY SlotsAre
    <3>2. PICK k \in Released(h[y].class) : p = <<y, k>>
      BY <3>1
    <3>3. k \in 1 .. 4 /\ k \in DOMAIN h[y].members
      BY <1>2
    <3>4. QED  BY <3>2, <3>3
  <2>2. QED  BY <2>1
<1>6. \A p \in R : s[p] \in Seq(Nat)
  <2>1. Seq(0 .. n) \subseteq Seq(Nat)
    <3>1. 0 .. n \subseteq Nat
      OBVIOUS
    <3>2. QED  BY <3>1, SequencesInclude
  <2>2. \A p \in R : s[p] = h[p[1]].members[p[2]]
    BY <1>5 DEF Link
  <2>3. QED  BY <1>1, <1>5, <2>1, <2>2
<1>7. IsFiniteSet(R)
  <2>1. n \in Nat
    BY DEF IsHeap
  <2>2. IsFiniteSet(1 .. n) /\ IsFiniteSet(1 .. 4)
    <3>1. 1 \in Int /\ n \in Int /\ 4 \in Int
      BY <2>1
    <3>2. QED  BY <3>1, FS_Interval
  <2>3. IsFiniteSet((1 .. n) \X (1 .. 4))
    BY <2>2, FS_Product
  <2>4. R \in SUBSET ((1 .. n) \X (1 .. 4))
    BY <1>1, <1>5
  <2>5. QED  BY <2>3, <2>4, FS_Subset
<1>8. Countable(s, R) /\ Countable(s, C) /\ Countable(s, T)
  <2>1. IsFiniteSet(C) /\ IsFiniteSet(T)
    BY <1>3, <1>7, FS_Subset
  <2>2. QED  BY <1>3, <1>6, <1>7, <2>1 DEF Countable
<1>9. ASSUME NEW z
      PROVE  /\ Cardinality(PointersTo(z, h, Released)) = Count(z, s, R)
             /\ Cardinality(PointersTo(z, h, Counted)) = Count(z, s, C)
  <2> DEFINE u == [p \in R |-> h[p[1]].members[p[2]]]
             w == [p \in C |-> h[p[1]].members[p[2]]]
  <2>1. DOMAIN u = R /\ DOMAIN w = C
    OBVIOUS
  <2>2. Cardinality(PointersTo(z, h, Released)) = Count(z, u, R)
    BY <2>1 DEF PointersTo, Members, Slots, CountedSlots, Count
  <2>3. Cardinality(PointersTo(z, h, Counted)) = Count(z, w, C)
    BY <2>1 DEF PointersTo, Members, Slots, CountedSlots, Count
  <2>4. (\A p \in R : u[p] = s[p]) /\ \A p \in C : w[p] = s[p]
    BY <1>3, <1>5 DEF Link
  <2> HIDE DEF u, w, s, R, C
  <2>5. QED  BY <2>2, <2>3, <2>4, SpotsSame
<1>10. QED  BY <1>3, <1>4, <1>8, <1>9

\* Every object has as many references as it has holders: members of other objects,
\* entries of the parser's stack vs, and the dec_ref calls d that are still to come.
Ledger(h, vs, d) ==
    \A z \in Nat \ {0} :
        Refs(h, z) = Count(z, Link(h), Slots(h)) + Count(z, vs, DOMAIN vs) + Times(z, d)

\* The entries of the stack can be counted.
LEMMA StackCountable ==
    ASSUME NEW n \in Nat, NEW vs \in Seq(Seq(0 .. n))
    PROVE  Countable(vs, DOMAIN vs)
<1>1. 0 .. n \in SUBSET Nat
  OBVIOUS
<1>2. QED  BY <1>1, FlattenTimes

\* The three kinds of holders of an object are natural numbers.
LEMMA HoldersAreNumbers ==
    ASSUME NEW h, NEW n, IsHeap(h, n), NEW vs \in Seq(Seq(0 .. n)), NEW d \in Seq(0 .. n), NEW z
    PROVE  /\ Count(z, Link(h), Slots(h)) \in Nat /\ Count(z, vs, DOMAIN vs) \in Nat
           /\ Times(z, d) \in Nat /\ d \in Seq(Nat) /\ Times(z, d) = Cardinality(Occurs(z, d))
<1>1. n \in Nat /\ 0 .. n \subseteq Nat
  BY DEF IsHeap
<1>2. d \in Seq(Nat)
  BY <1>1, SequencesInclude
<1>3. Countable(vs, DOMAIN vs)
  BY <1>1, StackCountable
<1>4. QED  BY <1>2, <1>3, LinksCount, SpotsFinite, TimesIs

\* What dec_ref on x leaves as it was.
LeftBy(x, h, g) ==
    /\ DOMAIN g \subseteq DOMAIN h /\ \A y \in DOMAIN h : y = x \/ y \in DOMAIN g
    /\ \A y \in DOMAIN g : /\ g[y].class = h[y].class /\ g[y].members = h[y].members
                           /\ g[y].refs = IF y = x THEN h[y].refs - 1 ELSE h[y].refs

\* dec_ref leaves a heap, without x when its last reference was given up.
LEMMA DecRefIs ==
    ASSUME NEW h, NEW n, IsHeap(h, n), NEW x \in DOMAIN h
    PROVE  /\ IsHeap(DecRef(h, x), n) /\ LeftBy(x, h, DecRef(h, x))
           /\ x \in DOMAIN DecRef(h, x) <=> h[x].refs # 1
<1>1. \A y \in DOMAIN h : h[y] \in Objects(n) /\ y \in 1 .. n /\ DOMAIN h[y].members = DOMAIN Modes[h[y].class]
  BY DEF IsHeap
<1>2. \A y \in DOMAIN h : h[y].refs \in Nat \ {0}
  BY <1>1 DEF Objects
<1>3. CASE h[x].refs = 1
  <2> DEFINE g == [y \in DOMAIN h \ {x} |-> h[y]]
  <2>1. DecRef(h, x) = g
    BY <1>3 DEF DecRef
  <2>2. DOMAIN g = DOMAIN h \ {x} /\ \A y \in DOMAIN g : g[y] = h[y] /\ y # x /\ y \in DOMAIN h
    OBVIOUS
  <2> HIDE DEF g
  <2>3. IsHeap(g, n)
    BY <2>2 DEF IsHeap
  <2>4. LeftBy(x, h, g)
    BY <2>2 DEF LeftBy
  <2>5. QED  BY <1>3, <2>1, <2>2, <2>3, <2>4
<1>4. CASE h[x].refs # 1
  <2> DEFINE o == [h[x] EXCEPT !.refs = h[x].refs - 1]
             g == [y \in DOMAIN h |-> IF y = x THEN o ELSE h[y]]
  <2>1. DecRef(h, x) = g
    <3>1. DecRef(h, x) = [h EXCEPT ![x].refs = @ - 1]
      BY <1>4 DEF DecRef, DecRefOnly
    <3>2. QED  BY <3>1
  <2>2. o \in Objects(n) /\ o.class = h[x].class /\ o.members = h[x].members /\ o.refs = h[x].refs - 1
    <3>1. h[x].refs - 1 \in Nat \ {0} /\ h[x] \in Objects(n)
      BY <1>1, <1>2, <1>4
    <3>2. QED  BY <3>1 DEF Objects
  <2> HIDE DEF o
  <2>3. DOMAIN g = DOMAIN h /\ \A y \in DOMAIN h : g[y] = IF y = x THEN o ELSE h[y]
    OBVIOUS
  <2> HIDE DEF g
  <2>4. IsHeap(g, n)
    BY <1>1, <2>2, <2>3 DEF IsHeap
  <2>5. LeftBy(x, h, g)
    BY <2>2, <2>3 DEF LeftBy
  <2>6. QED  BY <1>4, <2>1, <2>3, <2>4, <2>5
<1>5. QED  BY <1>3, <1>4

\* The pointers that the destructor of x gives back are those that x is answerable for.
LEMMA PointersCount ==
    ASSUME NEW h, NEW n, IsHeap(h, n), NEW x \in DOMAIN h
    PROVE  LET own == {x} \X Released(h[x].class)
               e == Pointers(h[x], Released(h[x].class))
           IN  /\ e \in Seq(0 .. n) /\ Countable(Link(h), own)
               /\ \A z \in Nat \ {0} : Times(z, e) = Count(z, Link(h), own)
<1> DEFINE R == Released(h[x].class)
           own == {x} \X R
           mem == h[x].members
           ss == [k \in DOMAIN mem |-> IF k \in R THEN mem[k] ELSE <<>>]
           s == Link(h)
<1>1. /\ mem \in Seq(Seq(0 .. n)) /\ R \subseteq DOMAIN mem /\ R \subseteq 1 .. 4 /\ n \in Nat
  <2>1. h[x] \in Objects(n) /\ n \in Nat /\ DOMAIN mem = DOMAIN Modes[h[x].class]
    BY DEF IsHeap
  <2>2. mem \in Seq(Seq(0 .. n)) /\ h[x].class \in DOMAIN Modes
    BY <2>1 DEF Objects
  <2>3. QED  BY <2>1, <2>2, ReleasedAre
<1>2. /\ Len(mem) \in Nat /\ DOMAIN mem = 1 .. Len(mem) /\ \A k \in DOMAIN mem : mem[k] \in Seq(0 .. n)
  BY <1>1, LenProperties, ElementOfSeq
<1>3. ss \in Seq(Seq(0 .. n)) /\ DOMAIN ss = DOMAIN mem
  <2>1. <<>> \in Seq(0 .. n)
    OBVIOUS
  <2>2. ss \in [1 .. Len(mem) -> Seq(0 .. n)]
    <3> HIDE DEF mem, R
    <3>1. QED  BY <1>2, <2>1
  <2>3. QED  BY <1>2, <2>2, FromFunction
<1>4. Pointers(h[x], R) = FlattenSeq(ss)
  BY DEF Pointers
<1>5. 0 .. n \in SUBSET Nat
  BY <1>1
<1>6. /\ FlattenSeq(ss) \in Seq(0 .. n) /\ \A z : Times(z, FlattenSeq(ss)) = Count(z, ss, DOMAIN ss)
  <2> HIDE DEF ss
  <2>1. QED  BY <1>3, <1>5, FlattenTimes
<1>7. own \subseteq Slots(h)
  <2>1. \A p \in own : p \in Slots(h)
    BY SlotsAre
  <2>2. QED  BY <2>1
<1>8. Countable(s, own)
  <2>1. Countable(s, Slots(h))
    BY LinksCount
  <2>2. QED  BY <1>7, <2>1, FS_Subset DEF Countable
<1>9. ASSUME NEW z \in Nat \ {0} PROVE Count(z, ss, DOMAIN ss) = Count(z, s, own)
  <2> DEFINE p == [q \in own |-> q[2]]
  <2>1. p \in [own -> DOMAIN ss]
    BY <1>1, <1>3
  <2>2. \A k, l \in own : p[k] = p[l] => k = l
    OBVIOUS
  <2>3. ASSUME NEW k \in own PROVE ss[p[k]] = s[k]
    <3>1. k[1] = x /\ k[2] \in R /\ p[k] = k[2] /\ k \in (DOMAIN h) \X (1 .. 4)
      BY <1>1
    <3>2. s[k] = mem[k[2]]
      BY <3>1 DEF Link
    <3>3. k[2] \in DOMAIN mem
      BY <1>1, <3>1
    <3> HIDE DEF mem, R, own, p
    <3>4. QED  BY <3>1, <3>2, <3>3
  <2>4. ASSUME NEW l \in DOMAIN ss PROVE (\E k \in own : p[k] = l) \/ \A j \in DOMAIN ss[l] : ss[l][j] # z
    <3>1. CASE l \in R
      <4>1. <<x, l>> \in own /\ p[<<x, l>>] = l
        BY <3>1
      <4>2. QED  BY <4>1
    <3>2. CASE l \notin R
      <4>1. ss[l] = <<>>
        BY <1>3, <3>2
      <4>2. QED  BY <4>1
    <3>3. QED  BY <3>1, <3>2
  <2> HIDE DEF p, own, ss, s
  <2>5. Moved(z, s, own, ss, DOMAIN ss, p)
    BY <2>1, <2>2, <2>3, <2>4 DEF Moved
  <2>6. QED  BY <1>8, <2>5, SpotsMoved
<1>10. QED  BY <1>4, <1>6, <1>8, <1>9

\* dec_ref, with what the destructor then goes on to drop, keeps the ledger: the last
\* reference is given up only where nobody else holds the object.
LEMMA DropKeeps ==
    ASSUME NEW h, NEW n, IsHeap(h, n), NEW vs \in Seq(Seq(0 .. n)), NEW d \in Seq(0 .. n), d # <<>>,
           Ledger(h, vs, d), NEW x, x = Head(d), x # 0
    PROVE  LET g == DecRef(h, x)
               e == (IF h[x].refs = 1 THEN Pointers(h[x], Released(h[x].class)) ELSE <<>>) \o Tail(d)
           IN  /\ x \in DOMAIN h /\ e \in Seq(0 .. n) /\ Ledger(g, vs, e)
               /\ h[x].refs = 1 => Count(x, Link(h), Slots(h)) = 0
               /\ h[x].refs = 1 => Count(x, vs, DOMAIN vs) = 0
               /\ Count(x, vs, DOMAIN vs) # 0 => h[x].refs # 1
<1> DEFINE g == DecRef(h, x)
           rest == Tail(d)
           M(z) == Count(z, Link(h), Slots(h))
           S(z) == Count(z, vs, DOMAIN vs)
<1>1. d \in Seq(Nat) /\ x \in 0 .. n /\ rest \in Seq(0 .. n) /\ n \in Nat
  <2>1. d \in Seq(Nat) /\ n \in Nat
    BY HoldersAreNumbers DEF IsHeap
  <2>2. QED  BY <2>1, HeadTailProperties
<1>2. \A z : M(z) \in Nat /\ S(z) \in Nat /\ Times(z, d) \in Nat /\ Times(z, rest) \in Nat /\ rest \in Seq(Nat)
  BY <1>1, HoldersAreNumbers
<1>3. \A z : Times(z, d) = (IF x = z THEN 1 ELSE 0) + Times(z, rest)
  <2>1. ASSUME NEW z PROVE Times(z, d) = (IF x = z THEN 1 ELSE 0) + Times(z, rest)
    <3>1. Cardinality(Occurs(z, d)) = (IF Head(d) = z THEN 1 ELSE 0) + Cardinality(Occurs(z, Tail(d)))
      BY <1>1, OccursHead
    <3>2. Times(z, d) = Cardinality(Occurs(z, d)) /\ Times(z, rest) = Cardinality(Occurs(z, rest))
      BY <1>1, <1>2, TimesIs
    <3>3. QED  BY <3>1, <3>2
  <2>2. QED  BY <2>1
<1>4. \A z \in Nat \ {0} : Refs(h, z) = M(z) + S(z) + Times(z, d)
  BY DEF Ledger
<1> HIDE DEF M, S, rest
<1>5. x \in Nat \ {0} /\ Refs(h, x) = M(x) + S(x) + 1 + Times(x, rest)
  <2>1. x \in Nat \ {0}
    BY <1>1
  <2>2. Times(x, d) = 1 + Times(x, rest)
    BY <1>3
  <2>3. Refs(h, x) = M(x) + S(x) + Times(x, d)
    BY <1>4, <2>1
  <2>4. M(x) \in Nat /\ S(x) \in Nat /\ Times(x, rest) \in Nat
    BY <1>2
  <2>5. QED  BY <2>1, <2>2, <2>3, <2>4
<1>6. x \in DOMAIN h /\ Refs(h, x) = h[x].refs
  BY <1>2, <1>5 DEF Refs
<1>7. h[x].refs = 1 => M(x) = 0 /\ S(x) = 0 /\ Times(x, rest) = 0
  BY <1>2, <1>5, <1>6
<1>8. IsHeap(g, n) /\ LeftBy(x, h, g) /\ (x \in DOMAIN g <=> h[x].refs # 1)
  BY <1>6, DecRefIs
<1> HIDE DEF g
<1>9. \A p \in Slots(g) : p \in Slots(h) /\ Link(g)[p] = Link(h)[p]
  <2>1. ASSUME NEW p \in Slots(g) PROVE p \in Slots(h) /\ Link(g)[p] = Link(h)[p]
    <3>1. PICK y \in DOMAIN g : \E k \in Released(g[y].class) : p = <<y, k>>
      BY SlotsAre
    <3>2. PICK k \in Released(g[y].class) : p = <<y, k>>
      BY <3>1
    <3>3. y \in DOMAIN h /\ g[y].class = h[y].class /\ g[y].members = h[y].members
      BY <1>8 DEF LeftBy
    <3>4. g[y].class \in DOMAIN Modes
      BY <1>8 DEF IsHeap, Objects
    <3>5. k \in 1 .. 4
      BY <3>4, ReleasedAre
    <3>6. p \in Slots(h)
      BY <3>2, <3>3, SlotsAre
    <3>7. QED  BY <3>2, <3>3, <3>5, <3>6 DEF Link
  <2>2. QED  BY <2>1
<1>10. \A z \in Nat \ {0} : z # x => Refs(g, z) = Refs(h, z)
  BY <1>8 DEF LeftBy, Refs
<1>11. CASE h[x].refs # 1
  <2>1. Slots(g) = Slots(h)
    <3>1. ASSUME NEW p \in Slots(h) PROVE p \in Slots(g)
      <4>1. PICK y \in DOMAIN h : \E k \in Released(h[y].class) : p = <<y, k>>
        BY SlotsAre
      <4>2. y \in DOMAIN g /\ g[y].class = h[y].class
        BY <1>8, <1>11 DEF LeftBy
      <4>3. QED  BY <4>1, <4>2, SlotsAre
    <3>2. QED  BY <3>1, <1>9
  <2>2. \A z : Count(z, Link(g), Slots(g)) = M(z)
    <3> DEFINE K == Slots(h)
               t == Link(g)
               s == Link(h)
    <3>1. \A p \in K : t[p] = s[p]
      BY <1>9, <2>1
    <3> HIDE DEF K, t, s
    <3>2. \A z : Count(z, t, K) = Count(z, s, K)
      BY <3>1, SpotsSame
    <3>3. QED  BY <2>1, <3>2 DEF K, t, s, M
  <2>3. <<>> \o rest = rest
    BY <1>1, ConcatEmptySeq
  <2>4. ASSUME NEW z \in Nat \ {0}
        PROVE  Refs(g, z) = Count(z, Link(g), Slots(g)) + S(z) + Times(z, rest)
    <3>1. CASE z = x
      <4>1. Refs(g, x) = h[x].refs - 1
        BY <1>8, <1>11 DEF LeftBy, Refs
      <4>2. QED  BY <1>2, <1>5, <1>6, <2>2, <3>1, <4>1
    <3>2. CASE z # x
      <4>1. Times(z, d) = Times(z, rest) /\ Refs(h, z) = M(z) + S(z) + Times(z, d) /\ Refs(g, z) = Refs(h, z)
        <5>1. Times(z, d) = 0 + Times(z, rest)
          BY <1>3, <3>2
        <5>2. Times(z, rest) \in Nat
          BY <1>2
        <5>3. QED  BY <1>4, <1>10, <3>2, <5>1, <5>2
      <4>2. QED  BY <2>2, <4>1
    <3>3. QED  BY <3>1, <3>2
  <2>5. Ledger(g, vs, rest)
    BY <2>4 DEF Ledger, S
  <2>6. QED  BY <1>1, <1>6, <1>11, <2>3, <2>5 DEF g, rest
<1>12. CASE h[x].refs = 1
  <2> DEFINE own == {x} \X Released(h[x].class)
             p == Pointers(h[x], Released(h[x].class))
             e == p \o rest
  <2>1. p \in Seq(0 .. n) /\ Countable(Link(h), own) /\ \A z \in Nat \ {0} : Times(z, p) = Count(z, Link(h), own)
    BY <1>6, PointersCount
  <2>2. Slots(h) = Slots(g) \cup own /\ Slots(g) \cap own = {}
    <3>1. ASSUME NEW q \in Slots(h) PROVE q \in Slots(g) \/ q \in own
      <4>1. PICK y \in DOMAIN h : \E k \in Released(h[y].class) : q = <<y, k>>
        BY SlotsAre
      <4>2. CASE y = x
        BY <4>1, <4>2
      <4>3. CASE y # x
        <5>1. y \in DOMAIN g /\ g[y].class = h[y].class
          BY <4>3, <1>8 DEF LeftBy
        <5>2. QED  BY <4>1, <5>1, SlotsAre
      <4>4. QED  BY <4>2, <4>3
    <3>2. \A q \in own : q \in Slots(h)
      BY <1>6, SlotsAre
    <3>3. \A q \in own : q \notin Slots(g)
      <4>1. ASSUME NEW q \in own, q \in Slots(g) PROVE FALSE
        <5>1. PICK y \in DOMAIN g : \E k \in Released(g[y].class) : q = <<y, k>>
          BY <4>1, SlotsAre
        <5>2. y = x
          BY <5>1
        <5>3. QED  BY <5>1, <5>2, <1>8, <1>12
      <4>2. QED  BY <4>1
    <3> HIDE DEF own
    <3>4. QED  BY <3>1, <3>2, <3>3, <1>9
  <2>3. \A z : M(z) = Count(z, Link(g), Slots(g)) + Count(z, Link(h), own)
    <3> DEFINE K == Slots(g)
               t == Link(g)
               s == Link(h)
    <3>1. \A q \in K : t[q] = s[q]
      BY <1>9
    <3>2. Countable(s, K) /\ Countable(s, own)
      <4>1. Countable(Link(h), Slots(h))
        BY LinksCount
      <4>2. K \in SUBSET Slots(h)
        BY <2>2
      <4> HIDE DEF K
      <4>3. QED  BY <4>1, <4>2, <2>1, FS_Subset DEF Countable
    <3>3. K \cap own = {} /\ Slots(h) = K \cup own
      BY <2>2
    <3> HIDE DEF K, t, s, own
    <3>4. \A z : Count(z, t, K) = Count(z, s, K)
      BY <3>1, SpotsSame
    <3>5. \A z : Count(z, s, K \cup own) = Count(z, s, K) + Count(z, s, own)
      BY <3>2, <3>3, SpotsSplit
    <3>6. QED  BY <3>3, <3>4, <3>5 DEF K, t, s, M
  <2> HIDE DEF own, p
  <2>4. p \in Seq(Nat) /\ \A z : Times(z, p) \in Nat /\ Times(z, p) = Cardinality(Occurs(z, p))
    BY <2>1, HoldersAreNumbers
  <2>5. e \in Seq(0 .. n) /\ \A z : Times(z, e) = Times(z, p) + Times(z, rest)
    <3>1. e \in Seq(0 .. n)
      BY <1>1, <2>1, ConcatProperties
    <3>2. \A z : Times(z, e) = Cardinality(Occurs(z, e))
      BY <3>1, HoldersAreNumbers
    <3>3. \A z : Cardinality(Occurs(z, e)) = Cardinality(Occurs(z, p)) + Cardinality(Occurs(z, rest))
      BY <2>4, <1>2, OccursConcat
    <3>4. \A z : Times(z, rest) = Cardinality(Occurs(z, rest))
      BY <1>1, HoldersAreNumbers
    <3> HIDE DEF e
    <3>5. QED  BY <3>1, <3>2, <3>3, <3>4, <2>4
  <2>6. \A z : Count(z, Link(g), Slots(g)) \in Nat /\ Count(z, Link(h), own) \in Nat
    BY <1>8, <2>1, LinksCount, SpotsFinite
  <2> HIDE DEF e
  <2>7. ASSUME NEW z \in Nat \ {0}
        PROVE  Refs(g, z) = Count(z, Link(g), Slots(g)) + S(z) + Times(z, e)
    <3>1. CASE z = x
      <4>1. Refs(g, x) = 0
        BY <1>8, <1>12 DEF Refs
      <4>2. M(x) = 0 /\ S(x) = 0 /\ Times(x, rest) = 0
        BY <1>7, <1>12
      <4>3. Count(x, Link(g), Slots(g)) = 0 /\ Count(x, Link(h), own) = 0
        <5> DEFINE a == Count(x, Link(g), Slots(g))
                   b == Count(x, Link(h), own)
        <5>1. a \in Nat /\ b \in Nat /\ 0 = a + b
          BY <2>3, <2>6, <4>2
        <5> HIDE DEF a, b
        <5>2. a = 0 /\ b = 0
          BY <5>1
        <5>3. QED  BY <5>2 DEF a, b
      <4>4. Times(x, e) = 0
        BY <1>5, <2>1, <2>5, <4>2, <4>3
      <4>5. QED  BY <3>1, <4>1, <4>2, <4>3, <4>4
    <3>2. CASE z # x
      <4> DEFINE a == Count(z, Link(g), Slots(g))
                 b == Count(z, Link(h), own)
      <4>1. /\ a \in Nat /\ b \in Nat /\ M(z) = a + b /\ Times(z, p) = b
            /\ Times(z, e) = Times(z, p) + Times(z, rest)
            /\ Refs(g, z) = M(z) + S(z) + Times(z, rest) /\ S(z) \in Nat /\ Times(z, rest) \in Nat
        <5>1. a \in Nat /\ b \in Nat /\ M(z) = a + b /\ Times(z, p) = b
          BY <2>1, <2>3, <2>6
        <5>2. Times(z, e) = Times(z, p) + Times(z, rest) /\ S(z) \in Nat /\ Times(z, rest) \in Nat
          BY <1>2, <2>5
        <5>3. Times(z, d) = 0 + Times(z, rest)
          BY <1>3, <3>2
        <5>4. Refs(h, z) = M(z) + S(z) + Times(z, d) /\ Refs(g, z) = Refs(h, z)
          BY <1>4, <1>10, <3>2
        <5>5. QED  BY <5>1, <5>2, <5>3, <5>4
      <4> HIDE DEF a, b
      <4>2. Refs(g, z) = a + S(z) + Times(z, e)
        BY <4>1
      <4>3. QED  BY <4>2 DEF a
    <3>3. QED  BY <3>1, <3>2
  <2>8. Ledger(g, vs, e)
    BY <2>7 DEF Ledger, S
  <2>9. M(x) = 0 /\ S(x) = 0
    BY <1>7, <1>12
  <2>10. QED  BY <1>6, <1>12, <2>5, <2>8, <2>9 DEF g, rest, e, p, M, S
<1>13. QED  BY <1>11, <1>12

\* What the later actions of a text read in the objects of the earlier ones.
IsA(h, x, class) == x \in DOMAIN h /\ h[x].class = class

ShapeOf(h, y) ==
    /\ h[y].class = "Params" =>
        \A j \in DOMAIN h[y].members[1] : IsA(h, h[y].members[1][j], "DefinedVariable")
    /\ h[y].class = "DefinedVariable" =>
        h[y].members[1] # <<>> /\ IsA(h, h[y].members[1][1], "TypeNode")
    /\ \A m \in DOMAIN h[y].members : \A j \in DOMAIN h[y].members[m] :
        h[y].members[m][j] = Null => h[y].class = "Case" /\ m = 1
Shapes(h) == \A y \in DOMAIN h : ShapeOf(h, y)

\* A value v of a symbol.
Fits(h, v, symbol) ==
    /\ \A class \in DOMAIN Modes :
        Single(symbol, class) => Len(v) = 1 /\ IsA(h, v[1], class)
    /\ Plural(symbol) => v # <<>> /\ \A j \in DOMAIN v : IsA(h, v[j], "DefinedVariable")
    /\ symbol # "cases" => \A j \in DOMAIN v : v[j] # Null

\* Every object of the parser's stack has one reference.
Unshared(h, vs) ==
    \A i \in DOMAIN vs : \A k \in DOMAIN vs[i] :
        vs[i][k] # Null => vs[i][k] \in DOMAIN h /\ h[vs[i][k]].refs = 1

\* No object is answerable for itself, directly or through others: in every set of
\* objects there is one that no other is answerable for.
Owns(h, y, x) ==
    \E k \in Released(h[y].class) : \E j \in DOMAIN h[y].members[k] : h[y].members[k][j] = x
Acyclic(h) ==
    \A T \in SUBSET DOMAIN h : T # {} => \E t \in T : \A y \in T : ~Owns(h, y, t)

\* What is known of an object of a heap.
LEMMA HeapIs ==
    ASSUME NEW h, NEW n, IsHeap(h, n), NEW y \in DOMAIN h
    PROVE  /\ n \in Nat /\ y \in 1 .. n /\ h[y] \in Objects(n) /\ h[y].class \in DOMAIN Modes
           /\ h[y].members \in Seq(Seq(0 .. n)) /\ h[y].refs \in Nat \ {0}
           /\ DOMAIN h[y].members = DOMAIN Modes[h[y].class]
           /\ Released(h[y].class) \subseteq DOMAIN h[y].members
           /\ h[y].class # "For" => Released(h[y].class) = DOMAIN h[y].members
           /\ \A k \in DOMAIN h[y].members : h[y].members[k] \in Seq(0 .. n) /\ k \in 1 .. 4
<1>1. n \in Nat /\ y \in 1 .. n /\ h[y] \in Objects(n) /\ DOMAIN h[y].members = DOMAIN Modes[h[y].class]
  BY DEF IsHeap
<1>2. h[y].members \in Seq(Seq(0 .. n)) /\ h[y].class \in DOMAIN Modes /\ h[y].refs \in Nat \ {0}
  BY <1>1 DEF Objects
<1>3. \A k \in DOMAIN h[y].members : h[y].members[k] \in Seq(0 .. n)
  BY <1>2, ElementOfSeq, LenProperties
<1>4. /\ Released(h[y].class) \subseteq DOMAIN h[y].members /\ DOMAIN h[y].members \subseteq 1 .. 4
      /\ h[y].class # "For" => Released(h[y].class) = DOMAIN h[y].members
  BY <1>1, <1>2, ReleasedAre
<1>5. QED  BY <1>1, <1>2, <1>3, <1>4

\* An object is counted among the members exactly if some object owns it.
LEMMA OwnedCounted ==
    ASSUME NEW h, NEW n, IsHeap(h, n), NEW z
    PROVE  Count(z, Link(h), Slots(h)) # 0 <=> \E y \in DOMAIN h : Owns(h, y, z)
<1>1. Count(z, Link(h), Slots(h)) = 0 <=>
        \A p \in Slots(h) : \A j \in DOMAIN Link(h)[p] : Link(h)[p][j] # z
  BY LinksCount, SpotsNone
<1>2. ASSUME NEW y \in DOMAIN h, NEW k \in Released(h[y].class)
      PROVE  <<y, k>> \in Slots(h) /\ Link(h)[<<y, k>>] = h[y].members[k]
  <2>1. k \in 1 .. 4
    BY HeapIs
  <2>2. QED  BY <2>1, SlotsAre DEF Link
<1>3. \A p \in Slots(h) : \E y \in DOMAIN h : \E k \in Released(h[y].class) : p = <<y, k>>
  BY SlotsAre
<1>4. ASSUME NEW p \in Slots(h), NEW j \in DOMAIN Link(h)[p], Link(h)[p][j] = z
      PROVE  \E y \in DOMAIN h : Owns(h, y, z)
  <2>1. PICK y \in DOMAIN h : \E k \in Released(h[y].class) : p = <<y, k>>
    BY <1>3
  <2>2. PICK k \in Released(h[y].class) : p = <<y, k>>
    BY <2>1
  <2>3. Link(h)[p] = h[y].members[k]
    BY <1>2, <2>2
  <2>4. QED  BY <1>4, <2>3 DEF Owns
<1>5. ASSUME NEW y \in DOMAIN h, Owns(h, y, z)
      PROVE  \E p \in Slots(h) : \E j \in DOMAIN Link(h)[p] : Link(h)[p][j] = z
  <2>1. PICK k \in Released(h[y].class) : \E j \in DOMAIN h[y].members[k] : h[y].members[k][j] = z
    BY <1>5 DEF Owns
  <2>2. <<y, k>> \in Slots(h) /\ Link(h)[<<y, k>>] = h[y].members[k]
    BY <1>2
  <2>3. QED  BY <2>1, <2>2
<1>6. QED  BY <1>1, <1>4, <1>5

\* An object is counted on the stack exactly if it is there.
LEMMA StackCounted ==
    ASSUME NEW n \in Nat, NEW vs \in Seq(Seq(0 .. n)), NEW z
    PROVE  Count(z, vs, DOMAIN vs) # 0 <=> \E i \in DOMAIN vs : \E k \in DOMAIN vs[i] : vs[i][k] = z
<1>1. Countable(vs, DOMAIN vs)
  BY StackCountable
<1>2. QED  BY <1>1, SpotsNone

\* Deleting an object makes no cycle.
LEMMA LeftAcyclic ==
    ASSUME NEW h, NEW g, NEW x, LeftBy(x, h, g), Acyclic(h)
    PROVE  Acyclic(g)
<1>1. SUFFICES ASSUME NEW T \in SUBSET DOMAIN g, T # {}
               PROVE  \E t \in T : \A y \in T : ~Owns(g, y, t)
  BY DEF Acyclic
<1>2. T \in SUBSET DOMAIN h
  BY DEF LeftBy
<1>3. PICK t \in T : \A y \in T : ~Owns(h, y, t)
  BY <1>1, <1>2 DEF Acyclic
<1>4. \A y \in T : ~Owns(g, y, t)
  BY <1>3 DEF LeftBy, Owns
<1>5. QED  BY <1>4

\* Deleting what nobody holds leaves the rest in shape.
LEMMA LeftShapes ==
    ASSUME NEW h, NEW g, NEW n, NEW x, IsHeap(h, n), LeftBy(x, h, g), Shapes(h),
           x \in DOMAIN g \/ Count(x, Link(h), Slots(h)) = 0
    PROVE  Shapes(g)
<1>1. SUFFICES ASSUME NEW y \in DOMAIN g PROVE ShapeOf(g, y)
  BY DEF Shapes
<1>2. y \in DOMAIN h /\ g[y].class = h[y].class /\ g[y].members = h[y].members /\ ShapeOf(h, y)
  BY DEF LeftBy, Shapes
<1>3. x \in DOMAIN g \/ ~Owns(h, y, x)
  BY <1>2, OwnedCounted
<1>4. ASSUME NEW z, NEW c, IsA(h, z, c), Owns(h, y, z) PROVE IsA(g, z, c)
  BY <1>3, <1>4 DEF LeftBy, IsA
<1>5. \A k \in DOMAIN h[y].members : \A j \in DOMAIN h[y].members[k] :
        h[y].class # "For" => Owns(h, y, h[y].members[k][j])
  BY <1>2, HeapIs DEF Owns
<1>6. ASSUME h[y].class = "Params"
      PROVE  \A j \in DOMAIN h[y].members[1] : IsA(g, h[y].members[1][j], "DefinedVariable")
  <2>1. 1 \in DOMAIN h[y].members
    BY <1>2, <1>6, HeapIs, KindsKnown
  <2>2. QED  BY <1>2, <1>4, <1>5, <1>6, <2>1 DEF ShapeOf
<1>7. ASSUME h[y].class = "DefinedVariable"
      PROVE  h[y].members[1] # <<>> /\ IsA(g, h[y].members[1][1], "TypeNode")
  <2>1. 1 \in DOMAIN h[y].members
    BY <1>2, <1>7, HeapIs, KindsKnown
  <2>2. h[y].members[1] # <<>> /\ h[y].members[1] \in Seq(0 .. n)
    BY <1>2, <1>7, <2>1, HeapIs DEF ShapeOf
  <2>3. 1 \in DOMAIN h[y].members[1]
    BY <2>2, LenProperties, EmptySeq
  <2>4. QED  BY <1>2, <1>4, <1>5, <1>7, <2>1, <2>3 DEF ShapeOf
<1>8. QED  BY <1>2, <1>6, <1>7 DEF ShapeOf

\* An object of the stack cannot be the one that dec_ref is called on.
LEMMA LeftStack ==
    ASSUME NEW h, NEW g, NEW n \in Nat, NEW x, LeftBy(x, h, g), NEW vs \in Seq(Seq(0 .. n)),
           Count(x, vs, DOMAIN vs) # 0 => h[x].refs # 1, x # 0, Unshared(h, vs)
    PROVE  /\ Unshared(g, vs)
           /\ \A i \in DOMAIN vs : \A symbol : Fits(h, vs[i], symbol) => Fits(g, vs[i], symbol)
<1>1. \A i \in DOMAIN vs : \A k \in DOMAIN vs[i] : vs[i][k] # x
  BY StackCounted DEF Unshared, Null
<1>2. Unshared(g, vs)
  BY <1>1 DEF Unshared, LeftBy, Null
<1>3. ASSUME NEW i \in DOMAIN vs, NEW symbol, Fits(h, vs[i], symbol) PROVE Fits(g, vs[i], symbol)
  <2>1. ASSUME NEW k \in DOMAIN vs[i], NEW c, IsA(h, vs[i][k], c) PROVE IsA(g, vs[i][k], c)
    BY <1>1, <2>1 DEF IsA, LeftBy
  <2>2. ASSUME NEW class \in DOMAIN Modes, Single(symbol, class)
        PROVE  Len(vs[i]) = 1 /\ IsA(g, vs[i][1], class)
    <3>1. Len(vs[i]) = 1 /\ IsA(h, vs[i][1], class)
      BY <1>3, <2>2 DEF Fits
    <3>2. vs[i] \in Seq(0 .. n)
      BY ElementOfSeq, LenProperties
    <3>3. 1 \in DOMAIN vs[i]
      BY <3>1, <3>2, LenProperties
    <3>4. QED  BY <2>1, <3>1, <3>3
  <2>3. QED  BY <1>3, <2>1, <2>2 DEF Fits
<1>4. QED  BY <1>2, <1>3

(***************************************************************************)
(* The items of a reduction.                                               *)
(***************************************************************************)

Kept(row, vs) == SubSeq(vs, 1, Len(vs) - Len(row.rhs))

NamedBy(row, n, vs) ==
    SubSeq(vs, Len(vs) - Len(row.rhs) + 1, Len(vs)) \o [k \in DOMAIN row.makes |-> <<n + k>>]

\* The right-hand side and the items of a row.
LEMMA RhsIs ==
    ASSUME NEW row, Formed(row)
    PROVE  /\ Len(row.rhs) \in Nat /\ DOMAIN row.rhs = 1 .. Len(row.rhs) /\ Len(row.makes) \in Nat
           /\ DOMAIN row.makes = 1 .. Len(row.makes) /\ Items(row) = 1 .. Len(row.rhs) + Len(row.makes)
           /\ Len(row.rhs) + Len(row.makes) < 101
           /\ \A i \in Items(row) : i \in DOMAIN row.rhs \/ \E k \in DOMAIN row.makes : i = Len(row.rhs) + k
<1>1. /\ Len(row.rhs) \in Nat /\ DOMAIN row.rhs = 1 .. Len(row.rhs) /\ Len(row.makes) \in Nat
      /\ DOMAIN row.makes = 1 .. Len(row.makes) /\ Len(row.rhs) + Len(row.makes) < 101
  BY LenProperties DEF Formed, NullItem
<1> DEFINE r == Len(row.rhs)
           m == Len(row.makes)
<1>2. \A i \in 1 .. r + m : i \in 1 .. r \/ \E k \in 1 .. m : i = r + k
  <2>1. r \in Nat /\ m \in Nat
    BY <1>1
  <2> HIDE DEF r, m
  <2>2. ASSUME NEW i \in 1 .. r + m, i \notin 1 .. r PROVE \E k \in 1 .. m : i = r + k
    <3>1. i - r \in 1 .. m /\ i = r + (i - r)
      BY <2>1, <2>2
    <3>2. QED  BY <3>1
  <2>3. QED  BY <2>2
<1>3. QED  BY <1>1, <1>2 DEF Items

\* The values of the right-hand side, then the nodes made; the entries below them stay.
NamedAs(named, kept, row, n, vs) ==
    /\ named \in Seq(Seq(0 .. n + Len(row.makes))) /\ Len(named) = Len(row.rhs) + Len(row.makes)
    /\ DOMAIN named = Items(row)
    /\ \A i \in DOMAIN row.rhs :
        named[i] = vs[Len(vs) - Len(row.rhs) + i] /\ named[i] \in Seq(0 .. n)
    /\ \A k \in DOMAIN row.makes : named[Len(row.rhs) + k] = <<n + k>>
    /\ kept \in Seq(Seq(0 .. n)) /\ Len(kept) = Len(vs) - Len(row.rhs)
    /\ \A i \in 1 .. Len(vs) - Len(row.rhs) : kept[i] = vs[i]

\* What the items of a row name: values from the top of the stack, then new addresses.
LEMMA NamedIs ==
    ASSUME NEW row, Formed(row), NEW n \in Nat, NEW vs \in Seq(Seq(0 .. n)), Len(row.rhs) <= Len(vs)
    PROVE  NamedAs(NamedBy(row, n, vs), Kept(row, vs), row, n, vs)
<1> DEFINE r == Len(row.rhs)
           m == Len(row.makes)
           L == Len(vs)
           V == Seq(0 .. n)
           W == Seq(0 .. n + m)
           kept == Kept(row, vs)
           a == SubSeq(vs, L - r + 1, L)
           b == [k \in 1 .. m |-> <<n + k>>]
           named == NamedBy(row, n, vs)
<1>1. /\ r \in Nat /\ m \in Nat /\ L \in Nat /\ DOMAIN row.makes = 1 .. m /\ r <= L
      /\ DOMAIN vs = 1 .. L /\ DOMAIN row.rhs = 1 .. r /\ Items(row) = 1 .. r + m
      /\ \A i \in 1 .. L : vs[i] \in V
  BY RhsIs, LenProperties, ElementOfSeq
<1>2. named = a \o b
  BY <1>1 DEF NamedBy
<1>3. V \subseteq W
  <2>1. 0 .. n \subseteq 0 .. n + m
    BY <1>1
  <2>2. QED  BY <2>1, SequencesInclude
<1>4. a \in Seq(V) /\ Len(a) = r /\ \A i \in 1 .. r : a[i] = vs[L - r + i]
  <2> HIDE DEF r, L, V
  <2>1. L - r + 1 \in 1 .. L + 1 /\ L \in L - r .. L
    BY <1>1
  <2>2. /\ a \in Seq(V) /\ Len(a) = (IF L - r + 1 <= L THEN L - (L - r + 1) + 1 ELSE 0)
        /\ \A i \in 1 .. L - (L - r + 1) + 1 : a[i] = vs[(L - r + 1) + i - 1]
    <3>1. vs \in Seq(V) /\ (L - r + 1) \in 1 .. Len(vs) + 1 /\ L \in L - r .. Len(vs)
      BY <2>1 DEF V, L
    <3>2. QED  BY <3>1, <1>1, SubSeqProperties DEF L
  <2>3. Len(a) = r
    BY <1>1, <2>2
  <2>4. ASSUME NEW i \in 1 .. r PROVE a[i] = vs[L - r + i]
    <3>1. i \in 1 .. L - (L - r + 1) + 1 /\ (L - r + 1) + i - 1 = L - r + i
      BY <1>1
    <3>2. QED  BY <3>1, <2>2
  <2>5. QED  BY <2>2, <2>3, <2>4
<1>5. b \in Seq(W) /\ Len(b) = m
  <2>1. b \in [1 .. m -> W]
    <3>1. ASSUME NEW k \in 1 .. m PROVE <<n + k>> \in Seq(0 .. n + m)
      <4>1. n + k \in 0 .. n + m
        BY <1>1
      <4>2. QED  BY <4>1
    <3>2. QED  BY <3>1
  <2> HIDE DEF W, b, m
  <2>2. QED  BY <1>1, <2>1, FromFunction
<1>6. a \in Seq(W)
  BY <1>3, <1>4, SequencesInclude
<1>7. \A k \in 1 .. m : b[k] = <<n + k>>
  OBVIOUS
<1>8. \A i \in 1 .. r : a[i] \in V
  <2>1. \A i \in 1 .. r : L - r + i \in 1 .. L
    BY <1>1
  <2>2. QED  BY <1>1, <1>4, <2>1
<1> HIDE DEF named, a, b, r, m, W, V
<1>9. /\ a \o b \in Seq(W) /\ Len(a \o b) = r + m
      /\ \A i \in 1 .. r + m : (a \o b)[i] = IF i <= r THEN a[i] ELSE b[i - r]
  BY <1>4, <1>5, <1>6, ConcatProperties
<1>10. named \in Seq(W) /\ Len(named) = r + m /\ DOMAIN named = 1 .. r + m
  BY <1>2, <1>9, LenProperties
<1>11. \A i \in 1 .. r : named[i] = vs[L - r + i] /\ named[i] \in V
  <2>1. ASSUME NEW i \in 1 .. r PROVE named[i] = vs[L - r + i] /\ named[i] \in V
    <3>1. i \in 1 .. r + m /\ i <= r
      BY <1>1
    <3>2. named[i] = a[i]
      BY <1>2, <1>9, <3>1
    <3>3. QED  BY <1>4, <1>8, <3>2
  <2>2. QED  BY <2>1
<1>12. \A k \in 1 .. m : named[r + k] = <<n + k>>
  <2>1. ASSUME NEW k \in 1 .. m PROVE named[r + k] = <<n + k>>
    <3>1. r + k \in 1 .. r + m /\ ~(r + k <= r) /\ (r + k) - r = k
      BY <1>1
    <3>2. named[r + k] = b[k]
      BY <1>2, <1>9, <3>1
    <3>3. QED  BY <1>7, <3>2
  <2>2. QED  BY <2>1
<1>13. kept \in Seq(V) /\ Len(kept) = L - r /\ \A i \in 1 .. L - r : kept[i] = vs[i]
  <2>1. kept = SubSeq(vs, 1, L - r)
    BY DEF Kept, r
  <2>2. vs \in Seq(V) /\ 1 \in 1 .. Len(vs) + 1 /\ L - r \in 1 - 1 .. Len(vs)
    BY <1>1 DEF V
  <2>3. /\ kept \in Seq(V) /\ Len(kept) = (IF 1 <= L - r THEN (L - r) - 1 + 1 ELSE 0)
        /\ \A i \in 1 .. (L - r) - 1 + 1 : kept[i] = vs[1 + i - 1]
    BY <2>1, <2>2, SubSeqProperties
  <2> HIDE DEF L, kept
  <2>4. Len(kept) = L - r
    BY <1>1, <2>3
  <2>5. ASSUME NEW i \in 1 .. L - r PROVE kept[i] = vs[i]
    <3>1. i \in 1 .. (L - r) - 1 + 1 /\ 1 + i - 1 = i
      BY <1>1
    <3>2. QED  BY <2>3, <3>1
  <2>6. QED  BY <2>3, <2>4, <2>5
<1>14. QED  BY <1>1, <1>10, <1>11, <1>12, <1>13 DEF named, r, m, V, W, NamedAs

\* Pointers read in members of objects that stay.
Borrowed(s, h, n) == s \in Seq(1 .. n) /\ \A j \in DOMAIN s : \E y \in DOMAIN h : Owns(h, y, s[j])

\* What the numbers of a row stand for.
Valued(v, named, row, h, n) ==
    /\ v[None] = <<>> /\ v[NullItem] = <<Null>>
    /\ \A i \in Items(row) : v[i] = named[i]
    /\ Found(row, 1, {"def_vars"}) =>
        /\ Borrowed(v[LastType], h, n) /\ v[LastType] # <<>>
        /\ IsA(h, v[LastType][1], "TypeNode")
    /\ Found(row, 2, {"params"}) => Borrowed(v[TypeRefsOf], h, n)

Typed(row, named, h) == \A i \in DOMAIN row.rhs : Fits(h, named[i], row.rhs[i])

\* A reduction by row, before it is made.
Before(row, h, n, vs, named, kept, v) ==
    /\ RowSound(row) /\ IsHeap(h, n) /\ vs \in Seq(Seq(0 .. n)) /\ Len(row.rhs) <= Len(vs)
    /\ NamedAs(named, kept, row, n, vs) /\ Valued(v, named, row, h, n) /\ Typed(row, named, h)

NodesBy(row, n, v) ==
    [x \in n + 1 .. n + Len(row.makes) |->
        New(row.makes[x - n][1], [m \in DOMAIN row.makes[x - n][2] |-> v[row.makes[x - n][2][m]]])]

\* An argument is an item that is there already, or borrowed and then counted.
ArgumentAs(row, h, n, named, v, k, b, c, class) ==
    /\ v[c] \in Seq(0 .. n + k - 1)
    /\ \A j \in DOMAIN v[c] : v[c][j] = 0 => class = "Case" /\ b = 1
    /\ \/ v[c] = <<>>
       \/ c \in Items(row) /\ v[c] = named[c] /\ c < Len(row.rhs) + k
       \/ Modes[class][b] = "count" /\ Borrowed(v[c], h, n)

\* What a constructor gets for an argument is there when it is called, or is made first.
LEMMA ArgumentIs ==
    ASSUME NEW row, NEW h, NEW n, NEW vs, NEW named, NEW kept, NEW v,
           Before(row, h, n, vs, named, kept, v),
           NEW k \in DOMAIN row.makes, NEW b \in DOMAIN row.makes[k][2]
    PROVE  ArgumentAs(row, h, n, named, v, k, b, row.makes[k][2][b], row.makes[k][1])
<1> DEFINE c == row.makes[k][2][b]
           class == row.makes[k][1]
           r == Len(row.rhs)
<1>1. n \in Nat /\ RowSound(row)
  BY DEF Before, IsHeap
<1>2. /\ r \in Nat /\ DOMAIN row.makes \subseteq Nat \ {0} /\ k \in Nat \ {0}
      /\ \A i \in Items(row) : i \in DOMAIN row.rhs \/ \E l \in DOMAIN row.makes : i = r + l
  <2>1. Formed(row)
    BY <1>1 DEF RowSound
  <2>2. /\ r \in Nat /\ Len(row.makes) \in Nat /\ DOMAIN row.makes = 1 .. Len(row.makes)
        /\ \A i \in Items(row) : i \in DOMAIN row.rhs \/ \E l \in DOMAIN row.makes : i = r + l
    BY <2>1, RhsIs
  <2>3. DOMAIN row.makes \subseteq Nat \ {0}
    BY <2>2
  <2>4. QED  BY <2>2, <2>3
<1>3. \/ c = None
      \/ /\ c \in Items(row) /\ c < r + k
         /\ Found(row, c, {"cases"}) => class = "Case" /\ b = 1
      \/ c = LastType /\ Modes[class][b] = "count" /\ Found(row, 1, {"def_vars"})
      \/ c = TypeRefsOf /\ Modes[class][b] = "count" /\ Found(row, 2, {"params"})
  BY <1>1 DEF RowSound, MakesSound, NodeMade
<1>4. /\ v[None] = <<>> /\ \A i \in Items(row) : v[i] = named[i]
      /\ Found(row, 1, {"def_vars"}) => Borrowed(v[LastType], h, n)
      /\ Found(row, 2, {"params"}) => Borrowed(v[TypeRefsOf], h, n)
  BY DEF Before, Valued
<1>5. /\ \A i \in DOMAIN row.rhs : named[i] \in Seq(0 .. n)
      /\ \A l \in DOMAIN row.makes : named[r + l] = <<n + l>>
  BY DEF Before, NamedAs
<1>6. 0 .. n \subseteq 0 .. n + k - 1 /\ 1 .. n \subseteq 0 .. n + k - 1
  BY <1>1, <1>2
<1>7. Seq(0 .. n) \subseteq Seq(0 .. n + k - 1) /\ Seq(1 .. n) \subseteq Seq(0 .. n + k - 1)
  BY <1>6, SequencesInclude
<1> HIDE DEF c, class, r
<1>8. CASE c = None
  <2>1. v[c] = <<>>
    BY <1>4, <1>8
  <2>2. QED  BY <2>1 DEF c, class, r, ArgumentAs
<1>9. CASE c \in Items(row) /\ c < r + k /\ (Found(row, c, {"cases"}) => class = "Case" /\ b = 1)
  <2>1. v[c] = named[c]
    BY <1>4, <1>9
  <2>2. CASE c \in DOMAIN row.rhs
    <3>1. named[c] \in Seq(0 .. n) /\ Fits(h, named[c], row.rhs[c])
      BY <1>5, <2>2 DEF Before, Typed
    <3>2. v[c] \in Seq(0 .. n + k - 1)
      BY <1>7, <2>1, <3>1
    <3>3. \A j \in DOMAIN v[c] : v[c][j] = 0 => class = "Case" /\ b = 1
      BY <1>9, <2>1, <2>2, <3>1 DEF Fits, Found, Null
    <3>4. QED  BY <1>9, <2>1, <3>2, <3>3 DEF c, class, r, ArgumentAs
  <2>3. CASE \E l \in DOMAIN row.makes : c = r + l
    <3>1. PICK l \in DOMAIN row.makes : c = r + l
      BY <2>3
    <3>2. l \in Nat \ {0} /\ l < k /\ n + l \in 0 .. n + k - 1 /\ n + l # 0
      BY <1>1, <1>2, <1>9, <3>1
    <3>3. v[c] = <<n + l>>
      BY <1>5, <2>1, <3>1
    <3>4. v[c] \in Seq(0 .. n + k - 1) /\ \A j \in DOMAIN v[c] : v[c][j] # 0
      BY <3>2, <3>3
    <3>5. QED  BY <1>9, <2>1, <3>4 DEF c, class, r, ArgumentAs
  <2>4. QED  BY <1>2, <1>9, <2>2, <2>3
<1>10. ASSUME Modes[class][b] = "count", Borrowed(v[c], h, n)
       PROVE  v[c] \in Seq(0 .. n + k - 1) /\ \A j \in DOMAIN v[c] : v[c][j] # 0
  <2>1. v[c] \in Seq(1 .. n) /\ \A j \in DOMAIN v[c] : v[c][j] \in 1 .. n
    BY <1>10, ElementOfSeq, LenProperties DEF Borrowed
  <2>2. QED  BY <1>1, <1>7, <2>1
<1>11. CASE c = LastType /\ Modes[class][b] = "count" /\ Found(row, 1, {"def_vars"})
  <2>1. Modes[class][b] = "count" /\ Borrowed(v[c], h, n)
    BY <1>4, <1>11
  <2>2. QED  BY <1>10, <2>1 DEF c, class, r, ArgumentAs
<1>12. CASE c = TypeRefsOf /\ Modes[class][b] = "count" /\ Found(row, 2, {"params"})
  <2>1. Modes[class][b] = "count" /\ Borrowed(v[c], h, n)
    BY <1>4, <1>12
  <2>2. QED  BY <1>10, <2>1 DEF c, class, r, ArgumentAs
<1>13. QED  BY <1>3, <1>8, <1>9, <1>11, <1>12

\* The nodes that a reduction makes.
MadeAs(nodes, row, n, v) ==
    /\ IsHeap(nodes, n + Len(row.makes)) /\ DOMAIN nodes = n + 1 .. n + Len(row.makes)
    /\ \A x \in DOMAIN nodes : \E k \in DOMAIN row.makes : x = n + k
    /\ \A k \in DOMAIN row.makes :
        /\ n + k \in DOMAIN nodes /\ nodes[n + k].class = row.makes[k][1] /\ nodes[n + k].refs = 1
        /\ DOMAIN nodes[n + k].members = DOMAIN row.makes[k][2]
        /\ \A b \in DOMAIN row.makes[k][2] : nodes[n + k].members[b] = v[row.makes[k][2][b]]

\* The nodes an action makes are a heap of their own, with the arguments as members.
LEMMA NodesAre ==
    ASSUME NEW row, NEW h, NEW n, NEW vs, NEW named, NEW kept, NEW v,
           Before(row, h, n, vs, named, kept, v)
    PROVE  MadeAs(NodesBy(row, n, v), row, n, v)
<1> DEFINE m == Len(row.makes)
           nodes == NodesBy(row, n, v)
<1>1. n \in Nat /\ m \in Nat /\ DOMAIN row.makes = 1 .. m /\ RowSound(row)
  <2>1. n \in Nat /\ RowSound(row)
    BY DEF Before, IsHeap
  <2>2. QED  BY <2>1, RhsIs DEF RowSound
<1>2. ASSUME NEW k \in 1 .. m
      PROVE  LET class == row.makes[k][1]
                 args == row.makes[k][2]
             IN  /\ class \in DOMAIN Modes /\ DOMAIN args = DOMAIN Modes[class]
                 /\ \A b \in DOMAIN args : v[args[b]] \in Seq(0 .. n + m)
  <2>1. row.makes[k][1] \in DOMAIN Modes /\ DOMAIN row.makes[k][2] = DOMAIN Modes[row.makes[k][1]]
    BY <1>1 DEF RowSound, MakesSound, NodeMade
  <2>2. 0 .. n + k - 1 \subseteq 0 .. n + m
    BY <1>1
  <2>3. Seq(0 .. n + k - 1) \subseteq Seq(0 .. n + m)
    <3> DEFINE A == 0 .. n + k - 1
               B == 0 .. n + m
    <3>1. A \subseteq B
      BY <2>2
    <3> HIDE DEF A, B
    <3>2. Seq(A) \subseteq Seq(B)
      BY <3>1, SequencesInclude
    <3>3. QED  BY <3>2 DEF A, B
  <2>4. \A b \in DOMAIN row.makes[k][2] : v[row.makes[k][2][b]] \in Seq(0 .. n + k - 1)
    BY <1>1, ArgumentIs DEF ArgumentAs
  <2>5. QED  BY <2>1, <2>3, <2>4
<1>3. ASSUME NEW k \in 1 .. m
      PROVE  /\ n + k \in DOMAIN nodes /\ nodes[n + k].class = row.makes[k][1] /\ nodes[n + k].refs = 1
             /\ DOMAIN nodes[n + k].members = DOMAIN row.makes[k][2]
             /\ \A b \in DOMAIN row.makes[k][2] : nodes[n + k].members[b] = v[row.makes[k][2][b]]
             /\ nodes[n + k] \in Objects(n + m)
             /\ DOMAIN nodes[n + k].members = DOMAIN Modes[nodes[n + k].class]
  <2> DEFINE class == row.makes[k][1]
             args == row.makes[k][2]
             mem == [b \in DOMAIN args |-> v[args[b]]]
  <2>1. n + k \in n + 1 .. n + m /\ (n + k) - n = k
    BY <1>1
  <2>2. n + k \in DOMAIN nodes /\ nodes[n + k] = New(class, mem)
    BY <2>1 DEF NodesBy
  <2>3. nodes[n + k] = [class |-> class, members |-> mem, refs |-> 1]
    BY <2>2 DEF New, NewWith
  <2>4. class \in DOMAIN Modes /\ DOMAIN args = DOMAIN Modes[class]
    BY <1>2
  <2>5. mem \in Seq(Seq(0 .. n + m))
    <3>1. PICK q \in 0 .. 4 : DOMAIN Modes[class] = 1 .. q
      BY <2>4, ModesKnown
    <3>2. mem \in [1 .. q -> Seq(0 .. n + m)]
      BY <1>2, <2>4, <3>1
    <3> HIDE DEF mem
    <3>3. QED  BY <3>2, FromFunction
  <2>6. DOMAIN mem = DOMAIN args /\ \A b \in DOMAIN args : mem[b] = v[args[b]]
    OBVIOUS
  <2> HIDE DEF mem, class, args
  <2>7. nodes[n + k] \in Objects(n + m)
    BY <2>3, <2>4, <2>5 DEF Objects
  <2>8. QED  BY <2>2, <2>3, <2>4, <2>6, <2>7 DEF class, args
<1>4. DOMAIN nodes = n + 1 .. n + m
  BY DEF NodesBy
<1> HIDE DEF nodes
<1>5. \A x \in DOMAIN nodes : \E k \in 1 .. m : x = n + k
  <2>1. ASSUME NEW x \in DOMAIN nodes PROVE \E k \in 1 .. m : x = n + k
    <3>1. x - n \in 1 .. m /\ x = n + (x - n)
      BY <1>1, <1>4
    <3>2. QED  BY <3>1
  <2>2. QED  BY <2>1
<1>6. IsHeap(nodes, n + m)
  <2>1. n + m \in Nat /\ n + 1 .. n + m \subseteq 1 .. n + m
    BY <1>1
  <2>2. \A x \in DOMAIN nodes : nodes[x] \in Objects(n + m) /\ DOMAIN nodes[x].members = DOMAIN Modes[nodes[x].class]
    BY <1>3, <1>5
  <2>3. QED  BY <1>4, <2>1, <2>2 DEF IsHeap
<1>7. QED  BY <1>1, <1>3, <1>4, <1>5, <1>6 DEF MadeAs, nodes

\* Objects with addresses up to n are objects with addresses up to N.
LEMMA LargerHeap ==
    ASSUME NEW n \in Nat, NEW N \in Nat, n <= N
    PROVE  Objects(n) \subseteq Objects(N)
<1>1. Seq(0 .. n) \subseteq Seq(0 .. N)
  <2>1. 0 .. n \subseteq 0 .. N
    OBVIOUS
  <2>2. QED  BY <2>1, SequencesInclude
<1>2. Seq(Seq(0 .. n)) \subseteq Seq(Seq(0 .. N))
  <2> DEFINE A == Seq(0 .. n)
             B == Seq(0 .. N)
  <2>1. A \subseteq B
    BY <1>1
  <2> HIDE DEF A, B
  <2>2. Seq(A) \subseteq Seq(B)
    BY <2>1, SequencesInclude
  <2>3. QED  BY <2>2 DEF A, B
<1>3. QED  BY <1>2 DEF Objects

\* Objects of the same classes with the same members.
LEMMA SameLinks ==
    ASSUME NEW h, NEW n, IsHeap(h, n), NEW g, DOMAIN h \subseteq DOMAIN g,
           \A y \in DOMAIN h : g[y].class = h[y].class /\ g[y].members = h[y].members,
           NEW p \in Slots(h)
    PROVE  p \in Slots(g) /\ Link(g)[p] = Link(h)[p] /\ p[1] \in DOMAIN h
<1>1. PICK y \in DOMAIN h : \E k \in Released(h[y].class) : p = <<y, k>>
  BY SlotsAre
<1>2. PICK k \in Released(h[y].class) : p = <<y, k>>
  BY <1>1
<1>3. k \in 1 .. 4
  BY HeapIs
<1>4. y \in DOMAIN g /\ k \in Released(g[y].class)
  OBVIOUS
<1>5. p \in Slots(g)
  BY <1>2, <1>4, SlotsAre
<1>6. QED  BY <1>2, <1>3, <1>4, <1>5 DEF Link

\* Two heaps put together.
JoinedBy(g, h, nodes) ==
    /\ DOMAIN g = DOMAIN h \cup DOMAIN nodes
    /\ \A y \in DOMAIN h :
        /\ g[y].class = h[y].class /\ g[y].members = h[y].members
        /\ g[y].refs = h[y].refs + Count(y, Link(nodes), CountedSlots(nodes))
    /\ \A y \in DOMAIN nodes :
        /\ g[y].class = nodes[y].class /\ g[y].members = nodes[y].members
        /\ g[y].refs = nodes[y].refs + Count(y, Link(nodes), CountedSlots(nodes))
    /\ \A z : Count(z, Link(g), Slots(g)) =
                Count(z, Link(h), Slots(h)) + Count(z, Link(nodes), Slots(nodes))

\* Constructing nodes beside a heap counts in both what the nodes count.
LEMMA NewAllIs ==
    ASSUME NEW h, NEW n, IsHeap(h, n), NEW nodes, NEW N, IsHeap(nodes, N), n <= N,
           DOMAIN h \cap DOMAIN nodes = {}
    PROVE  IsHeap(NewAll(h, nodes), N) /\ JoinedBy(NewAll(h, nodes), h, nodes)
<1> DEFINE D == DOMAIN h \cup DOMAIN nodes
           all == [x \in D |-> IF x \in DOMAIN nodes THEN nodes[x] ELSE h[x]]
           more(x) == Cardinality(PointersTo(x, nodes, Counted))
           o(x) == [all[x] EXCEPT !.refs = all[x].refs + more(x)]
           g == [x \in D |-> o(x)]
<1>1. NewAll(h, nodes) = g
  <2>1. NewAll(h, nodes) = [x \in D |-> [all[x] EXCEPT !.refs = @ + more(x)]]
    BY DEF NewAll
  <2>2. QED  BY <2>1
<1>2. \A x : more(x) = Count(x, Link(nodes), CountedSlots(nodes)) /\ more(x) \in Nat
  BY LinksCount, SpotsFinite
<1>3. \A x \in D : all[x] = IF x \in DOMAIN nodes THEN nodes[x] ELSE h[x]
  OBVIOUS
<1>4. \A x \in D : all[x] \in Objects(N) /\ x \in 1 .. N /\ DOMAIN all[x].members = DOMAIN Modes[all[x].class]
  <2>1. n \in Nat /\ N \in Nat
    BY DEF IsHeap
  <2>2. Objects(n) \subseteq Objects(N)
    BY <2>1, LargerHeap
  <2>3. \A x \in DOMAIN h : h[x] \in Objects(n) /\ x \in 1 .. n /\ DOMAIN h[x].members = DOMAIN Modes[h[x].class]
    BY DEF IsHeap
  <2>4. \A x \in DOMAIN nodes : nodes[x] \in Objects(N) /\ x \in 1 .. N
                                    /\ DOMAIN nodes[x].members = DOMAIN Modes[nodes[x].class]
    BY DEF IsHeap
  <2> HIDE DEF all
  <2>5. QED  BY <1>3, <2>1, <2>2, <2>3, <2>4
<1> HIDE DEF all, more
<1>5. ASSUME NEW x \in D
      PROVE  /\ g[x] \in Objects(N) /\ g[x].class = all[x].class /\ g[x].members = all[x].members
             /\ g[x].refs = all[x].refs + more(x)
  <2>1. g[x] = o(x) /\ all[x] \in Objects(N) /\ more(x) \in Nat
    BY <1>2, <1>4
  <2>2. all[x].refs \in Nat \ {0}
    BY <2>1 DEF Objects
  <2>3. all[x].refs + more(x) \in Nat \ {0}
    BY <2>1, <2>2
  <2>4. QED  BY <2>1, <2>3 DEF Objects
<1>6. DOMAIN g = D
  OBVIOUS
<1> HIDE DEF g
<1>7. IsHeap(g, N)
  <2>1. N \in Nat
    BY DEF IsHeap
  <2>2. \A x \in D : g[x] \in Objects(N) /\ x \in 1 .. N /\ DOMAIN g[x].members = DOMAIN Modes[g[x].class]
    BY <1>4, <1>5
  <2>3. QED  BY <1>6, <2>1, <2>2 DEF IsHeap
<1>8. \A y \in DOMAIN h :
        /\ g[y].class = h[y].class /\ g[y].members = h[y].members
        /\ g[y].refs = h[y].refs + Count(y, Link(nodes), CountedSlots(nodes))
  BY <1>2, <1>3, <1>5
<1>9. \A y \in DOMAIN nodes :
        /\ g[y].class = nodes[y].class /\ g[y].members = nodes[y].members
        /\ g[y].refs = nodes[y].refs + Count(y, Link(nodes), CountedSlots(nodes))
  BY <1>2, <1>3, <1>5
<1>10. \A p \in Slots(h) : p \in Slots(g) /\ Link(g)[p] = Link(h)[p] /\ p[1] \in DOMAIN h
  BY <1>6, <1>8, SameLinks
<1>11. \A p \in Slots(nodes) : p \in Slots(g) /\ Link(g)[p] = Link(nodes)[p] /\ p[1] \in DOMAIN nodes
  BY <1>6, <1>9, SameLinks
<1>12. \A p \in Slots(g) : p \in Slots(h) \/ p \in Slots(nodes)
  <2>1. ASSUME NEW p \in Slots(g) PROVE p \in Slots(h) \/ p \in Slots(nodes)
    <3>1. PICK y \in DOMAIN g : \E k \in Released(g[y].class) : p = <<y, k>>
      BY SlotsAre
    <3>2. CASE y \in DOMAIN h
      BY <1>8, <3>1, <3>2, SlotsAre
    <3>3. CASE y \in DOMAIN nodes
      BY <1>9, <3>1, <3>3, SlotsAre
    <3>4. QED  BY <1>6, <3>2, <3>3
  <2>2. QED  BY <2>1
<1>13. \A z : Count(z, Link(g), Slots(g)) =
                Count(z, Link(h), Slots(h)) + Count(z, Link(nodes), Slots(nodes))
  <2> DEFINE A == Slots(h)
             B == Slots(nodes)
             C == Slots(g)
             s == Link(h)
             t == Link(nodes)
             u == Link(g)
  <2>1. Countable(u, C)
    BY <1>7, LinksCount
  <2>2. A \cap B = {} /\ C = A \cup B
    BY <1>10, <1>11, <1>12
  <2>3. (\A p \in A : u[p] = s[p]) /\ (\A p \in B : u[p] = t[p])
    BY <1>10, <1>11
  <2> HIDE DEF A, B, C, s, t, u
  <2>4. Countable(u, A) /\ Countable(u, B)
    BY <2>1, <2>2, FS_Subset DEF Countable
  <2>5. \A z : Count(z, u, A \cup B) = Count(z, u, A) + Count(z, u, B)
    BY <2>2, <2>4, SpotsSplit
  <2>6. \A z : Count(z, u, A) = Count(z, s, A) /\ Count(z, u, B) = Count(z, t, B)
    BY <2>3, SpotsSame
  <2>7. QED  BY <2>2, <2>5, <2>6 DEF A, B, C, s, t, u
<1>14. JoinedBy(g, h, nodes)
  BY <1>6, <1>8, <1>9, <1>13 DEF JoinedBy
<1>15. QED  BY <1>1, <1>7, <1>14

\* An object that has grown.
GrownBy(f, g, x, k, mode, added) ==
    /\ DOMAIN f = DOMAIN g
    /\ \A y \in DOMAIN g :
        /\ f[y].class = g[y].class /\ DOMAIN f[y].members = DOMAIN g[y].members
        /\ \A l \in DOMAIN g[y].members : y # x \/ l # k => f[y].members[l] = g[y].members[l]
        /\ f[y].refs = g[y].refs + (IF mode = "count" THEN Times(y, added) ELSE 0)
    /\ f[x].members[k] = g[x].members[k] \o added
    /\ \A z : Count(z, Link(f), Slots(f)) = Count(z, Link(g), Slots(g)) + Times(z, added)

\* Growing an object changes one of its members and the counts of what is added.
LEMMA GrowIs ==
    ASSUME NEW g, NEW n, IsHeap(g, n), NEW x \in DOMAIN g, NEW k \in Released(g[x].class),
           NEW added \in Seq(0 .. n), NEW mode
    PROVE  IsHeap(Grow(g, x, k, mode, added), n) /\ GrownBy(Grow(g, x, k, mode, added), g, x, k, mode, added)
<1> DEFINE mem == g[x].members
           longer == [mem EXCEPT ![k] = mem[k] \o added]
           wide == [g[x] EXCEPT !.members = longer]
           all == [y \in DOMAIN g |-> IF y = x THEN wide ELSE g[y]]
           s == IF mode = "count" THEN added ELSE <<>>
           o(y) == [all[y] EXCEPT !.refs = all[y].refs + Times(y, s)]
           f == [y \in DOMAIN g |-> o(y)]
<1>1. Grow(g, x, k, mode, added) = f
  <2>1. [g EXCEPT ![x].members[k] = @ \o added] = all
    OBVIOUS
  <2>2. Grow(g, x, k, mode, added) = IncRefs([g EXCEPT ![x].members[k] = @ \o added], s)
    BY DEF Grow
  <2>3. IncRefs(all, s) = [y \in DOMAIN all |-> [all[y] EXCEPT !.refs = @ + Times(y, s)]]
    BY DEF IncRefs
  <2>4. DOMAIN all = DOMAIN g
    OBVIOUS
  <2> HIDE DEF all
  <2>5. QED  BY <2>1, <2>2, <2>3, <2>4
<1>2. /\ n \in Nat /\ k \in DOMAIN mem /\ mem \in Seq(Seq(0 .. n)) /\ mem[k] \in Seq(0 .. n) /\ k \in 1 .. 4
      /\ g[x] \in Objects(n) /\ Len(mem) \in Nat /\ DOMAIN mem = 1 .. Len(mem)
      /\ \A l \in DOMAIN mem : mem[l] \in Seq(0 .. n)
  BY HeapIs, LenProperties
<1>3. added \in Seq(Nat) /\ mem[k] \o added \in Seq(0 .. n)
  <2>1. 0 .. n \subseteq Nat
    BY <1>2
  <2>2. QED  BY <1>2, <2>1, SequencesInclude, ConcatProperties
<1>4. DOMAIN longer = DOMAIN mem /\ \A l \in DOMAIN mem : longer[l] = IF l = k THEN mem[k] \o added ELSE mem[l]
  OBVIOUS
<1>5. longer \in Seq(Seq(0 .. n))
  <2> HIDE DEF longer, mem
  <2>1. DOMAIN longer = 1 .. Len(mem) /\ \A l \in 1 .. Len(mem) : longer[l] \in Seq(0 .. n)
    <3>1. DOMAIN longer = 1 .. Len(mem)
      BY <1>2, <1>4
    <3>2. ASSUME NEW l \in 1 .. Len(mem) PROVE longer[l] \in Seq(0 .. n)
      <4>1. longer[l] = IF l = k THEN mem[k] \o added ELSE mem[l]
        BY <1>2, <1>4
      <4>2. CASE l = k
        BY <1>3, <4>1, <4>2
      <4>3. CASE l # k
        BY <1>2, <4>1, <4>3
      <4>4. QED  BY <4>2, <4>3
    <3>3. QED  BY <3>1, <3>2
  <2>2. longer = [l \in DOMAIN longer |-> longer[l]]
    BY DEF longer
  <2>3. longer \in [1 .. Len(mem) -> Seq(0 .. n)]
    BY <2>1, <2>2
  <2>4. QED  BY <1>2, <2>3, FromFunction
<1>6. /\ wide \in Objects(n) /\ wide.class = g[x].class /\ wide.members = longer /\ wide.refs = g[x].refs
  <2> HIDE DEF longer
  <2>1. QED  BY <1>2, <1>5 DEF Objects
<1>7. \A y \in DOMAIN g : all[y] = IF y = x THEN wide ELSE g[y]
  OBVIOUS
<1>8. \A y \in DOMAIN g : g[y] \in Objects(n) /\ y \in 1 .. n /\ DOMAIN g[y].members = DOMAIN Modes[g[y].class]
  BY DEF IsHeap
<1>9. \A y : Times(y, s) = (IF mode = "count" THEN Times(y, added) ELSE 0) /\ Times(y, s) \in Nat
  <2>1. \A y : Times(y, <<>>) = 0
    <3>1. \A y : {i \in DOMAIN <<>> : <<>>[i] = y} = {}
      OBVIOUS
    <3>2. QED  BY <3>1, FS_EmptySet DEF Times
  <2>2. \A y : Times(y, added) \in Nat
    BY <1>3, TimesIs
  <2>3. QED  BY <2>1, <2>2
<1> HIDE DEF all, s, wide, longer, mem
<1>10. ASSUME NEW y \in DOMAIN g
       PROVE  /\ f[y] \in Objects(n) /\ f[y].class = all[y].class /\ f[y].members = all[y].members
              /\ f[y].refs = all[y].refs + Times(y, s)
  <2>1. f[y] = o(y) /\ all[y] \in Objects(n) /\ Times(y, s) \in Nat
    BY <1>6, <1>7, <1>8, <1>9
  <2>2. all[y].refs \in Nat \ {0}
    BY <2>1 DEF Objects
  <2>3. all[y].refs + Times(y, s) \in Nat \ {0}
    BY <2>1, <2>2
  <2>4. QED  BY <2>1, <2>3 DEF Objects
<1>11. DOMAIN f = DOMAIN g
  OBVIOUS
<1> HIDE DEF f
<1>12. ASSUME NEW y \in DOMAIN g
       PROVE  /\ f[y].class = g[y].class /\ DOMAIN f[y].members = DOMAIN g[y].members
              /\ \A l \in DOMAIN g[y].members : y # x \/ l # k => f[y].members[l] = g[y].members[l]
              /\ f[y].refs = g[y].refs + (IF mode = "count" THEN Times(y, added) ELSE 0)
  <2>1. CASE y = x
    BY <1>4, <1>6, <1>7, <1>9, <1>10, <2>1 DEF mem
  <2>2. CASE y # x
    BY <1>7, <1>9, <1>10, <2>2
  <2>3. QED  BY <2>1, <2>2
<1>13. f[x].members[k] = g[x].members[k] \o added
  BY <1>2, <1>4, <1>6, <1>7, <1>10 DEF mem
<1>14. IsHeap(f, n)
  BY <1>2, <1>8, <1>10, <1>11, <1>12 DEF IsHeap
<1>15. Slots(f) = Slots(g)
  <2>1. \A p : p \in Slots(f) <=> p \in Slots(g)
    <3>1. DOMAIN f = DOMAIN g /\ \A y \in DOMAIN g : f[y].class = g[y].class
      BY <1>11, <1>12
    <3>2. QED  BY <3>1, SlotsAre
  <2>2. QED  BY <2>1
<1>16. \A z : Count(z, Link(f), Slots(f)) = Count(z, Link(g), Slots(g)) + Times(z, added)
  <2> DEFINE K == Slots(g)
             q == <<x, k>>
             t == Link(f)
             u == Link(g)
  <2>1. Countable(u, K) /\ q \in K
    BY LinksCount, SlotsAre
  <2>2. t[q] = u[q] \o added
    BY <1>2, <1>11, <1>13 DEF Link
  <2>3. ASSUME NEW p \in K, p # q PROVE t[p] = u[p]
    <3>1. PICK y \in DOMAIN g : \E l \in Released(g[y].class) : p = <<y, l>>
      BY SlotsAre
    <3>2. PICK l \in Released(g[y].class) : p = <<y, l>>
      BY <3>1
    <3>3. l \in 1 .. 4 /\ l \in DOMAIN g[y].members
      BY HeapIs
    <3>4. y # x \/ l # k
      BY <2>3, <3>2
    <3>5. f[y].members[l] = g[y].members[l]
      BY <1>12, <3>3, <3>4
    <3>6. QED  BY <1>11, <3>2, <3>3, <3>5 DEF Link
  <2> HIDE DEF K, q, t, u
  <2>4. \A z : Count(z, t, K) = Count(z, u, K) + Times(z, added)
    BY <1>3, <2>1, <2>2, <2>3, SpotsLonger
  <2>5. QED  BY <1>15, <2>4 DEF K, t, u
<1>17. GrownBy(f, g, x, k, mode, added)
  BY <1>11, <1>12, <1>13, <1>16 DEF GrownBy
<1>18. QED  BY <1>1, <1>14, <1>17

\* How every item of a row is used up.
Ways(row, w) ==
    \A i \in Items(row) : w[i] \in Nat \X Nat \X Nat /\ Once(row, i, w[i][1], w[i][2], w[i][3])

\* A way to use up each item, for every item of a row that is sound.
LEMMA WaysAre ==
    ASSUME NEW row, UsedOnce(row)
    PROVE  \E w : Ways(row, w)
<1> DEFINE P(i, t) == Once(row, i, t[1], t[2], t[3])
           w == [i \in Items(row) |-> CHOOSE t \in Nat \X Nat \X Nat : P(i, t)]
<1>1. ASSUME NEW i \in Items(row) PROVE \E t \in Nat \X Nat \X Nat : P(i, t)
  <2>1. PICK u, a, b \in Nat : Once(row, i, u, a, b)
    BY DEF UsedOnce
  <2>2. <<u, a, b>> \in Nat \X Nat \X Nat /\ P(i, <<u, a, b>>)
    BY <2>1
  <2>3. QED  BY <2>2
<1>2. \A i \in Items(row) : w[i] \in Nat \X Nat \X Nat /\ P(i, w[i])
  <2> HIDE DEF P
  <2>1. QED  BY <1>1
<1>3. Ways(row, w)
  BY <1>2 DEF Ways
<1>4. QED  BY <1>3

UsedAs(row, w, u) == {i \in Items(row) : w[i][1] = u}

\* The items that are used up in one way or another are all the items.
LEMMA WaysSplit ==
    ASSUME NEW row, NEW h, NEW n, NEW vs, NEW named, NEW kept, NEW v,
           Before(row, h, n, vs, named, kept, v), NEW w, Ways(row, w), NEW z
    PROVE  /\ Countable(named, Items(row))
           /\ \A u \in 1 .. 4 : Countable(named, UsedAs(row, w, u)) /\ Count(z, named, UsedAs(row, w, u)) \in Nat
           /\ Count(z, named, Items(row)) =
                Count(z, named, UsedAs(row, w, 1)) + Count(z, named, UsedAs(row, w, 2))
                    + Count(z, named, UsedAs(row, w, 3)) + Count(z, named, UsedAs(row, w, 4))
<1> DEFINE A == UsedAs(row, w, 1)
           B == UsedAs(row, w, 2)
           C == UsedAs(row, w, 3)
           D == UsedAs(row, w, 4)
           I == Items(row)
<1>1. Countable(named, I)
  <2>1. named \in Seq(Seq(0 .. n + Len(row.makes))) /\ DOMAIN named = I /\ n \in Nat /\ Formed(row)
    BY DEF Before, NamedAs, IsHeap, RowSound
  <2>2. n + Len(row.makes) \in Nat
    BY <2>1, RhsIs
  <2>3. Countable(named, DOMAIN named)
    BY <2>1, <2>2, StackCountable
  <2>4. QED  BY <2>1, <2>3
<1>2. \A u : UsedAs(row, w, u) \in SUBSET I
  BY DEF UsedAs
<1>3. \A u : Countable(named, UsedAs(row, w, u))
  <2>1. ASSUME NEW u PROVE Countable(named, UsedAs(row, w, u))
    <3> DEFINE J == UsedAs(row, w, u)
    <3>1. J \in SUBSET I
      BY <1>2
    <3> HIDE DEF J, I
    <3>2. IsFiniteSet(J)
      BY <3>1, <1>1, FS_Subset DEF Countable
    <3>3. Countable(named, J)
      BY <1>1, <3>1, <3>2 DEF Countable
    <3>4. QED  BY <3>3 DEF J
  <2>2. QED  BY <2>1
<1>4. \A u : Count(z, named, UsedAs(row, w, u)) \in Nat
  BY <1>3, SpotsFinite
<1>5. \A i \in I : w[i][1] \in {1, 2, 3, 4}
  BY DEF Ways, Once, UsedUp
<1>6. I = ((A \cup B) \cup C) \cup D /\ A \cap B = {} /\ (A \cup B) \cap C = {} /\ ((A \cup B) \cup C) \cap D = {}
  <2>1. \A i : i \in I <=> i \in A \/ i \in B \/ i \in C \/ i \in D
    BY <1>5 DEF UsedAs
  <2>2. \A i : /\ ~(i \in A /\ i \in B) /\ ~(i \in A /\ i \in C) /\ ~(i \in B /\ i \in C)
               /\ ~(i \in A /\ i \in D) /\ ~(i \in B /\ i \in D) /\ ~(i \in C /\ i \in D)
    BY DEF UsedAs
  <2> HIDE DEF A, B, C, D, I
  <2>3. QED  BY <2>1, <2>2
<1>7. Countable(named, A) /\ Countable(named, B) /\ Countable(named, C) /\ Countable(named, D)
  BY <1>3
<1> HIDE DEF A, B, C, D
<1>8. Count(z, named, A \cup B) = Count(z, named, A) + Count(z, named, B) /\ Countable(named, A \cup B)
  BY <1>6, <1>7, SpotsSplit
<1> DEFINE E == A \cup B
<1>9. E \cap C = {} /\ Countable(named, E) /\ Count(z, named, E) = Count(z, named, A) + Count(z, named, B)
  BY <1>6, <1>8
<1>10. I = (E \cup C) \cup D /\ (E \cup C) \cap D = {}
  BY <1>6
<1> HIDE DEF E
<1>11. Count(z, named, E \cup C) = Count(z, named, E) + Count(z, named, C) /\ Countable(named, E \cup C)
  BY <1>7, <1>9, SpotsSplit
<1> DEFINE F == E \cup C
<1>12. /\ Countable(named, F) /\ Count(z, named, F) = Count(z, named, E) + Count(z, named, C)
       /\ I = F \cup D /\ F \cap D = {}
  BY <1>10, <1>11
<1> HIDE DEF F, I
<1>13. Count(z, named, F \cup D) = Count(z, named, F) + Count(z, named, D)
  BY <1>7, <1>12, SpotsSplit
<1>14. QED  BY <1>1, <1>3, <1>4, <1>9, <1>12, <1>13 DEF A, B, C, D, I

Listed(row, u) == IF u = 3 THEN row.gives ELSE row.drops
Looked(list, v) == [q \in DOMAIN list |-> v[list[q]]]

\* What a row gives or drops holds the items that are used up so.
LEMMA ListedCount ==
    ASSUME NEW row, NEW h, NEW n, NEW vs, NEW named, NEW kept, NEW v,
           Before(row, h, n, vs, named, kept, v), NEW w, Ways(row, w), NEW u \in {3, 4}
    PROVE  LET t == Looked(Listed(row, u), v)
               top == n + Len(row.makes)
           IN  /\ t \in Seq(Seq(0 .. top)) /\ Len(t) = Len(Listed(row, u)) /\ top \in Nat
               /\ FlattenSeq(t) \in Seq(0 .. top)
               /\ \A z \in Nat \ {0} : Times(z, FlattenSeq(t)) = Count(z, named, UsedAs(row, w, u))
<1> DEFINE list == Listed(row, u)
           t == Looked(list, v)
           top == n + Len(row.makes)
           J == UsedAs(row, w, u)
<1>1. n \in Nat /\ Formed(row) /\ top \in Nat
  <2>1. n \in Nat /\ Formed(row)
    BY DEF Before, IsHeap, RowSound
  <2>2. QED  BY <2>1, RhsIs
<1>2. /\ list \in Seq(Items(row) \cup {NullItem}) /\ Len(list) \in Nat /\ DOMAIN list = 1 .. Len(list)
      /\ \A q \in DOMAIN list : list[q] \in Items(row) \/ list[q] = NullItem
  <2>1. row.drops \in Seq(Items(row)) /\ row.gives \in Seq(Items(row) \cup {NullItem})
    BY <1>1 DEF Formed
  <2>2. Seq(Items(row)) \subseteq Seq(Items(row) \cup {NullItem})
    BY SequencesInclude
  <2>3. list \in Seq(Items(row) \cup {NullItem})
    BY <2>1, <2>2 DEF Listed
  <2> HIDE DEF list
  <2>4. Len(list) \in Nat /\ DOMAIN list = 1 .. Len(list) /\ \A q \in 1 .. Len(list) : list[q] \in Items(row) \cup {NullItem}
    BY <2>3, LenProperties, ElementOfSeq
  <2>5. QED  BY <2>3, <2>4
<1>3. \A q \in DOMAIN list : t[q] = v[list[q]]
  BY DEF Looked
<1>4. v[NullItem] = <<0>> /\ \A i \in Items(row) : v[i] = named[i]
  BY DEF Before, Valued, Null
<1>5. \A i \in Items(row) : named[i] \in Seq(0 .. top)
  BY ElementOfSeq, LenProperties DEF Before, NamedAs
<1>6. t \in Seq(Seq(0 .. top)) /\ DOMAIN t = DOMAIN list /\ Len(t) = Len(list)
  <2>1. DOMAIN t = DOMAIN list
    BY DEF Looked
  <2>2. ASSUME NEW q \in DOMAIN list PROVE v[list[q]] \in Seq(0 .. top)
    <3>1. CASE list[q] = NullItem
      <4>1. <<0>> \in Seq(0 .. top)
        BY <1>1
      <4>2. QED  BY <1>4, <3>1, <4>1
    <3>2. CASE list[q] \in Items(row)
      BY <1>4, <1>5, <3>2
    <3>3. QED  BY <1>2, <3>1, <3>2
  <2>3. t \in [1 .. Len(list) -> Seq(0 .. top)]
    BY <1>2, <2>2 DEF Looked
  <2> HIDE DEF t, list, top
  <2>4. t \in Seq(Seq(0 .. top)) /\ Len(t) = Len(list)
    BY <1>2, <2>3, FromFunction
  <2>5. QED  BY <2>1, <2>4
<1> HIDE DEF t, list, top
<1>7. 0 .. top \in SUBSET Nat
  BY <1>1
<1>8. FlattenSeq(t) \in Seq(0 .. top) /\ \A z : Times(z, FlattenSeq(t)) = Count(z, t, DOMAIN t)
  BY <1>6, <1>7, FlattenTimes
<1>9. \A i \in Items(row), a, b \in Nat : UsedUp(row, u, a, b, i) <=> b = 0 /\ Lists(list, a, i)
  BY DEF UsedUp, Listed, list
<1>10. \A i \in Items(row) : w[i] \in Nat \X Nat \X Nat /\ Once(row, i, w[i][1], w[i][2], w[i][3])
  BY DEF Ways
<1>11. \A i \in J : i \in Items(row) /\ w[i][2] \in DOMAIN list /\ list[w[i][2]] = i
  <2>1. ASSUME NEW i \in J PROVE i \in Items(row) /\ w[i][2] \in DOMAIN list /\ list[w[i][2]] = i
    <3>1. i \in Items(row) /\ w[i][1] = u
      BY DEF UsedAs
    <3>2. w[i][2] \in Nat /\ w[i][3] \in Nat /\ UsedUp(row, u, w[i][2], w[i][3], i)
      BY <1>10, <3>1 DEF Once
    <3>3. Lists(list, w[i][2], i)
      BY <1>9, <3>1, <3>2
    <3>4. QED  BY <3>1, <3>3 DEF Lists
  <2>2. QED  BY <2>1
<1>12. ASSUME NEW q \in DOMAIN list, list[q] \in Items(row)
       PROVE  list[q] \in J /\ w[list[q]][2] = q
  <2>1. u \in Nat /\ q \in Nat /\ 0 \in Nat
    BY <1>2
  <2>2. UsedUp(row, u, q, 0, list[q])
    BY <1>9, <1>12, <2>1 DEF Lists
  <2>3. u = w[list[q]][1] /\ q = w[list[q]][2]
    BY <1>10, <1>12, <2>1, <2>2 DEF Once
  <2>4. QED  BY <1>12, <2>3 DEF UsedAs
<1>13. ASSUME NEW z \in Nat \ {0} PROVE Count(z, t, DOMAIN t) = Count(z, named, J)
  <2> DEFINE p == [i \in J |-> w[i][2]]
             L == DOMAIN t
  <2>1. p \in [J -> L]
    BY <1>6, <1>11
  <2>2. \A i, j \in J : p[i] = p[j] => i = j
    BY <1>11
  <2>3. \A i \in J : t[p[i]] = named[i]
    BY <1>3, <1>4, <1>11
  <2>4. ASSUME NEW q \in L PROVE (\E i \in J : p[i] = q) \/ \A j \in DOMAIN t[q] : t[q][j] # z
    <3>1. CASE list[q] \in Items(row)
      BY <1>6, <1>12, <3>1
    <3>2. CASE list[q] = NullItem
      <4>1. t[q] = <<0>>
        BY <1>3, <1>4, <1>6, <3>2
      <4>2. QED  BY <4>1
    <3>3. QED  BY <1>2, <1>6, <3>1, <3>2
  <2> HIDE DEF p, J, L
  <2>5. Moved(z, named, J, t, L, p)
    BY <2>1, <2>2, <2>3, <2>4 DEF Moved
  <2>6. Countable(named, J)
    <3>1. u \in 1 .. 4
      OBVIOUS
    <3>2. QED  BY <3>1, WaysSplit DEF J
  <2>7. QED  BY <2>5, <2>6, SpotsMoved DEF L
<1>14. QED  BY <1>1, <1>6, <1>8, <1>13 DEF t, list, top

\* What the new nodes take over are the items that are used up so.
LEMMA TakenCount ==
    ASSUME NEW row, NEW h, NEW n, NEW vs, NEW named, NEW kept, NEW v,
           Before(row, h, n, vs, named, kept, v), NEW w, Ways(row, w),
           NEW nodes, MadeAs(nodes, row, n, v), NEW z \in Nat \ {0}
    PROVE  Count(z, Link(nodes), TakenSlots(nodes)) = Count(z, named, UsedAs(row, w, 1))
<1> DEFINE J == UsedAs(row, w, 1)
           L == TakenSlots(nodes)
           t == Link(nodes)
           p == [i \in J |-> <<n + w[i][2], w[i][3]>>]
<1>1. /\ n \in Nat /\ RowSound(row) /\ DOMAIN row.makes \subseteq Nat
      /\ DOMAIN row.makes = 1 .. Len(row.makes) /\ Len(row.makes) \in Nat
  <2>1. n \in Nat /\ RowSound(row)
    BY DEF Before, IsHeap
  <2>2. DOMAIN row.makes = 1 .. Len(row.makes) /\ Len(row.makes) \in Nat
    BY <2>1, RhsIs DEF RowSound
  <2>3. QED  BY <2>1, <2>2
<1>2. \A i \in Items(row) : w[i] \in Nat \X Nat \X Nat /\ Once(row, i, w[i][1], w[i][2], w[i][3])
  BY DEF Ways
<1>3. \A i \in J : /\ i \in Items(row) /\ w[i][2] \in DOMAIN row.makes /\ w[i][3] \in DOMAIN row.makes[w[i][2]][2]
                   /\ row.makes[w[i][2]][2][w[i][3]] = i
                   /\ Modes[row.makes[w[i][2]][1]][w[i][3]] = "take"
  <2>1. ASSUME NEW i \in J
        PROVE  i \in Items(row) /\ Takes(row, w[i][2], w[i][3], i)
    <3>1. i \in Items(row) /\ w[i][1] = 1
      BY DEF UsedAs
    <3>2. UsedUp(row, 1, w[i][2], w[i][3], i)
      BY <1>2, <3>1 DEF Once
    <3>3. QED  BY <3>1, <3>2 DEF UsedUp
  <2>2. QED  BY <2>1 DEF Takes
<1>4. \A k \in DOMAIN row.makes :
        /\ n + k \in DOMAIN nodes /\ nodes[n + k].class = row.makes[k][1]
        /\ DOMAIN nodes[n + k].members = DOMAIN row.makes[k][2]
        /\ \A b \in DOMAIN row.makes[k][2] : nodes[n + k].members[b] = v[row.makes[k][2][b]]
  BY DEF MadeAs
<1>5. /\ IsHeap(nodes, n + Len(row.makes))
      /\ \A x \in DOMAIN nodes : \E k \in DOMAIN row.makes : x = n + k
  BY DEF MadeAs
<1>6. ASSUME NEW k \in DOMAIN row.makes, NEW b \in DOMAIN row.makes[k][2]
      PROVE  b \in Nat /\ t[<<n + k, b>>] = v[row.makes[k][2][b]]
  <2>1. n + k \in DOMAIN nodes /\ b \in DOMAIN nodes[n + k].members
    BY <1>4
  <2>2. b \in 1 .. 4
    BY <1>5, <2>1, HeapIs
  <2>3. QED  BY <1>4, <2>1, <2>2 DEF Link
<1>7. p \in [J -> L]
  <2>1. ASSUME NEW i \in J PROVE <<n + w[i][2], w[i][3]>> \in L
    <3> DEFINE k == w[i][2]
               b == w[i][3]
    <3>1. k \in DOMAIN row.makes /\ b \in DOMAIN row.makes[k][2] /\ Modes[row.makes[k][1]][b] = "take"
      BY <1>3
    <3> HIDE DEF k, b
    <3>2. n + k \in DOMAIN nodes /\ nodes[n + k].class = row.makes[k][1] /\ DOMAIN nodes[n + k].members = DOMAIN row.makes[k][2]
      BY <1>4, <3>1
    <3>3. DOMAIN nodes[n + k].members = DOMAIN Modes[nodes[n + k].class]
      BY <1>5, <3>2, HeapIs
    <3>4. b \in Taken(nodes[n + k].class)
      BY <3>1, <3>2, <3>3 DEF Taken
    <3>5. <<n + k, b>> \in L
      BY <3>2, <3>4, SlotsAre
    <3>6. QED  BY <3>5 DEF k, b
  <2>2. QED  BY <2>1
<1>8. \A i, j \in J : p[i] = p[j] => i = j
  <2>1. ASSUME NEW i \in J, NEW j \in J, p[i] = p[j] PROVE i = j
    <3>1. n + w[i][2] = n + w[j][2] /\ w[i][3] = w[j][3]
      BY <2>1
    <3>2. w[i][2] \in Nat /\ w[j][2] \in Nat
      BY <1>1, <1>3
    <3>3. w[i][2] = w[j][2]
      BY <1>1, <3>1, <3>2
    <3>4. QED  BY <1>3, <3>1, <3>3
  <2>2. QED  BY <2>1
<1>9. \A i \in J : t[p[i]] = named[i]
  <2>1. ASSUME NEW i \in J PROVE t[p[i]] = named[i]
    <3>1. t[p[i]] = v[i]
      BY <1>3, <1>6
    <3>2. v[i] = named[i]
      BY <1>3 DEF Before, Valued
    <3>3. QED  BY <3>1, <3>2
  <2>2. QED  BY <2>1
<1>10. ASSUME NEW l \in L PROVE (\E i \in J : p[i] = l) \/ \A j \in DOMAIN t[l] : t[l][j] # z
  <2>1. PICK y \in DOMAIN nodes : \E b \in Taken(nodes[y].class) : l = <<y, b>>
    BY SlotsAre
  <2>2. PICK b \in Taken(nodes[y].class) : l = <<y, b>>
    BY <2>1
  <2>3. PICK k \in DOMAIN row.makes : y = n + k
    BY <1>5
  <2>4. nodes[y].class = row.makes[k][1] /\ DOMAIN nodes[y].members = DOMAIN row.makes[k][2]
    BY <1>4, <2>3
  <2>5. b \in DOMAIN Modes[nodes[y].class] /\ Modes[nodes[y].class][b] = "take"
    BY DEF Taken
  <2>6. b \in DOMAIN row.makes[k][2] /\ Modes[row.makes[k][1]][b] = "take"
    BY <1>5, <2>4, <2>5, HeapIs
  <2> DEFINE c == row.makes[k][2][b]
  <2>7. t[l] = v[c]
    BY <1>6, <2>2, <2>3, <2>6
  <2>8. v[c] = <<>> \/ c \in Items(row)
    <3>1. "take" # "count"
      OBVIOUS
    <3>2. QED  BY <2>6, <3>1, ArgumentIs DEF ArgumentAs
  <2>9. CASE c \in Items(row)
    <3>1. Takes(row, k, b, c)
      BY <2>6 DEF Takes
    <3>2. UsedUp(row, 1, k, b, c) /\ 1 \in Nat /\ k \in Nat /\ b \in Nat
      BY <1>1, <1>6, <2>6, <3>1 DEF UsedUp
    <3>3. 1 = w[c][1] /\ k = w[c][2] /\ b = w[c][3]
      BY <1>2, <2>9, <3>2 DEF Once
    <3>4. c \in J /\ p[c] = l
      BY <2>2, <2>3, <2>9, <3>3 DEF UsedAs
    <3>5. QED  BY <3>4
  <2>10. CASE v[c] = <<>>
    BY <2>7, <2>10
  <2>11. QED  BY <2>8, <2>9, <2>10
<1> HIDE DEF p, J, L, t
<1>11. Moved(z, named, J, t, L, p)
  BY <1>7, <1>8, <1>9, <1>10 DEF Moved
<1>12. Countable(named, J)
  <2>1. 1 \in 1 .. 4
    OBVIOUS
  <2>2. QED  BY <2>1, WaysSplit DEF J
<1>13. QED  BY <1>11, <1>12, SpotsMoved DEF J, L, t

\* An item taken over by the object that is grown.
LEMMA GrownCount ==
    ASSUME NEW row, NEW h, NEW n, NEW vs, NEW named, NEW kept, NEW v,
           Before(row, h, n, vs, named, kept, v), NEW w, Ways(row, w), NEW z
    PROVE  Count(z, named, UsedAs(row, w, 2)) =
            IF row.grow # <<>> /\ row.grow[3] = "take" THEN Times(z, named[row.grow[4]]) ELSE 0
<1> DEFINE J == UsedAs(row, w, 2)
           i == row.grow[4]
<1>1. \A j \in Items(row) : w[j] \in Nat \X Nat \X Nat /\ Once(row, j, w[j][1], w[j][2], w[j][3])
  BY DEF Ways
<1>2. \A j \in J : j \in Items(row) /\ Grows(row, j)
  <2>1. ASSUME NEW j \in J PROVE j \in Items(row) /\ Grows(row, j)
    <3>1. j \in Items(row) /\ w[j][1] = 2
      BY DEF UsedAs
    <3>2. UsedUp(row, 2, w[j][2], w[j][3], j)
      BY <1>1, <3>1 DEF Once
    <3>3. QED  BY <3>1, <3>2 DEF UsedUp
  <2>2. QED  BY <2>1
<1>3. CASE row.grow # <<>> /\ row.grow[3] = "take"
  <2>1. i \in DOMAIN row.rhs /\ Formed(row)
    BY <1>3 DEF Before, RowSound, GrowSound
  <2>2. i \in Items(row)
    <3>1. /\ Len(row.rhs) \in Nat /\ DOMAIN row.rhs = 1 .. Len(row.rhs) /\ Len(row.makes) \in Nat
          /\ Items(row) = 1 .. Len(row.rhs) + Len(row.makes)
      BY <2>1, RhsIs
    <3>2. PICK a, b : a = Len(row.rhs) /\ b = Len(row.makes)
      OBVIOUS
    <3>3. i \in 1 .. a /\ a \in Nat /\ b \in Nat
      BY <2>1, <3>1, <3>2
    <3> HIDE DEF i
    <3>4. i \in 1 .. a + b
      BY <3>3
    <3>5. QED  BY <3>1, <3>2, <3>4
  <2>3. Grows(row, i)
    BY <1>3 DEF Grows
  <2>4. UsedUp(row, 2, 0, 0, i) /\ 0 \in Nat /\ 2 \in Nat
    BY <2>3 DEF UsedUp
  <2>5. w[i][1] = 2
    BY <1>1, <2>2, <2>4 DEF Once
  <2>6. J = {i}
    BY <1>2, <2>2, <2>5 DEF UsedAs, Grows
  <2>7. named[i] \in Seq(Nat)
    <3>1. named[i] \in Seq(0 .. n) /\ n \in Nat
      BY <2>1 DEF Before, NamedAs, IsHeap
    <3>2. 0 .. n \subseteq Nat
      BY <3>1
    <3>3. QED  BY <3>1, <3>2, SequencesInclude
  <2>8. Count(z, named, {i}) = Times(z, named[i])
    BY <2>7, SpotsOne
  <2>9. QED  BY <1>3, <2>6, <2>8
<1>4. CASE ~(row.grow # <<>> /\ row.grow[3] = "take")
  <2>1. J = {}
    BY <1>2, <1>4 DEF Grows
  <2>2. QED  BY <1>4, <2>1, SpotsEmpty
<1>5. QED  BY <1>3, <1>4

\* The r values on top of a stack, and m new objects, one value each.
Window(vs, r, m, n, named, kept) ==
    /\ n \in Nat /\ r \in Nat /\ m \in Nat /\ r <= Len(vs)
    /\ vs \in Seq(Seq(0 .. n)) /\ kept \in Seq(Seq(0 .. n)) /\ named \in Seq(Seq(0 .. n + m))
    /\ Len(kept) = Len(vs) - r /\ Len(named) = r + m
    /\ \A i \in 1 .. r : named[i] = vs[Len(vs) - r + i]
    /\ \A k \in 1 .. m : named[r + k] = <<n + k>>
    /\ \A i \in 1 .. Len(vs) - r : kept[i] = vs[i]

\* Every new object is named once.
LEMMA NewCount ==
    ASSUME NEW vs, NEW r, NEW m, NEW n, NEW named, NEW kept, Window(vs, r, m, n, named, kept), NEW z,
           Countable(named, r + 1 .. r + m)
    PROVE  Count(z, named, r + 1 .. r + m) = IF z \in n + 1 .. n + m THEN 1 ELSE 0
<1> DEFINE K == r + 1 .. r + m
<1>a. \A i : i \in K <=> i \in r + 1 .. r + m
  OBVIOUS
<1>b. Countable(named, K)
  OBVIOUS
<1> HIDE DEF K
<1>0. \A q : q \in Spots(z, named, K) <=>
                \E j \in K : \E l \in DOMAIN named[j] : named[j][l] = z /\ q = <<j, l>>
  BY SpotsAre
<1>1. n \in Nat /\ r \in Nat /\ m \in Nat /\ \A k \in 1 .. m : named[r + k] = <<n + k>>
  BY DEF Window
<1>2. ASSUME NEW i \in K PROVE i - r \in 1 .. m /\ named[i] = <<n + (i - r)>> /\ i \in Nat
  <2>1. i - r \in 1 .. m /\ r + (i - r) = i /\ i \in Nat
    BY <1>1, <1>a
  <2>2. named[r + (i - r)] = <<n + (i - r)>>
    BY <1>1, <2>1
  <2>3. QED  BY <2>1, <2>2
<1>3. ASSUME z \in n + 1 .. n + m PROVE Count(z, named, K) = 1
  <2> DEFINE i == r + (z - n)
  <2>1. i \in K /\ z \in Nat /\ n + (i - r) = z
    BY <1>1, <1>3, <1>a
  <2> HIDE DEF i
  <2>2. named[i] = <<z>>
    BY <1>2, <2>1
  <2>3. ASSUME NEW j \in K, j # i PROVE named[j] = <<n + (j - r)>> /\ n + (j - r) # z
    <3>1. named[j] = <<n + (j - r)>> /\ j \in Nat /\ i \in Nat
      BY <1>2, <2>1
    <3>2. n + (j - r) # n + (i - r)
      BY <1>1, <2>3, <3>1
    <3>3. QED  BY <2>1, <3>1, <3>2
  <2>4. \A q : q \in Spots(z, named, K) <=> q = <<i, 1>>
    <3>1. ASSUME NEW q \in Spots(z, named, K) PROVE q = <<i, 1>>
      <4>1. PICK j \in K : \E l \in DOMAIN named[j] : named[j][l] = z /\ q = <<j, l>>
        BY <1>0
      <4>2. PICK l \in DOMAIN named[j] : named[j][l] = z /\ q = <<j, l>>
        BY <4>1
      <4>3. named[j] = <<n + (j - r)>>
        BY <1>2
      <4>4. l = 1
        BY <4>2, <4>3
      <4>5. j = i
        BY <2>3, <4>2, <4>3, <4>4
      <4>6. QED  BY <4>2, <4>4, <4>5
    <3>2. <<i, 1>> \in Spots(z, named, K)
      <4>1. 1 \in DOMAIN named[i] /\ named[i][1] = z
        BY <2>2
      <4>2. QED  BY <2>1, <4>1, SpotsAre
    <3>3. QED  BY <3>1, <3>2
  <2>5. Spots(z, named, K) = {<<i, 1>>}
    BY <2>4
  <2>6. Cardinality({<<i, 1>>}) = 1
    BY FS_Singleton
  <2>7. QED  BY <2>5, <2>6 DEF Count
<1>4. ASSUME ~(z \in n + 1 .. n + m) PROVE Count(z, named, K) = 0
  <2>1. ASSUME NEW i \in K, NEW j \in DOMAIN named[i] PROVE named[i][j] # z
    <3>1. named[i][j] = n + (i - r)
      BY <1>2
    <3>2. n + (i - r) \in n + 1 .. n + m
      BY <1>1, <1>2
    <3>3. QED  BY <1>4, <3>1, <3>2
  <2>2. QED  BY <1>b, <2>1, SpotsNone
<1>5. QED  BY <1>3, <1>4 DEF K

\* What is on the stack and what is made is on the rest of the stack or named.
LEMMA WindowCount ==
    ASSUME NEW vs, NEW r, NEW m, NEW n, NEW named, NEW kept, Window(vs, r, m, n, named, kept), NEW z
    PROVE  /\ Count(z, kept, DOMAIN kept) \in Nat
           /\ Count(z, vs, DOMAIN vs) + (IF z \in n + 1 .. n + m THEN 1 ELSE 0) =
                Count(z, kept, DOMAIN kept) + Count(z, named, DOMAIN named)
<1>1. PICK L : L = Len(vs)
  OBVIOUS
<1>2. /\ n \in Nat /\ r \in Nat /\ m \in Nat /\ L \in Nat /\ r <= L /\ n + m \in Nat
      /\ DOMAIN vs = 1 .. L /\ DOMAIN kept = 1 .. L - r /\ DOMAIN named = 1 .. r + m
  BY <1>1, LenProperties DEF Window
<1>3. PICK A, B, I, K : A = 1 .. L - r /\ B = L - r + 1 .. L /\ I = 1 .. r /\ K = r + 1 .. r + m
  OBVIOUS
<1>4. /\ \A i \in I : named[i] = vs[L - r + i]
      /\ \A i \in A : kept[i] = vs[i]
  BY <1>1, <1>3 DEF Window
<1>5. DOMAIN vs = A \cup B /\ A \cap B = {} /\ DOMAIN named = I \cup K /\ I \cap K = {} /\ DOMAIN kept = A
  BY <1>2, <1>3
<1>6. Countable(vs, DOMAIN vs) /\ Countable(kept, DOMAIN kept) /\ Countable(named, DOMAIN named)
  BY <1>2, StackCountable DEF Window
<1>7. Countable(vs, A) /\ Countable(vs, B) /\ Countable(named, I) /\ Countable(named, K)
  BY <1>5, <1>6, FS_Subset DEF Countable
<1>8. Count(z, vs, DOMAIN vs) = Count(z, vs, A) + Count(z, vs, B)
  BY <1>5, <1>7, SpotsSplit
<1>9. Count(z, named, DOMAIN named) = Count(z, named, I) + Count(z, named, K)
  BY <1>5, <1>7, SpotsSplit
<1>10. Count(z, kept, A) = Count(z, vs, A)
  BY <1>4, SpotsSame
<1>11. Count(z, named, I) = Count(z, vs, B)
  <2> DEFINE p == [i \in I |-> L - r + i]
  <2>1. p \in [I -> B]
    BY <1>2, <1>3
  <2>2. \A i, j \in I : p[i] = p[j] => i = j
    BY <1>2, <1>3
  <2>3. \A i \in I : vs[p[i]] = named[i]
    BY <1>4
  <2>4. ASSUME NEW l \in B PROVE \E i \in I : p[i] = l
    <3>1. l - (L - r) \in I /\ L - r + (l - (L - r)) = l
      BY <1>2, <1>3
    <3>2. QED  BY <3>1
  <2> HIDE DEF p
  <2>5. Moved(z, named, I, vs, B, p)
    BY <2>1, <2>2, <2>3, <2>4 DEF Moved
  <2>6. QED  BY <1>7, <2>5, SpotsMoved
<1>12. Count(z, named, K) = IF z \in n + 1 .. n + m THEN 1 ELSE 0
  BY <1>3, <1>7, NewCount
<1>13. Count(z, vs, A) \in Nat /\ Count(z, vs, B) \in Nat
  BY <1>7, SpotsFinite
<1>14. QED  BY <1>5, <1>8, <1>9, <1>10, <1>11, <1>12, <1>13

\* The items are what was on the stack above what stays there, and the new nodes.
LEMMA ItemsCount ==
    ASSUME NEW row, NEW h, NEW n, NEW vs, NEW named, NEW kept, NEW v,
           Before(row, h, n, vs, named, kept, v), NEW z
    PROVE  /\ Count(z, kept, DOMAIN kept) \in Nat
           /\ Count(z, vs, DOMAIN vs) + (IF z \in n + 1 .. n + Len(row.makes) THEN 1 ELSE 0) =
                Count(z, kept, DOMAIN kept) + Count(z, named, Items(row))
<1>1. n \in Nat /\ Formed(row) /\ vs \in Seq(Seq(0 .. n)) /\ Len(row.rhs) <= Len(vs)
  BY DEF Before, IsHeap, RowSound
<1>2. /\ Len(row.rhs) \in Nat /\ DOMAIN row.rhs = 1 .. Len(row.rhs)
      /\ Len(row.makes) \in Nat /\ DOMAIN row.makes = 1 .. Len(row.makes)
  BY <1>1, RhsIs
<1>3. NamedAs(named, kept, row, n, vs)
  BY DEF Before
<1>4. Window(vs, Len(row.rhs), Len(row.makes), n, named, kept) /\ DOMAIN named = Items(row)
  BY <1>1, <1>2, <1>3 DEF NamedAs, Window
<1>5. QED  BY <1>4, WindowCount

\* A reduction, and the nodes it makes.
Step(row, h, n, vs, named, kept, v, nodes) ==
    /\ Before(row, h, n, vs, named, kept, v) /\ Ledger(h, vs, <<>>)
    /\ MadeAs(nodes, row, n, v)

\* What is known while a row is reduced.
LEMMA StepIs ==
    ASSUME NEW row, NEW h, NEW n, NEW vs, NEW named, NEW kept, NEW v, NEW nodes,
           Step(row, h, n, vs, named, kept, v, nodes)
    PROVE  /\ RowSound(row) /\ Formed(row) /\ IsHeap(h, n) /\ n \in Nat /\ vs \in Seq(Seq(0 .. n))
           /\ Len(row.makes) \in Nat /\ DOMAIN row.makes = 1 .. Len(row.makes)
           /\ Len(row.rhs) \in Nat /\ DOMAIN row.rhs = 1 .. Len(row.rhs)
           /\ Items(row) = 1 .. Len(row.rhs) + Len(row.makes)
           /\ IsHeap(nodes, n + Len(row.makes)) /\ DOMAIN nodes = n + 1 .. n + Len(row.makes)
           /\ DOMAIN h \cap DOMAIN nodes = {} /\ n <= n + Len(row.makes)
<1>1. RowSound(row) /\ Formed(row) /\ IsHeap(h, n) /\ n \in Nat /\ vs \in Seq(Seq(0 .. n))
  BY DEF Step, Before, RowSound, IsHeap
<1>2. IsHeap(nodes, n + Len(row.makes)) /\ DOMAIN nodes = n + 1 .. n + Len(row.makes)
  BY DEF Step, MadeAs
<1>3. /\ Len(row.makes) \in Nat /\ DOMAIN row.makes = 1 .. Len(row.makes)
      /\ Len(row.rhs) \in Nat /\ DOMAIN row.rhs = 1 .. Len(row.rhs)
      /\ Items(row) = 1 .. Len(row.rhs) + Len(row.makes)
  BY <1>1, RhsIs
<1>4. DOMAIN h \subseteq 1 .. n
  BY <1>1 DEF IsHeap
<1>5. \A x \in DOMAIN h : x \notin DOMAIN nodes
  <2>1. ASSUME NEW x \in DOMAIN h, x \in DOMAIN nodes PROVE FALSE
    <3>1. x \in 1 .. n /\ x \in n + 1 .. n + Len(row.makes)
      BY <1>2, <1>4, <2>1
    <3>2. QED  BY <1>1, <1>3, <3>1
  <2>2. QED  BY <2>1
<1>6. QED  BY <1>1, <1>2, <1>3, <1>5

\* The numbers of items.
LEMMA Ranges ==
    ASSUME NEW a \in Nat, NEW b \in Nat
    PROVE  /\ \A i \in 1 .. a : i \in 1 .. a + b
           /\ \A k \in 1 .. b : a + k \in 1 .. a + b /\ a + k \in a + 1 .. a + b
           /\ \A i \in a + 1 .. a + b : i \in 1 .. a + b /\ i - a \in 1 .. b /\ a + (i - a) = i
<1>1. QED  OBVIOUS

\* What is held exists.
LEMMA HeldLives ==
    ASSUME NEW h, NEW n, IsHeap(h, n), NEW vs \in Seq(Seq(0 .. n)), NEW d \in Seq(0 .. n),
           Ledger(h, vs, d), NEW z \in Nat \ {0}
    PROVE  /\ \A i \in DOMAIN vs : \A j \in DOMAIN vs[i] : vs[i][j] = z => z \in DOMAIN h
           /\ \A y \in DOMAIN h : Owns(h, y, z) => z \in DOMAIN h
           /\ \A j \in DOMAIN d : d[j] = z => z \in DOMAIN h
<1> DEFINE M == Count(z, Link(h), Slots(h))
           S == Count(z, vs, DOMAIN vs)
           D == Times(z, d)
<1>1. Refs(h, z) = M + S + D
  BY DEF Ledger
<1>2. M \in Nat /\ S \in Nat /\ D \in Nat
  BY HoldersAreNumbers
<1>3. z \notin DOMAIN h => Refs(h, z) = 0
  BY DEF Refs
<1> HIDE DEF M, S, D
<1>4. z \notin DOMAIN h => M = 0 /\ S = 0 /\ D = 0
  BY <1>1, <1>2, <1>3
<1>5. S # 0 <=> \E i \in DOMAIN vs : \E k \in DOMAIN vs[i] : vs[i][k] = z
  BY StackCounted DEF S, IsHeap
<1>6. M # 0 <=> \E y \in DOMAIN h : Owns(h, y, z)
  BY OwnedCounted DEF M
<1>7. ASSUME NEW j \in DOMAIN d, d[j] = z, D = 0 PROVE FALSE
  <2>1. D = Cardinality(Occurs(z, d)) /\ d \in Seq(Nat)
    BY HoldersAreNumbers DEF D
  <2>2. Occurs(z, d) = {}
    BY <1>7, <2>1, OccursFinite, FS_EmptySet
  <2>3. QED  BY <1>7, <2>2 DEF Occurs
<1>8. QED  BY <1>4, <1>5, <1>6, <1>7

\* What new nodes point to exists.
LEMMA ArgumentsLive ==
    ASSUME NEW row, NEW h, NEW n, NEW vs, NEW named, NEW kept, NEW v, NEW nodes,
           Step(row, h, n, vs, named, kept, v, nodes), NEW z \in Nat \ {0},
           z \notin DOMAIN h, z \notin DOMAIN nodes
    PROVE  /\ \A i \in Items(row) : \A j \in DOMAIN named[i] : named[i][j] # z
           /\ Count(z, Link(nodes), CountedSlots(nodes)) = 0
<1>1. /\ RowSound(row) /\ Formed(row) /\ IsHeap(h, n) /\ n \in Nat /\ vs \in Seq(Seq(0 .. n))
      /\ Len(row.makes) \in Nat /\ DOMAIN row.makes = 1 .. Len(row.makes)
      /\ IsHeap(nodes, n + Len(row.makes)) /\ DOMAIN nodes = n + 1 .. n + Len(row.makes)
  BY StepIs
<1>2. /\ NamedAs(named, kept, row, n, vs) /\ Before(row, h, n, vs, named, kept, v)
      /\ Ledger(h, vs, <<>>) /\ MadeAs(nodes, row, n, v) /\ Len(row.rhs) <= Len(vs)
  BY DEF Step, Before
<1> DEFINE d == <<>>
<1>3. d \in Seq(0 .. n) /\ Ledger(h, vs, d)
  BY <1>2
<1> HIDE DEF d
<1>h. /\ \A i \in DOMAIN vs : \A j \in DOMAIN vs[i] : vs[i][j] # z
      /\ \A y \in DOMAIN h : ~Owns(h, y, z)
  BY <1>1, <1>3, HeldLives
<1>4. ASSUME NEW i \in Items(row), NEW j \in DOMAIN named[i] PROVE named[i][j] # z
  <2>1. CASE i \in DOMAIN row.rhs
    <3>1. named[i] = vs[Len(vs) - Len(row.rhs) + i]
      BY <1>2, <2>1 DEF NamedAs
    <3>2. Len(vs) - Len(row.rhs) + i \in DOMAIN vs
      <4>1. Len(vs) \in Nat /\ DOMAIN vs = 1 .. Len(vs)
        BY <1>1, LenProperties
      <4>2. Len(row.rhs) \in Nat /\ i \in 1 .. Len(row.rhs)
        BY <1>1, <2>1, RhsIs
      <4>3. PICK a, b : a = Len(vs) /\ b = Len(row.rhs)
        OBVIOUS
      <4>4. a \in Nat /\ b \in Nat /\ i \in 1 .. b /\ b <= a
        BY <1>2, <4>1, <4>2, <4>3
      <4>x. a - b + i \in 1 .. a
        BY <4>4
      <4>5. QED  BY <4>1, <4>3, <4>x
    <3>3. QED  BY <1>h, <3>1, <3>2
  <2>2. CASE \E k \in DOMAIN row.makes : i = Len(row.rhs) + k
    <3>1. PICK k \in DOMAIN row.makes : i = Len(row.rhs) + k
      BY <2>2
    <3>2. named[i] = <<n + k>> /\ n + k \in DOMAIN nodes
      BY <1>2, <3>1 DEF NamedAs, MadeAs
    <3>3. QED  BY <3>2
  <2>3. QED  BY <1>1, <2>1, <2>2, RhsIs
<1>5. ASSUME NEW p \in CountedSlots(nodes), NEW j \in DOMAIN Link(nodes)[p] PROVE Link(nodes)[p][j] # z
  <2>1. PICK y \in DOMAIN nodes : \E b \in Counted(nodes[y].class) : p = <<y, b>>
    BY SlotsAre
  <2>2. PICK b \in Counted(nodes[y].class) : p = <<y, b>>
    BY <2>1
  <2>3. PICK k \in DOMAIN row.makes : y = n + k
    BY <1>2 DEF MadeAs
  <2>4. /\ nodes[y].class = row.makes[k][1] /\ DOMAIN nodes[y].members = DOMAIN row.makes[k][2]
        /\ \A c \in DOMAIN row.makes[k][2] : nodes[y].members[c] = v[row.makes[k][2][c]]
    BY <1>2, <2>3 DEF MadeAs
  <2>5. b \in DOMAIN nodes[y].members /\ b \in 1 .. 4
    BY <1>1, HeapIs, SMTT(30) DEF Counted
  <2>6. Link(nodes)[p] = v[row.makes[k][2][b]]
    BY <2>2, <2>4, <2>5 DEF Link
  <2> DEFINE c == row.makes[k][2][b]
  <2>7. \/ v[c] = <<>>
        \/ c \in Items(row) /\ v[c] = named[c]
        \/ Borrowed(v[c], h, n)
    BY <1>2, <2>4, <2>5, ArgumentIs DEF ArgumentAs
  <2>8. j \in DOMAIN v[c]
    BY <2>6
  <2> HIDE DEF c
  <2>9. CASE v[c] = <<>>
    BY <2>8, <2>9
  <2>10. CASE c \in Items(row) /\ v[c] = named[c]
    BY <1>4, <2>6, <2>8, <2>10 DEF c
  <2>11. CASE Borrowed(v[c], h, n)
    <3>1. \E x \in DOMAIN h : Owns(h, x, v[c][j])
      BY <2>8, <2>11 DEF Borrowed
    <3>2. v[c][j] # z
      BY <1>h, <3>1
    <3>3. QED  BY <2>6, <3>2 DEF c
  <2>12. QED  BY <2>7, <2>9, <2>10, <2>11
<1>6. Countable(Link(nodes), CountedSlots(nodes))
  BY <1>1, LinksCount
<1>7. QED  BY <1>4, <1>5, <1>6, SpotsNone

\* A symbol or node known to be one object of a class is one.
LEMMA OneIs ==
    ASSUME NEW row, NEW h, NEW n, NEW vs, NEW named, NEW kept, NEW v, NEW nodes,
           Step(row, h, n, vs, named, kept, v, nodes), NEW g, JoinedBy(g, h, nodes),
           NEW i, NEW class \in DOMAIN Modes, One(row, i, class)
    PROVE  i \in Items(row) /\ Len(named[i]) = 1 /\ IsA(g, named[i][1], class)
<1>1. /\ RowSound(row) /\ Formed(row) /\ n \in Nat
      /\ Len(row.rhs) \in Nat /\ DOMAIN row.rhs = 1 .. Len(row.rhs)
      /\ Len(row.makes) \in Nat /\ DOMAIN row.makes = 1 .. Len(row.makes)
      /\ Items(row) = 1 .. Len(row.rhs) + Len(row.makes)
  BY StepIs
<1>2. NamedAs(named, kept, row, n, vs) /\ MadeAs(nodes, row, n, v) /\ Typed(row, named, h)
  BY DEF Step, Before
<1>3. CASE Made(row, i, class)
  <2>1. PICK a, b : a = Len(row.rhs) /\ b = Len(row.makes)
    OBVIOUS
  <2>2. i \in a + 1 .. a + b /\ row.makes[i - a][1] = class
    BY <1>3, <2>1 DEF Made
  <2>3. i \in 1 .. a + b /\ i - a \in 1 .. b /\ a + (i - a) = i
    BY <1>1, <2>1, <2>2, Ranges
  <2>4. PICK k : k = i - a
    OBVIOUS
  <2>5. k \in DOMAIN row.makes /\ i = a + k /\ row.makes[k][1] = class
    BY <1>1, <2>1, <2>2, <2>3, <2>4
  <2>6. named[i] = <<n + k>> /\ n + k \in DOMAIN nodes /\ nodes[n + k].class = class
    BY <1>2, <2>1, <2>5 DEF NamedAs, MadeAs
  <2>7. n + k \in DOMAIN g /\ g[n + k].class = class
    BY <2>6 DEF JoinedBy
  <2>8. Len(named[i]) = 1 /\ named[i][1] = n + k
    BY <2>6
  <2>9. i \in Items(row)
    BY <1>1, <2>1, <2>3
  <2>10. QED  BY <2>7, <2>8, <2>9 DEF IsA
<1>4. CASE i \in DOMAIN row.rhs /\ Single(row.rhs[i], class)
  <2>1. Len(named[i]) = 1 /\ IsA(h, named[i][1], class)
    BY <1>2, <1>4 DEF Typed, Fits
  <2>2. IsA(g, named[i][1], class)
    BY <2>1 DEF IsA, JoinedBy
  <2>3. i \in Items(row)
    <3>1. PICK a, b : a = Len(row.rhs) /\ b = Len(row.makes)
      OBVIOUS
    <3>2. i \in 1 .. a + b
      BY <1>1, <1>4, <3>1, Ranges
    <3>3. QED  BY <1>1, <3>1, <3>2
  <2>4. QED  BY <2>1, <2>2, <2>3
<1>5. QED  BY <1>3, <1>4 DEF One

\* The object that a row adds to.
Adds(row, g, h, n, named, x, k, added) ==
    /\ x = named[row.grow[1]][1] /\ k = row.grow[2] /\ added = named[row.grow[4]]
    /\ x \in DOMAIN g /\ k \in Released(g[x].class) /\ added \in Seq(0 .. n)
    /\ row.grow[3] \in {"take", "count"} /\ Len(named[row.grow[1]]) = 1
    /\ \A j \in DOMAIN added : added[j] # 0
    /\ g[x].class \in {"Declarations", "Params", "ParamTypeRefs"}
    /\ g[x].class = "Params" => \A j \in DOMAIN added : IsA(h, added[j], "DefinedVariable")

\* What growing adds to, and that it is there to be added to.
LEMMA AddsIs ==
    ASSUME NEW row, NEW h, NEW n, NEW vs, NEW named, NEW kept, NEW v, NEW nodes,
           Step(row, h, n, vs, named, kept, v, nodes), NEW g, JoinedBy(g, h, nodes),
           row.grow # <<>>
    PROVE  Adds(row, g, h, n, named, named[row.grow[1]][1], row.grow[2], named[row.grow[4]])
<1> DEFINE x == named[row.grow[1]][1]
           k == row.grow[2]
           added == named[row.grow[4]]
<1>1. RowSound(row) /\ GrowSound(row)
  BY StepIs DEF RowSound
<1>2. NamedAs(named, kept, row, n, vs) /\ MadeAs(nodes, row, n, v) /\ Typed(row, named, h)
  BY DEF Step, Before
<1>3. /\ row.grow[3] \in {"take", "count"} /\ row.grow[4] \in DOMAIN row.rhs
      /\ row.rhs[row.grow[4]] # "cases"
      /\ \/ One(row, row.grow[1], "Declarations") /\ row.grow[2] \in 1 .. 3
         \/ /\ One(row, row.grow[1], "Params") /\ row.grow[2] = 1
            /\ row.rhs[row.grow[4]] = "param"
         \/ One(row, row.grow[1], "ParamTypeRefs") /\ row.grow[2] = 1
  BY <1>1 DEF GrowSound
<1>4. added \in Seq(0 .. n) /\ Fits(h, added, row.rhs[row.grow[4]])
  BY <1>2, <1>3 DEF NamedAs, Typed
<1>5. \A j \in DOMAIN added : added[j] # 0
  BY <1>3, <1>4 DEF Fits, Null
<1>6. row.rhs[row.grow[4]] = "param" => \A j \in DOMAIN added : IsA(h, added[j], "DefinedVariable")
  BY <1>4 DEF Fits, Plural
<1>7. /\ Modes["Params"] = <<"take">> /\ Modes["ParamTypeRefs"] = <<"take">>
      /\ Modes["Declarations"] = <<"take", "take", "take">>
      /\ {"Params", "ParamTypeRefs", "Declarations"} \subseteq DOMAIN Modes
  BY KindsKnown
<1>8. \A class \in {"Params", "ParamTypeRefs", "Declarations"} : Released(class) = DOMAIN Modes[class]
  BY <1>7, ReleasedAre
<1>9. \A class \in {"Params", "ParamTypeRefs", "Declarations"} :
        One(row, row.grow[1], class) => Len(named[row.grow[1]]) = 1 /\ x \in DOMAIN g /\ g[x].class = class
  BY <1>7, OneIs DEF IsA
<1>10. /\ 1 .. 3 \subseteq Released("Declarations") /\ 1 \in Released("Params") /\ 1 \in Released("ParamTypeRefs")
  BY <1>7, <1>8
<1> HIDE DEF x, k, added
<1>11. CASE One(row, row.grow[1], "Declarations") /\ row.grow[2] \in 1 .. 3
  <2>1. Len(named[row.grow[1]]) = 1 /\ x \in DOMAIN g /\ g[x].class = "Declarations"
    BY <1>9, <1>11
  <2>2. k \in Released(g[x].class) /\ g[x].class # "Params"
    BY <1>10, <1>11, <2>1 DEF k
  <2>3. QED  BY <1>3, <1>4, <1>5, <2>1, <2>2 DEF Adds, x, k, added
<1>12. CASE One(row, row.grow[1], "Params") /\ row.grow[2] = 1 /\ row.rhs[row.grow[4]] = "param"
  <2>1. Len(named[row.grow[1]]) = 1 /\ x \in DOMAIN g /\ g[x].class = "Params"
    BY <1>9, <1>12
  <2>2. k \in Released(g[x].class)
    BY <1>10, <1>12, <2>1 DEF k
  <2>3. QED  BY <1>3, <1>4, <1>5, <1>6, <1>12, <2>1, <2>2 DEF Adds, x, k, added
<1>13. CASE One(row, row.grow[1], "ParamTypeRefs") /\ row.grow[2] = 1
  <2>1. Len(named[row.grow[1]]) = 1 /\ x \in DOMAIN g /\ g[x].class = "ParamTypeRefs"
    BY <1>9, <1>13
  <2>2. k \in Released(g[x].class) /\ g[x].class # "Params"
    BY <1>10, <1>13, <2>1 DEF k
  <2>3. QED  BY <1>3, <1>4, <1>5, <2>1, <2>2 DEF Adds, x, k, added
<1>14. QED  BY <1>3, <1>11, <1>12, <1>13

\* What the stack becomes.
LEMMA PushCount ==
    ASSUME NEW N \in Nat, NEW kept \in Seq(Seq(0 .. N)), NEW e \in Seq(0 .. N), NEW z
    PROVE  LET t == Append(kept, e)
           IN  /\ t \in Seq(Seq(0 .. N)) /\ Len(t) = Len(kept) + 1 /\ DOMAIN t = 1 .. Len(kept) + 1
               /\ t[Len(kept) + 1] = e /\ \A i \in 1 .. Len(kept) : t[i] = kept[i]
               /\ Count(z, t, DOMAIN t) = Count(z, kept, DOMAIN kept) + Times(z, e)
<1> DEFINE S == Seq(0 .. N)
           t == Append(kept, e)
<1>1. PICK l : l = Len(kept)
  OBVIOUS
<1>2. e \in S /\ kept \in Seq(S)
  OBVIOUS
<1> HIDE DEF S
<1>3. l \in Nat /\ DOMAIN kept = 1 .. l
  BY <1>1, <1>2, LenProperties
<1>4. /\ t \in Seq(S) /\ Len(t) = l + 1 /\ DOMAIN t = 1 .. l + 1
      /\ t[l + 1] = e /\ \A i \in 1 .. l : t[i] = kept[i]
  BY <1>1, <1>2, AppendProperties, LenProperties
<1> HIDE DEF t
<1> DEFINE A == 1 .. l
           B == {l + 1}
<1>5. DOMAIN t = A \cup B /\ A \cap B = {} /\ DOMAIN kept = A
  BY <1>3, <1>4
<1>6. t[l + 1] \in Seq(Nat)
  <2>1. 0 .. N \subseteq Nat
    OBVIOUS
  <2>2. e \in Seq(Nat)
    BY <1>2, <2>1, SequencesInclude DEF S
  <2>3. QED  BY <1>4, <2>2
<1>7. Countable(t, B) /\ Count(z, t, B) = Times(z, t[l + 1])
  BY <1>6, SpotsOne
<1>8. Countable(kept, A)
  BY <1>2, <1>5, StackCountable DEF S
<1>9. \A i \in A : kept[i] = t[i]
  BY <1>4
<1> HIDE DEF A, B
<1>10. Count(z, kept, A) = Count(z, t, A)
  BY <1>9, SpotsSame
<1>11. Countable(t, A)
  BY <1>8, <1>9 DEF Countable
<1>12. Count(z, t, A \cup B) = Count(z, t, A) + Count(z, t, B)
  <2>1. Countable(t, A) /\ Countable(t, B) /\ A \cap B = {}
    BY <1>5, <1>7, <1>11
  <2>2. QED  BY <2>1, SpotsSplit
<1>13. QED  BY <1>1, <1>4, <1>5, <1>7, <1>10, <1>12 DEF t, S

\* The heap g with the new nodes, and f with what was added to one of its objects.
GrowsAs(row, h, n, named, nodes, g, f) ==
    /\ IsHeap(g, n + Len(row.makes)) /\ JoinedBy(g, h, nodes)
    /\ IsHeap(f, n + Len(row.makes))
    /\ row.grow = <<>> => f = g
    /\ row.grow # <<>> =>
        /\ Adds(row, g, h, n, named, named[row.grow[1]][1], row.grow[2], named[row.grow[4]])
        /\ GrownBy(f, g, named[row.grow[1]][1], row.grow[2], row.grow[3], named[row.grow[4]])

\* The heap once the object is grown, or as it was.
LEMMA GrowsAre ==
    ASSUME NEW row, NEW h, NEW n, NEW vs, NEW named, NEW kept, NEW v, NEW nodes,
           Step(row, h, n, vs, named, kept, v, nodes)
    PROVE  GrowsAs(row, h, n, named, nodes, NewAll(h, nodes), Grown(row, named, NewAll(h, nodes)))
<1> DEFINE g == NewAll(h, nodes)
           N == n + Len(row.makes)
           x == named[row.grow[1]][1]
           k == row.grow[2]
           added == named[row.grow[4]]
           mode == row.grow[3]
<1>1. /\ IsHeap(h, n) /\ n \in Nat /\ IsHeap(nodes, N) /\ DOMAIN h \cap DOMAIN nodes = {} /\ n <= N
  BY StepIs
<1>2. IsHeap(g, N) /\ JoinedBy(g, h, nodes)
  BY <1>1, NewAllIs
<1> HIDE DEF g
<1>3. row.grow # <<>> => Adds(row, g, h, n, named, x, k, added)
  BY <1>2, AddsIs
<1>4. CASE row.grow # <<>>
  <2>1. x \in DOMAIN g /\ k \in Released(g[x].class) /\ added \in Seq(0 .. n)
    BY <1>3, <1>4 DEF Adds
  <2>2. added \in Seq(0 .. N)
    <3> DEFINE A == 0 .. n
               B == 0 .. N
    <3>1. A \subseteq B /\ added \in Seq(A)
      <4>1. N \in Nat
        BY <1>1 DEF IsHeap
      <4> HIDE DEF N
      <4>2. QED  BY <1>1, <2>1, <4>1
    <3> HIDE DEF A, B
    <3>2. added \in Seq(B)
      BY <3>1, SequencesInclude
    <3>3. QED  BY <3>2 DEF B
  <2> HIDE DEF x, k, added, mode, N
  <2>3. IsHeap(Grow(g, x, k, mode, added), N) /\ GrownBy(Grow(g, x, k, mode, added), g, x, k, mode, added)
    BY <1>2, <2>1, <2>2, GrowIs
  <2>4. Grown(row, named, g) = Grow(g, x, k, mode, added)
    BY <1>4 DEF Grown, x, k, mode, added
  <2>5. QED  BY <1>2, <1>3, <1>4, <2>3, <2>4 DEF GrowsAs, g, x, k, mode, added, N
<1>5. CASE row.grow = <<>>
  BY <1>2, <1>5 DEF GrowsAs, Grown, g
<1>6. QED  BY <1>4, <1>5

\* What a reduction adds to the counts.
LEMMA RefsGrow ==
    ASSUME NEW row, NEW h, NEW n, NEW vs, NEW named, NEW kept, NEW v, NEW nodes,
           Step(row, h, n, vs, named, kept, v, nodes), NEW g, NEW f,
           GrowsAs(row, h, n, named, nodes, g, f), NEW z \in Nat \ {0}
    PROVE  /\ Refs(f, z) = Refs(h, z) + (IF z \in DOMAIN nodes THEN 1 ELSE 0)
                    + Count(z, Link(nodes), CountedSlots(nodes))
                    + (IF row.grow # <<>> /\ row.grow[3] = "count" THEN Times(z, named[row.grow[4]]) ELSE 0)
           /\ Count(z, Link(f), Slots(f)) = Count(z, Link(h), Slots(h)) + Count(z, Link(nodes), Slots(nodes))
                    + (IF row.grow # <<>> THEN Times(z, named[row.grow[4]]) ELSE 0)
           /\ row.grow # <<>> => Times(z, named[row.grow[4]]) \in Nat
           /\ Refs(h, z) \in Nat
<1> DEFINE C == Count(z, Link(nodes), CountedSlots(nodes))
           added == named[row.grow[4]]
           T == Times(z, added)
<1>1. /\ IsHeap(h, n) /\ n \in Nat /\ IsHeap(nodes, n + Len(row.makes)) /\ DOMAIN h \cap DOMAIN nodes = {}
      /\ Formed(row) /\ RowSound(row)
  BY StepIs
<1>2. JoinedBy(g, h, nodes) /\ MadeAs(nodes, row, n, v)
  BY DEF GrowsAs, Step
<1>3. \A y \in DOMAIN h : h[y].refs \in Nat
  BY <1>1, HeapIs
<1>4. \A k \in DOMAIN row.makes : nodes[n + k].refs = 1
  BY <1>2 DEF MadeAs
<1>5. \A y \in DOMAIN nodes : nodes[y].refs = 1
  BY <1>2 DEF MadeAs
<1>6. C \in Nat /\ Count(z, Link(h), Slots(h)) \in Nat /\ Count(z, Link(nodes), Slots(nodes)) \in Nat
  BY <1>1, LinksCount, SpotsFinite
<1>7. Refs(h, z) \in Nat
  BY <1>3 DEF Refs
<1>8. /\ \A y \in DOMAIN h : g[y].refs = h[y].refs + Count(y, Link(nodes), CountedSlots(nodes))
      /\ \A y \in DOMAIN nodes : g[y].refs = nodes[y].refs + Count(y, Link(nodes), CountedSlots(nodes))
      /\ DOMAIN g = DOMAIN h \cup DOMAIN nodes
  BY <1>2 DEF JoinedBy
<1> HIDE DEF C
<1>9. Refs(g, z) = Refs(h, z) + (IF z \in DOMAIN nodes THEN 1 ELSE 0) + C
  <2>1. CASE z \in DOMAIN h
    <3>1. z \notin DOMAIN nodes /\ z \in DOMAIN g
      BY <1>1, <1>8, <2>1
    <3>2. Refs(g, z) = Refs(h, z) + C
      BY <1>8, <2>1, <3>1 DEF Refs, C
    <3>3. QED  BY <1>6, <1>7, <3>1, <3>2
  <2>2. CASE z \in DOMAIN nodes
    <3>1. z \notin DOMAIN h /\ z \in DOMAIN g
      BY <1>1, <1>8, <2>2
    <3>2. Refs(g, z) = 1 + C /\ Refs(h, z) = 0
      BY <1>5, <1>8, <2>2, <3>1 DEF Refs, C
    <3>3. QED  BY <1>6, <2>2, <3>2
  <2>3. CASE z \notin DOMAIN h /\ z \notin DOMAIN nodes
    <3>1. C = 0
      BY <2>3, ArgumentsLive DEF C
    <3>2. Refs(g, z) = 0 /\ Refs(h, z) = 0
      BY <1>8, <2>3 DEF Refs
    <3>3. QED  BY <2>3, <3>1, <3>2
  <2>4. QED  BY <2>1, <2>2, <2>3
<1>10. Count(z, Link(g), Slots(g)) = Count(z, Link(h), Slots(h)) + Count(z, Link(nodes), Slots(nodes))
  BY <1>2 DEF JoinedBy
<1>11. CASE row.grow = <<>>
  <2>1. f = g
    BY <1>11 DEF GrowsAs
  <2>2. Refs(g, z) \in Nat
    BY <1>6, <1>7, <1>9
  <2>3. QED  BY <1>6, <1>7, <1>9, <1>10, <1>11, <2>1, <2>2 DEF C
<1>12. CASE row.grow # <<>>
  <2>1. /\ Adds(row, g, h, n, named, named[row.grow[1]][1], row.grow[2], added)
        /\ GrownBy(f, g, named[row.grow[1]][1], row.grow[2], row.grow[3], added)
    BY <1>12 DEF GrowsAs
  <2>2. added \in Seq(Nat)
    <3>1. added \in Seq(0 .. n) /\ 0 .. n \subseteq Nat
      BY <2>1, <1>1 DEF Adds
    <3>2. QED  BY <3>1, SequencesInclude
  <2>3. T \in Nat
    BY <2>2, TimesIs
  <2>4. z \notin DOMAIN g => T = 0
    <3>1. ASSUME z \notin DOMAIN g PROVE \A j \in DOMAIN added : added[j] # z
      <4>1. row.grow[4] \in Items(row)
        <5>1. row.grow[4] \in DOMAIN row.rhs
          BY <1>1, <1>12 DEF RowSound, GrowSound
        <5>2. /\ Len(row.makes) \in Nat /\ Len(row.rhs) \in Nat /\ DOMAIN row.rhs = 1 .. Len(row.rhs)
              /\ Items(row) = 1 .. Len(row.rhs) + Len(row.makes)
          BY StepIs
        <5>3. QED  BY <5>1, <5>2, Ranges
      <4>2. z \notin DOMAIN h /\ z \notin DOMAIN nodes
        BY <3>1, <1>8
      <4>3. QED  BY <4>1, <4>2, ArgumentsLive
    <3>2. (\A j \in DOMAIN added : added[j] # z) => Occurs(z, added) = {}
      BY DEF Occurs
    <3>3. T = Cardinality(Occurs(z, added))
      BY <2>2, TimesIs
    <3>4. QED  BY <3>1, <3>2, <3>3, FS_EmptySet
  <2>5. /\ DOMAIN f = DOMAIN g
        /\ \A y \in DOMAIN g : f[y].refs = g[y].refs + (IF row.grow[3] = "count" THEN Times(y, added) ELSE 0)
        /\ Count(z, Link(f), Slots(f)) = Count(z, Link(g), Slots(g)) + T
    BY <2>1 DEF GrownBy
  <2>6. Refs(g, z) \in Nat
    BY <1>6, <1>7, <1>9
  <2>7. Refs(f, z) = Refs(g, z) + (IF row.grow[3] = "count" THEN T ELSE 0)
    <3>1. CASE z \in DOMAIN g
      BY <2>5, <3>1 DEF Refs
    <3>2. CASE z \notin DOMAIN g
      <4>1. Refs(g, z) = 0 /\ Refs(f, z) = 0 /\ T = 0
        BY <2>4, <2>5, <3>2 DEF Refs
      <4>2. QED  BY <4>1
    <3>3. QED  BY <3>1, <3>2
  <2>8. Count(z, Link(f), Slots(f)) = Count(z, Link(h), Slots(h)) + Count(z, Link(nodes), Slots(nodes)) + T
    BY <1>10, <2>5
  <2>9. Refs(f, z) = Refs(h, z) + (IF z \in DOMAIN nodes THEN 1 ELSE 0) + C + (IF row.grow[3] = "count" THEN T ELSE 0)
    BY <1>9, <2>7
  <2> HIDE DEF T
  <2>10. QED  BY <1>7, <1>12, <2>3, <2>8, <2>9 DEF C, T
<1>13. QED  BY <1>11, <1>12

\* The ledger is right after a reduction when it was before.
LEMMA ReduceLedger ==
    ASSUME NEW row, NEW h, NEW n, NEW vs, NEW named, NEW kept, NEW v, NEW nodes,
           Step(row, h, n, vs, named, kept, v, nodes), NEW g, NEW f,
           GrowsAs(row, h, n, named, nodes, g, f)
    PROVE  LET t == Append(kept, FlattenSeq(Looked(row.gives, v)))
               e == FlattenSeq(Looked(row.drops, v))
               N == n + Len(row.makes)
           IN  t \in Seq(Seq(0 .. N)) /\ e \in Seq(0 .. N) /\ Ledger(f, t, e)
<1> DEFINE N == n + Len(row.makes)
           gives == FlattenSeq(Looked(row.gives, v))
           e == FlattenSeq(Looked(row.drops, v))
           t == Append(kept, gives)
<1>1. /\ RowSound(row) /\ Formed(row) /\ IsHeap(h, n) /\ n \in Nat /\ vs \in Seq(Seq(0 .. n))
      /\ IsHeap(nodes, N) /\ N \in Nat /\ n <= N /\ DOMAIN nodes = n + 1 .. N
  <2>1. /\ RowSound(row) /\ Formed(row) /\ IsHeap(h, n) /\ n \in Nat /\ vs \in Seq(Seq(0 .. n))
        /\ IsHeap(nodes, N) /\ n <= N /\ DOMAIN nodes = n + 1 .. N
    BY StepIs
  <2>2. N \in Nat
    BY <2>1 DEF IsHeap
  <2>3. QED  BY <2>1, <2>2
<1>2. Before(row, h, n, vs, named, kept, v) /\ Ledger(h, vs, <<>>) /\ MadeAs(nodes, row, n, v)
  BY DEF Step
<1>3. PICK w : Ways(row, w)
  BY <1>1, WaysAre DEF RowSound
<1> DEFINE U(z, u) == Count(z, named, UsedAs(row, w, u))
<1>4. gives \in Seq(0 .. N) /\ \A z \in Nat \ {0} : Times(z, gives) = U(z, 3)
  <2>1. 3 \in {3, 4} /\ Listed(row, 3) = row.gives
    BY DEF Listed
  <2>2. QED  BY <1>2, <1>3, <2>1, ListedCount
<1>5. e \in Seq(0 .. N) /\ \A z \in Nat \ {0} : Times(z, e) = U(z, 4)
  <2>1. 4 \in {3, 4} /\ Listed(row, 4) = row.drops
    BY DEF Listed
  <2>2. QED  BY <1>2, <1>3, <2>1, ListedCount
<1>6. kept \in Seq(Seq(0 .. N))
  <2> DEFINE A == 0 .. n
             B == 0 .. N
  <2>1. kept \in Seq(Seq(A))
    BY <1>2 DEF Before, NamedAs
  <2>2. A \subseteq B
    <3> HIDE DEF N
    <3>1. QED  BY <1>1
  <2> HIDE DEF A, B
  <2>3. Seq(A) \subseteq Seq(B)
    BY <2>2, SequencesInclude
  <2>4. Seq(Seq(A)) \subseteq Seq(Seq(B))
    BY <2>3, SequencesInclude
  <2>5. QED  BY <2>1, <2>4 DEF B
<1> HIDE DEF N, gives, e
<1>7. t \in Seq(Seq(0 .. N)) /\ \A z : Count(z, t, DOMAIN t) = Count(z, kept, DOMAIN kept) + Times(z, gives)
  BY <1>1, <1>4, <1>6, PushCount
<1> HIDE DEF t
<1>8. ASSUME NEW z \in Nat \ {0}
      PROVE  Refs(f, z) = Count(z, Link(f), Slots(f)) + Count(z, t, DOMAIN t) + Times(z, e)
  <2> DEFINE C == Count(z, Link(nodes), CountedSlots(nodes))
             M == Count(z, Link(h), Slots(h))
             S == Count(z, vs, DOMAIN vs)
             K == Count(z, kept, DOMAIN kept)
             I == Count(z, named, Items(row))
             u1 == U(z, 1)
             u2 == U(z, 2)
             u3 == U(z, 3)
             u4 == U(z, 4)
             new == IF z \in DOMAIN nodes THEN 1 ELSE 0
             T == Times(z, named[row.grow[4]])
             O == Count(z, Link(nodes), Slots(nodes))
             count == IF row.grow # <<>> /\ row.grow[3] = "count" THEN T ELSE 0
             grown == IF row.grow # <<>> THEN T ELSE 0
             R == Refs(h, z)
  <2>1. /\ Refs(f, z) = R + new + C + count
        /\ Count(z, Link(f), Slots(f)) = M + O + grown
        /\ (row.grow # <<>> => T \in Nat) /\ R \in Nat
    BY RefsGrow
  <2>2. R = M + S
    <3>1. Refs(h, z) = Count(z, Link(h), Slots(h)) + Count(z, vs, DOMAIN vs) + Times(z, <<>>)
      BY <1>2 DEF Ledger
    <3>2. Times(z, <<>>) = 0
      <4>1. {i \in DOMAIN <<>> : <<>>[i] = z} = {}
        OBVIOUS
      <4>2. QED  BY <4>1, FS_EmptySet DEF Times
    <3>3. M \in Nat /\ S \in Nat
      <4>1. M \in Nat
        BY <1>1, LinksCount, SpotsFinite
      <4>2. S \in Nat
        BY <1>1, StackCountable, SpotsFinite
      <4>3. QED  BY <4>1, <4>2
    <3> HIDE DEF M, S
    <3>4. Refs(h, z) = M + S + 0
      BY <3>1, <3>2 DEF M, S
    <3>5. QED  BY <3>3, <3>4
  <2>3. S + new = K + I /\ K \in Nat
    BY <1>1, <1>2, ItemsCount DEF N
  <2>4. I = u1 + u2 + u3 + u4 /\ u1 \in Nat /\ u2 \in Nat /\ u3 \in Nat /\ u4 \in Nat
    <3>1. I = u1 + u2 + u3 + u4
      BY <1>2, <1>3, WaysSplit
    <3>2. \A u \in 1 .. 4 : U(z, u) \in Nat
      BY <1>2, <1>3, WaysSplit
    <3> HIDE DEF U
    <3>3. QED  BY <3>1, <3>2
  <2>5. u2 = IF row.grow # <<>> /\ row.grow[3] = "take" THEN T ELSE 0
    BY <1>2, <1>3, GrownCount
  <2>6. O = C + u1 /\ C \in Nat
    <3>1. u1 = Count(z, Link(nodes), TakenSlots(nodes))
      BY <1>2, <1>3, TakenCount
    <3>2. /\ Slots(nodes) = CountedSlots(nodes) \cup TakenSlots(nodes)
          /\ CountedSlots(nodes) \cap TakenSlots(nodes) = {}
          /\ Countable(Link(nodes), CountedSlots(nodes)) /\ Countable(Link(nodes), TakenSlots(nodes))
      BY <1>1, LinksCount
    <3> DEFINE A == CountedSlots(nodes)
               B == TakenSlots(nodes)
    <3> HIDE DEF A, B
    <3>3. Count(z, Link(nodes), A \cup B) = Count(z, Link(nodes), A) + Count(z, Link(nodes), B)
      BY <3>2, SpotsSplit DEF A, B
    <3>4. C \in Nat
      BY <3>2, SpotsFinite
    <3>5. QED  BY <3>1, <3>2, <3>3, <3>4 DEF A, B
  <2>7. Count(z, t, DOMAIN t) = K + u3 /\ Times(z, e) = u4
    BY <1>4, <1>5, <1>7
  <2>8. row.grow # <<>> => row.grow[3] \in {"take", "count"}
    BY <1>1 DEF RowSound, GrowSound
  <2>9. count + u2 = grown /\ count \in Nat /\ grown \in Nat
    <3>1. CASE row.grow = <<>>
      BY <2>5, <3>1
    <3>2. CASE row.grow # <<>> /\ row.grow[3] = "take"
      <4>1. count = 0 /\ u2 = T /\ grown = T /\ T \in Nat
        BY <2>1, <2>5, <3>2
      <4> HIDE DEF count, u2, grown, T
      <4>2. QED  BY <4>1
    <3>3. CASE row.grow # <<>> /\ row.grow[3] = "count"
      <4>1. count = T /\ u2 = 0 /\ grown = T /\ T \in Nat
        BY <2>1, <2>5, <3>3
      <4> HIDE DEF count, u2, grown, T
      <4>2. QED  BY <4>1
    <3>4. QED  BY <2>8, <3>1, <3>2, <3>3
  <2>10. M \in Nat /\ S \in Nat
    <3>1. M \in Nat
      BY <1>1, LinksCount, SpotsFinite
    <3>2. S \in Nat
      BY <1>1, StackCountable, SpotsFinite
    <3>3. QED  BY <3>1, <3>2
  <2>11. new \in Nat
    OBVIOUS
  <2> DEFINE a == Refs(f, z)
             b == Count(z, Link(f), Slots(f))
             c == Count(z, t, DOMAIN t)
             d == Times(z, e)
  <2>12. a = R + new + C + count /\ b = M + O + grown /\ c = K + u3 /\ d = u4
    BY <2>1, <2>7
  <2> HIDE DEF C, M, S, K, I, u1, u2, u3, u4, new, T, O, count, grown, R, a, b, c, d
  <2>13. a = M + S + new + C + count
    BY <2>2, <2>12
  <2>14. a = M + K + u1 + u2 + u3 + u4 + C + count
    BY <2>3, <2>4, <2>6, <2>9, <2>10, <2>11, <2>13
  <2>15. b + c + d = M + (C + u1) + (count + u2) + (K + u3) + u4
    BY <2>6, <2>9, <2>12
  <2>16. a = b + c + d
    BY <2>3, <2>4, <2>6, <2>9, <2>10, <2>14, <2>15
  <2>17. QED  BY <2>16 DEF a, b, c, d
<1>9. Ledger(f, t, e)
  BY <1>8 DEF Ledger
<1>10. QED  BY <1>5, <1>7, <1>9 DEF t, e, gives, N

\* What sequences joined hold is what one of them holds.
LEMMA FlattenHas ==
    ASSUME NEW S \in SUBSET Nat, NEW ss \in Seq(Seq(S)), NEW z
    PROVE  (\E j \in DOMAIN FlattenSeq(ss) : FlattenSeq(ss)[j] = z)
                <=> \E q \in DOMAIN ss : \E j \in DOMAIN ss[q] : ss[q][j] = z
<1> DEFINE e == FlattenSeq(ss)
<1>1. e \in Seq(S) /\ Countable(ss, DOMAIN ss) /\ Times(z, e) = Count(z, ss, DOMAIN ss)
  BY FlattenTimes
<1> HIDE DEF e
<1>2. e \in Seq(Nat)
  BY <1>1, SequencesInclude
<1>3. Times(z, e) = Cardinality(Occurs(z, e)) /\ IsFiniteSet(Occurs(z, e))
  BY <1>2, TimesIs, OccursFinite
<1>4. Times(z, e) = 0 <=> Occurs(z, e) = {}
  BY <1>3, FS_EmptySet
<1>5. Occurs(z, e) = {} <=> ~\E j \in DOMAIN e : e[j] = z
  BY DEF Occurs
<1>6. Count(z, ss, DOMAIN ss) = 0 <=> \A q \in DOMAIN ss : \A j \in DOMAIN ss[q] : ss[q][j] # z
  BY <1>1, SpotsNone
<1>7. QED  BY <1>1, <1>4, <1>5, <1>6 DEF e

Within(z, s) == \E j \in DOMAIN s : s[j] = z

\* What a reduction puts on the stack.
LEMMA GivesHave ==
    ASSUME NEW row, NEW h, NEW n, NEW vs, NEW named, NEW kept, NEW v, NEW nodes,
           Step(row, h, n, vs, named, kept, v, nodes), NEW z
    PROVE  Within(z, FlattenSeq(Looked(row.gives, v)))
                <=> \E q \in DOMAIN row.gives : Within(z, v[row.gives[q]])
<1> DEFINE t == Looked(row.gives, v)
           N == n + Len(row.makes)
<1>1. Before(row, h, n, vs, named, kept, v) /\ RowSound(row)
  BY DEF Step, Before
<1>2. PICK w : Ways(row, w)
  BY <1>1, WaysAre DEF RowSound
<1>3. 3 \in {3, 4} /\ Listed(row, 3) = row.gives
  BY DEF Listed
<1>4. t \in Seq(Seq(0 .. N)) /\ N \in Nat
  BY <1>1, <1>2, <1>3, ListedCount
<1>5. DOMAIN t = DOMAIN row.gives /\ \A q \in DOMAIN row.gives : t[q] = v[row.gives[q]]
  BY DEF Looked
<1>6. 0 .. N \in SUBSET Nat
  BY <1>4
<1> HIDE DEF t
<1>7. (\E j \in DOMAIN FlattenSeq(t) : FlattenSeq(t)[j] = z)
                <=> \E q \in DOMAIN t : \E j \in DOMAIN t[q] : t[q][j] = z
  BY <1>4, <1>6, FlattenHas
<1>8. QED  BY <1>5, <1>7 DEF t, Within

\* An object that is only at items that no node counts is counted by none.
LEMMA Uncounted ==
    ASSUME NEW row, NEW h, NEW n, NEW vs, NEW named, NEW kept, NEW v, NEW nodes,
           Step(row, h, n, vs, named, kept, v, nodes), NEW z,
           \A y \in DOMAIN h : ~Owns(h, y, z),
           \A k \in DOMAIN row.makes : \A b \in DOMAIN row.makes[k][2] :
                Modes[row.makes[k][1]][b] = "count" /\ row.makes[k][2][b] \in Items(row) =>
                    \A j \in DOMAIN named[row.makes[k][2][b]] : named[row.makes[k][2][b]][j] # z
    PROVE  Count(z, Link(nodes), CountedSlots(nodes)) = 0
<1>1. IsHeap(nodes, n + Len(row.makes)) /\ Before(row, h, n, vs, named, kept, v) /\ MadeAs(nodes, row, n, v)
  BY StepIs DEF Step
<1>2. ASSUME NEW p \in CountedSlots(nodes), NEW j \in DOMAIN Link(nodes)[p] PROVE Link(nodes)[p][j] # z
  <2>1. PICK y \in DOMAIN nodes : \E b \in Counted(nodes[y].class) : p = <<y, b>>
    BY SlotsAre
  <2>2. PICK b \in Counted(nodes[y].class) : p = <<y, b>>
    BY <2>1
  <2>3. PICK k \in DOMAIN row.makes : y = n + k
    BY <1>1 DEF MadeAs
  <2>4. /\ nodes[y].class = row.makes[k][1] /\ DOMAIN nodes[y].members = DOMAIN row.makes[k][2]
        /\ \A c \in DOMAIN row.makes[k][2] : nodes[y].members[c] = v[row.makes[k][2][c]]
    BY <1>1, <2>3 DEF MadeAs
  <2>5. b \in DOMAIN nodes[y].members /\ b \in 1 .. 4
    BY <1>1, HeapIs DEF Counted
  <2>6. Link(nodes)[p] = v[row.makes[k][2][b]]
    BY <2>2, <2>4, <2>5 DEF Link
  <2>7. Modes[row.makes[k][1]][b] = "count"
    BY <2>4 DEF Counted
  <2> DEFINE c == row.makes[k][2][b]
  <2>8. \/ v[c] = <<>>
        \/ c \in Items(row) /\ v[c] = named[c]
        \/ Borrowed(v[c], h, n)
    BY <1>1, <2>4, <2>5, ArgumentIs DEF ArgumentAs
  <2>9. j \in DOMAIN v[c]
    BY <2>6
  <2>10. CASE c \in Items(row) /\ v[c] = named[c]
    BY <2>4, <2>5, <2>6, <2>7, <2>9, <2>10
  <2> HIDE DEF c
  <2>11. CASE v[c] = <<>>
    BY <2>9, <2>11
  <2>12. CASE Borrowed(v[c], h, n)
    <3>1. \E x \in DOMAIN h : Owns(h, x, v[c][j])
      BY <2>9, <2>12 DEF Borrowed
    <3>2. QED  BY <2>6, <3>1 DEF c
  <2>13. QED  BY <2>8, <2>10, <2>11, <2>12
<1>3. Countable(Link(nodes), CountedSlots(nodes))
  BY <1>1, LinksCount
<1>4. QED  BY <1>2, <1>3, SpotsNone

\* An object on the stack or new is in one place, and nothing points to it.
LEMMA HeldOnce ==
    ASSUME NEW row, NEW h, NEW n, NEW vs, NEW named, NEW kept, NEW v, NEW nodes,
           Step(row, h, n, vs, named, kept, v, nodes), Unshared(h, vs), NEW z \in Nat \ {0},
           Count(z, kept, DOMAIN kept) # 0 \/ Count(z, named, Items(row)) # 0
    PROVE  /\ Count(z, kept, DOMAIN kept) + Count(z, named, Items(row)) = 1
           /\ Count(z, kept, DOMAIN kept) \in Nat /\ Count(z, named, Items(row)) \in Nat
           /\ \A y \in DOMAIN h : ~Owns(h, y, z)
           /\ Refs(h, z) + (IF z \in DOMAIN nodes THEN 1 ELSE 0) = 1
<1> DEFINE M == Count(z, Link(h), Slots(h))
           S == Count(z, vs, DOMAIN vs)
           K == Count(z, kept, DOMAIN kept)
           I == Count(z, named, Items(row))
           new == IF z \in DOMAIN nodes THEN 1 ELSE 0
           R == Refs(h, z)
<1>1. /\ RowSound(row) /\ IsHeap(h, n) /\ n \in Nat /\ vs \in Seq(Seq(0 .. n))
      /\ DOMAIN nodes = n + 1 .. n + Len(row.makes) /\ DOMAIN h \cap DOMAIN nodes = {}
  BY StepIs
<1>2. Before(row, h, n, vs, named, kept, v) /\ Ledger(h, vs, <<>>)
  BY DEF Step
<1>3. M \in Nat /\ S \in Nat
  <2>1. M \in Nat
    BY <1>1, LinksCount, SpotsFinite
  <2>2. S \in Nat
    BY <1>1, StackCountable, SpotsFinite
  <2>3. QED  BY <2>1, <2>2
<1>4. R = M + S
  <2>1. Refs(h, z) = Count(z, Link(h), Slots(h)) + Count(z, vs, DOMAIN vs) + Times(z, <<>>)
    BY <1>2 DEF Ledger
  <2>2. Times(z, <<>>) = 0
    <3>1. {i \in DOMAIN <<>> : <<>>[i] = z} = {}
      OBVIOUS
    <3>2. QED  BY <3>1, FS_EmptySet DEF Times
  <2>3. R = M + S + 0
    BY <2>1, <2>2
  <2> HIDE DEF M, S, R
  <2>4. QED  BY <1>3, <2>3
<1>5. S + new = K + I /\ K \in Nat
  BY <1>1, <1>2, ItemsCount
<1>6. I \in Nat
  <2>1. PICK w : Ways(row, w)
    BY <1>1, WaysAre DEF RowSound
  <2>2. Countable(named, Items(row))
    BY <1>2, <2>1, WaysSplit
  <2>3. QED  BY <2>2, SpotsFinite
<1>7. S # 0 => z \in DOMAIN h /\ R = 1
  <2>1. S # 0 <=> \E i \in DOMAIN vs : \E k \in DOMAIN vs[i] : vs[i][k] = z
    BY <1>1, StackCounted
  <2>2. QED  BY <2>1 DEF Unshared, Refs, Null
<1>8. z \in DOMAIN h => new = 0
  BY <1>1
<1>9. z \notin DOMAIN h => R = 0
  BY DEF Refs
<1>10. z \in DOMAIN nodes => z \notin DOMAIN h /\ new = 1
  BY <1>1
<1>11. new \in {0, 1} /\ (z \notin DOMAIN nodes => new = 0)
  OBVIOUS
<1>12. M = 0 <=> \A y \in DOMAIN h : ~Owns(h, y, z)
  BY <1>1, OwnedCounted
<1>13. K # 0 \/ I # 0
  OBVIOUS
<1> HIDE DEF M, S, K, I, new, R
<1>14. CASE S # 0
  BY <1>3, <1>4, <1>5, <1>6, <1>7, <1>8, <1>12, <1>13, <1>14 DEF K, I, R, new
<1>15. CASE S = 0
  <2>1. new = 1
    BY <1>5, <1>6, <1>11, <1>13, <1>15
  <2>2. R = 0 /\ M = 0
    BY <1>3, <1>4, <1>9, <1>10, <1>11, <1>15, <2>1
  <2>3. QED  BY <1>5, <1>6, <1>12, <1>15, <2>1, <2>2 DEF K, I, R, new
<1>16. QED  BY <1>14, <1>15

\* The stack is unshared after a reduction when it was before.
LEMMA ReduceUnshared ==
    ASSUME NEW row, NEW h, NEW n, NEW vs, NEW named, NEW kept, NEW v, NEW nodes,
           Step(row, h, n, vs, named, kept, v, nodes), NEW g, NEW f,
           GrowsAs(row, h, n, named, nodes, g, f), Unshared(h, vs)
    PROVE  Unshared(f, Append(kept, FlattenSeq(Looked(row.gives, v))))
<1> DEFINE e == FlattenSeq(Looked(row.gives, v))
           t == Append(kept, e)
           N == n + Len(row.makes)
<1>1. t \in Seq(Seq(0 .. N)) /\ N \in Nat
  <2>1. t \in Seq(Seq(0 .. N))
    BY ReduceLedger
  <2>2. N \in Nat
    BY StepIs DEF IsHeap
  <2>3. QED  BY <2>1, <2>2
<1>2. /\ RowSound(row) /\ Formed(row) /\ IsHeap(h, n) /\ n \in Nat /\ n <= N
      /\ Before(row, h, n, vs, named, kept, v)
  BY StepIs DEF Step
<1>3. PICK w : Ways(row, w)
  BY <1>2, WaysAre DEF RowSound
<1>4. Countable(named, Items(row))
  BY <1>2, <1>3, WaysSplit
<1>5. kept \in Seq(Seq(0 .. n)) /\ e \in Seq(0 .. N)
  <2>1. kept \in Seq(Seq(0 .. n))
    BY <1>2 DEF NamedAs, Before
  <2>2. 3 \in {3, 4} /\ Listed(row, 3) = row.gives
    BY DEF Listed
  <2>3. e \in Seq(0 .. N)
    BY <1>2, <1>3, <2>2, ListedCount
  <2>4. QED  BY <2>1, <2>3
\* An object whose only item, if there is one, is given is counted by nobody.
<1>6. ASSUME NEW z \in Nat \ {0},
             Count(z, kept, DOMAIN kept) # 0
                \/ \E q \in DOMAIN row.gives : row.gives[q] \in Items(row)
                        /\ \E j \in DOMAIN named[row.gives[q]] : named[row.gives[q]][j] = z
      PROVE  z \in DOMAIN f /\ f[z].refs = 1
  <2> DEFINE K == Count(z, kept, DOMAIN kept)
             I == Count(z, named, Items(row))
             C == Count(z, Link(nodes), CountedSlots(nodes))
             T == IF row.grow # <<>> /\ row.grow[3] = "count" THEN Times(z, named[row.grow[4]]) ELSE 0
  <2>1. I = 0 <=> \A i \in Items(row) : \A j \in DOMAIN named[i] : named[i][j] # z
    BY <1>4, SpotsNone
  <2>2. K # 0 \/ I # 0
    BY <1>6, <2>1
  <2>3. /\ K + I = 1 /\ K \in Nat /\ I \in Nat /\ \A y \in DOMAIN h : ~Owns(h, y, z)
        /\ Refs(h, z) + (IF z \in DOMAIN nodes THEN 1 ELSE 0) = 1
    BY <2>2, HeldOnce
  <2>4. ASSUME NEW i \in Items(row), NEW j \in DOMAIN named[i], named[i][j] = z
        PROVE  \E q \in DOMAIN row.gives : row.gives[q] = i
    <3>1. I # 0
      BY <2>1, <2>4
    <3>2. K = 0 /\ I = 1
      <4> HIDE DEF K, I
      <4>1. QED  BY <2>3, <3>1
    <3>3. PICK q \in DOMAIN row.gives : row.gives[q] \in Items(row)
                        /\ \E l \in DOMAIN named[row.gives[q]] : named[row.gives[q]][l] = z
      BY <1>6, <3>2
    <3>4. PICK l \in DOMAIN named[row.gives[q]] : named[row.gives[q]][l] = z
      BY <3>3
    <3>5. row.gives[q] = i
      BY <1>4, <2>4, <3>2, <3>3, <3>4, SpotsSingle
    <3>6. QED  BY <3>5
  <2>5. GivesUncounted(row) /\ GrowSound(row)
    BY <1>2 DEF RowSound
  <2>6. C = 0
    <3>1. ASSUME NEW k \in DOMAIN row.makes, NEW b \in DOMAIN row.makes[k][2],
                 Modes[row.makes[k][1]][b] = "count", row.makes[k][2][b] \in Items(row),
                 NEW j \in DOMAIN named[row.makes[k][2][b]]
          PROVE  named[row.makes[k][2][b]][j] # z
      BY <2>4, <2>5, <3>1 DEF GivesUncounted
    <3>2. QED  BY <2>3, <3>1, Uncounted
  <2>7. T = 0
    <3>1. CASE row.grow # <<>> /\ row.grow[3] = "count"
      <4> DEFINE i == row.grow[4]
      <4>1. i \in DOMAIN row.rhs
        BY <2>5, <3>1 DEF GrowSound
      <4>2. i \in Items(row) /\ named[i] \in Seq(Nat)
        <5>1. /\ Len(row.makes) \in Nat /\ Len(row.rhs) \in Nat /\ DOMAIN row.rhs = 1 .. Len(row.rhs)
              /\ Items(row) = 1 .. Len(row.rhs) + Len(row.makes)
          BY StepIs
        <5>2. named[i] \in Seq(0 .. n) /\ 0 .. n \subseteq Nat
          <6>1. \A l \in DOMAIN row.rhs : named[l] \in Seq(0 .. n)
            BY <1>2 DEF Before, NamedAs
          <6>2. QED  BY <1>2, <4>1, <6>1
        <5> HIDE DEF i
        <5>3. i \in Items(row)
          BY <4>1, <5>1, Ranges
        <5>4. named[i] \in Seq(Nat)
          BY <5>2, SequencesInclude
        <5>5. QED  BY <5>3, <5>4
      <4>3. \A q \in DOMAIN row.gives : row.gives[q] # i
        BY <2>5, <3>1 DEF GivesUncounted
      <4>4. \A j \in DOMAIN named[i] : named[i][j] # z
        BY <2>4, <4>2, <4>3
      <4>5. Occurs(z, named[i]) = {}
        BY <4>4 DEF Occurs
      <4>6. Times(z, named[i]) = 0
        BY <4>2, <4>5, TimesIs, FS_EmptySet
      <4>7. QED  BY <3>1, <4>6
    <3>2. QED  BY <3>1
  <2>8. Refs(f, z) = Refs(h, z) + (IF z \in DOMAIN nodes THEN 1 ELSE 0) + C + T
    BY RefsGrow
  <2>9. Refs(f, z) = 1
    <3> DEFINE R == Refs(h, z)
               new == IF z \in DOMAIN nodes THEN 1 ELSE 0
    <3>1. Refs(f, z) = R + new + C + T /\ R + new = 1
      BY <2>3, <2>8
    <3>2. R \in Nat /\ new \in Nat
      BY RefsGrow
    <3> HIDE DEF R, new, C, T
    <3>3. QED  BY <2>6, <2>7, <3>1, <3>2
  <2>10. QED  BY <2>9 DEF Refs
<1> HIDE DEF e
<1>7. ASSUME NEW i \in DOMAIN t, NEW k \in DOMAIN t[i], t[i][k] # 0
      PROVE  t[i][k] \in DOMAIN f /\ f[t[i][k]].refs = 1
  <2> DEFINE z == t[i][k]
  <2>1. PICK l : l = Len(kept)
    OBVIOUS
  <2>2. l \in Nat /\ DOMAIN t = 1 .. l + 1 /\ t[l + 1] = e /\ \A j \in 1 .. l : t[j] = kept[j]
    <3>1. l \in Nat
      BY <1>5, <2>1, LenProperties
    <3>2. kept \in Seq(Seq(0 .. N))
      <4> DEFINE A == 0 .. n
                 B == 0 .. N
      <4>1. A \subseteq B /\ kept \in Seq(Seq(A))
        <5> HIDE DEF N
        <5>1. QED  BY <1>1, <1>2, <1>5
      <4> HIDE DEF A, B
      <4>2. kept \in Seq(Seq(B))
        <5>1. Seq(A) \subseteq Seq(B)
          BY <4>1, SequencesInclude
        <5>2. Seq(Seq(A)) \subseteq Seq(Seq(B))
          BY <5>1, SequencesInclude
        <5>3. QED  BY <4>1, <5>2
      <4>3. QED  BY <4>2 DEF B
    <3> HIDE DEF N
    <3>3. QED  BY <1>1, <1>5, <2>1, <3>1, <3>2, PushCount
  <2>3. z \in Nat \ {0}
    <3> DEFINE A == 0 .. N
    <3>1. t[i] \in Seq(A)
      BY <1>1
    <3> HIDE DEF t, A
    <3>2. t[i][k] \in A
      BY <1>7, <3>1
    <3> HIDE DEF N
    <3> USE DEF A
    <3>3. QED  BY <1>1, <1>7, <3>2
  <2>4. CASE i \in 1 .. l
    <3>1. i \in DOMAIN kept /\ kept[i] = t[i]
      BY <1>5, <2>1, <2>2, <2>4, LenProperties
    <3>2. \E j \in DOMAIN kept : \E m \in DOMAIN kept[j] : kept[j][m] = z
      BY <3>1
    <3> HIDE DEF z
    <3>3. Count(z, kept, DOMAIN kept) # 0
      BY <1>2, <1>5, <3>2, StackCounted
    <3>4. QED  BY <1>6, <2>3, <3>3 DEF z
  <2>5. CASE i = l + 1
    <3>1. \E j \in DOMAIN e : e[j] = z
      BY <2>2, <2>5
    <3> HIDE DEF z
    <3>a. Within(z, e) <=> \E q \in DOMAIN row.gives : Within(z, v[row.gives[q]])
      BY GivesHave DEF e
    <3>2. \E q \in DOMAIN row.gives : \E j \in DOMAIN v[row.gives[q]] : v[row.gives[q]][j] = z
      BY <3>1, <3>a DEF Within
    <3>3. PICK q \in DOMAIN row.gives : \E j \in DOMAIN v[row.gives[q]] : v[row.gives[q]][j] = z
      BY <3>2
    <3>4. row.gives[q] \in Items(row) \cup {NullItem}
      BY <1>2 DEF Formed
    <3>5. row.gives[q] # NullItem
      <4>1. v[NullItem] = <<0>>
        BY <1>2 DEF Before, Valued, Null
      <4>2. QED  BY <2>3, <3>3, <4>1
    <3>6. row.gives[q] \in Items(row) /\ v[row.gives[q]] = named[row.gives[q]]
      BY <1>2, <3>4, <3>5 DEF Before, Valued
    <3>7. QED  BY <1>6, <2>3, <3>3, <3>6 DEF z
  <2>6. QED  BY <2>2, <2>4, <2>5
<1>8. QED  BY <1>7 DEF Unshared, Null, e

\* A reduction, what it makes of the heap, and what is known before it.
Move(row, h, n, vs, named, kept, v, nodes, g, f) ==
    /\ Step(row, h, n, vs, named, kept, v, nodes) /\ GrowsAs(row, h, n, named, nodes, g, f)
    /\ Unshared(h, vs) /\ Shapes(h)

\* What a reduction leaves of the objects there are: the class, and all but what is
\* added to one member of one of them.
StayAs(h, nodes, g, f) ==
    /\ DOMAIN f = DOMAIN h \cup DOMAIN nodes /\ DOMAIN g = DOMAIN f
    /\ \A y \in DOMAIN h : f[y].class = h[y].class /\ g[y].members = h[y].members
    /\ \A y \in DOMAIN nodes : f[y].class = nodes[y].class /\ g[y].members = nodes[y].members
    /\ \A y \in DOMAIN g : f[y].class = g[y].class
    /\ \A y, class : IsA(h, y, class) => IsA(f, y, class)
    /\ \A y, class : IsA(nodes, y, class) => IsA(f, y, class)
    /\ \A y, class : IsA(g, y, class) => IsA(f, y, class)
    /\ \A y \in DOMAIN g : DOMAIN f[y].members = DOMAIN g[y].members

\* A reduction deletes nothing, and changes no class and no first member but by growing.
LEMMA ObjectsStay ==
    ASSUME NEW row, NEW h, NEW n, NEW vs, NEW named, NEW kept, NEW v, NEW nodes, NEW g, NEW f,
           Move(row, h, n, vs, named, kept, v, nodes, g, f)
    PROVE  StayAs(h, nodes, g, f)
<1>1. JoinedBy(g, h, nodes)
  BY DEF Move, GrowsAs
<1>2. /\ DOMAIN g = DOMAIN h \cup DOMAIN nodes
      /\ \A y \in DOMAIN h : g[y].class = h[y].class /\ g[y].members = h[y].members
      /\ \A y \in DOMAIN nodes : g[y].class = nodes[y].class /\ g[y].members = nodes[y].members
  BY <1>1 DEF JoinedBy
<1>3. /\ DOMAIN f = DOMAIN g
      /\ \A y \in DOMAIN g : f[y].class = g[y].class /\ DOMAIN f[y].members = DOMAIN g[y].members
  <2>1. CASE row.grow = <<>>
    BY <2>1 DEF Move, GrowsAs
  <2>2. CASE row.grow # <<>>
    <3>1. GrownBy(f, g, named[row.grow[1]][1], row.grow[2], row.grow[3], named[row.grow[4]])
      BY <2>2 DEF Move, GrowsAs
    <3>2. QED  BY <3>1 DEF GrownBy
  <2>3. QED  BY <2>1, <2>2
<1>4. QED  BY <1>2, <1>3 DEF IsA, StayAs

\* What is in a member after a reduction was there before, or is what was added.
LEMMA MembersStay ==
    ASSUME NEW row, NEW h, NEW n, NEW vs, NEW named, NEW kept, NEW v, NEW nodes, NEW g, NEW f,
           Move(row, h, n, vs, named, kept, v, nodes, g, f), NEW y \in DOMAIN f,
           NEW m \in DOMAIN f[y].members, NEW z, Within(z, f[y].members[m])
    PROVE  \/ Within(z, g[y].members[m])
           \/ /\ row.grow # <<>> /\ y = named[row.grow[1]][1] /\ m = row.grow[2]
              /\ Within(z, named[row.grow[4]])
<1>1. DOMAIN f = DOMAIN g /\ DOMAIN f[y].members = DOMAIN g[y].members
  <2>1. StayAs(h, nodes, g, f)
    BY ObjectsStay
  <2>2. QED  BY <2>1 DEF StayAs
<1>2. CASE row.grow = <<>>
  BY <1>2 DEF Move, GrowsAs
<1>3. CASE row.grow # <<>>
  <2> DEFINE x == named[row.grow[1]][1]
             k == row.grow[2]
             added == named[row.grow[4]]
  <2>1. GrownBy(f, g, x, k, row.grow[3], added) /\ Adds(row, g, h, n, named, x, k, added)
    BY <1>3 DEF Move, GrowsAs
  <2>2. CASE y = x /\ m = k
    <3>1. f[y].members[m] = g[y].members[m] \o added
      BY <2>1, <2>2 DEF GrownBy
    <3>2. g[y].members[m] \in Seq(Nat)
      <4>1. IsHeap(g, n + Len(row.makes))
        BY DEF Move, GrowsAs
      <4>2. g[y].members[m] \in Seq(0 .. n + Len(row.makes)) /\ n + Len(row.makes) \in Nat
        BY <1>1, <4>1, HeapIs
      <4> DEFINE N == n + Len(row.makes)
      <4>3. 0 .. N \subseteq Nat
        <5> HIDE DEF N
        <5>1. QED  OBVIOUS
      <4>4. QED  BY <4>2, <4>3, SequencesInclude
    <3>3. added \in Seq(Nat)
      <4>1. added \in Seq(0 .. n)
        BY <2>1 DEF Adds
      <4>2. 0 .. n \subseteq Nat
        OBVIOUS
      <4>3. QED  BY <4>1, <4>2, SequencesInclude
    <3> DEFINE s == g[y].members[m]
    <3>4. s \in Seq(Nat) /\ added \in Seq(Nat) /\ Within(z, s \o added)
      BY <3>1, <3>2, <3>3
    <3> HIDE DEF s, added
    <3>5. Within(z, s) \/ Within(z, added)
      <4>1. PICK j \in DOMAIN (s \o added) : (s \o added)[j] = z
        BY <3>4 DEF Within
      <4>2. Len(s) \in Nat /\ Len(added) \in Nat /\ DOMAIN s = 1 .. Len(s) /\ DOMAIN added = 1 .. Len(added)
        BY <3>4, LenProperties
      <4>3. j \in 1 .. Len(s) + Len(added)
        BY <3>4, <4>1, ConcatProperties
      <4>4. CASE j \in 1 .. Len(s)
        BY <3>4, <4>1, <4>2, <4>3, <4>4, ConcatProperties DEF Within
      <4>5. CASE j \notin 1 .. Len(s)
        <5>1. PICK a, b : a = Len(s) /\ b = Len(added)
          OBVIOUS
        <5>2. j - a \in 1 .. b /\ j > a
          BY <4>2, <4>3, <4>5, <5>1
        <5>3. (s \o added)[j] = added[j - a]
          BY <3>4, <4>2, <4>3, <5>1, <5>2, ConcatProperties
        <5>4. QED  BY <4>1, <4>2, <5>1, <5>2, <5>3 DEF Within
      <4>6. QED  BY <4>4, <4>5
    <3>6. QED  BY <1>3, <2>2, <3>5 DEF s, added
  <2>3. CASE ~(y = x /\ m = k)
    <3>1. f[y].members[m] = g[y].members[m]
      BY <1>1, <2>1, <2>3 DEF GrownBy
    <3>2. QED  BY <3>1
  <2>4. QED  BY <2>2, <2>3
<1>4. QED  BY <1>2, <1>3

\* A reduction keeps the shapes that later actions read.
LEMMA ReduceShapes ==
    ASSUME NEW row, NEW h, NEW n, NEW vs, NEW named, NEW kept, NEW v, NEW nodes, NEW g, NEW f,
           Move(row, h, n, vs, named, kept, v, nodes, g, f)
    PROVE  Shapes(f)
<1>1. /\ Step(row, h, n, vs, named, kept, v, nodes) /\ GrowsAs(row, h, n, named, nodes, g, f)
      /\ Before(row, h, n, vs, named, kept, v) /\ MadeAs(nodes, row, n, v) /\ Shapes(h) /\ JoinedBy(g, h, nodes)
      /\ IsHeap(nodes, n + Len(row.makes)) /\ IsHeap(h, n) /\ RowSound(row)
  BY StepIs DEF Move, Step, GrowsAs
<1>2. /\ DOMAIN f = DOMAIN h \cup DOMAIN nodes /\ DOMAIN g = DOMAIN f
      /\ \A y \in DOMAIN h : f[y].class = h[y].class /\ g[y].members = h[y].members
      /\ \A y \in DOMAIN nodes : f[y].class = nodes[y].class /\ g[y].members = nodes[y].members
      /\ \A y \in DOMAIN g : f[y].class = g[y].class
      /\ \A y, class : IsA(h, y, class) => IsA(f, y, class)
      /\ \A y, class : IsA(nodes, y, class) => IsA(f, y, class)
      /\ \A y \in DOMAIN g : DOMAIN f[y].members = DOMAIN g[y].members
  <2>1. StayAs(h, nodes, g, f)
    BY ObjectsStay
  <2>2. QED  BY <2>1 DEF StayAs
<1>3. Modes["Params"] = <<"take">> /\ Modes["DefinedVariable"] = <<"count", "count">>
  BY KindsKnown
<1>4. ASSUME NEW k \in DOMAIN row.makes
      PROVE  /\ row.makes[k][1] = "Params" =>
                1 \in DOMAIN row.makes[k][2]
                /\ \A j \in DOMAIN v[row.makes[k][2][1]] : IsA(f, v[row.makes[k][2][1]][j], "DefinedVariable")
             /\ row.makes[k][1] = "DefinedVariable" =>
                1 \in DOMAIN row.makes[k][2] /\ v[row.makes[k][2][1]] # <<>>
                /\ IsA(f, v[row.makes[k][2][1]][1], "TypeNode")
  <2>1. /\ DOMAIN row.makes[k][2] = DOMAIN Modes[row.makes[k][1]]
        /\ row.makes[k][1] = "Params" =>
            row.makes[k][2][1] = None \/ Found(row, row.makes[k][2][1], {"param"})
        /\ row.makes[k][1] = "DefinedVariable" =>
            row.makes[k][2][1] = LastType \/ Made(row, row.makes[k][2][1], "TypeNode")
    BY <1>1 DEF RowSound, MakesSound, NodeMade
  <2>2. /\ v[None] = <<>>
        /\ \A i \in Items(row) : v[i] = named[i]
        /\ Found(row, 1, {"def_vars"}) =>
            v[LastType] # <<>> /\ IsA(h, v[LastType][1], "TypeNode")
    BY <1>1 DEF Before, Valued
  <2>3. /\ Len(row.makes) \in Nat /\ Len(row.rhs) \in Nat /\ DOMAIN row.rhs = 1 .. Len(row.rhs)
        /\ Items(row) = 1 .. Len(row.rhs) + Len(row.makes)
    BY <1>1, StepIs
  <2> DEFINE c == row.makes[k][2][1]
  <2>4. CASE row.makes[k][1] = "Params"
    <3>1. 1 \in DOMAIN row.makes[k][2]
      BY <1>3, <2>1, <2>4
    <3>2. CASE c = None
      <4>1. DOMAIN v[c] = {}
        BY <2>2, <3>2
      <4>2. QED  BY <2>4, <3>1, <4>1
    <3>3. CASE Found(row, c, {"param"})
      <4>1. c \in DOMAIN row.rhs /\ row.rhs[c] = "param"
        BY <3>3 DEF Found
      <4>2. Fits(h, named[c], "param")
        BY <1>1, <4>1 DEF Before, Typed
      <4> HIDE DEF c
      <4>3. c \in Items(row)
        BY <2>3, <4>1, Ranges
      <4>4. \A j \in DOMAIN v[c] : IsA(f, v[c][j], "DefinedVariable")
        BY <1>2, <2>2, <4>2, <4>3 DEF Fits, Plural
      <4>5. QED  BY <2>4, <3>1, <4>4 DEF c
    <3>4. QED  BY <2>1, <2>4, <3>2, <3>3
  <2>5. CASE row.makes[k][1] = "DefinedVariable"
    <3>1. 1 \in DOMAIN row.makes[k][2]
      BY <1>3, <2>1, <2>5
    <3>2. CASE c = LastType
      <4>1. \/ c = None \/ c \in Items(row) \/ Found(row, 1, {"def_vars"}) \/ c = TypeRefsOf
        BY <1>1, <3>1 DEF RowSound, MakesSound, NodeMade
      <4>2. Found(row, 1, {"def_vars"})
        <5>1. c \notin Items(row)
          <6>1. Len(row.rhs) + Len(row.makes) < 101
            BY <1>1, RhsIs DEF RowSound
          <6>2. PICK a, b : a = Len(row.rhs) /\ b = Len(row.makes)
            OBVIOUS
          <6>3. 102 \notin 1 .. a + b
            <7>1. a \in Nat /\ b \in Nat /\ a + b < 101
              BY <2>3, <6>1, <6>2
            <7>2. QED  BY <7>1
          <6>4. QED  BY <2>3, <3>2, <6>2, <6>3 DEF LastType
        <5>2. c # None /\ c # TypeRefsOf
          BY <3>2 DEF LastType, None, TypeRefsOf
        <5>3. QED  BY <4>1, <5>1, <5>2
      <4>3. QED  BY <1>2, <2>2, <2>5, <3>1, <3>2, <4>2
    <3>3. CASE Made(row, c, "TypeNode")
      <4>1. "TypeNode" \in DOMAIN Modes /\ One(row, c, "TypeNode")
        BY <3>3, KindsKnown DEF One
      <4>2. c \in Items(row) /\ Len(named[c]) = 1 /\ IsA(g, named[c][1], "TypeNode")
        BY <1>1, <4>1, OneIs
      <4>3. IsA(f, named[c][1], "TypeNode") /\ v[c] = named[c]
        BY <1>2, <2>2, <4>2 DEF IsA
      <4>4. v[c] # <<>>
        <5>1. \A w : Len(w) = 1 => w # <<>>
          OBVIOUS
        <5>2. Len(v[c]) = 1
          BY <4>2, <4>3, Zenon
        <5>3. QED  BY <5>1, <5>2, Zenon
      <4>5. QED  BY <2>5, <3>1, <4>3, <4>4
    <3>4. QED  BY <2>1, <2>5, <3>2, <3>3
  <2>6. QED  BY <2>4, <2>5
<1>5. ASSUME NEW y \in DOMAIN f, f[y].class = "Params", NEW j \in DOMAIN f[y].members[1]
      PROVE  IsA(f, f[y].members[1][j], "DefinedVariable")
  <2> DEFINE z == f[y].members[1][j]
  <2>1. Within(z, f[y].members[1])
    BY <1>5 DEF Within
  <2>2. 1 \in DOMAIN f[y].members
    <3>1. IsHeap(f, n + Len(row.makes))
      BY <1>1 DEF GrowsAs
    <3>2. DOMAIN f[y].members = DOMAIN Modes[f[y].class]
      BY <3>1, HeapIs
    <3>3. QED  BY <1>3, <1>5, <3>2
  <2>3. \/ Within(z, g[y].members[1])
        \/ /\ row.grow # <<>> /\ y = named[row.grow[1]][1] /\ 1 = row.grow[2]
           /\ Within(z, named[row.grow[4]])
    BY <2>1, <2>2, MembersStay
  <2> HIDE DEF z
  <2>4. CASE Within(z, g[y].members[1]) /\ y \in DOMAIN h
    <3>1. h[y].class = "Params" /\ g[y].members = h[y].members
      BY <1>2, <1>5, <2>4
    <3>2. \A l \in DOMAIN h[y].members[1] : IsA(h, h[y].members[1][l], "DefinedVariable")
      BY <1>1, <2>4, <3>1 DEF Shapes, ShapeOf
    <3>3. QED  BY <1>2, <2>4, <3>1, <3>2 DEF Within, z
  <2>5. CASE Within(z, g[y].members[1]) /\ y \in DOMAIN nodes
    <3>1. PICK k \in DOMAIN row.makes : y = n + k
      BY <1>1, <2>5 DEF MadeAs
    <3>2. nodes[y].class = "Params" /\ g[y].members = nodes[y].members
      BY <1>2, <1>5, <2>5
    <3>3. row.makes[k][1] = "Params"
      BY <1>1, <3>1, <3>2 DEF MadeAs
    <3>4. 1 \in DOMAIN row.makes[k][2] /\ \A l \in DOMAIN v[row.makes[k][2][1]] : IsA(f, v[row.makes[k][2][1]][l], "DefinedVariable")
      BY <1>4, <3>3
    <3>5. g[y].members[1] = v[row.makes[k][2][1]]
      BY <1>1, <3>1, <3>2, <3>4 DEF MadeAs
    <3>6. QED  BY <2>5, <3>4, <3>5 DEF Within, z
  <2>6. CASE row.grow # <<>> /\ y = named[row.grow[1]][1] /\ Within(z, named[row.grow[4]])
    <3>1. Adds(row, g, h, n, named, y, row.grow[2], named[row.grow[4]])
      BY <1>1, <2>6 DEF GrowsAs
    <3>2. g[y].class = "Params"
      BY <1>2, <1>5
    <3>3. \A l \in DOMAIN named[row.grow[4]] : IsA(h, named[row.grow[4]][l], "DefinedVariable")
      BY <3>1, <3>2 DEF Adds
    <3>4. QED  BY <1>2, <2>6, <3>3 DEF Within, z
  <2>7. QED  BY <1>2, <2>3, <2>4, <2>5, <2>6
<1>6. ASSUME NEW y \in DOMAIN f, f[y].class = "DefinedVariable"
      PROVE  f[y].members[1] # <<>> /\ IsA(f, f[y].members[1][1], "TypeNode")
  <2>1. 1 \in DOMAIN g[y].members
    <3>1. IsHeap(f, n + Len(row.makes))
      BY <1>1 DEF GrowsAs
    <3>2. DOMAIN f[y].members = DOMAIN Modes[f[y].class]
      BY <3>1, HeapIs
    <3>3. QED  BY <1>2, <1>3, <1>6, <3>2
  <2>2. f[y].members[1] = g[y].members[1]
    <3>1. CASE row.grow = <<>>
      BY <1>1, <3>1 DEF GrowsAs
    <3>2. CASE row.grow # <<>>
      <4> DEFINE x == named[row.grow[1]][1]
      <4>1. Adds(row, g, h, n, named, x, row.grow[2], named[row.grow[4]])
        BY <1>1, <3>2 DEF GrowsAs
      <4>2. GrownBy(f, g, x, row.grow[2], row.grow[3], named[row.grow[4]])
        BY <1>1, <3>2 DEF GrowsAs
      <4>3. g[x].class \in {"Declarations", "Params", "ParamTypeRefs"}
        BY <4>1 DEF Adds
      <4>4. g[y].class = "DefinedVariable"
        BY <1>2, <1>6
      <4>5. y # x
        BY <4>3, <4>4
      <4>6. QED  BY <1>2, <2>1, <4>2, <4>5 DEF GrownBy
    <3>3. QED  BY <3>1, <3>2
  <2>3. CASE y \in DOMAIN h
    <3>1. h[y].class = "DefinedVariable" /\ g[y].members = h[y].members
      BY <1>2, <1>6, <2>3
    <3>2. h[y].members[1] # <<>> /\ IsA(h, h[y].members[1][1], "TypeNode")
      BY <1>1, <2>3, <3>1 DEF Shapes, ShapeOf
    <3>3. QED  BY <1>2, <2>2, <3>1, <3>2
  <2>4. CASE y \in DOMAIN nodes
    <3>1. PICK k \in DOMAIN row.makes : y = n + k
      BY <1>1, <2>4 DEF MadeAs
    <3>2. nodes[y].class = "DefinedVariable" /\ g[y].members = nodes[y].members
      BY <1>2, <1>6, <2>4
    <3>3. row.makes[k][1] = "DefinedVariable"
      BY <1>1, <3>1, <3>2 DEF MadeAs
    <3>4. 1 \in DOMAIN row.makes[k][2] /\ v[row.makes[k][2][1]] # <<>> /\ IsA(f, v[row.makes[k][2][1]][1], "TypeNode")
      BY <1>4, <3>3
    <3>5. g[y].members[1] = v[row.makes[k][2][1]]
      BY <1>1, <3>1, <3>2, <3>4 DEF MadeAs
    <3>6. QED  BY <2>2, <3>4, <3>5
  <2>5. QED  BY <1>2, <2>3, <2>4
<1>7. ASSUME NEW y \in DOMAIN f, NEW m \in DOMAIN f[y].members, NEW j \in DOMAIN f[y].members[m],
             f[y].members[m][j] = 0
      PROVE  f[y].class = "Case" /\ m = 1
  <2>1. Within(0, f[y].members[m])
    BY <1>7 DEF Within
  <2>2. \/ Within(0, g[y].members[m])
        \/ /\ row.grow # <<>> /\ y = named[row.grow[1]][1] /\ m = row.grow[2]
           /\ Within(0, named[row.grow[4]])
    BY <2>1, MembersStay
  <2>3. CASE Within(0, g[y].members[m]) /\ y \in DOMAIN h
    <3>1. h[y].class = f[y].class /\ g[y].members = h[y].members /\ m \in DOMAIN h[y].members
      BY <1>2, <2>3
    <3>2. \A l \in DOMAIN h[y].members[m] : h[y].members[m][l] = 0 => h[y].class = "Case" /\ m = 1
      BY <1>1, <2>3, <3>1 DEF Shapes, ShapeOf, Null
    <3>3. QED  BY <2>3, <3>1, <3>2 DEF Within
  <2>4. CASE Within(0, g[y].members[m]) /\ y \in DOMAIN nodes
    <3>1. PICK k \in DOMAIN row.makes : y = n + k
      BY <1>1, <2>4 DEF MadeAs
    <3>2. /\ nodes[y].class = f[y].class /\ g[y].members = nodes[y].members /\ m \in DOMAIN nodes[y].members
      BY <1>2, <2>4
    <3>3. /\ row.makes[k][1] = f[y].class /\ m \in DOMAIN row.makes[k][2]
          /\ g[y].members[m] = v[row.makes[k][2][m]]
      BY <1>1, <3>1, <3>2 DEF MadeAs
    <3>4. \A l \in DOMAIN v[row.makes[k][2][m]] : v[row.makes[k][2][m]][l] = 0 => row.makes[k][1] = "Case" /\ m = 1
      <4>1. Before(row, h, n, vs, named, kept, v) /\ m \in DOMAIN row.makes[k][2]
        BY <1>1, <3>3
      <4>2. ArgumentAs(row, h, n, named, v, k, m, row.makes[k][2][m], row.makes[k][1])
        BY <4>1, ArgumentIs
      <4>3. QED  BY <4>2 DEF ArgumentAs
    <3>5. QED  BY <2>4, <3>3, <3>4 DEF Within
  <2>5. CASE row.grow # <<>> /\ Within(0, named[row.grow[4]])
    <3>1. Adds(row, g, h, n, named, named[row.grow[1]][1], row.grow[2], named[row.grow[4]])
      BY <1>1, <2>5 DEF GrowsAs
    <3>2. QED  BY <2>5, <3>1 DEF Adds, Within
  <2>6. QED  BY <1>2, <2>2, <2>3, <2>4, <2>5
<1>8. QED  BY <1>5, <1>6, <1>7 DEF Shapes, ShapeOf, Null

\* What an object owns is in a member that it gives back.
LEMMA OwnsWithin ==
    ASSUME NEW h, NEW n, IsHeap(h, n), NEW y \in DOMAIN h, NEW z, Owns(h, y, z)
    PROVE  \E m \in DOMAIN h[y].members : m \in Released(h[y].class) /\ Within(z, h[y].members[m])
<1>1. Released(h[y].class) \subseteq DOMAIN h[y].members
  BY HeapIs
<1>2. QED  BY <1>1 DEF Owns, Within

\* An object that is grown is on the stack afterwards, so that nothing owns it.
LEMMA GrownUnowned ==
    ASSUME NEW row, NEW h, NEW n, NEW vs, NEW named, NEW kept, NEW v, NEW nodes, NEW g, NEW f,
           Move(row, h, n, vs, named, kept, v, nodes, g, f), row.grow # <<>>
    PROVE  \A y \in DOMAIN f : ~Owns(f, y, named[row.grow[1]][1])
<1> DEFINE x == named[row.grow[1]][1]
           N == n + Len(row.makes)
           t == Append(kept, FlattenSeq(Looked(row.gives, v)))
           e == FlattenSeq(Looked(row.drops, v))
<1>1. /\ Step(row, h, n, vs, named, kept, v, nodes) /\ GrowsAs(row, h, n, named, nodes, g, f)
      /\ Unshared(h, vs) /\ RowSound(row) /\ Before(row, h, n, vs, named, kept, v)
  BY StepIs DEF Move, Step
<1>2. IsHeap(f, N) /\ Adds(row, g, h, n, named, x, row.grow[2], named[row.grow[4]])
  BY <1>1 DEF GrowsAs
<1>3. t \in Seq(Seq(0 .. N)) /\ e \in Seq(0 .. N) /\ Ledger(f, t, e)
  BY <1>1, ReduceLedger
<1>4. Unshared(f, t)
  BY <1>1, ReduceUnshared
<1>5. Len(named[row.grow[1]]) = 1 /\ x \in DOMAIN g
  BY <1>2 DEF Adds
<1>6. PICK q \in DOMAIN row.gives : row.gives[q] = row.grow[1]
  BY <1>1 DEF RowSound, GrowSound
<1>7. row.grow[1] \in Items(row)
  <2>1. \/ One(row, row.grow[1], "Declarations") \/ One(row, row.grow[1], "Params")
        \/ One(row, row.grow[1], "ParamTypeRefs")
    BY <1>1 DEF RowSound, GrowSound
  <2>2. {"Declarations", "Params", "ParamTypeRefs"} \subseteq DOMAIN Modes
    BY KindsKnown
  <2>3. JoinedBy(g, h, nodes)
    BY <1>1 DEF GrowsAs
  <2>4. QED  BY <1>1, <2>1, <2>2, <2>3, OneIs
<1>8. Within(x, v[row.gives[q]])
  <2>1. v[row.grow[1]] = named[row.grow[1]]
    BY <1>1, <1>7 DEF Before, Valued
  <2>2. named[row.grow[1]] \in Seq(0 .. N)
    <3> DEFINE B == Seq(0 .. N)
               i == row.grow[1]
    <3>1. named \in Seq(B) /\ i \in DOMAIN named
      BY <1>1, <1>7 DEF Before, NamedAs
    <3> HIDE DEF B, i
    <3>2. named[i] \in B
      BY <3>1, ElementOfSeq, LenProperties
    <3>3. QED  BY <3>2 DEF B, i
  <2> DEFINE s == named[row.grow[1]]
             A == 0 .. N
  <2>3. s \in Seq(A) /\ Len(s) = 1
    BY <1>5, <2>2
  <2> HIDE DEF s, A
  <2>4. 1 \in DOMAIN s
    BY <2>3, LenProperties
  <2>5. QED  BY <1>6, <2>1, <2>4 DEF Within, s
<1>9. Within(x, FlattenSeq(Looked(row.gives, v)))
  BY <1>1, <1>8, GivesHave
<1>10. kept \in Seq(Seq(0 .. N)) /\ FlattenSeq(Looked(row.gives, v)) \in Seq(0 .. N) /\ N \in Nat
  <2>1. N \in Nat
    BY <1>2 DEF IsHeap
  <2>2. PICK w : Ways(row, w)
    BY <1>1, WaysAre DEF RowSound
  <2>3. 3 \in {3, 4} /\ Listed(row, 3) = row.gives
    BY DEF Listed
  <2>4. FlattenSeq(Looked(row.gives, v)) \in Seq(0 .. N)
    BY <1>1, <2>2, <2>3, ListedCount
  <2>5. kept \in Seq(Seq(0 .. N))
    <3> DEFINE A == 0 .. n
               B == 0 .. N
    <3>1. kept \in Seq(Seq(A)) /\ A \subseteq B
      <4>1. kept \in Seq(Seq(0 .. n)) /\ n \in Nat /\ n <= N
        BY <1>1, StepIs DEF Before, NamedAs
      <4> HIDE DEF N
      <4>2. QED  BY <2>1, <4>1
    <3> HIDE DEF A, B
    <3>2. Seq(A) \subseteq Seq(B)
      BY <3>1, SequencesInclude
    <3>3. Seq(Seq(A)) \subseteq Seq(Seq(B))
      BY <3>2, SequencesInclude
    <3>4. QED  BY <3>1, <3>3 DEF B
  <2>6. QED  BY <2>1, <2>4, <2>5
<1>11. \E i \in DOMAIN t : \E k \in DOMAIN t[i] : t[i][k] = x
  <2> DEFINE s == FlattenSeq(Looked(row.gives, v))
  <2>1. Within(x, s) /\ s \in Seq(0 .. N) /\ kept \in Seq(Seq(0 .. N)) /\ N \in Nat
    BY <1>9, <1>10
  <2> HIDE DEF s, N, x
  <2>2. t = Append(kept, s)
    BY DEF s
  <2>3. DOMAIN Append(kept, s) = 1 .. Len(kept) + 1 /\ Append(kept, s)[Len(kept) + 1] = s
    BY <2>1, PushCount
  <2>4. Len(kept) \in Nat
    BY <2>1, LenProperties
  <2>5. Len(kept) + 1 \in DOMAIN t /\ t[Len(kept) + 1] = s
    BY <2>2, <2>3, <2>4
  <2>6. QED  BY <2>1, <2>5 DEF Within
<1> HIDE DEF t, e
<1>12. x # 0
  <2>1. IsHeap(g, N)
    BY <1>1 DEF GrowsAs
  <2>2. x \in 1 .. N
    BY <1>5, <2>1, HeapIs
  <2>3. QED  BY <2>2
<1> HIDE DEF x, N
<1>13. x \in DOMAIN f /\ f[x].refs = 1 /\ x \in Nat \ {0}
  <2>1. x \in DOMAIN f /\ f[x].refs = 1
    BY <1>4, <1>11, <1>12 DEF Unshared, Null
  <2>2. x \in 1 .. N /\ N \in Nat
    BY <1>2, <2>1, HeapIs
  <2>3. QED  BY <2>1, <2>2
<1> DEFINE M == Count(x, Link(f), Slots(f))
           S == Count(x, t, DOMAIN t)
           D == Times(x, e)
<1>14. Refs(f, x) = M + S + D
  BY <1>3, <1>13 DEF Ledger
<1>15. M \in Nat /\ S \in Nat /\ D \in Nat
  BY <1>2, <1>3, HoldersAreNumbers
<1>16. S # 0
  BY <1>3, <1>10, <1>11, StackCounted
<1>17. Refs(f, x) = 1
  BY <1>13 DEF Refs
<1> HIDE DEF M, S, D
<1>18. M = 0
  BY <1>14, <1>15, <1>16, <1>17
<1>19. \A y \in DOMAIN f : ~Owns(f, y, x)
  BY <1>2, <1>18, OwnedCounted DEF M
<1>20. QED  BY <1>19 DEF x

\* What a node has in its members was there before it.
LEMMA NodeOwns ==
    ASSUME NEW row, NEW h, NEW n, NEW vs, NEW named, NEW kept, NEW v, NEW nodes, NEW g, NEW f,
           Move(row, h, n, vs, named, kept, v, nodes, g, f),
           NEW y \in DOMAIN f, NEW z, Owns(f, y, z)
    PROVE  z <= n \/ (y \in DOMAIN nodes /\ z < y)
<1>1. /\ Step(row, h, n, vs, named, kept, v, nodes) /\ GrowsAs(row, h, n, named, nodes, g, f)
      /\ Before(row, h, n, vs, named, kept, v) /\ MadeAs(nodes, row, n, v) /\ IsHeap(h, n) /\ n \in Nat
      /\ IsHeap(f, n + Len(row.makes)) /\ IsHeap(nodes, n + Len(row.makes))
  BY StepIs DEF Move, Step, GrowsAs
<1>2. StayAs(h, nodes, g, f)
  BY ObjectsStay
<1>3. PICK m \in DOMAIN f[y].members : Within(z, f[y].members[m])
  BY <1>1, OwnsWithin
<1>4. \/ Within(z, g[y].members[m])
      \/ /\ row.grow # <<>> /\ y = named[row.grow[1]][1] /\ m = row.grow[2]
         /\ Within(z, named[row.grow[4]])
  BY <1>3, MembersStay
<1>5. ASSUME NEW s \in Seq(0 .. n), Within(z, s) PROVE z <= n
  <2>1. PICK j \in DOMAIN s : s[j] = z
    BY <1>5 DEF Within
  <2>2. z \in 0 .. n
    BY <2>1, ElementOfSeq, LenProperties
  <2>3. QED  BY <1>1, <2>2
<1>6. CASE row.grow # <<>> /\ Within(z, named[row.grow[4]])
  <2>1. Adds(row, g, h, n, named, named[row.grow[1]][1], row.grow[2], named[row.grow[4]])
    BY <1>1, <1>6 DEF GrowsAs
  <2>2. named[row.grow[4]] \in Seq(0 .. n)
    BY <2>1 DEF Adds
  <2>3. QED  BY <1>5, <1>6, <2>2
<1>7. CASE Within(z, g[y].members[m]) /\ y \in DOMAIN h
  <2>1. g[y].members[m] = h[y].members[m] /\ m \in DOMAIN h[y].members
    BY <1>2, <1>7 DEF StayAs
  <2>2. h[y].members[m] \in Seq(0 .. n)
    BY <1>1, <1>7, <2>1, HeapIs
  <2>3. QED  BY <1>5, <1>7, <2>1, <2>2
<1>8. CASE Within(z, g[y].members[m]) /\ y \in DOMAIN nodes
  <2>1. PICK k \in DOMAIN row.makes : y = n + k
    BY <1>1, <1>8 DEF MadeAs
  <2>2. g[y].members = nodes[y].members /\ m \in DOMAIN nodes[y].members
    BY <1>2, <1>8 DEF StayAs
  <2>3. m \in DOMAIN row.makes[k][2] /\ g[y].members[m] = v[row.makes[k][2][m]]
    BY <1>1, <2>1, <2>2 DEF MadeAs
  <2> DEFINE c == row.makes[k][2][m]
  <2>4. ArgumentAs(row, h, n, named, v, k, m, c, row.makes[k][1])
    BY <1>1, <2>3, ArgumentIs
  <2>5. v[c] \in Seq(0 .. n + k - 1)
    BY <2>4 DEF ArgumentAs
  <2>6. PICK j \in DOMAIN v[c] : v[c][j] = z
    BY <1>8, <2>3 DEF Within
  <2>7. z \in 0 .. n + k - 1 /\ k \in Nat
    <3>1. k \in 1 .. Len(row.makes)
      BY StepIs, <1>1
    <3> DEFINE A == 0 .. n + k - 1
    <3>2. v[c] \in Seq(A)
      BY <2>5
    <3> HIDE DEF A, c
    <3>3. z \in A
      BY <2>6, <3>2
    <3>4. QED  BY <3>1, <3>3 DEF A
  <2>8. QED  BY <1>1, <1>8, <2>1, <2>7
<1>9. QED  BY <1>2, <1>4, <1>6, <1>7, <1>8 DEF StayAs

\* A reduction makes no cycle: a node points to what was there before it, and the
\* object grown to what nobody else owns.
LEMMA ReduceAcyclic ==
    ASSUME NEW row, NEW h, NEW n, NEW vs, NEW named, NEW kept, NEW v, NEW nodes, NEW g, NEW f,
           Move(row, h, n, vs, named, kept, v, nodes, g, f), Acyclic(h)
    PROVE  Acyclic(f)
<1>1. /\ Step(row, h, n, vs, named, kept, v, nodes) /\ GrowsAs(row, h, n, named, nodes, g, f)
      /\ IsHeap(h, n) /\ n \in Nat /\ IsHeap(f, n + Len(row.makes)) /\ n + Len(row.makes) \in Nat
      /\ DOMAIN nodes = n + 1 .. n + Len(row.makes)
  <2>1. Step(row, h, n, vs, named, kept, v, nodes) /\ GrowsAs(row, h, n, named, nodes, g, f)
    BY DEF Move
  <2>2. IsHeap(h, n) /\ n \in Nat /\ DOMAIN nodes = n + 1 .. n + Len(row.makes)
    BY <2>1, StepIs
  <2>3. IsHeap(f, n + Len(row.makes))
    BY <2>1 DEF GrowsAs
  <2>4. n + Len(row.makes) \in Nat
    BY <2>3 DEF IsHeap
  <2>5. QED  BY <2>1, <2>2, <2>3, <2>4
<1>2. StayAs(h, nodes, g, f)
  BY ObjectsStay
<1>3. SUFFICES ASSUME NEW T \in SUBSET DOMAIN f, T # {}
               PROVE  \E t \in T : \A y \in T : ~Owns(f, y, t)
  BY DEF Acyclic
<1>4. CASE \E t \in T : t \in DOMAIN nodes
  <2> DEFINE A == T \cap DOMAIN nodes
  <2>1. A # {} /\ \A t \in A : t \in Nat /\ t <= n + Len(row.makes) /\ t > n
    BY <1>1, <1>4
  <2>2. PICK t \in A : \A u \in A : t >= u
    <3> DEFINE N == n + Len(row.makes)
    <3>1. A \in SUBSET (0 .. N) /\ A # {} /\ N \in Nat
      BY <1>1, <2>1
    <3> HIDE DEF A, N
    <3>2. QED  BY <3>1, Greatest
  <2>3. ASSUME NEW y \in T, Owns(f, y, t) PROVE FALSE
    <3>1. t <= n \/ (y \in DOMAIN nodes /\ t < y)
      BY <2>3, NodeOwns
    <3>2. ~(t <= n) /\ t \in Nat
      BY <1>1, <2>1
    <3>3. y \in A /\ y \in Nat
      BY <2>1, <3>1, <3>2
    <3>4. y <= t
      BY <2>2, <3>3
    <3>5. QED  BY <3>1, <3>2, <3>3, <3>4
  <2>4. QED  BY <2>3
<1>5. CASE ~\E t \in T : t \in DOMAIN nodes
  <2>1. T \in SUBSET DOMAIN h
    BY <1>2, <1>5 DEF StayAs
  <2>2. PICK t \in T : \A y \in T : ~Owns(h, y, t)
    BY <1>3, <2>1 DEF Move, Acyclic
  <2>3. ASSUME NEW y \in T, NEW z, Owns(f, y, z), ~Owns(h, y, z)
        PROVE  row.grow # <<>> /\ y = named[row.grow[1]][1]
    <3>1. y \in DOMAIN h /\ y \in DOMAIN f /\ f[y].class = h[y].class /\ g[y].members = h[y].members
      BY <1>2, <2>1 DEF StayAs
    <3>2. PICK m \in DOMAIN f[y].members : m \in Released(f[y].class) /\ Within(z, f[y].members[m])
      BY <1>1, <2>3, OwnsWithin
    <3>3. \/ Within(z, g[y].members[m])
          \/ row.grow # <<>> /\ y = named[row.grow[1]][1]
      BY <3>1, <3>2, MembersStay
    <3>4. ~Within(z, h[y].members[m])
      BY <2>3, <3>1, <3>2 DEF Owns, Within
    <3>5. QED  BY <3>1, <3>3, <3>4
  <2>4. CASE row.grow = <<>> \/ named[row.grow[1]][1] \notin T
    BY <2>2, <2>3, <2>4
  <2>5. CASE row.grow # <<>> /\ named[row.grow[1]][1] \in T
    BY <2>5, GrownUnowned
  <2>6. QED  BY <2>4, <2>5
<1>6. QED  BY <1>4, <1>5

\* What a reduction gives is of the kind of its left-hand side.
LEMMA GivesFit ==
    ASSUME NEW row, NEW h, NEW n, NEW vs, NEW named, NEW kept, NEW v, NEW nodes, NEW g, NEW f,
           Move(row, h, n, vs, named, kept, v, nodes, g, f)
    PROVE  Fits(f, FlattenSeq(Looked(row.gives, v)), row.lhs)
<1> DEFINE t == Looked(row.gives, v)
           e == FlattenSeq(t)
           N == n + Len(row.makes)
<1>1. /\ Step(row, h, n, vs, named, kept, v, nodes) /\ GrowsAs(row, h, n, named, nodes, g, f)
      /\ RowSound(row) /\ Before(row, h, n, vs, named, kept, v) /\ MadeAs(nodes, row, n, v)
      /\ JoinedBy(g, h, nodes) /\ n \in Nat
  BY StepIs DEF Move, Step, GrowsAs
<1>2. StayAs(h, nodes, g, f)
  BY ObjectsStay
<1>3. /\ t \in Seq(Seq(0 .. N)) /\ Len(t) = Len(row.gives) /\ e \in Seq(0 .. N)
      /\ DOMAIN t = DOMAIN row.gives /\ \A q \in DOMAIN row.gives : t[q] = v[row.gives[q]]
  <2>1. PICK w : Ways(row, w)
    BY <1>1, WaysAre DEF RowSound
  <2>2. 3 \in {3, 4} /\ Listed(row, 3) = row.gives
    BY DEF Listed
  <2>3. t \in Seq(Seq(0 .. N)) /\ Len(t) = Len(row.gives) /\ e \in Seq(0 .. N)
    BY <1>1, <2>1, <2>2, ListedCount
  <2>4. QED  BY <2>3 DEF Looked
<1>4. GivesKind(row) /\ Formed(row)
  BY <1>1 DEF RowSound
<1>5. /\ \A i \in Items(row) : v[i] = named[i]
      /\ v[NullItem] = <<Null>>
      /\ \A i \in DOMAIN row.rhs : Fits(h, named[i], row.rhs[i])
      /\ \A k \in DOMAIN row.makes : named[Len(row.rhs) + k] = <<n + k>>
  BY <1>1 DEF Before, Valued, Typed, NamedAs
<1>6. /\ Len(row.makes) \in Nat /\ Len(row.rhs) \in Nat
      /\ DOMAIN row.rhs = 1 .. Len(row.rhs) /\ DOMAIN row.makes = 1 .. Len(row.makes)
      /\ Items(row) = 1 .. Len(row.rhs) + Len(row.makes)
  BY <1>1, StepIs
<1>7. \A z : Within(z, e) <=> \E q \in DOMAIN row.gives : Within(z, v[row.gives[q]])
  BY <1>1, GivesHave
<1>8. \A i \in DOMAIN row.rhs : i \in Items(row)
  BY <1>6, Ranges
<1>9. ASSUME NEW q \in DOMAIN row.gives, Found(row, row.gives[q], {"def_vars", "param"})
      PROVE  /\ v[row.gives[q]] # <<>>
             /\ \A z : Within(z, v[row.gives[q]]) => IsA(f, z, "DefinedVariable")
  <2> DEFINE i == row.gives[q]
  <2>1. i \in DOMAIN row.rhs /\ Plural(row.rhs[i])
    BY <1>9 DEF Found, Plural
  <2>2. Fits(h, named[i], row.rhs[i]) /\ v[i] = named[i]
    BY <1>5, <1>8, <2>1
  <2>3. named[i] # <<>> /\ \A j \in DOMAIN named[i] : IsA(h, named[i][j], "DefinedVariable")
    BY <2>1, <2>2 DEF Fits
  <2>4. QED  BY <1>2, <2>2, <2>3 DEF Within, StayAs
<1>10. ASSUME NEW i, NEW class \in DOMAIN Modes, One(row, i, class)
       PROVE  i \in Items(row) /\ Len(v[i]) = 1 /\ IsA(f, v[i][1], class)
  <2>1. i \in Items(row) /\ Len(named[i]) = 1 /\ IsA(g, named[i][1], class)
    BY <1>1, <1>10, OneIs
  <2>2. IsA(f, named[i][1], class)
    BY <1>2, <2>1 DEF StayAs
  <2>3. QED  BY <1>5, <2>1, <2>2
<1>11. ASSUME NEW q \in DOMAIN row.gives, Made(row, row.gives[q], "DefinedVariable")
       PROVE  /\ v[row.gives[q]] # <<>>
              /\ \A z : Within(z, v[row.gives[q]]) => IsA(f, z, "DefinedVariable")
  <2> DEFINE i == row.gives[q]
  <2>1. "DefinedVariable" \in DOMAIN Modes /\ One(row, i, "DefinedVariable")
    BY <1>11, KindsKnown DEF One
  <2>2. i \in Items(row) /\ Len(v[i]) = 1 /\ IsA(f, v[i][1], "DefinedVariable")
    BY <1>10, <2>1
  <2>3. v[i] = named[i]
    BY <1>5, <2>2
  <2>4. named[i] \in Seq(0 .. N)
    <3> DEFINE B == Seq(0 .. N)
    <3>1. named \in Seq(B) /\ i \in DOMAIN named
      BY <1>1, <2>2 DEF Before, NamedAs
    <3> HIDE DEF B, i
    <3>2. named[i] \in B
      BY <3>1, ElementOfSeq, LenProperties
    <3>3. QED  BY <3>2 DEF B
  <2> DEFINE s == v[i]
             A == 0 .. N
  <2>5. s \in Seq(A) /\ Len(s) = 1 /\ IsA(f, s[1], "DefinedVariable")
    BY <2>2, <2>3, <2>4
  <2> HIDE DEF s, A
  <2>6. s # <<>> /\ \A z : Within(z, s) => z = s[1]
    BY <2>5, LenProperties DEF Within
  <2>7. QED  BY <2>5, <2>6 DEF s
<1>12. ASSUME NEW class \in DOMAIN Modes, Single(row.lhs, class)
       PROVE  Len(e) = 1 /\ IsA(f, e[1], class)
  <2>1. Len(row.gives) = 1 /\ One(row, row.gives[1], class)
    BY <1>4, <1>12 DEF GivesKind
  <2>2. row.gives[1] \in Items(row) /\ Len(v[row.gives[1]]) = 1 /\ IsA(f, v[row.gives[1]][1], class)
    BY <1>10, <2>1
  <2>3. 1 \in DOMAIN row.gives
    <3>1. row.gives \in Seq(Items(row) \cup {NullItem})
      BY <1>4 DEF Formed
    <3>2. QED  BY <2>1, <3>1, LenProperties
  <2>4. e = t[1]
    <3> DEFINE S == 0 .. N
    <3>1. t \in Seq(Seq(S)) /\ Len(t) = 1
      BY <1>3, <2>1
    <3> HIDE DEF S, t
    <3>2. FlattenSeq(t) = t[1]
      BY <3>1, FlattenOne
    <3>3. QED  BY <3>2
  <2>5. t[1] = v[row.gives[1]]
    BY <1>3, <2>3
  <2>6. QED  BY <2>2, <2>4, <2>5
<1> HIDE DEF e, t
<1>13. ASSUME Plural(row.lhs)
       PROVE  e # <<>> /\ \A j \in DOMAIN e : IsA(f, e[j], "DefinedVariable")
  <2>1. /\ row.gives # <<>>
        /\ \A q \in DOMAIN row.gives :
            \/ Found(row, row.gives[q], {"def_vars", "param"})
            \/ Made(row, row.gives[q], "DefinedVariable")
    BY <1>4, <1>13 DEF GivesKind
  <2>2. \A q \in DOMAIN row.gives :
            /\ v[row.gives[q]] # <<>>
            /\ \A z : Within(z, v[row.gives[q]]) => IsA(f, z, "DefinedVariable")
    BY <1>9, <1>11, <2>1
  <2>3. \A j \in DOMAIN e : IsA(f, e[j], "DefinedVariable")
    <3>1. ASSUME NEW j \in DOMAIN e PROVE IsA(f, e[j], "DefinedVariable")
      <4>1. Within(e[j], e)
        BY DEF Within
      <4>2. PICK q \in DOMAIN row.gives : Within(e[j], v[row.gives[q]])
        BY <1>7, <4>1
      <4>3. QED  BY <2>2, <4>2
    <3>2. QED  BY <3>1
  <2>4. e # <<>>
    <3>1. 1 \in DOMAIN row.gives
      <4>1. row.gives \in Seq(Items(row) \cup {NullItem})
        BY <1>4 DEF Formed
      <4>2. QED  BY <2>1, <4>1, LenProperties, EmptySeq
    <3>2. v[row.gives[1]] # <<>> /\ v[row.gives[1]] \in Seq(0 .. N)
      <4> DEFINE B == Seq(0 .. N)
      <4>1. t \in Seq(B) /\ 1 \in DOMAIN t /\ t[1] = v[row.gives[1]]
        BY <1>3, <3>1
      <4> HIDE DEF B
      <4>2. t[1] \in B
        BY <4>1, ElementOfSeq, LenProperties
      <4>3. QED  BY <2>2, <3>1, <4>1, <4>2 DEF B
    <3>3. Within(v[row.gives[1]][1], v[row.gives[1]])
      <4> DEFINE s == v[row.gives[1]]
                 A == 0 .. N
      <4>1. s # <<>> /\ s \in Seq(A)
        BY <3>2
      <4> HIDE DEF s, A
      <4>2. 1 \in DOMAIN s
        BY <4>1, LenProperties, EmptySeq
      <4>3. Within(s[1], s)
        BY <4>2 DEF Within
      <4>4. QED  BY <4>3 DEF s
    <3>4. Within(v[row.gives[1]][1], e)
      BY <1>7, <3>1, <3>3
    <3>5. QED  BY <3>4 DEF Within
  <2>5. QED  BY <2>3, <2>4
<1>14. ASSUME row.lhs # "cases", NEW j \in DOMAIN e PROVE e[j] # 0
  <2>1. PICK q \in DOMAIN row.gives : Within(e[j], v[row.gives[q]])
    BY <1>7 DEF Within
  <2>2. row.gives[q] # NullItem /\ ~Found(row, row.gives[q], {"cases"})
    BY <1>4, <1>14 DEF GivesKind
  <2>3. row.gives[q] \in Items(row)
    <3>1. row.gives \in Seq(Items(row) \cup {NullItem})
      BY <1>4 DEF Formed
    <3> DEFINE B == Items(row) \cup {NullItem}
    <3>2. row.gives \in Seq(B)
      BY <3>1
    <3> HIDE DEF B
    <3>3. row.gives[q] \in B
      BY <3>2, ElementOfSeq, LenProperties
    <3>4. QED  BY <2>2, <3>3 DEF B
  <2> DEFINE i == row.gives[q]
  <2>4. v[i] = named[i]
    BY <1>5, <2>3
  <2>5. CASE i \in DOMAIN row.rhs
    <3>1. row.rhs[i] # "cases" /\ Fits(h, named[i], row.rhs[i])
      BY <1>5, <2>2, <2>5 DEF Found
    <3>2. \A l \in DOMAIN named[i] : named[i][l] # 0
      BY <3>1 DEF Fits, Null
    <3>3. QED  BY <2>1, <2>4, <3>2 DEF Within
  <2>6. CASE \E k \in DOMAIN row.makes : i = Len(row.rhs) + k
    <3>1. PICK k \in DOMAIN row.makes : i = Len(row.rhs) + k
      BY <2>6
    <3>2. v[i] = <<n + k>>
      BY <1>5, <2>4, <3>1
    <3>3. e[j] = n + k
      BY <2>1, <3>2 DEF Within
    <3>4. QED  BY <1>1, <1>6, <3>3
  <2>7. QED  BY <1>4, <2>3, <2>5, <2>6, RhsIs
<1>15. QED  BY <1>12, <1>13, <1>14 DEF Fits, Null, e, t

\* What stays on the stack is of the kind it was of.
LEMMA KeptFit ==
    ASSUME NEW row, NEW h, NEW n, NEW vs, NEW named, NEW kept, NEW v, NEW nodes, NEW g, NEW f,
           Move(row, h, n, vs, named, kept, v, nodes, g, f), NEW s, NEW symbol, Fits(h, s, symbol)
    PROVE  Fits(f, s, symbol)
<1>1. StayAs(h, nodes, g, f)
  BY ObjectsStay
<1>2. \A y, class : IsA(h, y, class) => IsA(f, y, class)
  BY <1>1 DEF StayAs
<1>3. QED  BY <1>2 DEF Fits

Numbers == 0 .. 103
ValuesOf(named) == [i \in Numbers |-> Value(named, i)]

\* The numbers of a row, as the model reads them.
LEMMA ValueIs ==
    ASSUME NEW named, NEW m \in 0 .. 100, DOMAIN named = 1 .. m
    PROVE  /\ ValuesOf(named)[None] = <<>> /\ ValuesOf(named)[NullItem] = <<Null>>
           /\ ValuesOf(named)[LastType] = heap[Last(named[1])].members[1]
           /\ ValuesOf(named)[TypeRefsOf] = FlattenSeq(
                [k \in DOMAIN heap[named[2][1]].members[1] |->
                    heap[heap[heap[named[2][1]].members[1][k]].members[1][1]].members[1]])
           /\ \A i \in 1 .. m : ValuesOf(named)[i] = named[i]
           /\ \A i \in Numbers : ValuesOf(named)[i] = Value(named, i)
<1>1. None \in Numbers /\ NullItem \in Numbers /\ LastType \in Numbers /\ TypeRefsOf \in Numbers
  BY DEF None, NullItem, LastType, TypeRefsOf, Numbers
<1>2. \A i \in Numbers : ValuesOf(named)[i] = Value(named, i)
  BY DEF ValuesOf
<1> DEFINE types == FlattenSeq(
                [k \in DOMAIN heap[named[2][1]].members[1] |->
                    heap[heap[heap[named[2][1]].members[1][k]].members[1][1]].members[1]])
           type == heap[Last(named[1])].members[1]
           other(i) == CASE i = None       -> <<>>
                         [] i = NullItem   -> <<Null>>
                         [] i = LastType   -> type
                         [] i = TypeRefsOf -> types
<1>3. \A i : Value(named, i) = IF i \in DOMAIN named THEN named[i] ELSE other(i)
  BY DEF Value
<1>4. /\ None \notin DOMAIN named /\ NullItem \notin DOMAIN named
      /\ LastType \notin DOMAIN named /\ TypeRefsOf \notin DOMAIN named
  BY DEF None, NullItem, LastType, TypeRefsOf
<1> HIDE DEF types, type
<1>5. other(None) = <<>>
  BY DEF None, NullItem, LastType, TypeRefsOf
<1>6. other(NullItem) = <<Null>>
  BY DEF None, NullItem, LastType, TypeRefsOf
<1>7. other(LastType) = type
  BY DEF None, NullItem, LastType, TypeRefsOf
<1>8. other(TypeRefsOf) = types
  BY DEF None, NullItem, LastType, TypeRefsOf
<1> HIDE DEF other
<1>9. /\ Value(named, None) = <<>> /\ Value(named, NullItem) = <<Null>>
      /\ Value(named, LastType) = type /\ Value(named, TypeRefsOf) = types
  BY <1>3, <1>4, <1>5, <1>6, <1>7, <1>8
<1>10. ASSUME NEW i \in 1 .. m PROVE Value(named, i) = named[i] /\ i \in Numbers
  BY <1>3 DEF Numbers
<1>11. QED  BY <1>1, <1>2, <1>9, <1>10 DEF type, types

\* A member of an object that is no Case, For: what is read in it is borrowed.
LEMMA MemberBorrowed ==
    ASSUME NEW h, NEW n, IsHeap(h, n), Shapes(h), NEW y \in DOMAIN h,
           h[y].class # "Case", h[y].class # "For", NEW m \in DOMAIN h[y].members
    PROVE  /\ h[y].members[m] \in Seq(1 .. n)
           /\ \A z : Within(z, h[y].members[m]) => Owns(h, y, z)
<1> DEFINE s == h[y].members[m]
           A == 0 .. n
           B == 1 .. n
<1>1. s \in Seq(A) /\ n \in Nat
  BY HeapIs
<1>2. \A j \in DOMAIN s : s[j] # 0
  BY DEF Shapes, ShapeOf, Null
<1>3. \A j \in DOMAIN s : s[j] \in B
  <2>1. ASSUME NEW j \in DOMAIN s PROVE s[j] \in B
    <3> HIDE DEF s, A
    <3>1. s[j] \in A
      BY <1>1, ElementOfSeq, LenProperties
    <3>2. QED  BY <1>1, <1>2, <3>1 DEF A
  <2>2. QED  BY <2>1
<1>4. m \in Released(h[y].class)
  BY HeapIs
<1>5. \A z : Within(z, s) => Owns(h, y, z)
  BY <1>4 DEF Within, Owns
<1> HIDE DEF s, A, B
<1>6. s \in Seq(B)
  <2>1. s \in [1 .. Len(s) -> B] /\ Len(s) \in Nat
    <3>1. Len(s) \in Nat /\ DOMAIN s = 1 .. Len(s) /\ s \in [1 .. Len(s) -> A]
      BY <1>1, LenProperties
    <3>2. QED  BY <1>3, <3>1
  <2>2. QED  BY <2>1, FromFunction
<1>7. QED  BY <1>5, <1>6 DEF s, B

\* The types of the parameters of a Params, as the code reads them.
LEMMA ParamsRead ==
    ASSUME NEW h, NEW n, IsHeap(h, n), Shapes(h), NEW p, IsA(h, p, "Params")
    PROVE  Borrowed(FlattenSeq([k \in DOMAIN h[p].members[1] |->
                h[h[h[p].members[1][k]].members[1][1]].members[1]]), h, n)
<1> DEFINE s == h[p].members[1]
           y(k) == h[s[k]].members[1][1]
           ss == [k \in DOMAIN s |-> h[y(k)].members[1]]
           B == 1 .. n
<1>1. /\ Modes["Params"] = <<"take">> /\ Modes["DefinedVariable"] = <<"count", "count">>
      /\ Modes["TypeNode"] = <<"count">>
  BY KindsKnown
<1>2. p \in DOMAIN h /\ h[p].class = "Params"
  BY DEF IsA
<1>3. s \in Seq(1 .. n) /\ \A k \in DOMAIN s : IsA(h, s[k], "DefinedVariable")
  <2>1. 1 \in DOMAIN h[p].members
    BY <1>1, <1>2, HeapIs
  <2>2. QED  BY <1>2, <2>1, MemberBorrowed DEF Shapes, ShapeOf
<1>4. ASSUME NEW k \in DOMAIN s
      PROVE  /\ ss[k] \in Seq(B)
             /\ \A z : Within(z, ss[k]) => \E x \in DOMAIN h : Owns(h, x, z)
  <2>1. IsA(h, y(k), "TypeNode")
    BY <1>3 DEF IsA, Shapes, ShapeOf
  <2>2. y(k) \in DOMAIN h /\ h[y(k)].class = "TypeNode"
    BY <2>1 DEF IsA
  <2>3. ss[k] = h[y(k)].members[1]
    OBVIOUS
  <2> HIDE DEF y, ss
  <2>4. 1 \in DOMAIN h[y(k)].members
    BY <1>1, <2>2, HeapIs
  <2>5. QED  BY <2>2, <2>3, <2>4, MemberBorrowed
<1>5. DOMAIN ss = DOMAIN s
  OBVIOUS
<1>6. n \in Nat /\ B \in SUBSET Nat
  BY HeapIs, <1>2
<1> HIDE DEF ss, B
<1>7. ss \in Seq(Seq(B))
  <2>1. Len(s) \in Nat /\ DOMAIN s = 1 .. Len(s)
    BY <1>3, LenProperties
  <2>2. ss \in [1 .. Len(s) -> Seq(B)]
    <3>1. ss = [k \in DOMAIN s |-> ss[k]]
      BY DEF ss
    <3>2. QED  BY <1>4, <2>1, <3>1
  <2>3. QED  BY <2>1, <2>2, FromFunction
<1> DEFINE e == FlattenSeq(ss)
<1>8. e \in Seq(B)
  BY <1>6, <1>7, FlattenTimes
<1>9. \A z : (\E j \in DOMAIN e : e[j] = z) <=> \E q \in DOMAIN ss : \E j \in DOMAIN ss[q] : ss[q][j] = z
  BY <1>6, <1>7, FlattenHas
<1> HIDE DEF e
<1>10. ASSUME NEW j \in DOMAIN e PROVE \E x \in DOMAIN h : Owns(h, x, e[j])
  <2>1. PICK q \in DOMAIN ss : \E l \in DOMAIN ss[q] : ss[q][l] = e[j]
    BY <1>9
  <2>2. Within(e[j], ss[q])
    BY <2>1 DEF Within
  <2>3. QED  BY <1>4, <1>5, <2>1, <2>2
<1>11. Borrowed(e, h, n)
  BY <1>8, <1>10 DEF Borrowed, B
<1>12. QED  BY <1>11 DEF e, ss, y, s

\* The step of a reduction on the state.
LEMMA ValuesAre ==
    ASSUME NEW row, RowSound(row), IsHeap(heap, made), values \in Seq(Seq(0 .. made)), Shapes(heap),
           Len(row.rhs) <= Len(values), Typed(row, Named(row), heap)
    PROVE  Before(row, heap, made, values, Named(row), Kept(row, values), ValuesOf(Named(row)))
<1> DEFINE named == Named(row)
           v == ValuesOf(named)
<1>1. made \in Nat /\ Formed(row)
  BY DEF IsHeap, RowSound
<1>2. named = NamedBy(row, made, values)
  BY DEF Named, NamedBy
<1>3. NamedAs(named, Kept(row, values), row, made, values)
  BY <1>1, <1>2, NamedIs
<1>4. /\ Len(row.rhs) \in Nat /\ DOMAIN row.rhs = 1 .. Len(row.rhs) /\ Len(row.makes) \in Nat
      /\ Items(row) = 1 .. Len(row.rhs) + Len(row.makes) /\ Len(row.rhs) + Len(row.makes) < 101
  BY <1>1, RhsIs
<1>6. \A i \in DOMAIN row.rhs : Fits(heap, named[i], row.rhs[i])
  BY DEF Typed
<1>7. /\ v[None] = <<>> /\ v[NullItem] = <<Null>>
      /\ v[LastType] = heap[Last(named[1])].members[1]
      /\ v[TypeRefsOf] = FlattenSeq(
            [k \in DOMAIN heap[named[2][1]].members[1] |->
                heap[heap[heap[named[2][1]].members[1][k]].members[1][1]].members[1]])
      /\ \A i \in Items(row) : v[i] = named[i]
  <2>1. PICK a, b : a = Len(row.rhs) /\ b = Len(row.makes)
    OBVIOUS
  <2>2. a \in Nat /\ b \in Nat /\ a + b < 101
    BY <1>4, <2>1
  <2>3. a + b \in 0 .. 100
    BY <2>2
  <2>4. DOMAIN named = 1 .. a + b /\ Items(row) = 1 .. a + b
    BY <1>3, <1>4, <2>1 DEF NamedAs
  <2>5. QED  BY <2>3, <2>4, ValueIs
<1> HIDE DEF v, named
<1>8. ASSUME Found(row, 1, {"def_vars"})
      PROVE  /\ Borrowed(v[LastType], heap, made) /\ v[LastType] # <<>>
             /\ IsA(heap, v[LastType][1], "TypeNode")
  <2>1. Fits(heap, named[1], "def_vars") /\ 1 \in DOMAIN row.rhs
    BY <1>6, <1>8 DEF Found
  <2>2. named[1] # <<>> /\ \A j \in DOMAIN named[1] : IsA(heap, named[1][j], "DefinedVariable")
    BY <2>1 DEF Fits, Plural
  <2>3. named[1] \in Seq(0 .. made)
    BY <1>3, <2>1 DEF NamedAs
  <2> DEFINE s == named[1]
             y == Last(s)
             A == 0 .. made
  <2>4. IsA(heap, y, "DefinedVariable")
    <3>1. s # <<>> /\ s \in Seq(A)
      BY <2>2, <2>3
    <3> HIDE DEF s, A
    <3>2. Len(s) \in DOMAIN s
      BY <3>1, LenProperties, EmptySeq
    <3>3. QED  BY <2>2, <3>2 DEF Last, s
  <2> HIDE DEF y
  <2>5. y \in DOMAIN heap /\ heap[y].class = "DefinedVariable" /\ v[LastType] = heap[y].members[1]
    BY <1>7, <2>4 DEF IsA, y
  <2>6. 1 \in DOMAIN heap[y].members
    BY <2>5, HeapIs, KindsKnown
  <2>7. heap[y].members[1] # <<>> /\ IsA(heap, heap[y].members[1][1], "TypeNode")
    BY <2>5 DEF Shapes, ShapeOf
  <2>8. /\ heap[y].members[1] \in Seq(1 .. made)
        /\ \A z : Within(z, heap[y].members[1]) => Owns(heap, y, z)
    BY <2>5, <2>6, MemberBorrowed
  <2>9. Borrowed(heap[y].members[1], heap, made)
    BY <2>5, <2>8 DEF Borrowed, Within
  <2>10. QED  BY <2>5, <2>7, <2>9
<1>9. ASSUME Found(row, 2, {"params"}) PROVE Borrowed(v[TypeRefsOf], heap, made)
  <2>1. Fits(heap, named[2], "params")
    BY <1>6, <1>9 DEF Found
  <2>2. Single("params", "Params") /\ "Params" \in DOMAIN Modes
    BY KindsKnown DEF Single
  <2>3. IsA(heap, named[2][1], "Params")
    BY <2>1, <2>2 DEF Fits
  <2>4. Borrowed(FlattenSeq(
            [k \in DOMAIN heap[named[2][1]].members[1] |->
                heap[heap[heap[named[2][1]].members[1][k]].members[1][1]].members[1]]), heap, made)
    BY <2>3, ParamsRead
  <2>5. QED  BY <1>7, <2>4
<1>10. Valued(v, named, row, heap, made)
  BY <1>7, <1>8, <1>9 DEF Valued
<1>11. QED  BY <1>3, <1>10 DEF Before, v, named

\* What the reduction computes is what the row says.
LEMMA StepComputes ==
    ASSUME NEW row, RowSound(row), IsHeap(heap, made), values \in Seq(Seq(0 .. made)),
           Len(row.rhs) <= Len(values)
    PROVE  LET named == Named(row)
               v == ValuesOf(named)
           IN  /\ Nodes(row, named) = NodesBy(row, made, v)
               /\ Joined(named, row.gives) = FlattenSeq(Looked(row.gives, v))
               /\ Joined(named, row.drops) = FlattenSeq(Looked(row.drops, v))
<1> DEFINE named == Named(row)
           v == ValuesOf(named)
<1>1. Formed(row) /\ MakesSound(row) /\ made \in Nat
  BY DEF RowSound, IsHeap
<1>2. Items(row) \cup {None, NullItem, LastType, TypeRefsOf} \subseteq Numbers
  <2>1. /\ Len(row.rhs) \in Nat /\ Len(row.makes) \in Nat
        /\ Items(row) = 1 .. Len(row.rhs) + Len(row.makes) /\ Len(row.rhs) + Len(row.makes) < 101
    BY <1>1, RhsIs
  <2>2. PICK a, b : a = Len(row.rhs) /\ b = Len(row.makes)
    OBVIOUS
  <2>3. a \in Nat /\ b \in Nat /\ a + b < 101
    BY <2>1, <2>2
  <2>4. 1 .. a + b \subseteq Numbers
    BY <2>3 DEF Numbers
  <2>5. {None, NullItem, LastType, TypeRefsOf} \subseteq Numbers
    BY DEF None, NullItem, LastType, TypeRefsOf, Numbers
  <2>6. QED  BY <2>1, <2>2, <2>4, <2>5
<1>3. \A i \in Numbers : v[i] = Value(named, i)
  <2>1. NamedAs(named, Kept(row, values), row, made, values)
    <3>1. named = NamedBy(row, made, values)
      BY DEF Named, NamedBy
    <3>2. QED  BY <1>1, <3>1, NamedIs
  <2>2. /\ Len(row.rhs) \in Nat /\ Len(row.makes) \in Nat
        /\ Items(row) = 1 .. Len(row.rhs) + Len(row.makes) /\ Len(row.rhs) + Len(row.makes) < 101
    BY <1>1, RhsIs
  <2>3. PICK a, b : a = Len(row.rhs) /\ b = Len(row.makes)
    OBVIOUS
  <2>4. a \in Nat /\ b \in Nat /\ a + b < 101
    BY <2>2, <2>3
  <2>5. a + b \in 0 .. 100
    BY <2>4
  <2>6. DOMAIN named = 1 .. a + b
    BY <2>1, <2>2, <2>3 DEF NamedAs
  <2>7. QED  BY <2>5, <2>6, ValueIs
<1> HIDE DEF v, named
<1>4. Joined(named, row.gives) = FlattenSeq(Looked(row.gives, v))
  <2>1. \A q \in DOMAIN row.gives : row.gives[q] \in Numbers
    <3> DEFINE B == Items(row) \cup {NullItem}
    <3>1. row.gives \in Seq(B) /\ B \subseteq Numbers
      BY <1>1, <1>2 DEF Formed
    <3> HIDE DEF B
    <3>2. QED  BY <3>1, ElementOfSeq, LenProperties
  <2>2. [k \in DOMAIN row.gives |-> Value(named, row.gives[k])] = Looked(row.gives, v)
    BY <1>3, <2>1 DEF Looked
  <2>3. QED  BY <2>2 DEF Joined
<1>5. Joined(named, row.drops) = FlattenSeq(Looked(row.drops, v))
  <2>1. \A q \in DOMAIN row.drops : row.drops[q] \in Numbers
    <3> DEFINE B == Items(row)
    <3>1. row.drops \in Seq(B) /\ B \subseteq Numbers
      BY <1>1, <1>2 DEF Formed
    <3> HIDE DEF B
    <3>2. QED  BY <3>1, ElementOfSeq, LenProperties
  <2>2. [k \in DOMAIN row.drops |-> Value(named, row.drops[k])] = Looked(row.drops, v)
    BY <1>3, <2>1 DEF Looked
  <2>3. QED  BY <2>2 DEF Joined
<1>6. Nodes(row, named) = NodesBy(row, made, v)
  <2>1. ASSUME NEW k \in DOMAIN row.makes, NEW b \in DOMAIN row.makes[k][2]
        PROVE  row.makes[k][2][b] \in Numbers
    BY <1>1, <1>2 DEF MakesSound, NodeMade
  <2>2. ASSUME NEW k \in DOMAIN row.makes
        PROVE  New(row.makes[k][1], [m \in DOMAIN row.makes[k][2] |-> Value(named, row.makes[k][2][m])])
                = New(row.makes[k][1], [m \in DOMAIN row.makes[k][2] |-> v[row.makes[k][2][m]]])
    <3>1. [m \in DOMAIN row.makes[k][2] |-> Value(named, row.makes[k][2][m])]
            = [m \in DOMAIN row.makes[k][2] |-> v[row.makes[k][2][m]]]
      BY <1>3, <2>1
    <3>2. QED  BY <3>1
  <2>3. ASSUME NEW x \in made + 1 .. made + Len(row.makes) PROVE x - made \in DOMAIN row.makes
    <3>1. DOMAIN row.makes = 1 .. Len(row.makes) /\ Len(row.makes) \in Nat
      BY <1>1 DEF Formed
    <3>2. PICK b : b = Len(row.makes)
      OBVIOUS
    <3>3. x \in made + 1 .. made + b /\ b \in Nat
      BY <3>1, <3>2
    <3>4. x - made \in 1 .. b
      BY <1>1, <3>3
    <3>5. QED  BY <3>1, <3>2, <3>4
  <2>4. QED  BY <2>2, <2>3 DEF Nodes, NodesBy
<1>7. QED  BY <1>4, <1>5, <1>6 DEF v, named

\* What is to come: symbols, and rows to reduce by.
Texts == DOMAIN Rows \cup Symbols

\* How an element of the text changes the symbols of the parser's stack.
Changes(S, item, T) ==
    \/ item \in Symbols /\ T = Append(S, item)
    \/ /\ item \in DOMAIN Rows
       /\ \E P \in Seq(Symbols) : S = P \o Rows[item].rhs /\ T = Append(P, Rows[item].lhs)

\* K: the symbols of the stack before each element of the text td, and at its end.
Path(K, td) ==
    /\ K \in [1 .. Len(td) + 1 -> Seq(Symbols)]
    /\ \A i \in 1 .. Len(td) : Changes(K[i], td[i], K[i + 1])
    /\ K[Len(td) + 1] \in {<<"compile">>, <<"declare">>}

\* The values of the stack are of the symbols S.
Stacked(h, vs, S) ==
    Len(S) = Len(vs) /\ \A i \in 1 .. Len(vs) : Fits(h, vs[i], S[i])

Stacks(h, vs, td) == \E K : Path(K, td) /\ Stacked(h, vs, K[1])

\* Going one element on in a text.
LEMMA PathTail ==
    ASSUME NEW td \in Seq(Texts), td # <<>>, NEW K, Path(K, td)
    PROVE  /\ Path([i \in 1 .. Len(td) |-> K[i + 1]], Tail(td))
           /\ Changes(K[1], Head(td), K[2]) /\ Tail(td) \in Seq(Texts)
           /\ K[1] \in Seq(Symbols) /\ K[2] \in Seq(Symbols)
<1> DEFINE L == Len(td)
           J == [i \in 1 .. L |-> K[i + 1]]
           t == Tail(td)
           W == Seq(Symbols)
<1>1. L \in Nat \ {0} /\ Len(t) = L - 1 /\ t \in Seq(Texts) /\ \A i \in 1 .. L - 1 : t[i] = td[i + 1]
  BY EmptySeq, HeadTailProperties
<1>2. Head(td) = td[1]
  OBVIOUS
<1>3. K \in [1 .. L + 1 -> W] /\ \A i \in 1 .. L : Changes(K[i], td[i], K[i + 1])
  BY DEF Path
<1>4. K[L + 1] \in {<<"compile">>, <<"declare">>}
  BY DEF Path
<1> HIDE DEF W, t, L
<1>5. J \in [1 .. L -> W]
  BY <1>1, <1>3
<1>6. \A i \in 1 .. L - 1 : Changes(J[i], t[i], J[i + 1])
  <2>1. ASSUME NEW i \in 1 .. L - 1 PROVE Changes(J[i], t[i], J[i + 1])
    <3>1. i \in 1 .. L /\ i + 1 \in 1 .. L /\ t[i] = td[i + 1]
      BY <1>1
    <3>2. J[i] = K[i + 1] /\ J[i + 1] = K[i + 1 + 1]
      BY <3>1
    <3>3. QED  BY <1>3, <3>1, <3>2
  <2>2. QED  BY <2>1
<1>7. L - 1 + 1 = L /\ L \in 1 .. L
  BY <1>1
<1>8. J[L] = K[L + 1]
  BY <1>7
<1>9. Path(J, t)
  <2> HIDE DEF J
  <2>1. J[Len(t) + 1] = K[L + 1]
    BY <1>1, <1>7, <1>8
  <2>2. J \in [1 .. Len(t) + 1 -> W]
    BY <1>1, <1>5, <1>7
  <2>3. \A i \in 1 .. Len(t) : Changes(J[i], t[i], J[i + 1])
    BY <1>1, <1>6
  <2>4. QED  BY <1>4, <2>1, <2>2, <2>3 DEF Path, W
<1>10. Changes(K[1], td[1], K[2]) /\ K[1] \in W /\ K[2] \in W
  BY <1>1, <1>3
<1>11. QED  BY <1>1, <1>2, <1>9, <1>10 DEF W, t, L

\* A symbol of the text opened into a production of it.
LEMMA PathOpened ==
    ASSUME NEW td \in Seq(Texts), td # <<>>, NEW K, Path(K, td), NEW p \in DOMAIN Rows,
           Head(td) = Rows[p].lhs, Formed(Rows[p]), DOMAIN Rows \cap Symbols = {}
    PROVE  LET e == Rows[p].rhs \o <<p>> \o Tail(td)
           IN  /\ e \in Seq(Texts) /\ Len(e) = Len(Rows[p].rhs) + Len(td)
               /\ \E J : Path(J, e) /\ J[1] = K[1]
<1> DEFINE rhs == Rows[p].rhs
           lhs == Rows[p].lhs
           r == Len(rhs)
           L == Len(td)
           t == Tail(td)
           c == rhs \o <<p>>
           e == c \o t
           k == K[1]
           U == Symbols
           J == [i \in 1 .. r + L + 1 |-> IF i <= r + 1 THEN k \o SubSeq(rhs, 1, i - 1) ELSE K[i - r]]
<1>1. L \in Nat \ {0} /\ Len(t) = L - 1 /\ t \in Seq(Texts) /\ \A i \in 1 .. L - 1 : t[i] = td[i + 1]
  BY EmptySeq, HeadTailProperties
<1>2. lhs \in U /\ rhs \in Seq(U) /\ r \in Nat
  BY LenProperties DEF Formed
<1>3. c \in Seq(Texts) /\ Len(c) = r + 1 /\ (\A i \in 1 .. r : c[i] = rhs[i]) /\ c[r + 1] = p
  <2>1. rhs \in Seq(Texts) /\ p \in Texts
    BY <1>2, SeqMonotonic DEF Texts
  <2>2. c = Append(rhs, p)
    BY <2>1, AppendIsConcat
  <2>3. QED  BY <2>1, <2>2, AppendProperties
<1>4. /\ e \in Seq(Texts) /\ Len(e) = r + 1 + (L - 1)
      /\ \A i \in 1 .. r + 1 + (L - 1) : e[i] = IF i <= r + 1 THEN c[i] ELSE t[i - (r + 1)]
  <2> HIDE DEF c, t, L, r, J
  <2>1. /\ c \o t \in Seq(Texts) /\ Len(c \o t) = Len(c) + Len(t)
        /\ \A i \in 1 .. Len(c) + Len(t) :
            (c \o t)[i] = IF i <= Len(c) THEN c[i] ELSE t[i - Len(c)]
    <3>1. c \in Seq(Texts) /\ t \in Seq(Texts)
      BY <1>1, <1>3
    <3>2. QED  BY ONLY <3>1, ConcatProperties
  <2>2. Len(c) + Len(t) = r + 1 + (L - 1)
    BY <1>1, <1>3
  <2> HIDE DEF e
  <2>3. QED  BY <1>3, <2>1, <2>2 DEF e
<1>5. /\ K \in [1 .. L + 1 -> Seq(U)] /\ \A i \in 1 .. L : Changes(K[i], td[i], K[i + 1])
      /\ K[L + 1] \in {<<"compile">>, <<"declare">>}
  BY DEF Path
<1>6. Changes(k, lhs, K[2])
  <2>1. Head(td) = td[1]
    OBVIOUS
  <2>2. QED  BY <1>1, <1>5, <2>1
<1>7. K[2] = Append(k, lhs)
  BY <1>2, <1>6 DEF Changes
<1>8. k \in Seq(U)
  BY <1>1, <1>5
<1>9. r + 1 + (L - 1) = r + L
  BY <1>1, <1>2
<1>10. Len(e) = r + L
  <2> HIDE DEF e, r, L
  <2>1. QED  BY <1>4, <1>9
<1> HIDE DEF rhs, lhs, t, c, U, k, L
<1>11. ASSUME NEW i \in 1 .. r + 1
       PROVE  SubSeq(rhs, 1, i - 1) \in Seq(U)
  <2>1. \A j \in 1 .. i - 1 : rhs[j] \in U
    <3>1. \A j \in 1 .. r : rhs[j] \in U
      BY <1>2, ElementOfSeq
    <3> HIDE DEF r
    <3>2. QED  BY <1>2, <3>1
  <2>2. 1 \in Int /\ i - 1 \in Int
    BY <1>2
  <2>3. QED  BY <2>1, <2>2, SubSeqProperties
<1> HIDE DEF r
<1>12. \A i \in 1 .. r + 1 : J[i] = k \o SubSeq(rhs, 1, i - 1)
  BY <1>1, <1>2
<1>13. \A i \in r + 2 .. r + L + 1 : J[i] = K[i - r]
  BY <1>1, <1>2
<1>14. J \in [1 .. r + L + 1 -> Seq(U)]
  <2>1. ASSUME NEW i \in 1 .. r + L + 1 PROVE J[i] \in Seq(U)
    <3>1. CASE i \in 1 .. r + 1
      BY <1>8, <1>11, <1>12, <3>1, ConcatProperties
    <3>2. CASE i \in r + 2 .. r + L + 1
      <4>1. i - r \in 1 .. L + 1
        BY <1>1, <1>2, <3>2
      <4>2. QED  BY <1>5, <1>13, <3>2, <4>1
    <3>3. QED  BY <1>2, <3>1, <3>2
  <2>2. J = [i \in 1 .. r + L + 1 |-> J[i]]
    OBVIOUS
  <2> HIDE DEF J
  <2>3. QED  BY <2>1, <2>2
<1> HIDE DEF J
<1>15. ASSUME NEW i \in 1 .. r PROVE Changes(J[i], e[i], J[i + 1])
  <2>1. /\ i \in 1 .. r + 1 /\ i + 1 \in 1 .. r + 1 /\ i + 1 - 1 = i /\ i \in 1 .. r + 1 + (L - 1)
        /\ i <= r + 1
    BY <1>1, <1>2
  <2>2. e[i] = rhs[i] /\ rhs[i] \in U
    <3>1. e[i] = c[i]
      BY <1>4, <2>1
    <3>2. rhs[i] \in U
      BY <1>2, ElementOfSeq DEF r
    <3>3. QED  BY <1>3, <3>1, <3>2
  <2>3. SubSeq(rhs, 1, i) = SubSeq(rhs, 1, i - 1) \o <<rhs[i]>>
    <3>1. 1 \in 1 .. Len(rhs) /\ i \in 1 .. Len(rhs)
      BY <1>2 DEF r
    <3>2. QED  BY <1>2, <3>1, SubSeqRecursiveSecond
  <2> DEFINE b == SubSeq(rhs, 1, i - 1)
  <2>4. b \in Seq(U)
    BY <1>11, <2>1
  <2>5. J[i] = k \o b /\ J[i + 1] = k \o (b \o <<rhs[i]>>)
    <3>1. PICK a : a = i + 1
      OBVIOUS
    <3>2. a \in 1 .. r + 1 /\ a - 1 = i
      BY <2>1, <3>1
    <3>3. J[a] = k \o SubSeq(rhs, 1, a - 1) /\ J[i] = k \o SubSeq(rhs, 1, i - 1)
      BY <1>12, <2>1, <3>2
    <3>4. SubSeq(rhs, 1, a - 1) = b \o <<rhs[i]>>
      BY <2>3, <3>2
    <3>5. J[i] = k \o b
      BY <3>3
    <3> HIDE DEF b
    <3>6. J[a] = k \o (b \o <<rhs[i]>>)
      BY <3>3, <3>4
    <3>7. QED  BY <3>1, <3>5, <3>6
  <2> HIDE DEF b
  <2>6. <<rhs[i]>> \in Seq(U)
    BY <2>2
  <2>7. (k \o b) \o <<rhs[i]>> = k \o (b \o <<rhs[i]>>)
    BY <1>8, <2>4, <2>6, ConcatAssociative, SMTT(30)
  <2>8. k \o b \in Seq(U)
    BY <1>8, <2>4, ConcatProperties
  <2>9. Append(k \o b, rhs[i]) = (k \o b) \o <<rhs[i]>>
    BY <2>2, <2>8, AppendIsConcat
  <2>10. QED  BY <2>2, <2>5, <2>7, <2>9 DEF Changes, U
<1>16. Changes(J[r + 1], e[r + 1], J[r + 2])
  <2>1. r + 1 \in 1 .. r + 1 /\ r + 1 - 1 = r /\ r + 2 \in r + 2 .. r + L + 1 /\ r + 2 - r = 2
        /\ r + 1 \in 1 .. r + 1 + (L - 1)
    BY <1>1, <1>2
  <2>2. e[r + 1] = p
    BY <1>3, <1>4, <2>1
  <2>3. J[r + 1] = k \o SubSeq(rhs, 1, r) /\ J[r + 2] = K[2]
    BY <1>1, <1>2, <1>12, <1>13, <2>1
  <2>4. SubSeq(rhs, 1, r) = rhs
    BY <1>2, SubSeqFull DEF r
  <2>5. \E P \in Seq(Symbols) : J[r + 1] = P \o Rows[p].rhs /\ J[r + 2] = Append(P, Rows[p].lhs)
    BY <1>7, <1>8, <2>3, <2>4 DEF U, rhs, lhs
  <2>6. QED  BY <2>2, <2>5 DEF Changes
<1>17. ASSUME NEW i \in r + 2 .. r + L PROVE Changes(J[i], e[i], J[i + 1])
  <2>1. /\ i \in r + 2 .. r + L + 1 /\ i + 1 \in r + 2 .. r + L + 1 /\ i - r \in 1 .. L
        /\ i + 1 - r = i - r + 1 /\ i \in 1 .. r + 1 + (L - 1) /\ ~(i <= r + 1)
        /\ i - (r + 1) \in 1 .. L - 1 /\ i - (r + 1) + 1 = i - r
    BY <1>1, <1>2
  <2>2. e[i] = td[i - r]
    <3>1. e[i] = t[i - (r + 1)]
      BY <1>4, <2>1
    <3>2. QED  BY <1>1, <2>1, <3>1
  <2>3. J[i] = K[i - r] /\ J[i + 1] = K[i - r + 1]
    BY <1>1, <1>2, <1>13, <2>1
  <2>4. QED  BY <1>5, <2>1, <2>2, <2>3
<1> HIDE DEF e
<1>18. \A i \in 1 .. r + L : Changes(J[i], e[i], J[i + 1])
  <2>1. ASSUME NEW i \in 1 .. r + L PROVE Changes(J[i], e[i], J[i + 1])
    <3>1. i \in 1 .. r \/ i = r + 1 \/ i \in r + 2 .. r + L
      BY <1>1, <1>2
    <3>2. r + 1 + 1 = r + 2
      BY <1>2
    <3>3. QED  BY <1>15, <1>16, <1>17, <3>1, <3>2
  <2>2. QED  BY <2>1
<1>19. J[r + L + 1] = K[L + 1]
  <2>1. r + L + 1 \in r + 2 .. r + L + 1 /\ r + L + 1 - r = L + 1
    BY <1>1, <1>2
  <2>2. QED  BY <1>1, <1>2, <1>13, <2>1
<1>20. Path(J, e)
  <2>1. Len(e) = r + L
    BY <1>10
  <2>2. QED  BY <1>5, <1>14, <1>18, <1>19, <2>1 DEF Path, U
<1>21. J[1] = k
  <2>1. 1 \in 1 .. r + 1 /\ 1 - 1 < 1 /\ 1 - 1 \in Int
    BY <1>2
  <2>2. SubSeq(rhs, 1, 1 - 1) = <<>>
    BY <2>1, SubSeqEmpty
  <2>3. J[1] = k \o SubSeq(rhs, 1, 1 - 1)
    BY <1>12, <2>1
  <2>4. k \o <<>> = k
    BY <1>8, ConcatEmptySeq
  <2>5. QED  BY <2>2, <2>3, <2>4
<1>22. QED  BY <1>4, <1>10, <1>20, <1>21 DEF e, r, L, t, c, k, rhs

\* The values that a production finds, under the values that stay.
LEMMA StackedParts ==
    ASSUME NEW row, Formed(row), NEW h, NEW vs, Len(vs) \in Nat, NEW P \in Seq(Symbols),
           Stacked(h, vs, P \o row.rhs)
    PROVE  /\ Len(row.rhs) <= Len(vs) /\ Len(P) = Len(vs) - Len(row.rhs)
           /\ \A i \in 1 .. Len(P) : Fits(h, vs[i], P[i])
           /\ \A i \in 1 .. Len(row.rhs) : Fits(h, vs[Len(vs) - Len(row.rhs) + i], row.rhs[i])
<1> DEFINE rhs == row.rhs
           r == Len(rhs)
           q == Len(P)
           S == P \o rhs
           V == Len(vs)
<1>1. rhs \in Seq(Symbols) /\ r \in Nat /\ q \in Nat
  BY LenProperties DEF Formed
<1> HIDE DEF rhs
<1>2. Len(S) = q + r /\ \A i \in 1 .. q + r : S[i] = IF i <= q THEN P[i] ELSE rhs[i - q]
  BY <1>1, ConcatProperties
<1>3. Len(S) = V /\ \A i \in 1 .. V : Fits(h, vs[i], S[i])
  BY DEF Stacked, rhs
<1> HIDE DEF r, q, S, V
<1>4. V = q + r
  BY <1>2, <1>3
<1>5. \A i \in 1 .. q : Fits(h, vs[i], P[i])
  BY <1>1, <1>2, <1>3, <1>4
<1>6. ASSUME NEW i \in 1 .. r PROVE Fits(h, vs[V - r + i], rhs[i])
  <2>1. PICK a : a = q + i
    OBVIOUS
  <2>2. a \in 1 .. V /\ a \in 1 .. q + r /\ ~(a <= q) /\ a - q = i /\ V - r + i = a
    BY <1>1, <1>4, <2>1
  <2>3. Fits(h, vs[a], S[a]) /\ S[a] = rhs[a - q]
    BY <1>2, <1>3, <2>2
  <2>4. QED  BY <2>2, <2>3
<1>7. r <= V /\ q = V - r
  BY <1>1, <1>4
<1>8. QED  BY <1>5, <1>6, <1>7 DEF r, q, V, rhs

\* A reduction leaves values of the symbols that it should.
LEMMA ReducedStack ==
    ASSUME NEW row, NEW h, NEW n, NEW vs, NEW named, NEW kept, NEW v, NEW nodes, NEW g, NEW f,
           Move(row, h, n, vs, named, kept, v, nodes, g, f), NEW P \in Seq(Symbols),
           Stacked(h, vs, P \o row.rhs)
    PROVE  Stacked(f, Append(kept, FlattenSeq(Looked(row.gives, v))), Append(P, row.lhs))
<1> DEFINE e == FlattenSeq(Looked(row.gives, v))
           N == n + Len(row.makes)
           t == Append(kept, e)
           T == Append(P, row.lhs)
           q == Len(P)
           lhs == row.lhs
           A == 0 .. N
<1>1. Step(row, h, n, vs, named, kept, v, nodes) /\ GrowsAs(row, h, n, named, nodes, g, f)
  BY DEF Move
<1>2. /\ Formed(row) /\ n \in Nat /\ vs \in Seq(Seq(0 .. n)) /\ Len(row.makes) \in Nat
      /\ Len(row.rhs) \in Nat
  BY <1>1, StepIs
<1>3. Len(vs) \in Nat
  BY <1>2, LenProperties
<1>4. q \in Nat /\ lhs \in Symbols
  BY <1>2, LenProperties DEF Formed
<1>5. q = Len(vs) - Len(row.rhs) /\ \A i \in 1 .. q : Fits(h, vs[i], P[i])
  BY <1>2, <1>3, StackedParts
<1>6. Len(kept) = q /\ \A i \in 1 .. q : kept[i] = vs[i]
  <2>1. NamedAs(named, kept, row, n, vs)
    BY <1>1 DEF Step, Before
  <2> HIDE DEF q
  <2>2. QED  BY <1>5, <2>1 DEF NamedAs
<1>7. kept \in Seq(Seq(0 .. n))
  BY <1>1 DEF Step, Before, NamedAs
<1>8. \A i \in 1 .. q : Fits(f, kept[i], P[i])
  BY <1>5, <1>6, KeptFit
<1>9. Fits(f, e, lhs)
  BY GivesFit
<1> HIDE DEF e, q, lhs
<1>10. /\ Len(T) = q + 1 /\ (\A i \in 1 .. q : T[i] = P[i]) /\ T[q + 1] = lhs
  <2>1. T = Append(P, lhs)
    BY DEF lhs
  <2>2. QED  BY <1>4, <2>1, AppendProperties DEF q
<1>11. /\ Len(t) = q + 1 /\ (\A i \in 1 .. q : t[i] = kept[i]) /\ t[q + 1] = e
  <2>1. t \in Seq(Seq(A))
    BY <1>1, ReduceLedger DEF e
  <2>2. kept \in Seq({kept[i] : i \in 1 .. q} \cup {e})
    <3> DEFINE B == {kept[i] : i \in 1 .. q} \cup {e}
    <3>1. \A i \in 1 .. Len(kept) : kept[i] \in B
      BY <1>6
    <3> HIDE DEF B
    <3>2. kept \in [1 .. Len(kept) -> B] /\ Len(kept) \in Nat
      <4>1. DOMAIN kept = 1 .. Len(kept) /\ Len(kept) \in Nat
            /\ kept \in [1 .. Len(kept) -> Seq(0 .. n)]
        BY <1>7, LenProperties
      <4>2. QED  BY <3>1, <4>1
    <3>3. QED  BY <3>2, FromFunction DEF B
  <2> DEFINE B == {kept[i] : i \in 1 .. q} \cup {e}
  <2>3. e \in B
    OBVIOUS
  <2> HIDE DEF B
  <2>4. kept \in Seq(B)
    BY <2>2 DEF B
  <2>5. QED  BY <1>6, <2>3, <2>4, AppendProperties
<1> HIDE DEF t, T
<1>12. ASSUME NEW i \in 1 .. q + 1 PROVE Fits(f, t[i], T[i])
  <2>1. i \in 1 .. q \/ i = q + 1
    BY <1>4
  <2>2. QED  BY <1>8, <1>9, <1>10, <1>11, <2>1
<1>13. Stacked(f, t, T)
  BY <1>10, <1>11, <1>12 DEF Stacked
<1>14. QED  BY <1>13 DEF t, T, e

-----------------------------------------------------------------------------
\* The numbers of the ledger are right, and the objects have their shapes.
Booked ==
    /\ IsHeap(heap, made) /\ values \in Seq(Seq(0 .. made)) /\ drops \in Seq(0 .. made)
    /\ Ledger(heap, values, drops) /\ Shapes(heap) /\ Acyclic(heap) /\ Unshared(heap, values)
    /\ todo \in Seq(Texts)
    /\ status \in {"parsing", "accepted", "dumping"} => Stacks(heap, values, todo)

\* A reduction that goes through.
LEMMA ReduceKeeps ==
    ASSUME Booked, status = "parsing", drops = <<>>, todo # <<>>, Head(todo) \in DOMAIN Rows, Reduce
    PROVE  Booked'
<1> DEFINE row == Rows[Head(todo)]
           named == Named(row)
           kept == Kept(row, values)
           v == ValuesOf(named)
           nodes == NodesBy(row, made, v)
           g == NewAll(heap, nodes)
           f == Grown(row, named, g)
<1>1. RowSound(row) /\ Formed(row)
  BY RowsSound DEF RowSound
<1>2. /\ IsHeap(heap, made) /\ values \in Seq(Seq(0 .. made)) /\ Ledger(heap, values, <<>>)
      /\ Shapes(heap) /\ Acyclic(heap) /\ Unshared(heap, values) /\ todo \in Seq(Texts)
  BY DEF Booked
<1>3. made \in Nat /\ Len(values) \in Nat
  BY <1>2, LenProperties DEF IsHeap
<1>4. PICK K : Path(K, todo) /\ Stacked(heap, values, K[1])
  BY DEF Booked, Stacks
<1>5. /\ Path([i \in 1 .. Len(todo) |-> K[i + 1]], Tail(todo))
      /\ Changes(K[1], Head(todo), K[2]) /\ Tail(todo) \in Seq(Texts)
  BY <1>2, <1>4, PathTail
<1>6. PICK P \in Seq(Symbols) : K[1] = P \o row.rhs /\ K[2] = Append(P, row.lhs)
  BY <1>5, RowsApart DEF Changes
<1> HIDE DEF row
<1>7. /\ Len(row.rhs) <= Len(values)
      /\ \A i \in 1 .. Len(row.rhs) : Fits(heap, values[Len(values) - Len(row.rhs) + i], row.rhs[i])
  BY <1>1, <1>3, <1>4, <1>6, StackedParts
<1>8. Typed(row, named, heap)
  <2>1. named = NamedBy(row, made, values)
    BY DEF Named, NamedBy
  <2>2. NamedAs(named, kept, row, made, values)
    BY <1>1, <1>2, <1>3, <1>7, <2>1, NamedIs
  <2>3. DOMAIN row.rhs = 1 .. Len(row.rhs)
    BY <1>1, RhsIs
  <2> HIDE DEF named
  <2>4. QED  BY <1>7, <2>2, <2>3 DEF Typed, NamedAs
<1>9. Before(row, heap, made, values, named, kept, v)
  BY <1>1, <1>2, <1>7, <1>8, ValuesAre
<1>10. /\ Nodes(row, named) = nodes
       /\ Joined(named, row.gives) = FlattenSeq(Looked(row.gives, v))
       /\ Joined(named, row.drops) = FlattenSeq(Looked(row.drops, v))
  BY <1>1, <1>2, <1>7, StepComputes
<1>11. /\ heap' = Grown(row, named, NewAll(heap, Nodes(row, named)))
       /\ made' = made + Len(row.makes) /\ values' = Append(kept, Joined(named, row.gives))
       /\ drops' = Joined(named, row.drops) /\ todo' = Tail(todo)
       /\ status' = status
  BY DEF Reduce, row, Kept
<1> HIDE DEF named, kept, v
<1>12. /\ heap' = f /\ values' = Append(kept, FlattenSeq(Looked(row.gives, v)))
       /\ drops' = FlattenSeq(Looked(row.drops, v))
  BY <1>10, <1>11
<1>13. MadeAs(nodes, row, made, v)
  BY <1>9, NodesAre
<1> HIDE DEF nodes
<1>14. Step(row, heap, made, values, named, kept, v, nodes)
  BY <1>2, <1>9, <1>13 DEF Step
<1>15. GrowsAs(row, heap, made, named, nodes, g, f)
  BY <1>14, GrowsAre
<1> HIDE DEF g, f
<1>16. Move(row, heap, made, values, named, kept, v, nodes, g, f)
  BY <1>2, <1>14, <1>15 DEF Move
<1>17. IsHeap(f, made')
  BY <1>11, <1>15 DEF GrowsAs
<1>18. values' \in Seq(Seq(0 .. made')) /\ drops' \in Seq(0 .. made') /\ Ledger(f, values', drops')
  BY <1>11, <1>12, <1>14, <1>15, ReduceLedger
<1>19. Shapes(f) /\ Acyclic(f)
  BY <1>2, <1>16, ReduceShapes, ReduceAcyclic
<1>20. Unshared(f, values')
  BY <1>2, <1>12, <1>14, <1>15, ReduceUnshared
<1>21. Stacked(f, values', Append(P, row.lhs))
  BY <1>4, <1>6, <1>12, <1>16, ReducedStack
<1>22. Stacks(f, values', todo')
  <2> DEFINE J == [i \in 1 .. Len(todo) |-> K[i + 1]]
  <2>1. J[1] = K[2]
    <3>1. Len(todo) \in Nat \ {0}
      BY <1>2, EmptySeq
    <3>2. 1 \in 1 .. Len(todo) /\ 1 + 1 = 2
      BY <3>1
    <3>3. QED  BY <3>2
  <2>2. Path(J, todo')
    BY <1>5, <1>11
  <2> HIDE DEF J
  <2>3. QED  BY <1>6, <1>21, <2>1, <2>2 DEF Stacks
<1>23. todo' \in Seq(Texts)
  BY <1>5, <1>11
<1>24. QED  BY <1>12, <1>17, <1>18, <1>19, <1>20, <1>22, <1>23 DEF Booked

\* Nothing occurs in an empty sequence.
LEMMA TimesNone == ASSUME NEW d, DOMAIN d = {}, NEW z PROVE Times(z, d) = 0
<1>1. {i \in DOMAIN d : d[i] = z} = {}
  OBVIOUS
<1>2. Cardinality({}) = 0
  BY FS_EmptySet
<1>3. QED  BY <1>1, <1>2 DEF Times

\* dec_ref on a null pointer.
LEMMA NullDropped ==
    ASSUME NEW h, NEW n, IsHeap(h, n), NEW vs \in Seq(Seq(0 .. n)), NEW d \in Seq(0 .. n), d # <<>>,
           Ledger(h, vs, d), Head(d) = 0
    PROVE  Tail(d) \in Seq(0 .. n) /\ Ledger(h, vs, Tail(d))
<1> DEFINE rest == Tail(d)
<1>1. d \in Seq(Nat) /\ n \in Nat
  BY HoldersAreNumbers DEF IsHeap
<1>2. rest \in Seq(0 .. n)
  BY HeadTailProperties
<1>3. ASSUME NEW z \in Nat \ {0} PROVE Times(z, d) = Times(z, rest)
  <2>1. Cardinality(Occurs(z, d)) = (IF Head(d) = z THEN 1 ELSE 0) + Cardinality(Occurs(z, Tail(d)))
    BY <1>1, OccursHead
  <2>2. /\ Times(z, d) = Cardinality(Occurs(z, d)) /\ Times(z, rest) = Cardinality(Occurs(z, rest))
        /\ Times(z, rest) \in Nat
    <3>1. rest \in Seq(Nat)
      BY <1>1, EmptySeq, HeadTailProperties
    <3> HIDE DEF rest
    <3>2. QED  BY <1>1, <3>1, TimesIs
  <2>3. QED  BY <2>1, <2>2
<1>4. Ledger(h, vs, rest)
  BY <1>3 DEF Ledger
<1>5. QED  BY <1>2, <1>4

\* What dec_ref does to the stack, if nothing on it is the object.
LEMMA LeftStacks ==
    ASSUME NEW h, NEW g, NEW vs, NEW td, NEW n, vs \in Seq(Seq(0 .. n)), Stacks(h, vs, td),
           \A i \in DOMAIN vs : \A symbol : Fits(h, vs[i], symbol) => Fits(g, vs[i], symbol)
    PROVE  Stacks(g, vs, td)
<1>1. PICK K : Path(K, td) /\ Stacked(h, vs, K[1])
  BY DEF Stacks
<1>2. DOMAIN vs = 1 .. Len(vs)
  BY LenProperties
<1>3. Stacked(g, vs, K[1])
  BY <1>1, <1>2 DEF Stacked
<1>4. QED  BY <1>1, <1>3 DEF Stacks

\* A dec_ref that is due goes through.
LEMMA DropNextKeeps ==
    ASSUME Booked, DropNext, status \notin {"accepted", "dumping"}
    PROVE  Booked' /\ status' = status
<1> DEFINE x == Head(drops)
           e == (IF heap[x].refs = 1
                             THEN Pointers(heap[x], Released(heap[x].class))
                             ELSE <<>>) \o Tail(drops)
<1>1. /\ IsHeap(heap, made) /\ values \in Seq(Seq(0 .. made)) /\ drops \in Seq(0 .. made)
      /\ Ledger(heap, values, drops) /\ Shapes(heap) /\ Acyclic(heap) /\ Unshared(heap, values)
      /\ todo \in Seq(Texts) /\ (status = "parsing" => Stacks(heap, values, todo)) /\ made \in Nat
  BY DEF Booked, IsHeap
<1>2. drops # <<>> /\ UNCHANGED <<todo, values, made>>
  BY DEF DropNext
<1>3. CASE x = 0
  <2>1. heap' = heap /\ drops' = Tail(drops) /\ status' = status
    BY <1>3 DEF DropNext, Null
  <2>2. drops' \in Seq(0 .. made) /\ Ledger(heap, values, drops')
    BY <1>1, <1>2, <1>3, <2>1, NullDropped
  <2>3. QED  BY <1>1, <1>2, <2>1, <2>2 DEF Booked
<1>4. CASE x # 0
  <2> DEFINE g == DecRef(heap, x)
  <2>1. /\ x \in DOMAIN heap /\ e \in Seq(0 .. made) /\ Ledger(g, values, e)
        /\ heap[x].refs = 1 => Count(x, Link(heap), Slots(heap)) = 0
        /\ Count(x, values, DOMAIN values) # 0 => heap[x].refs # 1
    BY <1>1, <1>2, <1>4, DropKeeps
  <2>2. heap' = g /\ drops' = e /\ status' = status
    BY <1>4, <2>1 DEF DropNext, Null
  <2> HIDE DEF e, x
  <2>3. IsHeap(g, made) /\ LeftBy(x, heap, g) /\ (x \in DOMAIN g <=> heap[x].refs # 1)
    BY <1>1, <2>1, DecRefIs
  <2> HIDE DEF g
  <2>4. Shapes(g)
    BY <1>1, <2>1, <2>3, LeftShapes
  <2>5. Acyclic(g)
    BY <1>1, <2>3, LeftAcyclic
  <2>6. /\ Unshared(g, values)
        /\ \A i \in DOMAIN values : \A symbol : Fits(heap, values[i], symbol) => Fits(g, values[i], symbol)
    BY <1>1, <1>4, <2>1, <2>3, LeftStack
  <2>7. status = "parsing" => Stacks(g, values, todo)
    BY <1>1, <2>6, LeftStacks
  <2>8. QED  BY <1>1, <1>2, <2>1, <2>2, <2>3, <2>4, <2>5, <2>6, <2>7 DEF Booked
<1>5. QED  BY <1>3, <1>4

\* The result is one object, and nothing else is on the stack.
LEMMA ResultIs ==
    ASSUME Booked, status \in {"parsing", "accepted", "dumping"}, todo = <<>>
    PROVE  /\ Len(values) = 1 /\ values[1] \in Seq(0 .. made) /\ Len(values[1]) = 1
           /\ values[1][1] \in DOMAIN heap
<1>1. PICK K : Path(K, <<>>) /\ Stacked(heap, values, K[1])
  BY DEF Booked, Stacks
<1>2. K[1] \in {<<"compile">>, <<"declare">>}
  <2> DEFINE td == <<>>
  <2>1. Len(td) = 0 /\ 0 + 1 = 1
    BY EmptySeq
  <2> HIDE DEF td
  <2>2. Path(K, td)
    BY <1>1 DEF td
  <2>3. K[0 + 1] \in {<<"compile">>, <<"declare">>}
    BY <2>1, <2>2 DEF Path
  <2>4. QED  BY <2>1, <2>3
<1>3. PICK s \in {"compile", "declare"} : K[1] = <<s>>
  BY <1>2
<1>4. Len(values) = 1 /\ Fits(heap, values[1], s)
  <2>1. Len(K[1]) = 1 /\ K[1][1] = s
    BY <1>3
  <2>2. 1 \in 1 .. 1
    OBVIOUS
  <2>3. QED  BY <1>1, <2>1, <2>2 DEF Stacked
<1>5. \E c \in DOMAIN Modes : Single(s, c)
  BY <1>3, KindsKnown DEF Single
<1>6. Len(values[1]) = 1 /\ values[1][1] \in DOMAIN heap
  BY <1>4, <1>5 DEF Fits, IsA
<1>7. values[1] \in Seq(0 .. made)
  <2>1. values \in Seq(Seq(0 .. made)) /\ 1 \in 1 .. Len(values)
    BY <1>4 DEF Booked
  <2>2. QED  BY <2>1, ElementOfSeq
<1>8. QED  BY <1>4, <1>6, <1>7

\* The result becomes what is dropped.
LEMMA ResultDropped ==
    ASSUME Booked, status \in {"accepted", "dumping"}, todo = <<>>, drops = <<>>, DropResult
    PROVE  Booked'
<1>1. /\ IsHeap(heap, made) /\ values \in Seq(Seq(0 .. made))
      /\ Ledger(heap, values, <<>>) /\ Shapes(heap) /\ Acyclic(heap) /\ todo \in Seq(Texts)
      /\ made \in Nat
  BY DEF Booked, IsHeap
<1>2. /\ UNCHANGED <<todo, heap, made>> /\ drops' = values[1] /\ status' = "dropping"
      /\ values' = <<>>
  BY DEF DropResult
<1>3. Len(values) = 1 /\ values[1] \in Seq(0 .. made) /\ DOMAIN values = {1}
  <2>1. Len(values) = 1 /\ values[1] \in Seq(0 .. made)
    BY ResultIs
  <2>2. DOMAIN values = 1 .. 1
    BY <1>1, <2>1, LenProperties
  <2>3. QED  BY <2>1, <2>2
<1> DEFINE vs == <<>>
           d == <<>>
           w == values[1]
<1>4. vs \in Seq(Seq(0 .. made)) /\ DOMAIN vs = {} /\ d \in Seq(0 .. made) /\ DOMAIN d = {}
  BY EmptySeq
<1> HIDE DEF vs, d, w
<1>5. ASSUME NEW z \in Nat \ {0}
      PROVE  Refs(heap, z) = Count(z, Link(heap), Slots(heap)) + Count(z, vs, DOMAIN vs) + Times(z, w)
  <2>1. Refs(heap, z) = Count(z, Link(heap), Slots(heap)) + Count(z, values, DOMAIN values) + Times(z, d)
    BY <1>1 DEF Ledger, d
  <2>2. Count(z, vs, DOMAIN vs) = 0
    BY <1>4, SpotsEmpty
  <2>3. Times(z, d) = 0
    BY <1>4, TimesNone
  <2>4. w \in Seq(Nat)
    BY <1>1, <1>3, HoldersAreNumbers DEF w
  <2>5. Count(z, values, DOMAIN values) = Times(z, w) /\ Times(z, w) \in Nat
    <3>1. Countable(values, {1}) /\ Count(z, values, {1}) = Times(z, values[1])
          /\ Times(z, values[1]) \in Nat
      <4>1. values[1] \in Seq(Nat)
        BY <2>4 DEF w
      <4>2. QED  BY <4>1, SpotsOne
    <3>2. QED  BY <1>3, <3>1 DEF w
  <2>6. Count(z, Link(heap), Slots(heap)) \in Nat
    BY <1>1, <1>3, HoldersAreNumbers
  <2>7. QED  BY <2>1, <2>2, <2>3, <2>5, <2>6
<1>6. Ledger(heap, vs, w)
  BY <1>5 DEF Ledger
<1>7. Unshared(heap, vs)
  BY <1>4 DEF Unshared
<1>8. values' = vs /\ drops' = w
  BY <1>2 DEF vs, w
<1>9. w \in Seq(0 .. made)
  BY <1>3 DEF w
<1>10. QED  BY <1>1, <1>2, <1>4, <1>6, <1>7, <1>8, <1>9 DEF Booked

\* Nothing is booked when parsing starts.
LEMMA InitBooked == ASSUME Init PROVE Booked
<1> DEFINE vs == <<>>
           d == <<>>
           h == <<>>
<1>1. values = vs /\ drops = d /\ heap = h /\ made = 0 /\ status = "parsing"
  BY DEF Init
<1>2. DOMAIN vs = {} /\ DOMAIN d = {} /\ DOMAIN h = {} /\ d \in Seq(0 .. 0) /\ vs \in Seq(Seq(0 .. 0))
      /\ Len(vs) = 0
  BY EmptySeq
<1> HIDE DEF vs, d, h
<1>3. IsHeap(h, 0) /\ Shapes(h) /\ Acyclic(h) /\ Unshared(h, vs)
  BY <1>2 DEF IsHeap, Shapes, Acyclic, Unshared
<1>4. Ledger(h, vs, d)
  <2>1. ASSUME NEW z \in Nat \ {0}
        PROVE  Refs(h, z) = Count(z, Link(h), Slots(h)) + Count(z, vs, DOMAIN vs) + Times(z, d)
    <3>1. Refs(h, z) = 0 /\ Slots(h) = {}
      BY <1>2 DEF Refs, Slots
    <3>2. Times(z, d) = 0
      BY <1>2, TimesNone
    <3>3. Count(z, Link(h), {}) = 0 /\ Count(z, vs, {}) = 0
      BY SpotsEmpty
    <3>4. QED  BY <1>2, <3>1, <3>2, <3>3
  <2>2. QED  BY <2>1 DEF Ledger
<1>5. PICK s \in {"compile", "declare"} : todo = <<s>>
  BY DEF Init
<1>6. s \in Symbols
  BY DEF Symbols
<1>7. todo \in Seq(Texts) /\ Len(todo) = 1 /\ todo[1] = s
  BY <1>5, <1>6 DEF Texts
<1>8. Stacks(h, vs, todo)
  <2> DEFINE k == <<>>
             l == <<s>>
             K == [i \in 1 .. 2 |-> IF i = 1 THEN k ELSE l]
  <2>1. k \in Seq(Symbols) /\ l \in Seq(Symbols) /\ l \in {<<"compile">>, <<"declare">>}
    BY <1>5, <1>6, EmptySeq
  <2>2. Append(k, s) = l /\ Len(k) = 0
    OBVIOUS
  <2> HIDE DEF k, l
  <2>3. K[1] = k /\ K[2] = l /\ K \in [1 .. 2 -> Seq(Symbols)]
    BY <2>1
  <2> HIDE DEF K
  <2>4. Changes(K[1], s, K[2])
    BY <1>6, <2>2, <2>3 DEF Changes
  <2>5. Path(K, todo)
    <3>1. 1 .. 1 = {1} /\ 1 + 1 = 2
      OBVIOUS
    <3>2. \A i \in 1 .. Len(todo) : Changes(K[i], todo[i], K[i + 1])
      <4>1. ASSUME NEW i \in 1 .. Len(todo) PROVE Changes(K[i], todo[i], K[i + 1])
        <5>1. i = 1 /\ i + 1 = 2
          BY <1>7
        <5>2. QED  BY <1>7, <2>4, <5>1
      <4>2. QED  BY <4>1
    <3>3. QED  BY <1>7, <2>1, <2>3, <3>1, <3>2 DEF Path
  <2>6. Stacked(h, vs, K[1])
    BY <1>2, <2>2, <2>3 DEF Stacked
  <2>7. QED  BY <2>5, <2>6 DEF Stacks
<1>9. QED  BY <1>1, <1>2, <1>3, <1>4, <1>7, <1>8 DEF Booked

\* What the dump may come to that it cannot use: y is a deleted body, or a null label.
Faulty(h, y) ==
    /\ y \notin DOMAIN h
    /\ \E x \in DOMAIN h :
        LET k == IF y = Null THEN 1 ELSE 4
        IN  /\ h[x].class = (IF y = Null THEN "Case" ELSE "For")
            /\ Contains(h[x].members[k], y)

\* Where the program is, and what is left to do then.
Phases ==
    /\ status \in {"accepted", "dumping"} => drops = <<>> /\ todo = <<>>
    /\ status \in {"dropping", "dropped"} => values = <<>>
    /\ status = "dropped" => drops = <<>>
    /\ status = "undefined" =>
        /\ drops = <<>>
        /\ \/ todo # <<>> /\ Head(todo) = "CaseBody" /\ Last(values) = <<>>
           \/ dumping # <<>> /\ Faulty(heap, Head(dumping))
    /\ status = "dumping" =>
        \A i \in DOMAIN dumping : dumping[i] \in DOMAIN heap \/ Faulty(heap, dumping[i])

\* A text is read up to its length, but for the start rule.
Bounded ==
    /\ study \in Studies /\ read \in Nat /\ status \in Statuses /\ dumping \in Seq(0 .. made)
    /\ read + Len(todo) <= study.length \/ (read = 0 /\ todo \in {<<"compile">>, <<"declare">>})

IInv == Booked /\ Phases /\ Bounded

\* What the assumption on Studies says of one.
LEMMA StudyIs == ASSUME study \in Studies PROVE study.rows \subseteq DOMAIN Rows /\ study.length \in Nat
BY StudiesAssumption

\* The invariant holds initially.
LEMMA InitIInv == Init => IInv
<1> SUFFICES ASSUME Init PROVE IInv
  OBVIOUS
<1>1. Booked
  BY InitBooked
<1>2. Phases
  BY DEF Init, Phases
<1>3. Bounded
  <2>1. dumping \in Seq(0 .. made)
    BY DEF Init
  <2>2. PICK s \in {"compile", "declare"} : todo = <<s>>
    BY DEF Init
  <2>3. QED  BY <2>1, <2>2 DEF Init, Bounded, Statuses
<1>4. QED  BY <1>1, <1>2, <1>3 DEF IInv

\* The invariant when the text goes on.
LEMMA ExpectIInv == ASSUME IInv, NEW p \in study.rows, Expect(p) PROVE IInv'
<1>1. /\ study \in Studies /\ p \in DOMAIN Rows /\ todo \in Seq(Texts) /\ todo # <<>>
      /\ read \in Nat /\ study.length \in Nat
  BY StudyIs DEF IInv, Bounded, Booked, Expect
<1> DEFINE e == Rows[p].rhs \o <<p>> \o Tail(todo)
<1>2. /\ Head(todo) = Rows[p].lhs /\ read + Len(todo) + Len(Rows[p].rhs) <= study.length
      /\ todo' = e /\ status = "parsing" /\ drops = <<>>
      /\ UNCHANGED <<study, values, heap, made, read, drops, dumping, status>>
  BY DEF Expect, Parsing
<1>3. Formed(Rows[p]) /\ Len(Rows[p].rhs) \in Nat /\ Len(todo) \in Nat
  BY <1>1, RowsSound, RhsIs, LenProperties DEF RowSound
<1>4. PICK K : Path(K, todo) /\ Stacked(heap, values, K[1])
  BY <1>2 DEF IInv, Booked, Stacks
<1>5. e \in Seq(Texts) /\ Len(e) = Len(Rows[p].rhs) + Len(todo) /\ \E J : Path(J, e) /\ J[1] = K[1]
  BY <1>1, <1>2, <1>3, <1>4, RowsApart, PathOpened
<1> HIDE DEF e
<1>6. Stacks(heap, values, e)
  BY <1>4, <1>5 DEF Stacks
<1>7. Booked'
  BY <1>2, <1>5, <1>6 DEF Booked, IInv
<1>8. read + Len(e) <= study.length
  <2>1. PICK a, b : a = Len(Rows[p].rhs) /\ b = Len(todo)
    OBVIOUS
  <2>2. a \in Nat /\ b \in Nat /\ read + b + a <= study.length /\ Len(e) = a + b
    BY <1>2, <1>3, <1>5, <2>1
  <2>3. QED  BY <1>1, <2>2
<1>9. Bounded'
  BY <1>2, <1>8 DEF Bounded, IInv
<1>10. Phases'
  BY <1>2 DEF Phases, IInv
<1>11. QED  BY <1>7, <1>9, <1>10 DEF IInv

\* The invariant after a semantic action.
LEMMA ReduceIInv == ASSUME IInv, Reduce PROVE IInv'
<1>1. /\ study \in Studies /\ todo \in Seq(Texts) /\ todo # <<>> /\ status = "parsing" /\ drops = <<>>
      /\ read \in Nat /\ study.length \in Nat /\ Head(todo) \in DOMAIN Rows /\ Booked
      /\ made \in Nat /\ dumping \in Seq(0 .. made)
  BY StudyIs DEF IInv, Bounded, Booked, Reduce, Parsing, IsHeap
<1>2. Booked'
  BY <1>1, ReduceKeeps
<1>3. /\ made' = made + Len(Rows[Head(todo)].makes) /\ todo' = Tail(todo) /\ read' = read + 1
      /\ UNCHANGED <<study, dumping, status>>
  BY DEF Reduce
<1>4. dumping' \in Seq(0 .. made')
  <2>1. Len(Rows[Head(todo)].makes) \in Nat
    BY <1>1, RowsSound, RhsIs DEF RowSound
  <2>2. 0 .. made \subseteq 0 .. made'
    BY <1>1, <1>3, <2>1
  <2>3. QED  BY <1>1, <1>3, <2>2, SeqMonotonic
<1>5. todo \notin {<<"compile">>, <<"declare">>}
  <2>1. ASSUME NEW s \in {"compile", "declare"}, todo = <<s>> PROVE FALSE
    <3>1. Head(todo) = s
      BY <2>1
    <3>2. s \in Symbols
      BY DEF Symbols
    <3>3. QED  BY <1>1, <3>1, <3>2, RowsApart
  <2>2. QED  BY <2>1
<1>6. read' + Len(todo') <= study.length /\ read' \in Nat
  <2>1. read + Len(todo) <= study.length
    BY <1>5 DEF IInv, Bounded
  <2>2. Len(todo) \in Nat /\ Len(Tail(todo)) = Len(todo) - 1
    BY <1>1, HeadTailProperties, LenProperties
  <2>3. QED  BY <1>1, <1>3, <2>1, <2>2
<1>7. Bounded'
  BY <1>3, <1>4, <1>6 DEF Bounded, IInv
<1>8. Phases'
  BY <1>1, <1>3 DEF Phases
<1>9. QED  BY <1>2, <1>7, <1>8 DEF IInv

\* The invariant when parsing ends, one way or another.
LEMMA StopIInv == ASSUME IInv, EmptyCaseBody \/ Reject \/ Finish PROVE IInv'
<1>1. /\ UNCHANGED <<study, todo, values, heap, made, read, drops, dumping>>
      /\ status = "parsing" /\ drops = <<>> /\ status' \in {"undefined", "rejected", "accepted"}
      /\ status' = "accepted" => todo = <<>>
      /\ status' = "undefined" => todo # <<>> /\ Head(todo) = "CaseBody" /\ Last(values) = <<>>
  BY DEF EmptyCaseBody, Reject, Finish, Parsing
<1>2. Booked'
  BY <1>1 DEF Booked, IInv
<1>3. Bounded'
  BY <1>1 DEF Bounded, IInv, Statuses
<1>4. Phases'
  BY <1>1 DEF Phases
<1>5. QED  BY <1>2, <1>3, <1>4 DEF IInv

\* The invariant after a dec_ref.
LEMMA DropNextIInv == ASSUME IInv, DropNext PROVE IInv'
<1>1. /\ UNCHANGED <<study, todo, values, made, read, dumping>> /\ drops # <<>> /\ status # "undefined"
  BY DEF DropNext
<1>2. status \notin {"accepted", "dumping", "dropped"}
  BY <1>1 DEF IInv, Phases
<1>3. Booked' /\ status' = status
  BY <1>2, DropNextKeeps DEF IInv
<1>4. Bounded'
  BY <1>1, <1>3 DEF Bounded, IInv
<1>5. Phases'
  BY <1>1, <1>2, <1>3 DEF Phases, IInv
<1>6. QED  BY <1>3, <1>4, <1>5 DEF IInv

\* The invariant when a dump begins.
LEMMA DumpIInv == ASSUME IInv, Dump PROVE IInv'
<1>1. /\ UNCHANGED <<study, todo, values, heap, made, read, drops>> /\ status = "accepted"
      /\ dumping' = <<values[1][1]>> /\ status' = "dumping"
  BY DEF Dump, Result
<1>2. drops = <<>> /\ todo = <<>>
  BY <1>1 DEF IInv, Phases
<1>3. values[1][1] \in DOMAIN heap /\ DOMAIN heap \subseteq 0 .. made
  BY <1>1, <1>2, ResultIs DEF IInv, Booked, IsHeap
<1>4. Booked'
  BY <1>1 DEF Booked, IInv
<1> DEFINE y == values[1][1]
<1>5. dumping' \in Seq(0 .. made) /\ \A i \in DOMAIN dumping' : dumping'[i] \in DOMAIN heap
  <2>1. y \in DOMAIN heap /\ y \in 0 .. made /\ dumping' = <<y>>
    BY <1>1, <1>3
  <2> HIDE DEF y
  <2>2. QED  BY <2>1
<1>6. Bounded'
  BY <1>1, <1>5 DEF Bounded, IInv, Statuses
<1>7. Phases'
  BY <1>1, <1>2, <1>5 DEF Phases
<1>8. QED  BY <1>4, <1>6, <1>7 DEF IInv

\* What the dump goes on to.
LEMMA MembersDumped ==
    ASSUME NEW h, NEW n, IsHeap(h, n), NEW vs \in Seq(Seq(0 .. n)), NEW d \in Seq(0 .. n),
           Ledger(h, vs, d), Shapes(h), NEW x \in DOMAIN h, NEW K
    PROVE  LET e == Pointers(h[x], K)
           IN  e \in Seq(0 .. n) /\ \A i \in DOMAIN e : e[i] \in DOMAIN h \/ Faulty(h, e[i])
<1> DEFINE mem == h[x].members
           ss == [k \in DOMAIN mem |-> IF k \in K THEN mem[k] ELSE <<>>]
           e == FlattenSeq(ss)
           S == 0 .. n
<1>1. mem \in Seq(Seq(S)) /\ n \in Nat /\ \A k \in DOMAIN mem : mem[k] \in Seq(S)
  BY HeapIs
<1>2. Len(mem) \in Nat /\ DOMAIN mem = 1 .. Len(mem)
  BY <1>1, LenProperties
<1>3. S \in SUBSET Nat
  BY <1>1
<1>4. ss \in Seq(Seq(S))
  <2>1. <<>> \in Seq(S)
    BY EmptySeq
  <2>2. ss \in [1 .. Len(mem) -> Seq(S)]
    <3> HIDE DEF mem, S
    <3>1. QED  BY <1>1, <1>2, <2>1
  <2>3. QED  BY <1>2, <2>2, FromFunction
<1>5. Pointers(h[x], K) = e
  BY DEF Pointers
<1>6. \A q \in DOMAIN ss : \A j \in DOMAIN ss[q] : j \in DOMAIN mem[q] /\ ss[q][j] = mem[q][j] /\ q \in DOMAIN mem
  <2>1. ASSUME NEW q \in DOMAIN ss, NEW j \in DOMAIN ss[q]
        PROVE  j \in DOMAIN mem[q] /\ ss[q][j] = mem[q][j] /\ q \in DOMAIN mem
    <3>1. q \in DOMAIN mem /\ ss[q] = IF q \in K THEN mem[q] ELSE <<>>
      OBVIOUS
    <3> DEFINE d0 == <<>>
    <3>2. DOMAIN d0 = {}
      BY EmptySeq
    <3> HIDE DEF ss, mem, d0
    <3>3. ss[q] = mem[q] \/ ss[q] = d0
      BY <3>1 DEF d0
    <3>4. QED  BY <3>1, <3>2, <3>3
  <2> HIDE DEF ss, mem
  <2>2. QED  BY <2>1
<1> HIDE DEF ss, mem
<1>7. e \in Seq(S)
  <2> HIDE DEF S
  <2>1. QED  BY <1>3, <1>4, FlattenTimes
<1>8. ASSUME NEW i \in DOMAIN e PROVE e[i] \in DOMAIN h \/ Faulty(h, e[i])
  <2>1. PICK q \in DOMAIN ss : \E j \in DOMAIN ss[q] : ss[q][j] = e[i]
    <3> DEFINE z == e[i]
    <3>1. \E j \in DOMAIN FlattenSeq(ss) : FlattenSeq(ss)[j] = z
      BY <1>8
    <3> HIDE DEF S, e, z
    <3>2. \E q \in DOMAIN ss : \E j \in DOMAIN ss[q] : ss[q][j] = z
      BY <1>3, <1>4, <3>1, FlattenHas
    <3>3. QED  BY <3>2 DEF z
  <2>2. PICK j \in DOMAIN ss[q] : ss[q][j] = e[i]
    BY <2>1
  <2>3. j \in DOMAIN mem[q] /\ mem[q][j] = e[i] /\ q \in DOMAIN mem
    BY <1>6, <2>2
  <2>4. mem[q][j] \in S
    <3>1. mem[q] \in Seq(S)
      BY <1>1, <2>3
    <3> HIDE DEF S
    <3>2. QED  BY <2>3, <3>1, ElementOfSeq, LenProperties
  <2>5. CASE e[i] = 0
    <3>1. h[x].class = "Case" /\ q = 1
      BY <2>3, <2>5 DEF Shapes, ShapeOf, mem, Null
    <3>2. Contains(h[x].members[1], Null)
      <4>1. mem[1] \in Seq(S) /\ j \in DOMAIN mem[1] /\ mem[1][j] = Null
        BY <1>1, <2>3, <2>5, <3>1 DEF Null
      <4> HIDE DEF S
      <4>2. j \in 1 .. Len(mem[1])
        BY <4>1, LenProperties
      <4>3. Contains(mem[1], Null)
        BY <4>1, <4>2 DEF Contains
      <4>4. QED  BY <4>3 DEF mem
    <3>3. 0 \notin DOMAIN h
      BY HeapIs
    <3>4. Faulty(h, Null)
      BY <3>1, <3>2, <3>3 DEF Faulty, Null
    <3>5. QED  BY <2>5, <3>4 DEF Null
  <2>6. CASE e[i] # 0
    <3>1. e[i] \in Nat \ {0}
      BY <1>1, <2>3, <2>4, <2>6
    <3>2. CASE q \in Released(h[x].class)
      <4>1. Owns(h, x, e[i])
        BY <2>3, <3>2 DEF Owns, mem
      <4>2. QED  BY <3>1, <4>1, HeldLives
    <3>3. CASE q \notin Released(h[x].class)
      <4>1. h[x].class = "For" /\ q \in DOMAIN Modes["For"]
        BY <2>3, <3>3, HeapIs DEF mem
      <4>2. q = 4
        BY <3>3, <4>1, ForKnown DEF Released
      <4>3. mem[4] \in Seq(S) /\ j \in DOMAIN mem[4] /\ mem[4][j] = e[i]
        BY <1>1, <2>3, <4>2
      <4>4. Contains(mem[4], e[i])
        <5> DEFINE z == e[i]
        <5>1. mem[4][j] = z
          BY <4>3
        <5> HIDE DEF S, z
        <5>2. j \in 1 .. Len(mem[4])
          BY <4>3, LenProperties
        <5>3. Contains(mem[4], z)
          BY <5>1, <5>2 DEF Contains
        <5>4. QED  BY <5>3 DEF z
      <4>5. ASSUME e[i] \notin DOMAIN h PROVE Faulty(h, e[i])
        BY <2>6, <4>1, <4>4, <4>5 DEF Faulty, Null, mem
      <4>6. QED  BY <4>5
    <3>4. QED  BY <3>2, <3>3
  <2>7. QED  BY <2>5, <2>6
<1>9. QED  BY <1>5, <1>7, <1>8 DEF S

\* The invariant after one object was dumped.
LEMMA DumpNextIInv == ASSUME IInv, DumpNext PROVE IInv'
<1> DEFINE x == Head(dumping)
           rest == Tail(dumping)
           e == Pointers(heap[x], Dumped(heap[x].class))
<1>1. /\ UNCHANGED <<study, todo, values, heap, made, read, drops>> /\ status = "dumping"
      /\ dumping # <<>> /\ dumping \in Seq(0 .. made)
  BY DEF DumpNext, IInv, Bounded
<1>2. drops = <<>> /\ todo = <<>> /\ \A i \in DOMAIN dumping : dumping[i] \in DOMAIN heap \/ Faulty(heap, dumping[i])
  BY <1>1 DEF IInv, Phases
<1>3. Booked'
  <2>1. status' \in {"dumping", "undefined"}
    BY <1>1 DEF DumpNext
  <2>2. QED  BY <1>1, <2>1 DEF Booked, IInv
<1>4. /\ Len(dumping) \in Nat \ {0} /\ DOMAIN dumping = 1 .. Len(dumping)
      /\ rest \in Seq(0 .. made) /\ Len(rest) = Len(dumping) - 1
      /\ \A i \in 1 .. Len(rest) : rest[i] = dumping[i + 1]
  BY <1>1, EmptySeq, LenProperties, HeadTailProperties
<1>5. x = dumping[1] /\ 1 \in DOMAIN dumping
  BY <1>4
<1> HIDE DEF x, rest
<1>6. CASE x \in DOMAIN heap
  <2>1. dumping' = e \o rest /\ status' = status
    BY <1>6 DEF DumpNext, x, rest
  <2>2. e \in Seq(0 .. made) /\ \A i \in DOMAIN e : e[i] \in DOMAIN heap \/ Faulty(heap, e[i])
    BY <1>6, MembersDumped DEF IInv, Booked
  <2> HIDE DEF e
  <2>3. /\ e \o rest \in Seq(0 .. made) /\ Len(e \o rest) = Len(e) + Len(rest)
        /\ \A i \in 1 .. Len(e) + Len(rest) :
            (e \o rest)[i] = IF i <= Len(e) THEN e[i] ELSE rest[i - Len(e)]
    BY <1>4, <2>2, ConcatProperties
  <2>4. Len(e) \in Nat /\ DOMAIN e = 1 .. Len(e)
    BY <2>2, LenProperties
  <2>5. ASSUME NEW i \in DOMAIN (e \o rest) PROVE (e \o rest)[i] \in DOMAIN heap \/ Faulty(heap, (e \o rest)[i])
    <3>1. i \in 1 .. Len(e) + Len(rest)
      BY <2>3, LenProperties
    <3>2. CASE i <= Len(e)
      <4>1. i \in DOMAIN e /\ (e \o rest)[i] = e[i]
        BY <2>3, <2>4, <3>1, <3>2
      <4>2. QED  BY <2>2, <4>1
    <3>3. CASE ~(i <= Len(e))
      <4>1. PICK a : a = i - Len(e)
        OBVIOUS
      <4>2. a \in 1 .. Len(rest) /\ (e \o rest)[i] = rest[a]
        BY <1>4, <2>3, <2>4, <3>1, <3>3, <4>1
      <4>3. a + 1 \in 1 .. Len(dumping) /\ rest[a] = dumping[a + 1]
        BY <1>4, <4>2
      <4>4. QED  BY <1>2, <1>4, <4>2, <4>3
    <3>4. QED  BY <3>2, <3>3
  <2>6. Bounded'
    BY <1>1, <2>1, <2>3 DEF Bounded, IInv
  <2>7. Phases'
    BY <1>1, <1>2, <2>1, <2>5 DEF Phases
  <2>8. QED  BY <1>3, <2>6, <2>7 DEF IInv
<1>7. CASE x \notin DOMAIN heap
  <2>1. status' = "undefined" /\ dumping' = dumping
    BY <1>7 DEF DumpNext, x
  <2>2. Faulty(heap, Head(dumping))
    BY <1>2, <1>5, <1>7 DEF x
  <2>3. Bounded'
    BY <1>1, <2>1 DEF Bounded, IInv, Statuses
  <2>4. Phases'
    BY <1>1, <1>2, <2>1, <2>2 DEF Phases
  <2>5. QED  BY <1>3, <2>3, <2>4 DEF IInv
<1>8. QED  BY <1>6, <1>7

\* The invariant when the result is given up.
LEMMA DropResultIInv == ASSUME IInv, DropResult PROVE IInv'
<1>1. /\ UNCHANGED <<study, todo, heap, made, read, dumping>> /\ status \in {"accepted", "dumping"}
      /\ status' = "dropping" /\ values' = <<>>
  BY DEF DropResult
<1>2. drops = <<>> /\ todo = <<>>
  BY <1>1 DEF IInv, Phases
<1>3. Booked'
  BY <1>1, <1>2, ResultDropped DEF IInv
<1>4. Bounded'
  BY <1>1 DEF Bounded, IInv, Statuses
<1>5. Phases'
  BY <1>1 DEF Phases
<1>6. QED  BY <1>3, <1>4, <1>5 DEF IInv

\* The invariant when nothing is left to drop.
LEMMA DroppedIInv == ASSUME IInv, Dropped PROVE IInv'
<1>1. /\ UNCHANGED <<study, todo, values, heap, made, read, drops, dumping>> /\ status = "dropping"
      /\ status' = "dropped" /\ drops = <<>>
  BY DEF Dropped
<1>2. Booked'
  BY <1>1 DEF Booked, IInv
<1>3. Bounded'
  BY <1>1 DEF Bounded, IInv, Statuses
<1>4. Phases'
  BY <1>1 DEF Phases, IInv
<1>5. QED  BY <1>2, <1>3, <1>4 DEF IInv

\* The invariant when nothing changes.
LEMMA StutterIInv == ASSUME IInv, UNCHANGED vars PROVE IInv'
<1>1. UNCHANGED <<study, todo, values, heap, made, read, drops, dumping, status>>
  BY DEF vars
<1>2. Booked' /\ Phases' /\ Bounded'
  BY <1>1 DEF Booked, Phases, Bounded, IInv
<1>3. QED  BY <1>2 DEF IInv

\* The invariant is inductive.
LEMMA NextIInv == IInv /\ [Next]_vars => IInv'
<1> SUFFICES ASSUME IInv, [Next]_vars PROVE IInv'
  OBVIOUS
<1>1. ASSUME NEW p \in study.rows, Expect(p) PROVE IInv'
  BY <1>1, ExpectIInv
<1>2. CASE Reduce
  BY <1>2, ReduceIInv
<1>3. CASE EmptyCaseBody \/ Reject \/ Finish
  BY <1>3, StopIInv
<1>4. CASE DropNext
  BY <1>4, DropNextIInv
<1>5. CASE Dump
  BY <1>5, DumpIInv
<1>6. CASE DumpNext
  BY <1>6, DumpNextIInv
<1>7. CASE DropResult
  BY <1>7, DropResultIInv
<1>8. CASE Dropped
  BY <1>8, DroppedIInv
<1>9. CASE Ended \/ UNCHANGED vars
  BY <1>9, StutterIInv DEF Ended
<1>10. QED  BY <1>1, <1>2, <1>3, <1>4, <1>5, <1>6, <1>7, <1>8, <1>9 DEF Next

\* Every state of building, dumping and dropping a tree satisfies the invariant, for
\* every set of productions and every length of text.
THEOREM TreeInvariant == Spec => []IInv
<1>1. QED  BY InitIInv, NextIInv, PTL DEF Spec

\* The variables keep their types.
LEMMA TypeOKHolds == IInv => TypeOK
<1> SUFFICES ASSUME IInv PROVE TypeOK
  OBVIOUS
<1>1. /\ IsHeap(heap, made) /\ values \in Seq(Seq(0 .. made)) /\ drops \in Seq(0 .. made)
      /\ todo \in Seq(Texts) /\ made \in Nat
  BY DEF IInv, Booked, IsHeap
<1>2. study \in Studies /\ read \in Nat /\ status \in Statuses /\ dumping \in Seq(0 .. made)
  BY DEF IInv, Bounded
<1>3. \A i \in DOMAIN values : values[i] \in Seq(0 .. made)
  BY <1>1, ElementOfSeq, LenProperties
<1>4. read \in 0 .. study.length
  <2>1. study.length \in Nat /\ Len(todo) \in Nat
    BY <1>1, <1>2, StudyIs, LenProperties
  <2>2. read + Len(todo) <= study.length \/ read = 0
    BY DEF IInv, Bounded
  <2>3. QED  BY <1>2, <2>1, <2>2
<1>5. \A x \in DOMAIN heap :
        /\ heap[x].class \in DOMAIN Modes
        /\ DOMAIN heap[x].members = DOMAIN Modes[heap[x].class]
        /\ heap[x].refs \in Nat \ {0}
  BY <1>1, HeapIs
<1>6. DOMAIN heap \subseteq 1 .. made
  BY <1>1 DEF IsHeap
<1>7. QED  BY <1>1, <1>2, <1>3, <1>4, <1>5, <1>6 DEF TypeOK, Texts

\* The ledger gives the count of every object.
LEMMA CountsExactHolds == IInv => CountsExact
<1> SUFFICES ASSUME IInv, NEW x \in DOMAIN heap PROVE heap[x].refs = Holds(x)
  BY DEF CountsExact
<1>1. IsHeap(heap, made) /\ Ledger(heap, values, drops)
  BY DEF IInv, Booked
<1>2. x \in Nat \ {0}
  BY <1>1, HeapIs
<1>3. Refs(heap, x) = Count(x, Link(heap), Slots(heap)) + Count(x, values, DOMAIN values) + Times(x, drops)
  BY <1>1, <1>2 DEF Ledger
<1>4. Cardinality(PointersTo(x, heap, Released)) = Count(x, Link(heap), Slots(heap))
  BY <1>1, LinksCount
<1>5. QED  BY <1>3, <1>4 DEF Holds, Refs, Count

\* Whoever holds an object is counted, so the object is there.
LEMMA OwnedPointersLiveHolds == IInv => OwnedPointersLive
<1> SUFFICES ASSUME IInv PROVE OwnedPointersLive
  OBVIOUS
<1>1. /\ IsHeap(heap, made) /\ values \in Seq(Seq(0 .. made)) /\ drops \in Seq(0 .. made)
      /\ Ledger(heap, values, drops) /\ made \in Nat
  BY DEF IInv, Booked, IsHeap
<1>2. ASSUME NEW s \in Seq(0 .. made), NEW i \in DOMAIN s, s[i] # Null PROVE s[i] \in Nat \ {0}
  <2> DEFINE A == 0 .. made
  <2>1. A \subseteq Nat
    BY <1>1
  <2> HIDE DEF A
  <2>2. s \in Seq(A)
    BY DEF A
  <2>3. s[i] \in A
    BY <2>2, ElementOfSeq, LenProperties
  <2>4. QED  BY <1>2, <2>1, <2>3 DEF Null
<1>3. ASSUME NEW x \in DOMAIN heap PROVE Live(Owned(x))
  <2> DEFINE R == Released(heap[x].class)
             own == {x} \X R
             e == Pointers(heap[x], R)
  <2>1. e \in Seq(0 .. made) /\ Countable(Link(heap), own)
        /\ \A z \in Nat \ {0} : Times(z, e) = Count(z, Link(heap), own)
    BY <1>1, PointersCount
  <2> HIDE DEF e, own
  <2>2. ASSUME NEW i \in DOMAIN e, e[i] # Null PROVE e[i] \in DOMAIN heap
    <3>1. e[i] \in Nat \ {0}
      BY <1>2, <2>1, <2>2
    <3>2. PICK z \in Nat \ {0} : z = e[i]
      BY <3>1
    <3>3. Count(z, Link(heap), own) # 0
      <4>1. Times(z, e) = Cardinality(Occurs(z, e)) /\ e \in Seq(Nat)
        BY <1>1, <2>1, HoldersAreNumbers
      <4>2. i \in Occurs(z, e)
        BY <3>2 DEF Occurs
      <4>3. Cardinality(Occurs(z, e)) # 0
        BY <4>1, <4>2, OccursFinite, FS_EmptySet
      <4>4. QED  BY <2>1, <4>1, <4>3
    <3>4. \E p \in own : \E j \in DOMAIN Link(heap)[p] : Link(heap)[p][j] = z
      BY <2>1, <3>3, SpotsNone
    <3>5. PICK k \in R : \E j \in DOMAIN Link(heap)[<<x, k>>] : Link(heap)[<<x, k>>][j] = z
      BY <3>4 DEF own
    <3>6. Link(heap)[<<x, k>>] = heap[x].members[k]
      <4>1. k \in 1 .. 4
        BY <1>1, HeapIs
      <4>2. QED  BY <4>1 DEF Link
    <3>7. Owns(heap, x, z)
      BY <3>5, <3>6 DEF Owns
    <3>8. QED  BY <1>1, <3>2, <3>7, HeldLives
  <2>3. QED  BY <2>2 DEF Live, Owned, e
<1>4. ASSUME NEW i \in DOMAIN values PROVE Live(values[i])
  <2>1. values[i] \in Seq(0 .. made)
    BY <1>1, ElementOfSeq, LenProperties
  <2>2. QED  BY <1>1, <1>2, <2>1, HeldLives DEF Live
<1>5. Live(drops)
  BY <1>1, <1>2, HeldLives DEF Live
<1>6. QED  BY <1>3, <1>4, <1>5 DEF OwnedPointersLive

\* The objects on the stack of the parser have one holder.
LEMMA StackUnsharedHolds == IInv => StackUnshared
BY DEF IInv, Booked, Unshared, StackUnshared

\* If objects were left there would be one that no other owns, held by nobody.
LEMMA AllDeletedHolds == IInv => AllDeleted
<1> SUFFICES ASSUME IInv, status = "dropped", DOMAIN heap # {} PROVE FALSE
  BY DEF AllDeleted
<1>1. IsHeap(heap, made) /\ Ledger(heap, values, drops) /\ Acyclic(heap)
  BY DEF IInv, Booked
<1>2. values = <<>> /\ drops = <<>>
  BY DEF IInv, Phases
<1>3. PICK t \in DOMAIN heap : \A y \in DOMAIN heap : ~Owns(heap, y, t)
  <2> DEFINE T == DOMAIN heap
  <2>1. T \in SUBSET DOMAIN heap /\ T # {}
    OBVIOUS
  <2> HIDE DEF T
  <2>2. \E t \in T : \A y \in T : ~Owns(heap, y, t)
    BY <1>1, <2>1 DEF Acyclic
  <2>3. QED  BY <2>2 DEF T
<1>4. Count(t, Link(heap), Slots(heap)) = 0
  BY <1>1, <1>3, OwnedCounted
<1> DEFINE vs == <<>>
           d == <<>>
<1>5. DOMAIN vs = {} /\ DOMAIN d = {} /\ values = vs /\ drops = d
  BY <1>2, EmptySeq
<1> HIDE DEF vs, d
<1>6. Count(t, vs, DOMAIN vs) = 0 /\ Times(t, d) = 0
  BY <1>5, SpotsEmpty, TimesNone
<1>7. t \in Nat \ {0} /\ heap[t].refs \in Nat \ {0}
  BY <1>1, HeapIs
<1>8. Refs(heap, t) = 0 + 0 + 0
  BY <1>1, <1>4, <1>5, <1>6, <1>7 DEF Ledger
<1>9. QED  BY <1>7, <1>8 DEF Refs

\* The faults the dump meets are the ones known.
LEMMA OnlyKnownFaultsHolds == IInv => OnlyKnownFaults
<1> SUFFICES ASSUME IInv, status = "undefined" PROVE OnlyKnownFaults
  BY DEF OnlyKnownFaults
<1>1. /\ drops = <<>>
      /\ \/ todo # <<>> /\ Head(todo) = "CaseBody" /\ Last(values) = <<>>
         \/ dumping # <<>> /\ Faulty(heap, Head(dumping))
  BY DEF IInv, Phases
<1>2. QED  BY <1>1 DEF Faulty, OnlyKnownFaults

-----------------------------------------------------------------------------
\* The heap of the tree is one of objects with all their members, whatever is parsed, and no
\* count of an object that exists is zero.
THEOREM TreeTypes == Spec => []TypeOK
<1>1. Spec => []IInv
  BY TreeInvariant
<1>2. IInv => TypeOK
  BY TypeOKHolds
<1>3. QED  BY <1>1, <1>2, PTL

\* Constructors, semantic actions and destructors agree on every text: between any two
\* dec_ref calls the count of every object of the tree is the number of its holders
\* (object.h:35, object.h:41).
THEOREM TreeCountsAreExact == Spec => []CountsExact
<1>1. Spec => []IInv
  BY TreeInvariant
<1>2. IInv => CountsExact
  BY CountsExactHolds
<1>3. QED  BY <1>1, <1>2, PTL

\* No destructor and no semantic action ever calls dec_ref on an object that is deleted
\* (object.h:41).
THEOREM OwnersHoldLiveObjects == Spec => []OwnedPointersLive
<1>1. Spec => []IInv
  BY TreeInvariant
<1>2. IInv => OwnedPointersLive
  BY OwnedPointersLiveHolds
<1>3. QED  BY <1>1, <1>2, PTL

\* Between semantic actions every object on the parser's stack has exactly one reference, as
\* the assertions of parser.y:539, 636, 842, 947 say, whatever is parsed.
THEOREM StackedObjectsAreUnshared == Spec => []StackUnshared
<1>1. Spec => []IInv
  BY TreeInvariant
<1>2. IInv => StackUnshared
  BY StackUnsharedHolds
<1>3. QED  BY <1>1, <1>2, PTL

\* Giving up the result of a parse that was accepted deletes every object the parse made,
\* the nodes of the tree and all the temporaries of the actions.
THEOREM NothingLeaks == Spec => []AllDeleted
<1>1. Spec => []IInv
  BY TreeInvariant
<1>2. IInv => AllDeleted
  BY AllDeletedHolds
<1>3. QED  BY <1>1, <1>2, PTL

\* Whatever the text is, no dec_ref uses a null or deleted object, and the parser and the dump
\* do in three cases only: at a clause of case labels with only ';' after them, and where the
\* dump comes to a for statement's body or to a default label after a case label
\* (node.cc:848, parser.y:750, parser.y:759).
THEOREM TreeFaultsAreKnown == Spec => []OnlyKnownFaults
<1>1. Spec => []IInv
  BY TreeInvariant
<1>2. IInv => OnlyKnownFaults
  BY OnlyKnownFaultsHolds
<1>3. QED  BY <1>1, <1>2, PTL
=============================================================================
