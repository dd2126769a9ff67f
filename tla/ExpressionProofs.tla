-------------------------- MODULE ExpressionProofs --------------------------
(***************************************************************************)
(* Proofs about Expressions: which setters a pass can rely on, and which   *)
(* types and bases the queries return, for every tree and every sequence   *)
(* of calls.                                                               *)
(***************************************************************************)
EXTENDS Expressions, InductionLemmas, FiniteSetTheorems, SequenceTheorems

Labels == STRING \cup {"", "literal", "cast", "type", "entity"} \cup Range(TypeRefs)
Nodes == [class : Labels, name : Labels, parts : Seq(Nat), type : Nat, count : Nat]
Mistakes == {"set_left", "BinaryOpNode::set_type", "replaceArgs", "is_loadable"}
Worlds == [heap : Seq(Nodes), lost : Seq(Nat), todo : Seq(Nat), blame : SUBSET Mistakes]

LEMMA LabelsAre ==
    /\ "literal" \in Labels /\ "cast" \in Labels /\ "type" \in Labels /\ "entity" \in Labels
    /\ STRING \subseteq Labels /\ Range(TypeRefs) \subseteq Labels
BY DEF Labels

One(i, j) == IF i = j THEN 1 ELSE 0

(***************************************************************************)
(* What each operation changes.                                            *)
(***************************************************************************)

\* g differs from h in the object n only.
OnlyAt(h, g, n) == Len(g) = Len(h) /\ \A i \in 1 .. Len(h) : i # n => g[i] = h[i]

\* The rest of a world.
Besides(w, v) == v.lost = w.lost /\ v.todo = w.todo /\ v.blame = w.blame

LEMMA IncIs ==
    ASSUME NEW w \in Worlds, NEW j \in 1 .. Len(w.heap)
    PROVE  LET v == Inc(w, j) IN
           /\ v \in Worlds /\ Besides(w, v) /\ OnlyAt(w.heap, v.heap, j)
           /\ v.heap[j] = [w.heap[j] EXCEPT !.count = @ + 1]
<1> DEFINE node == [w.heap[j] EXCEPT !.count = w.heap[j].count + 1]
           h == [w.heap EXCEPT ![j] = node]
           v == [w EXCEPT !.heap = h]
<1>1. w.heap \in Seq(Nodes) /\ w.heap[j] \in Nodes
  BY ElementOfSeq DEF Worlds
<1>2. node \in Nodes
  <2>1. w.heap[j].count + 1 \in Nat
    BY <1>1 DEF Nodes
  <2>2. QED  BY <1>1, <2>1 DEF Nodes
<1>3. Inc(w, j) = v
  BY DEF Inc
<1> HIDE DEF node
<1>4. h \in Seq(Nodes) /\ Len(h) = Len(w.heap) /\ h[j] = node /\ \A i \in 1 .. Len(w.heap) : i # j => h[i] = w.heap[i]
  BY <1>1, <1>2, ExceptSeq
<1> HIDE DEF h
<1>5. v \in Worlds /\ v.heap = h /\ Besides(w, v)
  BY <1>4 DEF Worlds, Besides
<1>6. QED  BY <1>3, <1>4, <1>5 DEF OnlyAt, node

LEMMA LaterIs ==
    ASSUME NEW w \in Worlds, NEW i \in Nat
    PROVE  LET v == Later(w, i) IN
           /\ v \in Worlds /\ v.heap = w.heap /\ v.lost = w.lost /\ v.blame = w.blame
           /\ v.todo = Append(w.todo, i)
<1>1. w.todo \in Seq(Nat)
  BY DEF Worlds
<1>2. Append(w.todo, i) \in Seq(Nat)
  BY <1>1
<1>3. QED  BY <1>2 DEF Worlds, Later

LEMMA LoseIs ==
    ASSUME NEW w \in Worlds, NEW i \in 0 .. Len(w.lost)
    PROVE  LET v == Lose(w, i) IN
           /\ v \in Worlds /\ v.heap = w.heap /\ v.todo = w.todo /\ v.blame = w.blame
           /\ Len(v.lost) = Len(w.lost)
           /\ \A k \in 1 .. Len(w.lost) : v.lost[k] = w.lost[k] + One(k, i)
<1>1. w.lost \in Seq(Nat)
  BY DEF Worlds
<1>2. CASE i = 0
  <2>1. Lose(w, i) = w
    BY <1>2 DEF Lose
  <2>2. \A k \in 1 .. Len(w.lost) : w.lost[k] \in Nat /\ One(k, i) = 0
    BY <1>1, <1>2, ElementOfSeq DEF One
  <2>3. QED  BY <2>1, <2>2
<1>3. CASE i # 0
  <2> DEFINE l == [w.lost EXCEPT ![i] = w.lost[i] + 1]
             v == [w EXCEPT !.lost = l]
  <2>1. i \in 1 .. Len(w.lost) /\ w.lost[i] + 1 \in Nat
    BY <1>1, <1>3, ElementOfSeq
  <2>2. l \in Seq(Nat) /\ Len(l) = Len(w.lost)
        /\ \A k \in 1 .. Len(w.lost) : l[k] = w.lost[k] + One(k, i)
    <3>1. l \in Seq(Nat) /\ Len(l) = Len(w.lost)
          /\ \A k \in 1 .. Len(w.lost) : l[k] = IF k = i THEN w.lost[i] + 1 ELSE w.lost[k]
      BY <1>1, <2>1, ExceptSeq
    <3>2. \A k \in 1 .. Len(w.lost) : w.lost[k] \in Nat
      BY <1>1, ElementOfSeq
    <3> HIDE DEF l
    <3>3. QED  BY <3>1, <3>2 DEF One
  <2>3. Lose(w, i) = v
    BY <1>3 DEF Lose
  <2> HIDE DEF l
  <2>4. v \in Worlds /\ v.heap = w.heap /\ v.todo = w.todo /\ v.blame = w.blame /\ v.lost = l
    BY <2>2 DEF Worlds
  <2>5. QED  BY <2>2, <2>3, <2>4
<1>4. QED  BY <1>2, <1>3

LEMMA BlameIs ==
    ASSUME NEW w \in Worlds, NEW mistake \in Mistakes
    PROVE  LET v == Blame(w, mistake) IN
           /\ v \in Worlds /\ v.heap = w.heap /\ v.lost = w.lost /\ v.todo = w.todo
           /\ v.blame = w.blame \cup {mistake}
BY DEF Worlds, Blame

LEMMA PutIs ==
    ASSUME NEW w \in Worlds, NEW n \in 1 .. Len(w.heap), NEW k \in 1 .. Len(w.heap[n].parts),
           NEW i \in Nat
    PROVE  LET v == Put(w, n, k, i) IN
           /\ v \in Worlds /\ Besides(w, v) /\ OnlyAt(w.heap, v.heap, n)
           /\ v.heap[n].class = w.heap[n].class /\ v.heap[n].name = w.heap[n].name
           /\ v.heap[n].type = w.heap[n].type /\ v.heap[n].count = w.heap[n].count
           /\ v.heap[n].parts \in Seq(Nat) /\ Len(v.heap[n].parts) = Len(w.heap[n].parts)
           /\ \A x \in 1 .. Len(w.heap[n].parts) :
                v.heap[n].parts[x] = IF x = k THEN i ELSE w.heap[n].parts[x]
<1> DEFINE s == [w.heap[n].parts EXCEPT ![k] = i]
           node == [w.heap[n] EXCEPT !.parts = s]
           h == [w.heap EXCEPT ![n] = node]
           v == [w EXCEPT !.heap = h]
<1>1. w.heap \in Seq(Nodes) /\ w.heap[n] \in Nodes
  BY ElementOfSeq DEF Worlds
<1>2. w.heap[n].parts \in Seq(Nat)
  BY <1>1 DEF Nodes
<1>3. /\ s \in Seq(Nat) /\ Len(s) = Len(w.heap[n].parts)
      /\ \A x \in 1 .. Len(w.heap[n].parts) : s[x] = IF x = k THEN i ELSE w.heap[n].parts[x]
  BY <1>2, ExceptSeq
<1>4. Put(w, n, k, i) = v
  BY DEF Put
<1> HIDE DEF s
<1>5. node \in Nodes
  BY <1>1, <1>3 DEF Nodes
<1> HIDE DEF node
<1>6. h \in Seq(Nodes) /\ Len(h) = Len(w.heap) /\ h[n] = node /\ \A x \in 1 .. Len(w.heap) : x # n => h[x] = w.heap[x]
  BY <1>1, <1>5, ExceptSeq
<1> HIDE DEF h
<1>7. v \in Worlds /\ v.heap = h /\ Besides(w, v)
  BY <1>6 DEF Worlds, Besides
<1>8. /\ node.class = w.heap[n].class /\ node.name = w.heap[n].name /\ node.type = w.heap[n].type
      /\ node.count = w.heap[n].count /\ node.parts = s
  BY <1>1 DEF Nodes, node
<1>9. QED  BY <1>3, <1>4, <1>6, <1>7, <1>8 DEF OnlyAt

LEMMA PutTypeIs ==
    ASSUME NEW w \in Worlds, NEW n \in 1 .. Len(w.heap), NEW i \in Nat
    PROVE  LET v == PutType(w, n, i) IN
           /\ v \in Worlds /\ Besides(w, v) /\ OnlyAt(w.heap, v.heap, n)
           /\ v.heap[n] = [w.heap[n] EXCEPT !.type = i]
<1> DEFINE node == [w.heap[n] EXCEPT !.type = i]
           h == [w.heap EXCEPT ![n] = node]
           v == [w EXCEPT !.heap = h]
<1>1. w.heap \in Seq(Nodes) /\ w.heap[n] \in Nodes
  BY ElementOfSeq DEF Worlds
<1>2. node \in Nodes
  BY <1>1 DEF Nodes
<1>3. PutType(w, n, i) = v
  BY DEF PutType
<1> HIDE DEF node
<1>4. h \in Seq(Nodes) /\ Len(h) = Len(w.heap) /\ h[n] = node /\ \A x \in 1 .. Len(w.heap) : x # n => h[x] = w.heap[x]
  BY <1>1, <1>2, ExceptSeq
<1> HIDE DEF h
<1>5. v \in Worlds /\ v.heap = h /\ Besides(w, v)
  BY <1>4 DEF Worlds, Besides
<1>6. QED  BY <1>3, <1>4, <1>5 DEF OnlyAt, node

LEMMA NewIs ==
    ASSUME NEW w \in Worlds, NEW class \in Labels, NEW type \in Nat
    PROVE  LET v == New(w, class, type) IN
           /\ v \in Worlds /\ v.todo = w.todo /\ v.blame = w.blame
           /\ v.heap = Append(w.heap, Object(class, "", <<>>, type, 1))
           /\ v.lost = Append(w.lost, 0)
<1> DEFINE node == Object(class, "", <<>>, type, 1)
           h == Append(w.heap, node)
           l == Append(w.lost, 0)
<1>1. node \in Nodes
  <2>1. <<>> \in Seq(Nat) /\ 1 \in Nat
    OBVIOUS
  <2>2. "" \in Labels
    BY DEF Labels
  <2>3. QED  BY <2>1, <2>2 DEF Nodes, Object
<1>2. w.heap \in Seq(Nodes) /\ w.lost \in Seq(Nat)
  BY DEF Worlds
<1> HIDE DEF node
<1>3. h \in Seq(Nodes) /\ l \in Seq(Nat)
  BY <1>1, <1>2
<1>4. New(w, class, type) = [w EXCEPT !.heap = h, !.lost = l]
  BY DEF New, node
<1> HIDE DEF h, l
<1>5. QED  BY <1>3, <1>4 DEF Worlds, h, l, node

(***************************************************************************)
(* The places that refer to an object.                                     *)
(***************************************************************************)

PointsTo(h, j, k) == IF k = 0 THEN h[j].type ELSE h[j].parts[k]

Refs(h, i) ==
    {u \in Nat \X Nat :
        /\ u[1] \in 1 .. Len(h) /\ h[u[1]].count > 0
        /\ u[2] \in 0 .. Len(h[u[1]].parts) /\ PointsTo(h, u[1], u[2]) = i}

LEMMA NodeIs ==
    ASSUME NEW h \in Seq(Nodes), NEW j \in 1 .. Len(h)
    PROVE  /\ Len(h) \in Nat /\ j \in Nat /\ h[j] \in Nodes
           /\ h[j].class \in Labels /\ h[j].type \in Nat /\ h[j].count \in Nat
           /\ h[j].parts \in Seq(Nat) /\ Len(h[j].parts) \in Nat
           /\ DOMAIN h[j].parts = 1 .. Len(h[j].parts)
           /\ \A k \in 0 .. Len(h[j].parts) : PointsTo(h, j, k) \in Nat
<1>1. Len(h) \in Nat /\ h[j] \in Nodes
  BY ElementOfSeq, LenProperties
<1>2. /\ h[j].class \in Labels /\ h[j].type \in Nat /\ h[j].count \in Nat
      /\ h[j].parts \in Seq(Nat)
  BY <1>1 DEF Nodes
<1>3. Len(h[j].parts) \in Nat /\ DOMAIN h[j].parts = 1 .. Len(h[j].parts)
  BY <1>2, LenProperties
<1>4. ASSUME NEW k \in 0 .. Len(h[j].parts) PROVE PointsTo(h, j, k) \in Nat
  <2>1. CASE k = 0
    BY <1>2, <2>1 DEF PointsTo
  <2>2. CASE k # 0
    <3>1. k \in 1 .. Len(h[j].parts)
      BY <1>3, <2>2
    <3>2. h[j].parts[k] \in Nat
      BY <1>2, <3>1, ElementOfSeq
    <3>3. QED  BY <2>2, <3>2 DEF PointsTo
  <2>3. QED  BY <2>1, <2>2
<1>5. QED  BY <1>1, <1>2, <1>3, <1>4

LEMMA RefsFinite ==
    ASSUME NEW h \in Seq(Nodes), NEW i
    PROVE  IsFiniteSet(Refs(h, i)) /\ Cardinality(Refs(h, i)) \in Nat
<1> DEFINE Row(j) == {j} \X (0 .. Len(h[j].parts))
           T == {Row(j) : j \in 1 .. Len(h)}
           f == [j \in 1 .. Len(h) |-> Row(j)]
<1>1. Len(h) \in Nat /\ IsFiniteSet(1 .. Len(h))
  BY LenProperties, FS_Interval
<1>2. f \in Surjection(1 .. Len(h), T)
  BY DEF Surjection
<1>3. IsFiniteSet(T)
  <2> HIDE DEF T, f
  <2>1. QED  BY <1>1, <1>2, FS_Surjection
<1>4. \A t \in T : IsFiniteSet(t)
  <2> SUFFICES ASSUME NEW j \in 1 .. Len(h) PROVE IsFiniteSet(Row(j))
    OBVIOUS
  <2>1. Len(h[j].parts) \in Nat
    BY NodeIs
  <2>2. IsFiniteSet(0 .. Len(h[j].parts))
    <3>1. \A m \in Nat : IsFiniteSet(0 .. m)
      BY FS_Interval
    <3>2. QED  BY <2>1, <3>1
  <2>3. IsFiniteSet({j})
    BY FS_Singleton
  <2>4. QED  BY <2>2, <2>3, FS_Product
<1>5. IsFiniteSet(UNION T)
  <2> HIDE DEF T
  <2>1. QED  BY <1>3, <1>4, FS_UNION
<1>6. Refs(h, i) \in SUBSET UNION T
  <2> SUFFICES ASSUME NEW u \in Refs(h, i) PROVE u \in UNION T
    OBVIOUS
  <2>1. u \in Nat \X Nat /\ u[1] \in 1 .. Len(h) /\ u[2] \in 0 .. Len(h[u[1]].parts)
    BY DEF Refs
  <2>2. u \in Row(u[1])
    BY <2>1
  <2>3. QED  BY <2>1, <2>2
<1>7. QED  BY <1>5, <1>6, FS_Subset, FS_CardinalityType

LEMMA RefsSame ==
    ASSUME NEW h \in Seq(Nodes), NEW g \in Seq(Nodes), Len(g) = Len(h),
           \A j \in 1 .. Len(h) : /\ g[j].parts = h[j].parts /\ g[j].type = h[j].type
                                  /\ g[j].count > 0 <=> h[j].count > 0
    PROVE  \A i : Refs(g, i) = Refs(h, i)
<1>1. \A j \in 1 .. Len(h), k \in Nat : PointsTo(g, j, k) = PointsTo(h, j, k)
  BY DEF PointsTo
<1>2. QED  BY <1>1 DEF Refs

\* One place more, or one that refers to another object.
LEMMA OnePlace ==
    ASSUME NEW R, IsFiniteSet(R), NEW u, NEW old \in BOOLEAN, NEW new \in BOOLEAN,
           u \in R <=> old, NEW Q, Q = IF new THEN R \cup {u} ELSE R \ {u}
    PROVE  Cardinality(Q) = Cardinality(R) + (IF new THEN 1 ELSE 0) - (IF old THEN 1 ELSE 0)
<1>1. Cardinality(R) \in Nat
  BY FS_CardinalityType
<1>2. Cardinality(R \cup {u}) = IF u \in R THEN Cardinality(R) ELSE Cardinality(R) + 1
  BY FS_AddElement
<1>3. Cardinality(R \ {u}) = IF u \in R THEN Cardinality(R) - 1 ELSE Cardinality(R)
  BY FS_RemoveElement
<1>4. QED  BY <1>1, <1>2, <1>3

LEMMA OneMore ==
    ASSUME NEW R, IsFiniteSet(R), NEW u, u \notin R, NEW new \in BOOLEAN,
           NEW Q, Q = IF new THEN R \cup {u} ELSE R
    PROVE  Cardinality(Q) = Cardinality(R) + (IF new THEN 1 ELSE 0)
<1>1. Cardinality(R) \in Nat
  BY FS_CardinalityType
<1>2. Cardinality(R \cup {u}) = Cardinality(R) + 1
  BY FS_AddElement
<1>3. QED  BY <1>1, <1>2

\* Nothing but the place k of n refers to something else: v.
Replaced(h, g, n, k) ==
    /\ OnlyAt(h, g, n) /\ h[n].count > 0 /\ g[n].count > 0 /\ Len(g[n].parts) = Len(h[n].parts)
    /\ \A x \in 0 .. Len(h[n].parts) : x # k => PointsTo(g, n, x) = PointsTo(h, n, x)

LEMMA RefsPut ==
    ASSUME NEW h \in Seq(Nodes), NEW g \in Seq(Nodes), NEW n \in 1 .. Len(h),
           NEW k \in 0 .. Len(h[n].parts), Replaced(h, g, n, k), NEW i
    PROVE  Cardinality(Refs(g, i)) = Cardinality(Refs(h, i)) + One(i, PointsTo(g, n, k))
                                        - One(i, PointsTo(h, n, k))
<1> DEFINE u == <<n, k>>
           new == i = PointsTo(g, n, k)
           old == i = PointsTo(h, n, k)
<1> USE DEF Replaced
<1>1. u \in Nat \X Nat /\ k \in Nat /\ n \in Nat
  BY NodeIs
<1>2. u \in Refs(h, i) <=> old
  BY <1>1 DEF Refs
<1>3. Refs(g, i) = IF new THEN Refs(h, i) \cup {u} ELSE Refs(h, i) \ {u}
  <2>1. u \in Refs(g, i) <=> new
    BY <1>1 DEF Refs, OnlyAt
  <2>2. ASSUME NEW p \in Nat \X Nat, p # u PROVE p \in Refs(g, i) <=> p \in Refs(h, i)
    <3>1. CASE p[1] = n
      <4>1. p[2] # k
        BY <2>2, <3>1
      <4>2. p[2] \in 0 .. Len(h[n].parts) => PointsTo(g, n, p[2]) = PointsTo(h, n, p[2])
        BY <4>1
      <4>3. QED  BY <3>1, <4>2 DEF Refs, OnlyAt
    <3>2. CASE p[1] # n
      <4>1. p[1] \in 1 .. Len(h) => g[p[1]] = h[p[1]]
        BY <3>2 DEF OnlyAt
      <4>2. QED  BY <4>1 DEF Refs, OnlyAt, PointsTo
    <3>3. QED  BY <3>1, <3>2
  <2>3. \A p : p \in Refs(g, i) => p \in Nat \X Nat
    BY DEF Refs
  <2>4. \A p : p \in Refs(h, i) => p \in Nat \X Nat
    BY DEF Refs
  <2> HIDE DEF u, new
  <2>5. QED  BY <2>1, <2>2, <2>3, <2>4
<1>4. IsFiniteSet(Refs(h, i))
  BY RefsFinite
<1>5. new \in BOOLEAN /\ old \in BOOLEAN
  OBVIOUS
<1>6. One(i, PointsTo(g, n, k)) = (IF new THEN 1 ELSE 0) /\ One(i, PointsTo(h, n, k)) = (IF old THEN 1 ELSE 0)
  BY DEF One
<1> DEFINE R == Refs(h, i)
           Q == Refs(g, i)
<1> HIDE DEF u, new, old, R, Q
<1>7. Cardinality(Q) = Cardinality(R) + (IF new THEN 1 ELSE 0) - (IF old THEN 1 ELSE 0)
  BY <1>2, <1>3, <1>4, <1>5, OnePlace DEF R, Q
<1>8. QED  BY <1>6, <1>7 DEF R, Q

\* A node is made.
LEMMA RefsNew ==
    ASSUME NEW h \in Seq(Nodes), NEW node \in Nodes, node.count > 0, node.parts = <<>>, NEW i
    PROVE  Cardinality(Refs(Append(h, node), i)) = Cardinality(Refs(h, i)) + One(i, node.type)
<1> DEFINE g == Append(h, node)
           u == <<Len(h) + 1, 0>>
           new == i = node.type
<1>1. /\ Len(h) \in Nat /\ Len(g) = Len(h) + 1 /\ g[Len(h) + 1] = node
      /\ \A j \in 1 .. Len(h) : g[j] = h[j]
  BY AppendProperties
<1>2. u \notin Refs(h, i)
  BY <1>1 DEF Refs
<1> HIDE DEF g
<1>3. Len(node.parts) = 0
  OBVIOUS
<1>4. ASSUME NEW p PROVE p \in Refs(g, i) <=> p \in Refs(h, i) \/ (new /\ p = u)
  <2>1. CASE p \notin Nat \X Nat
    BY <1>1, <2>1 DEF Refs
  <2>2. CASE p \in Nat \X Nat /\ p[1] # Len(h) + 1
    <3>1. p[1] \in 1 .. Len(g) <=> p[1] \in 1 .. Len(h)
      BY <1>1, <2>2
    <3>2. p[1] \in 1 .. Len(h) => g[p[1]] = h[p[1]]
      BY <1>1
    <3>3. QED  BY <2>2, <3>1, <3>2 DEF Refs, PointsTo
  <2>3. CASE p \in Nat \X Nat /\ p[1] = Len(h) + 1
    <3>1. p \notin Refs(h, i)
      BY <1>1, <2>3 DEF Refs
    <3>2. p \in Refs(g, i) <=> p[2] \in 0 .. 0 /\ PointsTo(g, p[1], p[2]) = i
      BY <1>1, <1>3, <2>3 DEF Refs
    <3>3. p[2] \in 0 .. 0 <=> p = u
      BY <2>3
    <3>4. p = u => PointsTo(g, p[1], p[2]) = node.type
      BY <1>1 DEF PointsTo
    <3>5. QED  BY <3>1, <3>2, <3>3, <3>4
  <2>4. QED  BY <2>1, <2>2, <2>3
<1>5. IsFiniteSet(Refs(h, i))
  BY RefsFinite
<1>6. One(i, node.type) = IF new THEN 1 ELSE 0
  BY DEF One
<1>7. Refs(g, i) = IF new THEN Refs(h, i) \cup {u} ELSE Refs(h, i)
  BY <1>4
<1>8. new \in BOOLEAN
  OBVIOUS
<1> DEFINE R == Refs(h, i)
           Q == Refs(g, i)
<1> HIDE DEF u, new, R, Q
<1>9. Cardinality(Q) = Cardinality(R) + (IF new THEN 1 ELSE 0)
  BY <1>2, <1>5, <1>7, <1>8, OneMore DEF R, Q
<1>10. Cardinality(R) \in Nat
  BY RefsFinite DEF R
<1>11. QED  BY <1>6, <1>9, <1>10 DEF g, R, Q

\* A node without operands gets one.
Wrapped(h, g, n, v) ==
    /\ OnlyAt(h, g, n) /\ h[n].count > 0 /\ g[n].count > 0 /\ g[n].type = h[n].type
    /\ h[n].parts = <<>> /\ g[n].parts = <<v>>

LEMMA RefsOperand ==
    ASSUME NEW h \in Seq(Nodes), NEW g \in Seq(Nodes), NEW n \in 1 .. Len(h), NEW v,
           Wrapped(h, g, n, v), NEW i
    PROVE  Cardinality(Refs(g, i)) = Cardinality(Refs(h, i)) + One(i, v)
<1> USE DEF Wrapped
<1> DEFINE u == <<n, 1>>
           new == i = v
<1>1. Len(h[n].parts) = 0 /\ Len(g[n].parts) = 1 /\ g[n].parts[1] = v /\ n \in Nat
  BY NodeIs
<1>2. u \notin Refs(h, i)
  BY <1>1 DEF Refs
<1>3. ASSUME NEW p PROVE p \in Refs(g, i) <=> p \in Refs(h, i) \/ (new /\ p = u)
  <2>1. CASE p \notin Nat \X Nat
    BY <1>1, <2>1 DEF Refs
  <2>2. CASE p \in Nat \X Nat /\ p[1] # n
    <3>1. p[1] \in 1 .. Len(h) => g[p[1]] = h[p[1]]
      BY <2>2 DEF OnlyAt
    <3>2. QED  BY <2>2, <3>1 DEF Refs, PointsTo, OnlyAt
  <2>3. CASE p \in Nat \X Nat /\ p[1] = n
    <3>1. p \in Refs(h, i) <=> p[2] \in 0 .. 0 /\ PointsTo(h, n, p[2]) = i
      BY <1>1, <2>3 DEF Refs
    <3>2. p \in Refs(g, i) <=> p[2] \in 0 .. 1 /\ PointsTo(g, n, p[2]) = i
      BY <1>1, <2>3 DEF Refs, OnlyAt
    <3>3. PointsTo(g, n, 0) = PointsTo(h, n, 0) /\ PointsTo(g, n, 1) = v
      BY <1>1 DEF PointsTo
    <3>4. p = u <=> p[2] = 1
      BY <2>3
    <3>5. p[2] \in 0 .. 1 <=> p[2] = 0 \/ p[2] = 1
      BY <2>3
    <3>6. p[2] \in 0 .. 0 <=> p[2] = 0
      BY <2>3
    <3> HIDE DEF u
    <3>7. QED  BY <3>1, <3>2, <3>3, <3>4, <3>5, <3>6
  <2>4. QED  BY <2>1, <2>2, <2>3
<1>4. IsFiniteSet(Refs(h, i))
  BY RefsFinite
<1>5. One(i, v) = IF new THEN 1 ELSE 0
  BY DEF One
<1>6. Refs(g, i) = IF new THEN Refs(h, i) \cup {u} ELSE Refs(h, i)
  BY <1>3
<1>7. new \in BOOLEAN
  OBVIOUS
<1> DEFINE R == Refs(h, i)
           Q == Refs(g, i)
<1> HIDE DEF u, new, R, Q
<1>8. Cardinality(Q) = Cardinality(R) + (IF new THEN 1 ELSE 0)
  BY <1>2, <1>4, <1>6, <1>7, OneMore DEF R, Q
<1>9. Cardinality(R) \in Nat
  BY RefsFinite DEF R
<1>10. QED  BY <1>5, <1>8, <1>9 DEF R, Q

(***************************************************************************)
(* How often an object occurs in a sequence.                               *)
(***************************************************************************)

Occurs(i, s) == {k \in DOMAIN s : s[k] = i}

LEMMA TimesType ==
    ASSUME NEW s \in Seq(Nat), NEW i
    PROVE  IsFiniteSet(Occurs(i, s)) /\ Times(i, s) = Cardinality(Occurs(i, s)) /\ Times(i, s) \in Nat
<1>1. Len(s) \in Nat /\ DOMAIN s = 1 .. Len(s)
  BY LenProperties
<1>2. IsFiniteSet(1 .. Len(s))
  BY <1>1, FS_Interval
<1>3. Occurs(i, s) \in SUBSET (1 .. Len(s))
  BY <1>1 DEF Occurs
<1>4. IsFiniteSet(Occurs(i, s)) /\ Cardinality(Occurs(i, s)) \in Nat
  BY <1>2, <1>3, FS_Subset, FS_CardinalityType
<1>5. QED  BY <1>4 DEF Times, Occurs

LEMMA TimesEmpty == \A i : Times(i, <<>>) = 0
<1> SUFFICES ASSUME NEW i PROVE Times(i, <<>>) = 0
  OBVIOUS
<1>1. {k \in DOMAIN <<>> : <<>>[k] = i} = {}
  OBVIOUS
<1>2. QED  BY <1>1, FS_EmptySet DEF Times

LEMMA TimesAppend ==
    ASSUME NEW s \in Seq(Nat), NEW j \in Nat, NEW i
    PROVE  Times(i, Append(s, j)) = Times(i, s) + One(i, j)
<1> DEFINE t == Append(s, j)
           n == Len(s) + 1
           new == i = j
<1>1. /\ Len(s) \in Nat /\ DOMAIN s = 1 .. Len(s) /\ t \in Seq(Nat) /\ DOMAIN t = 1 .. n
      /\ t[n] = j /\ \A k \in 1 .. Len(s) : t[k] = s[k]
  BY LenProperties, AppendProperties
<1> HIDE DEF t
<1>2. n \notin Occurs(i, s)
  BY <1>1 DEF Occurs
<1>3. Occurs(i, t) = IF new THEN Occurs(i, s) \cup {n} ELSE Occurs(i, s)
  <2>1. \A k : k \in 1 .. n <=> k \in 1 .. Len(s) \/ k = n
    BY <1>1
  <2> HIDE DEF n
  <2>2. QED  BY <1>1, <1>2, <2>1 DEF Occurs
<1>4. IsFiniteSet(Occurs(i, s)) /\ Times(i, s) = Cardinality(Occurs(i, s)) /\ Times(i, s) \in Nat
  BY TimesType
<1>5. Times(i, t) = Cardinality(Occurs(i, t))
  BY <1>1, TimesType
<1>6. One(i, j) = (IF new THEN 1 ELSE 0) /\ new \in BOOLEAN
  BY DEF One
<1> DEFINE R == Occurs(i, s)
           Q == Occurs(i, t)
<1> HIDE DEF n, new, R, Q
<1>7. Cardinality(Q) = Cardinality(R) + (IF new THEN 1 ELSE 0)
  BY <1>2, <1>3, <1>4, <1>6, OneMore DEF R, Q
<1>8. QED  BY <1>4, <1>5, <1>6, <1>7 DEF R, Q, t

LEMMA TimesConcat ==
    ASSUME NEW s \in Seq(Nat), NEW t \in Seq(Nat), NEW i
    PROVE  Times(i, s \o t) = Times(i, s) + Times(i, t)
<1> DEFINE r == s \o t
           m == Len(s)
           K == Occurs(i, t)
           M == {m + k : k \in K}
           f == [k \in K |-> m + k]
<1>1. /\ m \in Nat /\ Len(t) \in Nat /\ DOMAIN s = 1 .. m /\ DOMAIN t = 1 .. Len(t)
      /\ r \in Seq(Nat) /\ DOMAIN r = 1 .. m + Len(t)
      /\ \A k \in 1 .. m : r[k] = s[k]
      /\ \A k \in 1 .. Len(t) : r[m + k] = t[k]
  <2>1. /\ m \in Nat /\ Len(t) \in Nat /\ DOMAIN s = 1 .. m /\ DOMAIN t = 1 .. Len(t)
        /\ r \in Seq(Nat) /\ Len(r) = m + Len(t)
        /\ \A k \in 1 .. m + Len(t) : r[k] = IF k <= m THEN s[k] ELSE t[k - m]
    BY LenProperties, ConcatProperties
  <2>2. DOMAIN r = 1 .. m + Len(t)
    BY <2>1, LenProperties
  <2> HIDE DEF r, m
  <2>3. \A k \in 1 .. m : r[k] = s[k]
    BY <2>1
  <2>4. ASSUME NEW k \in 1 .. Len(t) PROVE r[m + k] = t[k]
    <3>1. m + k \in 1 .. m + Len(t) /\ ~(m + k <= m) /\ (m + k) - m = k
      BY <2>1
    <3>2. QED  BY <2>1, <3>1
  <2>5. QED  BY <2>1, <2>2, <2>3, <2>4
<1> HIDE DEF r, m
<1>2. K \subseteq 1 .. Len(t) /\ Occurs(i, s) \subseteq 1 .. m
  BY <1>1 DEF Occurs
<1>3. Occurs(i, r) = Occurs(i, s) \cup M
  <2>1. ASSUME NEW x \in Occurs(i, r) PROVE x \in Occurs(i, s) \cup M
    <3>1. x \in 1 .. m + Len(t) /\ r[x] = i
      BY <1>1 DEF Occurs
    <3>2. CASE x <= m
      <4>1. x \in 1 .. m
        BY <1>1, <3>1, <3>2
      <4>2. QED  BY <1>1, <3>1, <4>1 DEF Occurs
    <3>3. CASE x > m
      <4>1. x - m \in 1 .. Len(t) /\ m + (x - m) = x
        BY <1>1, <3>1, <3>3
      <4>2. x - m \in K
        BY <1>1, <3>1, <4>1 DEF Occurs
      <4>3. QED  BY <4>1, <4>2
    <3>4. QED  BY <1>1, <3>1, <3>2, <3>3
  <2>2. ASSUME NEW x \in Occurs(i, s) PROVE x \in Occurs(i, r)
    <3>1. x \in 1 .. m + Len(t) /\ x \in 1 .. m
      BY <1>1, <1>2
    <3>2. QED  BY <1>1, <3>1 DEF Occurs
  <2>3. ASSUME NEW k \in K PROVE m + k \in Occurs(i, r)
    <3>1. m + k \in 1 .. m + Len(t) /\ k \in 1 .. Len(t)
      BY <1>1, <1>2
    <3>2. QED  BY <1>1, <3>1 DEF Occurs
  <2>4. QED  BY <2>1, <2>2, <2>3
<1>4. IsFiniteSet(K) /\ IsFiniteSet(Occurs(i, s))
  BY TimesType
<1>5. f \in Bijection(K, M)
  <2>1. f \in [K -> M]
    OBVIOUS
  <2>2. \A x, y \in K : f[x] = f[y] => x = y
    BY <1>1, <1>2
  <2>3. \A z \in M : \E x \in K : f[x] = z
    OBVIOUS
  <2> HIDE DEF f, K, M
  <2>4. QED  BY <2>1, <2>2, <2>3 DEF Bijection, Injection, Surjection, IsInjective
<1>6. IsFiniteSet(M) /\ Cardinality(M) = Cardinality(K)
  <2> HIDE DEF f, K, M
  <2>1. ExistsBijection(K, M)
    BY <1>5 DEF ExistsBijection
  <2>2. QED  BY <1>4, <2>1, FS_Bijection
<1>7. Occurs(i, s) \cap M = {}
  BY <1>1, <1>2
<1> HIDE DEF K, M
<1>8. Cardinality(Occurs(i, r)) = Cardinality(Occurs(i, s)) + Cardinality(K)
  <2>1. Cardinality(Occurs(i, s)) \in Nat /\ Cardinality(M) \in Nat /\ Cardinality({}) = 0
    BY <1>4, <1>6, FS_CardinalityType, FS_EmptySet
  <2>2. Cardinality(Occurs(i, r)) = Cardinality(Occurs(i, s)) + Cardinality(M) - Cardinality({})
    BY <1>3, <1>4, <1>6, <1>7, FS_Union
  <2>3. QED  BY <1>6, <2>1, <2>2
<1>9. /\ Times(i, r) = Cardinality(Occurs(i, r)) /\ Times(i, s) = Cardinality(Occurs(i, s))
      /\ Times(i, t) = Cardinality(K)
  BY <1>1, TimesType DEF K
<1>10. QED  BY <1>8, <1>9 DEF r

LEMMA TimesHead ==
    ASSUME NEW s \in Seq(Nat), s # <<>>, NEW i
    PROVE  /\ Head(s) \in Nat /\ Tail(s) \in Seq(Nat)
           /\ Times(i, s) = One(i, Head(s)) + Times(i, Tail(s))
<1>1. Head(s) \in Nat /\ Tail(s) \in Seq(Nat) /\ s = <<Head(s)>> \o Tail(s)
  BY HeadTailProperties, HeadTailAppend
<1>2. <<Head(s)>> = Append(<<>>, Head(s)) /\ <<>> \in Seq(Nat) /\ <<Head(s)>> \in Seq(Nat)
  BY <1>1
<1>3. Times(i, <<Head(s)>>) = Times(i, <<>>) + One(i, Head(s))
  BY <1>1, <1>2, TimesAppend
<1>4. Times(i, <<>>) = 0 /\ One(i, Head(s)) \in Nat
  BY TimesEmpty DEF One
<1>5. Times(i, s) = Times(i, <<Head(s)>>) + Times(i, Tail(s))
  <2> DEFINE a == <<Head(s)>>
             b == Tail(s)
  <2>1. a \in Seq(Nat) /\ b \in Seq(Nat) /\ s = a \o b
    BY <1>1, <1>2
  <2> HIDE DEF a, b
  <2>2. Times(i, a \o b) = Times(i, a) + Times(i, b)
    BY <2>1, TimesConcat
  <2>3. Times(i, s) = Times(i, a) + Times(i, b)
    BY <2>1, <2>2
  <2>4. QED  BY <2>3 DEF a, b
<1>6. QED  BY <1>1, <1>3, <1>4, <1>5

\* A node is deleted: its places are gone, which are those a destructor gives back.
LEMMA RefsDrop ==
    ASSUME NEW h \in Seq(Nodes), NEW g \in Seq(Nodes), NEW n \in 1 .. Len(h), OnlyAt(h, g, n),
           h[n].count > 0, g[n].count = 0, NEW i
    PROVE  Cardinality(Refs(g, i)) = Cardinality(Refs(h, i)) - Times(i, Append(h[n].parts, h[n].type))
<1> DEFINE R == Refs(h, i)
           Outgoing == {u \in R : u[1] = n}
           m == Len(h[n].parts)
           s == Append(h[n].parts, h[n].type)
           K == Occurs(i, s)
           f == [u \in Outgoing |-> IF u[2] = 0 THEN m + 1 ELSE u[2]]
<1>1. /\ m \in Nat /\ s \in Seq(Nat) /\ DOMAIN s = 1 .. m + 1 /\ s[m + 1] = h[n].type /\ n \in Nat
      /\ \A k \in 1 .. m : s[k] = h[n].parts[k]
  <2>1. m \in Nat /\ h[n].parts \in Seq(Nat) /\ h[n].type \in Nat /\ n \in Nat
    BY NodeIs
  <2>2. QED  BY <2>1, AppendProperties, LenProperties
<1> HIDE DEF s, m
<1>2. Refs(g, i) = R \ Outgoing
  <2>1. ASSUME NEW u PROVE u \in Refs(g, i) <=> u \in R /\ u[1] # n
    <3>1. CASE u[1] = n
      BY <3>1 DEF Refs
    <3>2. CASE u[1] # n
      <4>1. u[1] \in 1 .. Len(h) => g[u[1]] = h[u[1]]
        BY <3>2 DEF OnlyAt
      <4>2. QED  BY <3>2, <4>1 DEF Refs, OnlyAt, PointsTo
    <3>3. QED  BY <3>1, <3>2
  <2>2. QED  BY <2>1
<1>3. \A u : u \in Outgoing <=> /\ u \in Nat \X Nat /\ u[1] = n /\ u[2] \in 0 .. m
                           /\ PointsTo(h, n, u[2]) = i
  BY DEF Refs, m
<1>4. f \in Bijection(Outgoing, K)
  <2>1. ASSUME NEW u \in Outgoing PROVE f[u] \in K
    <3>1. u[2] \in 0 .. m /\ PointsTo(h, n, u[2]) = i
      BY <1>3
    <3>2. CASE u[2] = 0
      <4>1. m + 1 \in K
        BY <1>1, <3>1, <3>2 DEF Occurs, PointsTo
      <4>2. QED  BY <3>2, <4>1
    <3>3. CASE u[2] # 0
      <4>1. u[2] \in 1 .. m /\ u[2] \in 1 .. m + 1
        BY <1>1, <3>1, <3>3
      <4>2. u[2] \in K
        BY <1>1, <3>1, <3>3, <4>1 DEF Occurs, PointsTo
      <4>3. QED  BY <3>3, <4>2
    <3>4. QED  BY <3>2, <3>3
  <2>2. ASSUME NEW u \in Outgoing, NEW v \in Outgoing, f[u] = f[v] PROVE u = v
    <3>1. u \in Nat \X Nat /\ u[1] = n /\ u[2] \in 0 .. m /\ v \in Nat \X Nat /\ v[1] = n /\ v[2] \in 0 .. m
      BY <1>3
    <3>2. f[u] = (IF u[2] = 0 THEN m + 1 ELSE u[2]) /\ f[v] = (IF v[2] = 0 THEN m + 1 ELSE v[2])
      OBVIOUS
    <3>3. u[2] = v[2]
      BY <1>1, <2>2, <3>1, <3>2
    <3>4. QED  BY <3>1, <3>3
  <2>3. ASSUME NEW k \in K PROVE \E u \in Outgoing : f[u] = k
    <3>1. k \in 1 .. m + 1 /\ s[k] = i
      BY <1>1 DEF Occurs
    <3>2. CASE k = m + 1
      <4>1. PointsTo(h, n, 0) = i /\ 0 \in 0 .. m
        BY <1>1, <3>1, <3>2 DEF PointsTo
      <4>2. <<n, 0>> \in Nat \X Nat /\ <<n, 0>>[1] = n /\ <<n, 0>>[2] = 0
        BY <1>1
      <4>3. <<n, 0>> \in Outgoing
        BY <1>3, <4>1, <4>2
      <4>4. QED  BY <3>2, <4>2, <4>3
    <3>3. CASE k # m + 1
      <4>1. k \in 1 .. m /\ k \in Nat /\ k \in 0 .. m /\ k # 0
        BY <1>1, <3>1, <3>3
      <4>2. <<n, k>> \in Outgoing
        BY <1>1, <1>3, <3>1, <4>1 DEF PointsTo
      <4>3. QED  BY <4>1, <4>2
    <3>4. QED  BY <3>2, <3>3
  <2> HIDE DEF K, Outgoing
  <2>4. f \in [Outgoing -> K]
    BY <2>1
  <2> HIDE DEF f
  <2>5. QED  BY <2>2, <2>3, <2>4 DEF Bijection, Injection, Surjection, IsInjective
<1>5. IsFiniteSet(R) /\ Outgoing \in SUBSET R
  BY RefsFinite
<1> HIDE DEF f, K, Outgoing, R
<1>6. IsFiniteSet(Outgoing) /\ R \cap Outgoing = Outgoing
  BY <1>5, FS_Subset
<1>7. ExistsBijection(Outgoing, K)
  BY <1>4 DEF ExistsBijection
<1>8. Cardinality(Outgoing) = Cardinality(K)
  BY <1>6, <1>7, FS_Bijection
<1>9. Cardinality(R \ Outgoing) = Cardinality(R) - Cardinality(Outgoing)
  BY <1>5, <1>6, FS_Difference
<1>10. Times(i, s) = Cardinality(K)
  BY <1>1, TimesType DEF K
<1>11. QED  BY <1>2, <1>8, <1>9, <1>10 DEF R, s

(***************************************************************************)
(* What each operation makes of the books: Owed is what a count exceeds    *)
(* the references by that somebody in sight holds.                         *)
(***************************************************************************)

\* No operand is missing but the entity of a name.
Shaped(h, j) ==
    /\ h[j].type \in 0 .. Len(TypeRefs)
    /\ \A k \in 1 .. Len(h[j].parts) : h[j].parts[k] \in 0 .. Len(h)
    /\ h[j].class # "variable" => \A k \in 1 .. Len(h[j].parts) : h[j].parts[k] # 0
    /\ h[j].class = "variable" => Len(h[j].parts) = 1 /\ h[j].name \in Range(Names)
    /\ h[j].class = "call" => h[j].parts # <<>>

Formed(w) ==
    /\ w \in Worlds /\ FirstNode <= Len(w.heap) /\ Len(w.lost) = Len(w.heap)
    /\ \A j \in 1 .. Len(w.heap) : Shaped(w.heap, j)
    /\ \A k \in 1 .. Len(w.todo) : w.todo[k] \in 0 .. Len(w.heap)

Owed(w, i) == w.heap[i].count - Cardinality(Refs(w.heap, i)) - Times(i, w.todo) - w.lost[i]

\* g is h with nothing changed but that objects were counted or made.
Kept(h, g) ==
    /\ Len(h) <= Len(g)
    /\ \A j \in 1 .. Len(h) :
        /\ g[j].class = h[j].class /\ g[j].name = h[j].name
        /\ g[j].parts = h[j].parts /\ g[j].type = h[j].type
        /\ g[j].count >= h[j].count

LEMMA ConstantsAre ==
    /\ TypeRefs \in Seq(Range(TypeRefs)) /\ Len(TypeRefs) \in Nat
    /\ Names \in Seq(STRING) /\ Len(Names) \in Nat
    /\ FirstNode \in Nat /\ Len(TypeRefs) <= FirstNode
<1>1. /\ TypeRefs \in Seq(Range(TypeRefs)) /\ Len(TypeRefs) \in Nat
      /\ Names \in Seq(STRING) /\ Len(Names) \in Nat
  BY TypeAssumption, LenProperties
<1>2. QED  BY <1>1 DEF FirstNode

LEMMA WorldIs ==
    ASSUME NEW w, Formed(w)
    PROVE  /\ w.heap \in Seq(Nodes) /\ w.lost \in Seq(Nat) /\ w.todo \in Seq(Nat) /\ w \in Worlds
           /\ Len(w.heap) \in Nat /\ Len(w.lost) = Len(w.heap) /\ Len(w.todo) \in Nat
           /\ \A i \in 1 .. Len(w.heap) :
                /\ w.heap[i].count \in Nat /\ Cardinality(Refs(w.heap, i)) \in Nat
                /\ Times(i, w.todo) \in Nat /\ w.lost[i] \in Nat
                /\ Owed(w, i) \in Int
<1>1. /\ w.heap \in Seq(Nodes) /\ w.lost \in Seq(Nat) /\ w.todo \in Seq(Nat) /\ w \in Worlds
      /\ Len(w.lost) = Len(w.heap)
  BY DEF Formed, Worlds
<1>2. Len(w.heap) \in Nat /\ Len(w.todo) \in Nat
  BY <1>1, LenProperties
<1>3. ASSUME NEW i \in 1 .. Len(w.heap)
      PROVE  /\ w.heap[i].count \in Nat /\ Cardinality(Refs(w.heap, i)) \in Nat
             /\ Times(i, w.todo) \in Nat /\ w.lost[i] \in Nat
             /\ Owed(w, i) \in Int
  <2>1. w.heap[i].count \in Nat
    BY <1>1, NodeIs
  <2>2. Cardinality(Refs(w.heap, i)) \in Nat
    BY <1>1, RefsFinite
  <2>3. Times(i, w.todo) \in Nat
    BY <1>1, TimesType
  <2>4. w.lost[i] \in Nat
    BY <1>1, ElementOfSeq
  <2>5. Owed(w, i) \in Int
    <3>1. PICK a \in Nat, c \in Nat, t \in Nat, l \in Nat :
                /\ a = w.heap[i].count /\ c = Cardinality(Refs(w.heap, i)) /\ t = Times(i, w.todo)
                /\ l = w.lost[i]
      BY <2>1, <2>2, <2>3, <2>4
    <3>2. Owed(w, i) = a - c - t - l
      BY <3>1 DEF Owed
    <3>3. QED  BY <3>2
  <2>6. QED  BY <2>1, <2>2, <2>3, <2>4, <2>5
<1>4. QED  BY <1>1, <1>2, <1>3

LEMMA ShapedAs ==
    ASSUME NEW h, NEW g, NEW j, Shaped(h, j), Len(h) \in Nat, Len(g) \in Nat, Len(h) <= Len(g),
           g[j].class = h[j].class, g[j].name = h[j].name,
           g[j].parts = h[j].parts, g[j].type = h[j].type
    PROVE  Shaped(g, j)
<1>1. \A x \in 0 .. Len(h) : x \in 0 .. Len(g)
  OBVIOUS
<1>2. QED  BY <1>1 DEF Shaped

LEMMA IncOwed ==
    ASSUME NEW w, Formed(w), NEW j \in 1 .. Len(w.heap)
    PROVE  LET v == Inc(w, j) IN
           /\ Formed(v) /\ Kept(w.heap, v.heap) /\ Len(v.heap) = Len(w.heap) /\ v.blame = w.blame
           /\ w.heap[j].count > 0 =>
                \A i \in 1 .. Len(w.heap) : Owed(v, i) = Owed(w, i) + One(i, j)
<1> DEFINE v == Inc(w, j)
<1>1. /\ v \in Worlds /\ Besides(w, v) /\ OnlyAt(w.heap, v.heap, j)
      /\ v.heap[j] = [w.heap[j] EXCEPT !.count = @ + 1]
  BY IncIs DEF Formed
<1> HIDE DEF v
<1>2. w.heap \in Seq(Nodes) /\ v.heap \in Seq(Nodes) /\ w.heap[j] \in Nodes /\ w.heap[j].count \in Nat
  BY <1>1, NodeIs, WorldIs DEF Worlds
<1>3. /\ v.heap[j].class = w.heap[j].class /\ v.heap[j].name = w.heap[j].name
      /\ v.heap[j].parts = w.heap[j].parts /\ v.heap[j].type = w.heap[j].type
      /\ v.heap[j].count = w.heap[j].count + 1
  BY <1>1, <1>2 DEF Nodes
<1>4. Len(v.heap) = Len(w.heap) /\ \A i \in 1 .. Len(w.heap) : i # j => v.heap[i] = w.heap[i]
  BY <1>1 DEF OnlyAt
<1>5. \A i \in 1 .. Len(w.heap) :
        /\ v.heap[i].class = w.heap[i].class /\ v.heap[i].name = w.heap[i].name
        /\ v.heap[i].parts = w.heap[i].parts /\ v.heap[i].type = w.heap[i].type
        /\ v.heap[i].count = w.heap[i].count + One(i, j)
        /\ w.heap[i].count \in Nat
  <2> SUFFICES ASSUME NEW i \in 1 .. Len(w.heap)
               PROVE  /\ v.heap[i].class = w.heap[i].class /\ v.heap[i].name = w.heap[i].name
                      /\ v.heap[i].parts = w.heap[i].parts /\ v.heap[i].type = w.heap[i].type
                      /\ v.heap[i].count = w.heap[i].count + One(i, j)
                      /\ w.heap[i].count \in Nat
    OBVIOUS
  <2>1. w.heap[i].count \in Nat
    BY WorldIs
  <2>2. CASE i = j
    BY <1>3, <2>1, <2>2 DEF One
  <2>3. CASE i # j
    <3>1. v.heap[i] = w.heap[i] /\ One(i, j) = 0
      BY <1>4, <2>3 DEF One
    <3>2. QED  BY <2>1, <3>1
  <2>4. QED  BY <2>2, <2>3
<1>6. Formed(v)
  <2>1. \A i \in 1 .. Len(w.heap) : Shaped(w.heap, i)
    BY DEF Formed
  <2>2. Len(w.heap) \in Nat
    BY WorldIs
  <2>3. ASSUME NEW i \in 1 .. Len(w.heap) PROVE Shaped(v.heap, i)
    <3>1. /\ v.heap[i].class = w.heap[i].class /\ v.heap[i].name = w.heap[i].name
          /\ v.heap[i].parts = w.heap[i].parts /\ v.heap[i].type = w.heap[i].type
      BY <1>5
    <3>2. Len(v.heap) \in Nat /\ Len(w.heap) <= Len(v.heap)
      BY <1>4, <2>2
    <3>3. QED  BY <2>1, <2>2, <3>1, <3>2, ShapedAs
  <2>4. QED  BY <1>1, <1>4, <2>3 DEF Formed, Besides
<1>7. Kept(w.heap, v.heap)
  <2>1. ASSUME NEW i \in 1 .. Len(w.heap) PROVE v.heap[i].count >= w.heap[i].count
    <3>1. /\ v.heap[i].count = w.heap[i].count + One(i, j) /\ w.heap[i].count \in Nat
          /\ One(i, j) \in Nat
      BY <1>5 DEF One
    <3>2. QED  BY <3>1
  <2>2. Len(w.heap) <= Len(v.heap)
    BY <1>2, <1>4, LenProperties
  <2>3. QED  BY <1>5, <2>1, <2>2 DEF Kept
<1>8. ASSUME w.heap[j].count > 0, NEW i \in 1 .. Len(w.heap)
      PROVE  Owed(v, i) = Owed(w, i) + One(i, j)
  <2>1. \A x \in 1 .. Len(w.heap) : v.heap[x].count > 0 <=> w.heap[x].count > 0
    BY <1>5, <1>8 DEF One
  <2>2. Refs(v.heap, i) = Refs(w.heap, i)
    BY <1>2, <1>4, <1>5, <2>1, RefsSame
  <2>3. v.todo = w.todo /\ v.lost = w.lost
    BY <1>1 DEF Besides
  <2>4. One(i, j) \in Nat
    BY DEF One
  <2>5. /\ w.heap[i].count \in Nat /\ Cardinality(Refs(w.heap, i)) \in Nat
        /\ Times(i, w.todo) \in Nat /\ w.lost[i] \in Nat
    BY WorldIs
  <2>6. v.heap[i].count = w.heap[i].count + One(i, j)
    BY <1>5
  <2>7. PICK a \in Nat, c \in Nat, t \in Nat, l \in Nat, x \in Nat :
            /\ a = w.heap[i].count /\ c = Cardinality(Refs(w.heap, i)) /\ t = Times(i, w.todo)
            /\ l = w.lost[i] /\ x = One(i, j)
    BY <2>4, <2>5
  <2>8. Owed(w, i) = a - c - t - l
    BY <2>7 DEF Owed
  <2>9. Owed(v, i) = (a + x) - c - t - l
    BY <2>2, <2>3, <2>6, <2>7 DEF Owed
  <2>10. Owed(v, i) = Owed(w, i) + x
    BY <2>8, <2>9
  <2>11. QED  BY <2>7, <2>10
<1>9. QED  BY <1>1, <1>4, <1>6, <1>7, <1>8 DEF v, Besides

LEMMA LaterOwed ==
    ASSUME NEW w, Formed(w), NEW j \in 0 .. Len(w.heap)
    PROVE  LET v == Later(w, j) IN
           /\ Formed(v) /\ v.heap = w.heap /\ v.blame = w.blame
           /\ \A i \in 1 .. Len(w.heap) : Owed(v, i) = Owed(w, i) - One(i, j)
<1> DEFINE v == Later(w, j)
<1>1. j \in Nat /\ w.todo \in Seq(Nat) /\ w \in Worlds
  BY WorldIs
<1>2. /\ v \in Worlds /\ v.heap = w.heap /\ v.lost = w.lost /\ v.blame = w.blame
      /\ v.todo = Append(w.todo, j)
  BY <1>1, LaterIs
<1> HIDE DEF v
<1>3. \A k \in 1 .. Len(v.todo) : v.todo[k] \in 0 .. Len(w.heap)
  <2>1. /\ Len(w.todo) \in Nat /\ Len(v.todo) = Len(w.todo) + 1 /\ v.todo[Len(w.todo) + 1] = j
        /\ \A k \in 1 .. Len(w.todo) : v.todo[k] = w.todo[k]
    BY <1>1, <1>2, AppendProperties, LenProperties
  <2>2. \A k \in 1 .. Len(v.todo) : k = Len(w.todo) + 1 \/ k \in 1 .. Len(w.todo)
    BY <2>1
  <2>3. QED  BY <2>1, <2>2 DEF Formed
<1>4. Formed(v)
  BY <1>2, <1>3 DEF Formed
<1>5. ASSUME NEW i \in 1 .. Len(w.heap) PROVE Owed(v, i) = Owed(w, i) - One(i, j)
  <2>1. Times(i, v.todo) = Times(i, w.todo) + One(i, j)
    BY <1>1, <1>2, TimesAppend
  <2>2. One(i, j) \in Nat
    BY DEF One
  <2>3. /\ w.heap[i].count \in Nat /\ Cardinality(Refs(w.heap, i)) \in Nat
        /\ Times(i, w.todo) \in Nat /\ w.lost[i] \in Nat
    BY WorldIs
  <2>4. PICK a \in Nat, c \in Nat, t \in Nat, l \in Nat, x \in Nat :
            /\ a = w.heap[i].count /\ c = Cardinality(Refs(w.heap, i)) /\ t = Times(i, w.todo)
            /\ l = w.lost[i] /\ x = One(i, j)
    BY <2>2, <2>3
  <2>5. Owed(w, i) = a - c - t - l
    BY <2>4 DEF Owed
  <2>6. Owed(v, i) = a - c - (t + x) - l
    BY <1>2, <2>1, <2>4 DEF Owed
  <2>7. Owed(v, i) = Owed(w, i) - x
    BY <2>5, <2>6
  <2>8. QED  BY <2>4, <2>7
<1>6. QED  BY <1>2, <1>4, <1>5 DEF v

LEMMA LoseOwed ==
    ASSUME NEW w, Formed(w), NEW j \in 0 .. Len(w.heap)
    PROVE  LET v == Lose(w, j) IN
           /\ Formed(v) /\ v.heap = w.heap /\ v.todo = w.todo /\ v.blame = w.blame
           /\ \A i \in 1 .. Len(w.heap) : Owed(v, i) = Owed(w, i) - One(i, j)
<1> DEFINE v == Lose(w, j)
<1>1. j \in 0 .. Len(w.lost) /\ Len(w.lost) = Len(w.heap) /\ w \in Worlds
  BY WorldIs
<1>2. /\ v \in Worlds /\ v.heap = w.heap /\ v.todo = w.todo /\ v.blame = w.blame
      /\ Len(v.lost) = Len(w.lost)
      /\ \A k \in 1 .. Len(w.lost) : v.lost[k] = w.lost[k] + One(k, j)
  BY <1>1, LoseIs
<1> HIDE DEF v
<1>3. Formed(v)
  BY <1>2 DEF Formed
<1>4. ASSUME NEW i \in 1 .. Len(w.heap) PROVE Owed(v, i) = Owed(w, i) - One(i, j)
  <2>1. One(i, j) \in Nat
    BY DEF One
  <2>2. /\ w.heap[i].count \in Nat /\ Cardinality(Refs(w.heap, i)) \in Nat
        /\ Times(i, w.todo) \in Nat /\ w.lost[i] \in Nat
    BY WorldIs
  <2>3. PICK a \in Nat, c \in Nat, t \in Nat, l \in Nat, x \in Nat :
            /\ a = w.heap[i].count /\ c = Cardinality(Refs(w.heap, i)) /\ t = Times(i, w.todo)
            /\ l = w.lost[i] /\ x = One(i, j)
    BY <2>1, <2>2
  <2>4. v.lost[i] = w.lost[i] + One(i, j)
    BY <1>1, <1>2
  <2>5. Owed(w, i) = a - c - t - l
    BY <2>3 DEF Owed
  <2>6. Owed(v, i) = a - c - t - (l + x)
    BY <1>2, <2>3, <2>4 DEF Owed
  <2>7. Owed(v, i) = Owed(w, i) - x
    BY <2>5, <2>6
  <2>8. QED  BY <2>3, <2>7
<1>5. QED  BY <1>2, <1>3, <1>4 DEF v

LEMMA BlameOwed ==
    ASSUME NEW w, Formed(w), NEW mistake \in Mistakes
    PROVE  LET v == Blame(w, mistake) IN
           /\ Formed(v) /\ v.heap = w.heap /\ v.blame = w.blame \cup {mistake}
<1>1. w \in Worlds
  BY DEF Formed
<1> DEFINE v == Blame(w, mistake)
<1>2. /\ v \in Worlds /\ v.heap = w.heap /\ v.lost = w.lost /\ v.todo = w.todo
      /\ v.blame = w.blame \cup {mistake}
  BY <1>1, BlameIs
<1> HIDE DEF v
<1>3. Formed(v)
  BY <1>2 DEF Formed
<1>4. QED  BY <1>2, <1>3 DEF v

\* An operand is replaced in a node that cannot do without.
LEMMA PutOwed ==
    ASSUME NEW w, Formed(w), NEW n \in 1 .. Len(w.heap), NEW k \in 1 .. Len(w.heap[n].parts),
           NEW j \in 1 .. Len(w.heap)
    PROVE  LET v == Put(w, n, k, j)
               old == Operand(w, n, k) IN
           /\ Formed(v) /\ Len(v.heap) = Len(w.heap) /\ v.blame = w.blame
           /\ \A i \in 1 .. Len(w.heap) : v.heap[i].count = w.heap[i].count
           /\ w.heap[n].count > 0 =>
                \A i \in 1 .. Len(w.heap) : Owed(v, i) = Owed(w, i) - One(i, j) + One(i, old)
<1> DEFINE v == Put(w, n, k, j)
           old == w.heap[n].parts[k]
<1>1. w \in Worlds /\ j \in Nat /\ Len(w.heap) \in Nat /\ w.heap \in Seq(Nodes) /\ w.heap[n] \in Nodes
  BY WorldIs, NodeIs
<1>2. w.heap[n].parts \in Seq(Nat) /\ Len(w.heap[n].parts) \in Nat
  BY <1>1, NodeIs
<1>3. /\ v \in Worlds /\ Besides(w, v) /\ OnlyAt(w.heap, v.heap, n)
      /\ v.heap[n].class = w.heap[n].class /\ v.heap[n].name = w.heap[n].name
      /\ v.heap[n].type = w.heap[n].type /\ v.heap[n].count = w.heap[n].count
      /\ v.heap[n].parts \in Seq(Nat) /\ Len(v.heap[n].parts) = Len(w.heap[n].parts)
      /\ \A x \in 1 .. Len(w.heap[n].parts) :
            v.heap[n].parts[x] = IF x = k THEN j ELSE w.heap[n].parts[x]
  <2>1. w \in Worlds /\ j \in Nat
    BY <1>1
  <2> HIDE DEF v
  <2>2. QED  BY <2>1, PutIs DEF v
<1>4. PICK s : s = v.heap[n].parts
  OBVIOUS
<1>5. /\ s \in Seq(Nat) /\ Len(s) = Len(w.heap[n].parts)
      /\ \A x \in 1 .. Len(s) : s[x] = IF x = k THEN j ELSE w.heap[n].parts[x]
  BY <1>3, <1>4
<1> HIDE DEF v
<1>6. /\ v.heap[n].class = w.heap[n].class /\ v.heap[n].name = w.heap[n].name
      /\ v.heap[n].parts = s /\ v.heap[n].type = w.heap[n].type
      /\ v.heap[n].count = w.heap[n].count
  BY <1>3, <1>4
<1>7. Len(v.heap) = Len(w.heap) /\ \A i \in 1 .. Len(w.heap) : i # n => v.heap[i] = w.heap[i]
  BY <1>3 DEF OnlyAt
<1>8. v.heap \in Seq(Nodes)
  BY <1>3 DEF Worlds
<1>9. Formed(v)
  <2>1. Shaped(v.heap, n)
    <3>1. Shaped(w.heap, n)
      BY DEF Formed
    <3>2. ASSUME NEW x \in 1 .. Len(s)
          PROVE  s[x] \in 0 .. Len(w.heap) /\ (w.heap[n].class # "variable" => s[x] # 0)
      <4>1. x \in 1 .. Len(w.heap[n].parts)
        BY <1>5
      <4>2. CASE x = k
        <5>1. s[x] = j
          BY <1>5, <4>2
        <5>2. j \in 0 .. Len(w.heap) /\ j # 0
          BY <1>1
        <5>3. QED  BY <5>1, <5>2
      <4>3. CASE x # k
        <5>1. s[x] = w.heap[n].parts[x]
          BY <1>5, <4>3
        <5>2. QED  BY <3>1, <4>1, <5>1 DEF Shaped
      <4>4. QED  BY <4>2, <4>3
    <3>3. w.heap[n].class = "call" => s # <<>>
      BY <1>2, <1>5
    <3>4. QED  BY <1>5, <1>6, <1>7, <3>1, <3>2, <3>3 DEF Shaped
  <2>2. ASSUME NEW i \in 1 .. Len(w.heap), i # n PROVE Shaped(v.heap, i)
    <3>1. Shaped(w.heap, i) /\ v.heap[i] = w.heap[i]
      BY <1>7, <2>2 DEF Formed
    <3>2. QED  BY <1>1, <1>7, <3>1, ShapedAs
  <2>3. \A i \in 1 .. Len(w.heap) : Shaped(v.heap, i)
    BY <2>1, <2>2
  <2>4. /\ FirstNode <= Len(v.heap) /\ Len(v.lost) = Len(v.heap)
        /\ \A x \in 1 .. Len(v.todo) : v.todo[x] \in 0 .. Len(v.heap)
    BY <1>3, <1>7 DEF Formed, Besides
  <2>5. v \in Worlds /\ \A i \in 1 .. Len(v.heap) : Shaped(v.heap, i)
    BY <1>3, <1>7, <2>3
  <2>6. QED  BY <2>4, <2>5 DEF Formed
<1>10. ASSUME w.heap[n].count > 0, NEW i \in 1 .. Len(w.heap)
      PROVE  Owed(v, i) = Owed(w, i) - One(i, j) + One(i, old)
  <2>1. /\ k \in 0 .. Len(w.heap[n].parts)
        /\ PointsTo(v.heap, n, k) = j /\ PointsTo(w.heap, n, k) = old
    <3>1. k # 0 /\ k \in 0 .. Len(w.heap[n].parts)
      BY <1>2
    <3>2. s[k] = j
      BY <1>5
    <3>3. PointsTo(v.heap, n, k) = j
      BY <1>6, <3>1, <3>2 DEF PointsTo
    <3>4. PointsTo(w.heap, n, k) = old
      BY <3>1 DEF PointsTo
    <3>5. QED  BY <3>1, <3>3, <3>4
  <2>2. ASSUME NEW x \in 0 .. Len(w.heap[n].parts), x # k
        PROVE  PointsTo(v.heap, n, x) = PointsTo(w.heap, n, x)
    <3>1. CASE x = 0
      BY <1>6, <3>1 DEF PointsTo
    <3>2. CASE x # 0
      <4>1. x \in 1 .. Len(s)
        BY <1>2, <1>5, <3>2
      <4>2. s[x] = w.heap[n].parts[x]
        BY <1>5, <2>2, <4>1
      <4>3. QED  BY <1>6, <3>2, <4>2 DEF PointsTo
    <3>3. QED  BY <3>1, <3>2
  <2>3. Cardinality(Refs(v.heap, i)) = Cardinality(Refs(w.heap, i)) + One(i, j) - One(i, old)
    <3>1. Replaced(w.heap, v.heap, n, k)
      BY <1>3, <1>5, <1>6, <1>10, <2>2 DEF Replaced
    <3>2. Cardinality(Refs(v.heap, i)) = Cardinality(Refs(w.heap, i)) + One(i, PointsTo(v.heap, n, k))
                                            - One(i, PointsTo(w.heap, n, k))
      BY <1>1, <1>8, <2>1, <3>1, RefsPut
    <3>3. QED  BY <2>1, <3>2
  <2>4. v.heap[i].count = w.heap[i].count
    BY <1>6, <1>7
  <2>5. v.todo = w.todo /\ v.lost = w.lost
    BY <1>3 DEF Besides
  <2>6. One(i, j) \in Nat /\ One(i, old) \in Nat
    BY DEF One
  <2>7. /\ w.heap[i].count \in Nat /\ Cardinality(Refs(w.heap, i)) \in Nat
        /\ Times(i, w.todo) \in Nat /\ w.lost[i] \in Nat
    BY WorldIs
  <2>8. PICK a \in Nat, c \in Nat, t \in Nat, l \in Nat, x \in Nat, y \in Nat :
            /\ a = w.heap[i].count /\ c = Cardinality(Refs(w.heap, i)) /\ t = Times(i, w.todo)
            /\ l = w.lost[i] /\ x = One(i, j) /\ y = One(i, old)
    BY <2>6, <2>7
  <2> HIDE DEF old
  <2>9. Owed(w, i) = a - c - t - l
    BY <2>8 DEF Owed
  <2>10. Owed(v, i) = a - (c + x - y) - t - l
    BY <2>3, <2>4, <2>5, <2>8 DEF Owed
  <2>11. Owed(v, i) = Owed(w, i) - x + y
    BY <2>9, <2>10
  <2>12. QED  BY <2>8, <2>11
<1>11. \A i \in 1 .. Len(w.heap) : v.heap[i].count = w.heap[i].count
  BY <1>6, <1>7
<1>12. QED  BY <1>3, <1>7, <1>9, <1>10, <1>11 DEF v, Besides, Operand

LEMMA PutTypeOwed ==
    ASSUME NEW w, Formed(w), NEW n \in 1 .. Len(w.heap), NEW j \in 0 .. Len(TypeRefs)
    PROVE  LET v == PutType(w, n, j)
               old == w.heap[n].type IN
           /\ Formed(v) /\ Len(v.heap) = Len(w.heap) /\ v.blame = w.blame
           /\ w.heap[n].count > 0 =>
                \A i \in 1 .. Len(w.heap) : Owed(v, i) = Owed(w, i) - One(i, j) + One(i, old)
<1> DEFINE v == PutType(w, n, j)
           old == w.heap[n].type
<1>1. w \in Worlds /\ j \in Nat /\ Len(w.heap) \in Nat /\ w.heap \in Seq(Nodes) /\ w.heap[n] \in Nodes
  BY WorldIs, NodeIs
<1>2. Len(w.heap[n].parts) \in Nat
  BY <1>1, NodeIs
<1>3. /\ v \in Worlds /\ Besides(w, v) /\ OnlyAt(w.heap, v.heap, n)
      /\ v.heap[n] = [w.heap[n] EXCEPT !.type = j]
  BY <1>1, PutTypeIs
<1> HIDE DEF v
<1>4. /\ v.heap[n].class = w.heap[n].class /\ v.heap[n].name = w.heap[n].name
      /\ v.heap[n].parts = w.heap[n].parts /\ v.heap[n].type = j
      /\ v.heap[n].count = w.heap[n].count
  BY <1>1, <1>3 DEF Nodes
<1>5. Len(v.heap) = Len(w.heap) /\ \A i \in 1 .. Len(w.heap) : i # n => v.heap[i] = w.heap[i]
  BY <1>3 DEF OnlyAt
<1>6. v.heap \in Seq(Nodes)
  BY <1>3 DEF Worlds
<1>7. Formed(v)
  <2>1. Shaped(v.heap, n)
    <3>1. Shaped(w.heap, n)
      BY DEF Formed
    <3>2. QED  BY <1>4, <1>5, <3>1 DEF Shaped
  <2>2. ASSUME NEW i \in 1 .. Len(w.heap), i # n PROVE Shaped(v.heap, i)
    <3>1. Shaped(w.heap, i) /\ v.heap[i] = w.heap[i]
      BY <1>5, <2>2 DEF Formed
    <3>2. QED  BY <1>1, <1>5, <3>1, ShapedAs
  <2>3. \A i \in 1 .. Len(w.heap) : Shaped(v.heap, i)
    BY <2>1, <2>2
  <2>4. QED  BY <1>3, <1>5, <2>3 DEF Formed, Besides
<1>8. ASSUME w.heap[n].count > 0, NEW i \in 1 .. Len(w.heap)
      PROVE  Owed(v, i) = Owed(w, i) - One(i, j) + One(i, old)
  <2>1. /\ 0 \in 0 .. Len(w.heap[n].parts)
        /\ PointsTo(v.heap, n, 0) = j /\ PointsTo(w.heap, n, 0) = old
    BY <1>2, <1>4 DEF PointsTo
  <2>2. \A x \in 0 .. Len(w.heap[n].parts) : x # 0 => PointsTo(v.heap, n, x) = PointsTo(w.heap, n, x)
    BY <1>4 DEF PointsTo
  <2>3. Cardinality(Refs(v.heap, i)) = Cardinality(Refs(w.heap, i)) + One(i, j) - One(i, old)
    <3>1. Replaced(w.heap, v.heap, n, 0)
      BY <1>3, <1>4, <1>8, <2>2 DEF Replaced
    <3>2. Cardinality(Refs(v.heap, i)) = Cardinality(Refs(w.heap, i)) + One(i, PointsTo(v.heap, n, 0))
                                            - One(i, PointsTo(w.heap, n, 0))
      BY <1>1, <1>6, <2>1, <3>1, RefsPut
    <3>3. QED  BY <2>1, <3>2
  <2>4. v.heap[i].count = w.heap[i].count
    BY <1>4, <1>5
  <2>5. v.todo = w.todo /\ v.lost = w.lost
    BY <1>3 DEF Besides
  <2>6. One(i, j) \in Nat /\ One(i, old) \in Nat
    BY DEF One
  <2>7. /\ w.heap[i].count \in Nat /\ Cardinality(Refs(w.heap, i)) \in Nat
        /\ Times(i, w.todo) \in Nat /\ w.lost[i] \in Nat
    BY WorldIs
  <2>8. PICK a \in Nat, c \in Nat, t \in Nat, l \in Nat, x \in Nat, y \in Nat :
            /\ a = w.heap[i].count /\ c = Cardinality(Refs(w.heap, i)) /\ t = Times(i, w.todo)
            /\ l = w.lost[i] /\ x = One(i, j) /\ y = One(i, old)
    BY <2>6, <2>7
  <2> HIDE DEF old
  <2>9. Owed(w, i) = a - c - t - l
    BY <2>8 DEF Owed
  <2>10. Owed(v, i) = a - (c + x - y) - t - l
    BY <2>3, <2>4, <2>5, <2>8 DEF Owed
  <2>11. Owed(v, i) = Owed(w, i) - x + y
    BY <2>9, <2>10
  <2>12. QED  BY <2>8, <2>11
<1>9. QED  BY <1>3, <1>5, <1>7, <1>8 DEF v, Besides

LEMMA KeptTrans ==
    ASSUME NEW f, NEW g, NEW h, Len(f) \in Nat, Len(g) \in Nat, Len(h) \in Nat,
           \A j \in 1 .. Len(f) : f[j].count \in Nat, \A j \in 1 .. Len(g) : g[j].count \in Nat,
           \A j \in 1 .. Len(h) : h[j].count \in Nat, Kept(f, g), Kept(g, h)
    PROVE  Kept(f, h)
<1>1. Len(f) <= Len(g) /\ Len(g) <= Len(h)
  BY DEF Kept
<1>2. ASSUME NEW j \in 1 .. Len(f)
      PROVE  /\ h[j].class = f[j].class /\ h[j].name = f[j].name
             /\ h[j].parts = f[j].parts /\ h[j].type = f[j].type
             /\ h[j].count >= f[j].count
  <2>1. j \in 1 .. Len(g) /\ j \in 1 .. Len(h)
    BY <1>1
  <2>2. h[j].count >= g[j].count /\ g[j].count >= f[j].count
    BY <2>1 DEF Kept
  <2>3. h[j].count >= f[j].count
    BY <2>1, <2>2
  <2>4. QED  BY <2>1, <2>3 DEF Kept
<1>3. QED  BY <1>1, <1>2 DEF Kept

\* Nothing refers to what is not there yet.
LEMMA NotYet ==
    ASSUME NEW w, Formed(w), NEW m \in Nat, m > Len(w.heap)
    PROVE  Cardinality(Refs(w.heap, m)) = 0 /\ Times(m, w.todo) = 0
<1>1. w.heap \in Seq(Nodes) /\ w.todo \in Seq(Nat) /\ Len(w.heap) \in Nat /\ Len(TypeRefs) \in Nat
  BY WorldIs, ConstantsAre
<1>2. Len(TypeRefs) <= Len(w.heap)
  <2>1. FirstNode <= Len(w.heap)
    BY DEF Formed
  <2>2. QED  BY <1>1, <2>1, ConstantsAre
<1>3. Refs(w.heap, m) = {}
  <2> SUFFICES ASSUME NEW u \in Refs(w.heap, m) PROVE FALSE
    OBVIOUS
  <2>1. /\ u[1] \in 1 .. Len(w.heap) /\ u[2] \in 0 .. Len(w.heap[u[1]].parts)
        /\ PointsTo(w.heap, u[1], u[2]) = m
    BY DEF Refs
  <2>2. Shaped(w.heap, u[1])
    BY <2>1 DEF Formed
  <2>3. CASE u[2] = 0
    <3>1. w.heap[u[1]].type = m /\ m \in 0 .. Len(TypeRefs)
      BY <2>1, <2>2, <2>3 DEF Shaped, PointsTo
    <3>2. QED  BY <1>1, <1>2, <3>1
  <2>4. CASE u[2] # 0
    <3>1. u[2] \in 1 .. Len(w.heap[u[1]].parts)
      BY <1>1, <2>1, <2>4, NodeIs
    <3>2. w.heap[u[1]].parts[u[2]] = m
      BY <2>1, <2>4 DEF PointsTo
    <3>3. m \in 0 .. Len(w.heap)
      BY <2>2, <3>1, <3>2 DEF Shaped
    <3>4. QED  BY <1>1, <3>3
  <2>5. QED  BY <2>3, <2>4
<1>4. Occurs(m, w.todo) = {}
  <2> SUFFICES ASSUME NEW k \in Occurs(m, w.todo) PROVE FALSE
    OBVIOUS
  <2>1. k \in 1 .. Len(w.todo) /\ w.todo[k] = m
    BY <1>1, LenProperties DEF Occurs
  <2>2. w.todo[k] \in 0 .. Len(w.heap)
    BY <2>1 DEF Formed
  <2>3. QED  BY <1>1, <2>1, <2>2
<1>5. Times(m, w.todo) = Cardinality(Occurs(m, w.todo))
  BY <1>1, TimesType
<1>6. QED  BY <1>3, <1>4, <1>5, FS_EmptySet

LEMMA NewOwed ==
    ASSUME NEW w, Formed(w), NEW class \in Labels, class # "variable", class # "call",
           NEW type \in 1 .. Len(TypeRefs)
    PROVE  LET v == New(w, class, type)
               m == Len(w.heap) + 1 IN
           /\ Formed(v) /\ Kept(w.heap, v.heap) /\ Len(v.heap) = m /\ v.blame = w.blame
           /\ v.heap[m].count = 1 /\ v.heap[m].parts = <<>>
           /\ \A i \in 1 .. Len(w.heap) : Owed(v, i) = Owed(w, i) - One(i, type)
           /\ Owed(v, m) = 1
<1> DEFINE v == New(w, class, type)
           m == Len(w.heap) + 1
           node == Object(class, "", <<>>, type, 1)
<1>1. /\ w \in Worlds /\ type \in Nat /\ Len(w.heap) \in Nat /\ w.heap \in Seq(Nodes)
      /\ w.lost \in Seq(Nat) /\ Len(w.lost) = Len(w.heap)
  BY WorldIs, ConstantsAre
<1>2. /\ v \in Worlds /\ v.todo = w.todo /\ v.blame = w.blame
      /\ v.heap = Append(w.heap, node) /\ v.lost = Append(w.lost, 0)
  BY <1>1, NewIs
<1>3. /\ node.class = class /\ node.parts = <<>> /\ node.type = type /\ node.count = 1
      /\ Len(node.parts) = 0
  BY DEF Object
<1>4. node \in Nodes
  <2>1. <<>> \in Seq(Nat) /\ 1 \in Nat
    OBVIOUS
  <2>2. "" \in Labels
    BY DEF Labels
  <2>3. QED  BY <1>1, <2>1, <2>2 DEF Nodes, Object
<1> HIDE DEF v, node
<1>6. /\ Len(v.heap) = m /\ v.heap[m] = node /\ \A j \in 1 .. Len(w.heap) : v.heap[j] = w.heap[j]
      /\ Len(v.lost) = m /\ v.lost[m] = 0 /\ \A j \in 1 .. Len(w.heap) : v.lost[j] = w.lost[j]
  <2>1. /\ Len(v.heap) = m /\ v.heap[m] = node /\ \A j \in 1 .. Len(w.heap) : v.heap[j] = w.heap[j]
    BY <1>1, <1>2, <1>4, AppendProperties
  <2>2. /\ Len(v.lost) = m /\ v.lost[m] = 0 /\ \A j \in 1 .. Len(w.heap) : v.lost[j] = w.lost[j]
    BY <1>1, <1>2, AppendProperties
  <2>3. QED  BY <2>1, <2>2
<1>7. Formed(v)
  <2>1. \A x \in 0 .. Len(w.heap) : x \in 0 .. m
    BY <1>1
  <2>2. ASSUME NEW j \in 1 .. m PROVE Shaped(v.heap, j)
    <3>1. CASE j = m
      <4>1. v.heap[j] = node
        BY <1>6, <3>1
      <4>2. v.heap[j].type \in 0 .. Len(TypeRefs) /\ v.heap[j].class = class /\ 1 .. Len(v.heap[j].parts) = {}
        BY <1>3, <4>1, ConstantsAre
      <4> HIDE DEF m
      <4>3. QED  BY <4>2 DEF Shaped
    <3>2. CASE j # m
      <4>1. j \in 1 .. Len(w.heap)
        BY <1>1, <3>2
      <4>2. Shaped(w.heap, j)
        BY <4>1 DEF Formed
      <4>3. Len(w.heap) <= Len(v.heap) /\ Len(v.heap) \in Nat /\ Len(w.heap) \in Nat
        BY <1>1, <1>6
      <4>4. v.heap[j] = w.heap[j]
        BY <1>6, <4>1
      <4>5. QED  BY <4>2, <4>3, <4>4, ShapedAs
    <3>3. QED  BY <3>1, <3>2
  <2>3. \A k \in 1 .. Len(v.todo) : v.todo[k] \in 0 .. m
    BY <1>2, <2>1 DEF Formed
  <2>4. FirstNode <= m
    BY <1>1, ConstantsAre DEF Formed
  <2>5. QED  BY <1>2, <1>6, <2>2, <2>3, <2>4 DEF Formed
<1>8. Kept(w.heap, v.heap)
  <2>1. ASSUME NEW j \in 1 .. Len(w.heap)
        PROVE  v.heap[j] = w.heap[j] /\ v.heap[j].count >= w.heap[j].count
    <3>1. w.heap[j].count \in Nat
      BY WorldIs
    <3>2. w.heap[j].count >= w.heap[j].count
      BY <3>1
    <3>3. v.heap[j] = w.heap[j]
      BY <1>6
    <3>4. QED  BY <3>2, <3>3
  <2>2. Len(w.heap) <= Len(v.heap)
    BY <1>1, <1>6
  <2>3. QED  BY <2>1, <2>2 DEF Kept
<1>9. \A i : Cardinality(Refs(v.heap, i)) = Cardinality(Refs(w.heap, i)) + One(i, type)
  <2>1. node.count > 0
    BY <1>3
  <2>2. \A i : Cardinality(Refs(Append(w.heap, node), i)) = Cardinality(Refs(w.heap, i)) + One(i, node.type)
    BY <1>1, <1>3, <1>4, <2>1, RefsNew
  <2>3. QED  BY <1>2, <1>3, <2>2
<1>10. ASSUME NEW i \in 1 .. Len(w.heap) PROVE Owed(v, i) = Owed(w, i) - One(i, type)
  <2>1. One(i, type) \in Nat
    BY DEF One
  <2>2. /\ w.heap[i].count \in Nat /\ Cardinality(Refs(w.heap, i)) \in Nat
        /\ Times(i, w.todo) \in Nat /\ w.lost[i] \in Nat
    BY WorldIs
  <2>3. PICK a \in Nat, c \in Nat, t \in Nat, l \in Nat, x \in Nat :
            /\ a = w.heap[i].count /\ c = Cardinality(Refs(w.heap, i)) /\ t = Times(i, w.todo)
            /\ l = w.lost[i] /\ x = One(i, type)
    BY <2>1, <2>2
  <2>4. Owed(w, i) = a - c - t - l
    BY <2>3 DEF Owed
  <2>5. Owed(v, i) = a - (c + x) - t - l
    BY <1>2, <1>6, <1>9, <2>3 DEF Owed
  <2>6. Owed(v, i) = Owed(w, i) - x
    BY <2>4, <2>5
  <2>7. QED  BY <2>3, <2>6
<1>11. Owed(v, m) = 1
  <2>1. Cardinality(Refs(w.heap, m)) = 0 /\ Times(m, w.todo) = 0
    BY <1>1, NotYet
  <2>2. type # m
    <3>1. FirstNode <= Len(w.heap) /\ Len(TypeRefs) <= FirstNode /\ Len(TypeRefs) \in Nat /\ FirstNode \in Nat
      BY ConstantsAre DEF Formed
    <3>2. QED  BY <1>1, <3>1
  <2>3. Cardinality(Refs(v.heap, m)) = 0
    BY <1>9, <2>1, <2>2 DEF One
  <2>4. v.heap[m].count = 1 /\ v.lost[m] = 0 /\ Times(m, v.todo) = 0
    BY <1>2, <1>3, <1>6, <2>1
  <2> HIDE DEF m
  <2>5. QED  BY <2>3, <2>4 DEF Owed
<1>12. QED  BY <1>2, <1>3, <1>6, <1>7, <1>8, <1>10, <1>11 DEF v

\* A node that was made without an operand is a cast of one.
Wrapping(w, n, j) == [w EXCEPT !.heap[n] = [@ EXCEPT !.class = "cast", !.parts = <<j>>]]

LEMMA WrapOwed ==
    ASSUME NEW w, Formed(w), NEW n \in 1 .. Len(w.heap), NEW j \in 1 .. Len(w.heap),
           w.heap[n].parts = <<>>
    PROVE  LET v == Wrapping(w, n, j) IN
           /\ Formed(v) /\ OnlyAt(w.heap, v.heap, n) /\ v.blame = w.blame
           /\ v.heap[n].count = w.heap[n].count
           /\ w.heap[n].count > 0 =>
                \A i \in 1 .. Len(w.heap) : Owed(v, i) = Owed(w, i) - One(i, j)
<1> DEFINE node == [w.heap[n] EXCEPT !.class = "cast", !.parts = <<j>>]
           h == [w.heap EXCEPT ![n] = node]
           v == [w EXCEPT !.heap = h]
<1>1. w \in Worlds /\ j \in Nat /\ Len(w.heap) \in Nat /\ w.heap \in Seq(Nodes) /\ w.heap[n] \in Nodes
  BY WorldIs, NodeIs
<1>2. /\ node \in Nodes /\ node.class = "cast" /\ node.name = w.heap[n].name /\ node.parts = <<j>>
      /\ node.type = w.heap[n].type /\ node.count = w.heap[n].count
  <2> DEFINE s == <<j>>
             old == w.heap[n]
             base == [old EXCEPT !.class = "cast"]
  <2>1. s \in Seq(Nat)
    BY <1>1
  <2> HIDE DEF s
  <2>2. old \in Nodes /\ "cast" \in Labels
    BY <1>1, LabelsAre
  <2> HIDE DEF old
  <2>3. base \in Nodes /\ base.class = "cast" /\ base.name = old.name /\ base.type = old.type
        /\ base.count = old.count
    BY <2>2 DEF Nodes
  <2>4. node = [base EXCEPT !.parts = s]
    BY DEF old, s
  <2> HIDE DEF base, node
  <2>5. node \in Nodes /\ node.class = base.class /\ node.name = base.name /\ node.parts = s
        /\ node.type = base.type /\ node.count = base.count
    BY <2>1, <2>3, <2>4 DEF Nodes
  <2>6. QED  BY <2>3, <2>5 DEF old, s
<1>3. Wrapping(w, n, j) = v
  BY DEF Wrapping
<1> HIDE DEF node
<1>4. h \in Seq(Nodes) /\ Len(h) = Len(w.heap) /\ h[n] = node /\ \A x \in 1 .. Len(w.heap) : x # n => h[x] = w.heap[x]
  BY <1>1, <1>2, ExceptSeq
<1> HIDE DEF h
<1>5. v \in Worlds /\ v.heap = h /\ Besides(w, v)
  BY <1>1, <1>4 DEF Worlds, Besides
<1> HIDE DEF v
<1>6. Formed(v)
  <2>1. Shaped(v.heap, n)
    <3>1. v.heap[n] = node /\ Len(v.heap) = Len(w.heap) /\ Len(<<j>>) = 1 /\ <<j>>[1] = j
      BY <1>4, <1>5
    <3>2. Shaped(w.heap, n)
      BY DEF Formed
    <3>3. \A k \in 1 .. Len(node.parts) : node.parts[k] = j
      BY <1>2, <3>1
    <3>4. j \in 0 .. Len(w.heap) /\ j # 0
      BY <1>1
    <3>5. node.class # "variable" /\ node.class # "call"
      BY <1>2
    <3>6. node.type \in 0 .. Len(TypeRefs)
      BY <1>2, <3>2 DEF Shaped
    <3>7. QED  BY <3>1, <3>3, <3>4, <3>5, <3>6 DEF Shaped
  <2>2. ASSUME NEW i \in 1 .. Len(w.heap), i # n PROVE Shaped(v.heap, i)
    <3>1. Shaped(w.heap, i) /\ v.heap[i] = w.heap[i]
      BY <1>4, <1>5, <2>2 DEF Formed
    <3>2. QED  BY <1>1, <1>4, <1>5, <3>1, ShapedAs
  <2>3. \A i \in 1 .. Len(w.heap) : Shaped(v.heap, i)
    BY <2>1, <2>2
  <2>4. QED  BY <1>4, <1>5, <2>3 DEF Formed, Besides
<1>7. ASSUME w.heap[n].count > 0, NEW i \in 1 .. Len(w.heap)
      PROVE  Owed(v, i) = Owed(w, i) - One(i, j)
  <2>1. v.heap \in Seq(Nodes) /\ OnlyAt(w.heap, v.heap, n)
    BY <1>4, <1>5 DEF OnlyAt
  <2>2. /\ v.heap[n].count > 0 /\ v.heap[n].type = w.heap[n].type /\ v.heap[n].parts = <<j>>
    BY <1>2, <1>4, <1>5, <1>7
  <2>3. Cardinality(Refs(v.heap, i)) = Cardinality(Refs(w.heap, i)) + One(i, j)
    <3>1. Wrapped(w.heap, v.heap, n, j)
      BY <1>7, <2>1, <2>2 DEF Wrapped
    <3>2. QED  BY <1>1, <2>1, <3>1, RefsOperand
  <2>4. v.heap[i].count = w.heap[i].count /\ v.todo = w.todo /\ v.lost = w.lost
    BY <1>2, <1>4, <1>5 DEF Besides
  <2>5. One(i, j) \in Nat
    BY DEF One
  <2>6. /\ w.heap[i].count \in Nat /\ Cardinality(Refs(w.heap, i)) \in Nat
        /\ Times(i, w.todo) \in Nat /\ w.lost[i] \in Nat
    BY WorldIs
  <2>7. PICK a \in Nat, c \in Nat, t \in Nat, l \in Nat, x \in Nat :
            /\ a = w.heap[i].count /\ c = Cardinality(Refs(w.heap, i)) /\ t = Times(i, w.todo)
            /\ l = w.lost[i] /\ x = One(i, j)
    BY <2>5, <2>6
  <2>8. Owed(w, i) = a - c - t - l
    BY <2>7 DEF Owed
  <2>9. Owed(v, i) = a - (c + x) - t - l
    BY <2>3, <2>4, <2>7 DEF Owed
  <2>10. Owed(v, i) = Owed(w, i) - x
    BY <2>8, <2>9
  <2>11. QED  BY <2>7, <2>10
<1>8. OnlyAt(w.heap, v.heap, n) /\ v.blame = w.blame /\ v.heap[n].count = w.heap[n].count
  BY <1>2, <1>4, <1>5 DEF OnlyAt, Besides
<1>9. Wrapping(w, n, j) = v
  BY <1>3
<1>10. QED  BY <1>6, <1>7, <1>8, <1>9

\* What the pass has made has one reference that nobody holds, until it is passed on.
Fresh(w, v) ==
    /\ Formed(v) /\ Kept(w.heap, v.heap) /\ Len(v.heap) = Len(w.heap) + 1 /\ v.blame = w.blame
    /\ v.heap[Len(w.heap) + 1].count > 0

Paid(w, v) ==
    /\ \A i \in 1 .. Len(w.heap) : Owed(v, i) = Owed(w, i)
    /\ Owed(v, Len(w.heap) + 1) = 1

LEMMA MadeLiteral ==
    ASSUME NEW w, Formed(w), NEW type \in 1 .. Len(TypeRefs)
    PROVE  LET v == NewLiteral(w, type) IN
           /\ Fresh(w, v) /\ v.heap[Len(w.heap) + 1].parts = <<>>
           /\ w.heap[type].count > 0 => Paid(w, v)
<1> DEFINE u == New(w, "literal", type)
           v == Inc(u, type)
           m == Len(w.heap) + 1
<1>1. v = NewLiteral(w, type)
  BY DEF NewLiteral
<1>2. /\ Formed(u) /\ Kept(w.heap, u.heap) /\ Len(u.heap) = m /\ u.blame = w.blame
      /\ u.heap[m].count = 1 /\ u.heap[m].parts = <<>>
      /\ \A i \in 1 .. Len(w.heap) : Owed(u, i) = Owed(w, i) - One(i, type)
      /\ Owed(u, m) = 1
  <2>1. "literal" \in Labels /\ "literal" # "variable" /\ "literal" # "call"
    BY LabelsAre
  <2>2. QED  BY <2>1, NewOwed
<1> HIDE DEF u
<1>3. type \in 1 .. Len(w.heap) /\ type \in 1 .. m /\ type # m /\ Len(w.heap) \in Nat
  <2>1. FirstNode <= Len(w.heap) /\ Len(w.heap) \in Nat
    BY WorldIs DEF Formed
  <2>2. QED  BY <2>1, ConstantsAre
<1>4. /\ Formed(v) /\ Kept(u.heap, v.heap) /\ Len(v.heap) = Len(u.heap) /\ v.blame = u.blame
      /\ u.heap[type].count > 0 =>
            \A i \in 1 .. Len(u.heap) : Owed(v, i) = Owed(u, i) + One(i, type)
  BY <1>2, <1>3, IncOwed
<1> HIDE DEF v
<1>5. /\ \A j \in 1 .. Len(w.heap) : w.heap[j].count \in Nat
      /\ \A j \in 1 .. Len(u.heap) : u.heap[j].count \in Nat
      /\ \A j \in 1 .. Len(v.heap) : v.heap[j].count \in Nat
  BY <1>2, <1>4, WorldIs
<1>6. Kept(w.heap, v.heap)
  <2>1. Kept(w.heap, u.heap) /\ Kept(u.heap, v.heap)
    BY <1>2, <1>4
  <2>2. Len(w.heap) \in Nat /\ Len(u.heap) \in Nat /\ Len(v.heap) \in Nat
    BY <1>2, <1>3, <1>4
  <2>3. QED  BY <1>5, <2>1, <2>2, KeptTrans
<1>7. v.heap[m].count > 0 /\ v.heap[m].parts = <<>>
  <2>1. m \in 1 .. Len(u.heap) /\ m \in 1 .. Len(v.heap)
    BY <1>2, <1>3, <1>4
  <2>2. v.heap[m].count >= u.heap[m].count /\ v.heap[m].parts = u.heap[m].parts
    BY <1>4, <2>1 DEF Kept
  <2>3. v.heap[m].count \in Nat
    BY <1>5, <2>1
  <2>4. QED  BY <1>2, <2>2, <2>3
<1>8. ASSUME w.heap[type].count > 0 PROVE Paid(w, v)
  <2>1. u.heap[type].count > 0
    <3>1. u.heap[type].count >= w.heap[type].count /\ u.heap[type].count \in Nat /\ w.heap[type].count \in Nat
      BY <1>2, <1>3, <1>5 DEF Kept
    <3>2. QED  BY <1>8, <3>1
  <2>2. ASSUME NEW i \in 1 .. Len(w.heap) PROVE Owed(v, i) = Owed(w, i)
    <3>1. i \in 1 .. Len(u.heap)
      BY <1>2, <1>3
    <3>2. Owed(v, i) = Owed(u, i) + One(i, type) /\ Owed(u, i) = Owed(w, i) - One(i, type)
      BY <1>2, <1>4, <2>1, <3>1
    <3>3. PICK a \in Int, x \in Nat : a = Owed(w, i) /\ x = One(i, type)
      BY WorldIs DEF One
    <3>4. QED  BY <3>2, <3>3
  <2>3. Owed(v, m) = 1
    <3>1. m \in 1 .. Len(u.heap) /\ One(m, type) = 0
      BY <1>2, <1>3 DEF One
    <3>2. Owed(v, m) = Owed(u, m) + One(m, type)
      BY <1>4, <2>1, <3>1
    <3>3. QED  BY <1>2, <3>1, <3>2
  <2>4. QED  BY <2>2, <2>3 DEF Paid
<1>9. Fresh(w, v)
  BY <1>2, <1>4, <1>6, <1>7 DEF Fresh
<1>10. QED  BY <1>1, <1>7, <1>8, <1>9

LEMMA MadeCast ==
    ASSUME NEW w, Formed(w), NEW type \in 1 .. Len(TypeRefs), NEW j \in 1 .. Len(w.heap)
    PROVE  LET v == NewCast(w, j, type) IN
           /\ Fresh(w, v)
           /\ w.heap[type].count > 0 /\ w.heap[j].count > 0 => Paid(w, v)
<1> DEFINE m == Len(w.heap) + 1
           u == NewLiteral(w, type)
           x == Wrapping(u, m, j)
           v == Inc(x, j)
<1>1. v = NewCast(w, j, type)
  BY DEF NewCast, NewCastMoving, Wrapping
<1>2. /\ Fresh(w, u) /\ u.heap[m].parts = <<>>
      /\ w.heap[type].count > 0 => Paid(w, u)
  BY MadeLiteral
<1> HIDE DEF u
<1>3. /\ Formed(u) /\ Kept(w.heap, u.heap) /\ Len(u.heap) = m /\ u.blame = w.blame /\ u.heap[m].count > 0
      /\ Len(w.heap) \in Nat /\ m \in 1 .. Len(u.heap) /\ j \in 1 .. Len(u.heap) /\ j # m
  BY <1>2, WorldIs DEF Fresh
<1>4. /\ Formed(x) /\ OnlyAt(u.heap, x.heap, m) /\ x.blame = u.blame
      /\ x.heap[m].count = u.heap[m].count
      /\ u.heap[m].count > 0 =>
            \A i \in 1 .. Len(u.heap) : Owed(x, i) = Owed(u, i) - One(i, j)
  BY <1>2, <1>3, WrapOwed
<1> HIDE DEF x
<1>5. Len(x.heap) = m /\ j \in 1 .. Len(x.heap)
  BY <1>3, <1>4 DEF OnlyAt
<1>6. /\ Formed(v) /\ Kept(x.heap, v.heap) /\ Len(v.heap) = Len(x.heap) /\ v.blame = x.blame
      /\ x.heap[j].count > 0 =>
            \A i \in 1 .. Len(x.heap) : Owed(v, i) = Owed(x, i) + One(i, j)
  BY <1>4, <1>5, IncOwed
<1> HIDE DEF v
<1>7. /\ \A i \in 1 .. Len(w.heap) : w.heap[i].count \in Nat
      /\ \A i \in 1 .. Len(u.heap) : u.heap[i].count \in Nat
      /\ \A i \in 1 .. Len(x.heap) : x.heap[i].count \in Nat
      /\ \A i \in 1 .. Len(v.heap) : v.heap[i].count \in Nat
  BY <1>3, <1>4, <1>6, WorldIs
<1>8. Kept(w.heap, x.heap)
  <2>1. \A i \in 1 .. Len(w.heap) : x.heap[i] = u.heap[i]
    <3>1. \A i \in 1 .. Len(w.heap) : i \in 1 .. Len(u.heap) /\ i # m
      BY <1>3
    <3>2. QED  BY <1>4, <3>1 DEF OnlyAt
  <2>2. QED  BY <1>3, <1>5, <2>1 DEF Kept
<1>9. Kept(w.heap, v.heap)
  <2>1. Len(x.heap) \in Nat /\ Len(v.heap) \in Nat
    BY <1>3, <1>5, <1>6
  <2>2. QED  BY <1>3, <1>6, <1>7, <1>8, <2>1, KeptTrans
<1>10. v.heap[m].count > 0
  <2>1. m \in 1 .. Len(x.heap) /\ m \in 1 .. Len(v.heap)
    BY <1>3, <1>5, <1>6
  <2>2. v.heap[m].count >= x.heap[m].count /\ x.heap[m].count > 0
    BY <1>3, <1>4, <1>6, <2>1 DEF Kept
  <2>3. v.heap[m].count \in Nat /\ x.heap[m].count \in Nat
    BY <1>7, <2>1
  <2>4. QED  BY <2>2, <2>3
<1>11. ASSUME w.heap[type].count > 0, w.heap[j].count > 0 PROVE Paid(w, v)
  <2>1. x.heap[j].count > 0
    <3>1. x.heap[j].count >= w.heap[j].count
      BY <1>8 DEF Kept
    <3>2. x.heap[j].count \in Nat /\ w.heap[j].count \in Nat
      BY <1>5, <1>7
    <3>3. QED  BY <1>11, <3>1, <3>2
  <2>2. ASSUME NEW i \in 1 .. m PROVE Owed(v, i) = Owed(u, i)
    <3>1. Owed(v, i) = Owed(x, i) + One(i, j) /\ Owed(x, i) = Owed(u, i) - One(i, j)
      BY <1>3, <1>4, <1>5, <1>6, <2>1
    <3>2. i \in 1 .. Len(u.heap) /\ Owed(u, i) \in Int /\ One(i, j) \in Nat
      BY <1>3, WorldIs DEF One
    <3>3. PICK a \in Int, b \in Nat : a = Owed(u, i) /\ b = One(i, j)
      BY <3>2
    <3>4. QED  BY <3>1, <3>3
  <2>3. Paid(w, u)
    BY <1>2, <1>11
  <2>4. \A i \in 1 .. Len(w.heap) : i \in 1 .. m
    BY <1>3
  <2>5. m \in 1 .. m
    BY <1>3
  <2>6. QED  BY <2>2, <2>3, <2>4, <2>5 DEF Paid
<1>12. Fresh(w, v)
  BY <1>3, <1>4, <1>5, <1>6, <1>9, <1>10 DEF Fresh
<1>13. QED  BY <1>1, <1>11, <1>12

(***************************************************************************)
(* The setters.                                                            *)
(***************************************************************************)

\* A setter makes no object, and no mistake is forgotten.
Set(w, v) == Formed(v) /\ Len(v.heap) = Len(w.heap) /\ w.blame \subseteq v.blame

\* What each object is owed stays.
Even(w, v) == \A i \in 1 .. Len(w.heap) : Owed(v, i) = Owed(w, i)

LEMMA OperandIs ==
    ASSUME NEW w, Formed(w), NEW n \in 1 .. Len(w.heap), NEW k \in 1 .. Len(w.heap[n].parts)
    PROVE  /\ Operand(w, n, k) \in 0 .. Len(w.heap)
           /\ w.heap[n].class # "variable" => Operand(w, n, k) # 0
<1>1. Shaped(w.heap, n)
  BY DEF Formed
<1>2. QED  BY <1>1 DEF Shaped, Operand

LEMMA SwappingOwed ==
    ASSUME NEW w, Formed(w), NEW n \in 1 .. Len(w.heap), NEW k \in 1 .. Len(w.heap[n].parts),
           NEW j \in 1 .. Len(w.heap)
    PROVE  LET v == SetSwapping(w, n, k, j) IN
           /\ Set(w, v)
           /\ w.heap[n].count > 0 /\ w.heap[j].count > 0 => Even(w, v)
<1> DEFINE old == Operand(w, n, k)
           a == Inc(w, j)
           b == Later(a, old)
           v == Put(b, n, k, j)
<1>1. v = SetSwapping(w, n, k, j)
  BY DEF SetSwapping
<1>2. old \in 0 .. Len(w.heap)
  BY OperandIs
<1>3. /\ Formed(a) /\ Kept(w.heap, a.heap) /\ Len(a.heap) = Len(w.heap) /\ a.blame = w.blame
      /\ w.heap[j].count > 0 =>
            \A i \in 1 .. Len(w.heap) : Owed(a, i) = Owed(w, i) + One(i, j)
  BY IncOwed
<1>4. w.heap[n].parts = a.heap[n].parts /\ a.heap[n].count >= w.heap[n].count
  BY <1>3 DEF Kept
<1> HIDE DEF a
<1>5. /\ Formed(b) /\ b.heap = a.heap /\ b.blame = a.blame
      /\ \A i \in 1 .. Len(a.heap) : Owed(b, i) = Owed(a, i) - One(i, old)
  <2> HIDE DEF old
  <2>1. old \in 0 .. Len(a.heap)
    BY <1>2, <1>3
  <2>2. QED  BY <1>3, <2>1, LaterOwed
<1> HIDE DEF b
<1>6. /\ n \in 1 .. Len(b.heap) /\ k \in 1 .. Len(b.heap[n].parts) /\ j \in 1 .. Len(b.heap)
      /\ Operand(b, n, k) = old
  BY <1>3, <1>4, <1>5 DEF Operand
<1>7. /\ Formed(v) /\ Len(v.heap) = Len(b.heap) /\ v.blame = b.blame
      /\ b.heap[n].count > 0 =>
            \A i \in 1 .. Len(b.heap) : Owed(v, i) = Owed(b, i) - One(i, j) + One(i, Operand(b, n, k))
  BY <1>5, <1>6, PutOwed
<1> HIDE DEF v
<1>8. ASSUME w.heap[n].count > 0, w.heap[j].count > 0 PROVE Even(w, v)
  <2>1. b.heap[n].count > 0
    <3>1. a.heap[n].count \in Nat /\ w.heap[n].count \in Nat
      BY <1>3, WorldIs
    <3>2. QED  BY <1>4, <1>5, <1>8, <3>1
  <2>2. ASSUME NEW i \in 1 .. Len(w.heap) PROVE Owed(v, i) = Owed(w, i)
    <3>1. PICK o \in Int, x \in Nat, y \in Nat : o = Owed(w, i) /\ x = One(i, j) /\ y = One(i, old)
      BY WorldIs DEF One
    <3> HIDE DEF old
    <3>2. Owed(a, i) = o + x
      BY <1>3, <1>8, <3>1
    <3>3. Owed(b, i) = Owed(a, i) - y
      BY <1>3, <1>5, <3>1
    <3>4. Owed(v, i) = Owed(b, i) - x + y
      BY <1>3, <1>5, <1>6, <1>7, <2>1, <3>1
    <3>5. QED  BY <3>1, <3>2, <3>3, <3>4
  <2>3. QED  BY <2>2 DEF Even
<1>9. QED  BY <1>1, <1>3, <1>5, <1>7, <1>8 DEF Set

LEMMA CountingOwed ==
    ASSUME NEW w, Formed(w), NEW n \in 1 .. Len(w.heap), NEW k \in 1 .. Len(w.heap[n].parts),
           NEW j \in 1 .. Len(w.heap)
    PROVE  LET v == SetCounting(w, n, k, j) IN
           /\ Set(w, v)
           /\ w.heap[n].count > 0 /\ w.heap[j].count > 0 => Even(w, v)
<1> DEFINE old == Operand(w, n, k)
           a == Inc(w, j)
           b == Put(a, n, k, j)
           v == Lose(b, old)
<1>1. v = SetCounting(w, n, k, j)
  BY DEF SetCounting
<1>2. old \in 0 .. Len(w.heap)
  BY OperandIs
<1>3. /\ Formed(a) /\ Kept(w.heap, a.heap) /\ Len(a.heap) = Len(w.heap) /\ a.blame = w.blame
      /\ w.heap[j].count > 0 =>
            \A i \in 1 .. Len(w.heap) : Owed(a, i) = Owed(w, i) + One(i, j)
  BY IncOwed
<1>4. w.heap[n].parts = a.heap[n].parts /\ a.heap[n].count >= w.heap[n].count
  BY <1>3 DEF Kept
<1> HIDE DEF a
<1>5. /\ n \in 1 .. Len(a.heap) /\ k \in 1 .. Len(a.heap[n].parts) /\ j \in 1 .. Len(a.heap)
      /\ Operand(a, n, k) = old
  BY <1>3, <1>4 DEF Operand
<1>6. /\ Formed(b) /\ Len(b.heap) = Len(a.heap) /\ b.blame = a.blame
      /\ a.heap[n].count > 0 =>
            \A i \in 1 .. Len(a.heap) : Owed(b, i) = Owed(a, i) - One(i, j) + One(i, Operand(a, n, k))
  BY <1>3, <1>5, PutOwed
<1> HIDE DEF b
<1>7. /\ Formed(v) /\ v.heap = b.heap /\ v.blame = b.blame
      /\ \A i \in 1 .. Len(b.heap) : Owed(v, i) = Owed(b, i) - One(i, old)
  <2> HIDE DEF old
  <2>1. old \in 0 .. Len(b.heap)
    BY <1>2, <1>3, <1>6
  <2>2. QED  BY <1>6, <2>1, LoseOwed
<1> HIDE DEF v
<1>8. ASSUME w.heap[n].count > 0, w.heap[j].count > 0 PROVE Even(w, v)
  <2>1. a.heap[n].count > 0
    <3>1. a.heap[n].count \in Nat /\ w.heap[n].count \in Nat
      BY <1>3, WorldIs
    <3>2. QED  BY <1>4, <1>8, <3>1
  <2>2. ASSUME NEW i \in 1 .. Len(w.heap) PROVE Owed(v, i) = Owed(w, i)
    <3>1. PICK o \in Int, x \in Nat, y \in Nat : o = Owed(w, i) /\ x = One(i, j) /\ y = One(i, old)
      BY WorldIs DEF One
    <3> HIDE DEF old
    <3>2. Owed(a, i) = o + x
      BY <1>3, <1>8, <3>1
    <3>3. Owed(b, i) = Owed(a, i) - x + y
      BY <1>3, <1>5, <1>6, <2>1, <3>1
    <3>4. Owed(v, i) = Owed(b, i) - y
      BY <1>3, <1>6, <1>7, <3>1
    <3>5. QED  BY <3>1, <3>2, <3>3, <3>4
  <2>3. QED  BY <2>2 DEF Even
<1>9. QED  BY <1>1, <1>3, <1>6, <1>7, <1>8 DEF Set

LEMMA StoringOwed ==
    ASSUME NEW w, Formed(w), NEW n \in 1 .. Len(w.heap), NEW k \in 1 .. Len(w.heap[n].parts),
           NEW j \in 1 .. Len(w.heap)
    PROVE  LET v == SetStoring(w, n, k, j) IN Set(w, v) /\ v.blame # {}
<1> DEFINE a == Put(w, n, k, j)
           v == Blame(a, "set_left")
<1>1. v = SetStoring(w, n, k, j)
  BY DEF SetStoring
<1>2. Formed(a) /\ Len(a.heap) = Len(w.heap) /\ a.blame = w.blame
  BY PutOwed
<1>3. "set_left" \in Mistakes
  BY DEF Mistakes
<1> HIDE DEF a
<1>4. Formed(v) /\ v.heap = a.heap /\ v.blame = a.blame \cup {"set_left"}
  BY <1>2, <1>3, BlameOwed
<1> HIDE DEF v
<1>5. QED  BY <1>1, <1>2, <1>4 DEF Set

LEMMA SetOperandOwed ==
    ASSUME NEW w, Formed(w), NEW n \in 1 .. Len(w.heap), NEW k \in 1 .. Len(w.heap[n].parts),
           NEW j \in 1 .. Len(w.heap), <<w.heap[n].class, k>> \in Swapping \cup Counting \cup Storing
    PROVE  LET v == SetOperand(w, n, k, j) IN
           /\ Set(w, v)
           /\ v.blame = {} /\ w.heap[n].count > 0 /\ w.heap[j].count > 0 => Even(w, v)
<1> DEFINE v == SetOperand(w, n, k, j)
<1>1. \/ v = SetSwapping(w, n, k, j)
      \/ v = SetCounting(w, n, k, j)
      \/ v = SetStoring(w, n, k, j)
  BY DEF SetOperand
<1> HIDE DEF v
<1>2. CASE v = SetSwapping(w, n, k, j)
  BY <1>2, SwappingOwed DEF v
<1>3. CASE v = SetCounting(w, n, k, j)
  BY <1>3, CountingOwed DEF v
<1>4. CASE v = SetStoring(w, n, k, j)
  BY <1>4, StoringOwed DEF v
<1>5. QED  BY <1>1, <1>2, <1>3, <1>4 DEF v

LEMMA TypesAre ==
    ASSUME NEW w, Formed(w)
    PROVE  \A i \in 1 .. Len(TypeRefs) : i \in 1 .. Len(w.heap) /\ i \in 1 .. FirstNode
<1>1. FirstNode <= Len(w.heap) /\ Len(w.heap) \in Nat
  BY WorldIs DEF Formed
<1>2. QED  BY <1>1, ConstantsAre

\* The type of a node changes, and the new one is counted.
LEMMA RetypeOwed ==
    ASSUME NEW w, Formed(w), NEW n \in 1 .. Len(w.heap), NEW j \in 1 .. Len(TypeRefs)
    PROVE  LET v == PutType(Inc(w, j), n, j) IN
           /\ Formed(v) /\ Len(v.heap) = Len(w.heap) /\ v.blame = w.blame
           /\ w.heap[n].count > 0 /\ w.heap[j].count > 0 =>
                \A i \in 1 .. Len(w.heap) : Owed(v, i) = Owed(w, i) + One(i, w.heap[n].type)
<1> DEFINE old == w.heap[n].type
           a == Inc(w, j)
           v == PutType(a, n, j)
<1>1. j \in 1 .. Len(w.heap) /\ j \in 0 .. Len(TypeRefs)
  BY TypesAre, ConstantsAre
<1>2. /\ Formed(a) /\ Kept(w.heap, a.heap) /\ Len(a.heap) = Len(w.heap) /\ a.blame = w.blame
      /\ w.heap[j].count > 0 =>
            \A i \in 1 .. Len(w.heap) : Owed(a, i) = Owed(w, i) + One(i, j)
  BY <1>1, IncOwed
<1>3. a.heap[n].type = old /\ a.heap[n].count >= w.heap[n].count
  BY <1>2 DEF Kept
<1> HIDE DEF a
<1>4. /\ Formed(v) /\ Len(v.heap) = Len(a.heap) /\ v.blame = a.blame
      /\ a.heap[n].count > 0 =>
            \A i \in 1 .. Len(a.heap) : Owed(v, i) = Owed(a, i) - One(i, j) + One(i, a.heap[n].type)
  BY <1>1, <1>2, PutTypeOwed
<1> HIDE DEF v
<1>5. ASSUME w.heap[n].count > 0, w.heap[j].count > 0, NEW i \in 1 .. Len(w.heap)
      PROVE  Owed(v, i) = Owed(w, i) + One(i, old)
  <2>1. a.heap[n].count > 0
    <3>1. a.heap[n].count \in Nat /\ w.heap[n].count \in Nat
      BY <1>2, WorldIs
    <3>2. QED  BY <1>3, <1>5, <3>1
  <2>2. PICK o \in Int, x \in Nat, y \in Nat : o = Owed(w, i) /\ x = One(i, j) /\ y = One(i, old)
    BY WorldIs DEF One
  <2>3. Owed(a, i) = o + x
    BY <1>2, <1>5, <2>2
  <2>4. Owed(v, i) = Owed(a, i) - x + y
    <3> HIDE DEF old
    <3>1. QED  BY <1>2, <1>3, <1>4, <2>1, <2>2
  <2>5. Owed(v, i) = o + y
    BY <2>3, <2>4
  <2>6. QED  BY <2>2, <2>5
<1>6. QED  BY <1>2, <1>4, <1>5 DEF a, v

LEMMA SetTypeOwed ==
    ASSUME NEW w, Formed(w), NEW n \in 1 .. Len(w.heap), NEW j \in 1 .. Len(TypeRefs),
           w.heap[n].class \in Places \cup {"unary", "literal", "sizeof", "address", "binary"}
    PROVE  LET v == SetType(w, n, j) IN
           /\ Set(w, v)
           /\ v.blame = {} /\ w.heap[n].count > 0 /\ w.heap[j].count > 0 => Even(w, v)
<1> DEFINE v == SetType(w, n, j)
           old == w.heap[n].type
<1>1. \/ v = SetTypeCounting(w, n, j)
      \/ v = SetTypeOnce(w, n, j)
      \/ v = SetTypeTwice(w, n, j)
  BY DEF SetType
<1>2. old \in 0 .. Len(TypeRefs)
  BY DEF Formed, Shaped
<1>3. Set(w, w) /\ Even(w, w)
  BY DEF Set, Even
<1> HIDE DEF v
<1>4. CASE v = SetTypeCounting(w, n, j)
  <2> DEFINE a == PutType(Inc(w, j), n, j)
  <2>1. /\ Formed(a) /\ Len(a.heap) = Len(w.heap) /\ a.blame = w.blame
        /\ w.heap[n].count > 0 /\ w.heap[j].count > 0 =>
            \A i \in 1 .. Len(w.heap) : Owed(a, i) = Owed(w, i) + One(i, old)
    BY RetypeOwed
  <2>2. v = Lose(a, old)
    BY <1>4 DEF SetTypeCounting
  <2> HIDE DEF a
  <2>3. /\ Formed(v) /\ v.heap = a.heap /\ v.blame = a.blame
        /\ \A i \in 1 .. Len(a.heap) : Owed(v, i) = Owed(a, i) - One(i, old)
    <3>1. old \in 0 .. Len(a.heap)
      <4>1. FirstNode <= Len(w.heap) /\ Len(w.heap) \in Nat
        BY WorldIs DEF Formed
      <4> HIDE DEF old
      <4>2. QED  BY <1>2, <2>1, <4>1, ConstantsAre
    <3> HIDE DEF old
    <3>2. QED  BY <2>1, <2>2, <3>1, LoseOwed
  <2>4. ASSUME w.heap[n].count > 0, w.heap[j].count > 0, NEW i \in 1 .. Len(w.heap)
        PROVE  Owed(v, i) = Owed(w, i)
    <3>1. PICK o \in Int, y \in Nat : o = Owed(w, i) /\ y = One(i, old)
      BY WorldIs DEF One
    <3> HIDE DEF old
    <3>2. Owed(a, i) = o + y /\ Owed(v, i) = Owed(a, i) - y
      BY <2>1, <2>3, <2>4, <3>1
    <3>3. QED  BY <3>1, <3>2
  <2>5. QED  BY <2>1, <2>3, <2>4 DEF Set, Even, v
<1>5. CASE v = SetTypeOnce(w, n, j)
  <2>1. CASE old # 0
    <3>1. v = w
      BY <1>5, <2>1 DEF SetTypeOnce
    <3>2. QED  BY <1>3, <3>1 DEF v
  <2>2. CASE old = 0
    <3> DEFINE a == PutType(Inc(w, j), n, j)
    <3>1. /\ Formed(a) /\ Len(a.heap) = Len(w.heap) /\ a.blame = w.blame
          /\ w.heap[n].count > 0 /\ w.heap[j].count > 0 =>
              \A i \in 1 .. Len(w.heap) : Owed(a, i) = Owed(w, i) + One(i, old)
      BY RetypeOwed
    <3>2. v = a
      BY <1>5, <2>2 DEF SetTypeOnce
    <3> HIDE DEF a
    <3>3. ASSUME w.heap[n].count > 0, w.heap[j].count > 0, NEW i \in 1 .. Len(w.heap)
          PROVE  Owed(v, i) = Owed(w, i)
      <4>1. One(i, old) = 0 /\ Owed(w, i) \in Int
        <5>1. Owed(w, i) \in Int
          BY WorldIs
        <5>2. i # 0
          OBVIOUS
        <5> HIDE DEF old
        <5>3. QED  BY <2>2, <5>1, <5>2 DEF One
      <4>2. Owed(v, i) = Owed(w, i) + One(i, old)
        <5> HIDE DEF old
        <5>1. QED  BY <3>1, <3>2, <3>3
      <4> HIDE DEF old
      <4>3. QED  BY <4>1, <4>2
    <3>4. QED  BY <3>1, <3>2, <3>3 DEF Set, Even, v
  <2>3. QED  BY <2>1, <2>2
<1>6. CASE v = SetTypeTwice(w, n, j)
  <2>1. CASE old = 0
    <3>1. v = w
      BY <1>6, <2>1 DEF SetTypeTwice
    <3>2. QED  BY <1>3, <3>1 DEF v
  <2>2. CASE old # 0
    <3> DEFINE a == Inc(w, old)
               b == PutType(a, n, j)
    <3>1. v = Blame(b, "BinaryOpNode::set_type")
      BY <1>6, <2>2 DEF SetTypeTwice
    <3>2. Formed(a) /\ Len(a.heap) = Len(w.heap) /\ a.blame = w.blame
      <4>1. old \in 1 .. Len(w.heap)
        <5> HIDE DEF old
        <5>1. old \in 1 .. Len(TypeRefs)
          BY <1>2, <2>2, ConstantsAre
        <5>2. QED  BY <5>1, TypesAre
      <4> HIDE DEF old
      <4>2. QED  BY <4>1, IncOwed
    <3> HIDE DEF a
    <3>3. Formed(b) /\ Len(b.heap) = Len(a.heap) /\ b.blame = a.blame
      <4>1. j \in 0 .. Len(TypeRefs)
        BY ConstantsAre
      <4>2. QED  BY <3>2, <4>1, PutTypeOwed
    <3> HIDE DEF b
    <3>4. "BinaryOpNode::set_type" \in Mistakes
      BY DEF Mistakes
    <3>5. Formed(v) /\ v.heap = b.heap /\ v.blame = b.blame \cup {"BinaryOpNode::set_type"}
      BY <3>1, <3>3, <3>4, BlameOwed
    <3>6. Set(w, v) /\ v.blame # {}
      BY <3>2, <3>3, <3>5 DEF Set
    <3>7. QED  BY <3>6 DEF v
  <2>3. QED  BY <2>1, <2>2
<1>7. QED  BY <1>1, <1>4, <1>5, <1>6

(***************************************************************************)
(* The books balance.                                                      *)
(***************************************************************************)

Balanced(w, B) == \A i \in 1 .. Len(w.heap) : Owed(w, i) = IF i \in B THEN 1 ELSE 0

\* The table of types, the scope and, until the end, the pass have one reference each.
Standing == (1 .. FirstNode) \cup (IF phase = "open" THEN {root} ELSE {})

LEMMA WorldFields ==
    World.heap = heap /\ World.lost = lost /\ World.todo = todo /\ World.blame = blame
BY DEF World

LEMMA StandingLive ==
    ASSUME NEW w, Formed(w), NEW B, Balanced(w, B), NEW i \in 1 .. Len(w.heap), i \in B
    PROVE  w.heap[i].count > 0
<1>1. /\ w.heap[i].count \in Nat /\ Cardinality(Refs(w.heap, i)) \in Nat
      /\ Times(i, w.todo) \in Nat /\ w.lost[i] \in Nat
  BY WorldIs
<1>2. w.heap[i].count - Cardinality(Refs(w.heap, i)) - Times(i, w.todo) - w.lost[i] = 1
  BY DEF Balanced, Owed
<1>3. PICK a \in Nat, c \in Nat, t \in Nat, l \in Nat :
            /\ a = w.heap[i].count /\ c = Cardinality(Refs(w.heap, i)) /\ t = Times(i, w.todo)
            /\ l = w.lost[i]
  BY <1>1
<1>4. a - c - t - l = 1
  BY <1>2, <1>3
<1>5. a > 0
  BY <1>4
<1>6. QED  BY <1>3, <1>5

LEMMA RefLive ==
    ASSUME NEW w, Formed(w), NEW B, Balanced(w, B), NEW n \in 1 .. Len(w.heap), w.heap[n].count > 0,
           NEW k \in 0 .. Len(w.heap[n].parts), NEW i \in 1 .. Len(w.heap),
           PointsTo(w.heap, n, k) = i
    PROVE  w.heap[i].count > 0
<1>1. /\ w.heap[i].count \in Nat /\ Cardinality(Refs(w.heap, i)) \in Nat
      /\ Times(i, w.todo) \in Nat /\ w.lost[i] \in Nat /\ w.heap \in Seq(Nodes)
  BY WorldIs
<1>2. w.heap[i].count - Cardinality(Refs(w.heap, i)) - Times(i, w.todo) - w.lost[i] \in {0, 1}
  BY DEF Balanced, Owed
<1>3. Cardinality(Refs(w.heap, i)) # 0
  <2>1. n \in Nat /\ k \in Nat
    BY <1>1, NodeIs
  <2>2. <<n, k>> \in Refs(w.heap, i)
    BY <2>1 DEF Refs
  <2>3. IsFiniteSet(Refs(w.heap, i))
    BY <1>1, RefsFinite
  <2>4. QED  BY <2>2, <2>3, FS_EmptySet
<1>4. PICK a \in Nat, c \in Nat, t \in Nat, l \in Nat :
            /\ a = w.heap[i].count /\ c = Cardinality(Refs(w.heap, i)) /\ t = Times(i, w.todo)
            /\ l = w.lost[i]
  BY <1>1
<1>5. a - c - t - l \in {0, 1} /\ c # 0
  BY <1>2, <1>3, <1>4
<1>6. a > 0
  BY <1>5
<1>7. QED  BY <1>4, <1>6

LEMMA QueuedLive ==
    ASSUME NEW w, Formed(w), NEW B, Balanced(w, B), NEW k \in 1 .. Len(w.todo),
           NEW i \in 1 .. Len(w.heap), w.todo[k] = i
    PROVE  w.heap[i].count > 0
<1>1. /\ w.heap[i].count \in Nat /\ Cardinality(Refs(w.heap, i)) \in Nat
      /\ Times(i, w.todo) \in Nat /\ w.lost[i] \in Nat /\ w.todo \in Seq(Nat)
  BY WorldIs
<1>2. w.heap[i].count - Cardinality(Refs(w.heap, i)) - Times(i, w.todo) - w.lost[i] \in {0, 1}
  BY DEF Balanced, Owed
<1>3. Times(i, w.todo) # 0
  <2>1. k \in Occurs(i, w.todo)
    BY <1>1, LenProperties DEF Occurs
  <2>2. IsFiniteSet(Occurs(i, w.todo)) /\ Times(i, w.todo) = Cardinality(Occurs(i, w.todo))
    BY <1>1, TimesType
  <2>3. QED  BY <2>1, <2>2, FS_EmptySet
<1>4. PICK a \in Nat, c \in Nat, t \in Nat, l \in Nat :
            /\ a = w.heap[i].count /\ c = Cardinality(Refs(w.heap, i)) /\ t = Times(i, w.todo)
            /\ l = w.lost[i]
  BY <1>1
<1>5. a - c - t - l \in {0, 1} /\ t # 0
  BY <1>2, <1>3, <1>4
<1>6. a > 0
  BY <1>5
<1>7. QED  BY <1>4, <1>6

\* From the root a pass only comes to nodes that are alive.
LEMMA ReachedLive ==
    ASSUME Formed(World), NEW B, Balanced(World, B), root \in 1 .. Len(heap), root \in B
    PROVE  Reached \subseteq Live
<1> DEFINE N == Len(heap)
           W == {0} \cup Live
           V == SUBSET W
           Rec(f) == f = [k \in 0 .. N |-> IF k = 0 THEN {root} ELSE WithParts(f[k - 1])]
           G == [p \in V \X (1 .. N) |-> WithParts(p[1])]
<1>1. N \in Nat /\ heap \in Seq(Nodes) /\ DOMAIN heap = 1 .. N
  BY WorldIs, WorldFields, LenProperties
<1>2. {root} \in V
  BY <1>1, StandingLive, WorldFields DEF Live
<1>3. ASSUME NEW S \in V PROVE WithParts(S) \in V
  <2> SUFFICES ASSUME NEW i \in S \cap Live, NEW j \in ToSet(heap[i].parts) PROVE j \in W
    BY DEF WithParts
  <2>1. i \in 1 .. N /\ heap[i].count > 0
    BY <1>1 DEF Live
  <2>2. PICK k \in 1 .. Len(heap[i].parts) : heap[i].parts[k] = j
    BY <1>1, <2>1, NodeIs DEF ToSet
  <2>3. k \in 0 .. Len(heap[i].parts) /\ PointsTo(heap, i, k) = j
    BY <1>1, <2>1, <2>2, NodeIs DEF PointsTo
  <2>4. j \in 0 .. N
    BY <2>1, <2>2, WorldFields DEF Formed, Shaped
  <2>5. CASE j # 0
    <3>1. j \in 1 .. N
      BY <1>1, <2>4, <2>5
    <3>2. heap[j].count > 0
      BY <2>1, <2>3, <3>1, RefLive, WorldFields
    <3>3. QED  BY <1>1, <3>1, <3>2 DEF Live
  <2>6. QED  BY <2>5
<1> HIDE DEF W
<1>4. \E f \in [0 .. N -> V] : Rec(f)
  <2>1. G \in [V \X (1 .. N) -> V]
    BY <1>3
  <2>2. PICK f \in [0 .. N -> V] : Computes(f, N, {root}, G)
    <3> HIDE DEF G, V
    <3>1. QED  BY <1>1, <1>2, <2>1, Recursion
  <2>3. ASSUME NEW k \in 0 .. N PROVE f[k] = IF k = 0 THEN {root} ELSE WithParts(f[k - 1])
    <3>1. CASE k = 0
      BY <2>2, <3>1 DEF Computes
    <3>2. CASE k # 0
      <4>1. k \in 1 .. N /\ k - 1 \in 0 .. N
        BY <1>1, <3>2
      <4>2. f[k] = G[<<f[k - 1], k>>]
        <5> HIDE DEF G
        <5>1. QED  BY <2>2, <4>1 DEF Computes
      <4>3. f[k - 1] \in V
        BY <4>1
      <4>4. QED  BY <3>2, <4>1, <4>2, <4>3
    <3>3. QED  BY <3>1, <3>2
  <2>4. Rec(f)
    BY <2>3
  <2>5. QED  BY <2>4
<1> DEFINE reached == CHOOSE f : Rec(f)
<1>5. Reached = reached[N] \ (0 .. FirstNode)
  BY DEF Reached
<1>6. Rec(reached)
  <2> HIDE DEF Rec
  <2>1. QED  BY <1>4, Zenon
<1> HIDE DEF reached
<1>7. reached[0] = {root} /\ \A k \in 0 .. N - 1 : reached[k + 1] = WithParts(reached[k])
  <2>1. \A k \in 0 .. N : reached[k] = IF k = 0 THEN {root} ELSE WithParts(reached[k - 1])
    BY <1>6
  <2>2. 0 \in 0 .. N /\ \A k \in 0 .. N - 1 : k + 1 \in 0 .. N /\ k + 1 # 0 /\ (k + 1) - 1 = k
    BY <1>1
  <2>3. reached[0] = {root}
    BY <2>1, <2>2
  <2>4. ASSUME NEW k \in 0 .. N - 1 PROVE reached[k + 1] = WithParts(reached[k])
    <3>1. reached[k + 1] = IF k + 1 = 0 THEN {root} ELSE WithParts(reached[(k + 1) - 1])
      BY <2>1, <2>2
    <3>2. QED  BY <2>2, <3>1
  <2>5. QED  BY <2>3, <2>4
<1>8. 0 .. N \subseteq {k \in 0 .. N : reached[k] \in V}
  <2> DEFINE S == {k \in 0 .. N : reached[k] \in V}
  <2>1. 0 \in S
    BY <1>1, <1>2, <1>7
  <2>2. \A k \in 0 .. N - 1 : k \in S => k + 1 \in S
    <3> SUFFICES ASSUME NEW k \in 0 .. N - 1, k \in S PROVE k + 1 \in S
      OBVIOUS
    <3>1. reached[k + 1] = WithParts(reached[k]) /\ reached[k] \in V /\ k + 1 \in 0 .. N
      BY <1>1, <1>7
    <3> HIDE DEF V
    <3>2. QED  BY <1>3, <3>1
  <2>3. 0 \in Int /\ N \in Int
    BY <1>1
  <2>4. 0 .. N \subseteq S
    <3> HIDE DEF S, N
    <3>1. 0 <= N => 0 \in S
      BY <2>1
    <3>2. QED  BY <2>2, <2>3, <3>1, InductUpTo
  <2>5. QED  BY <2>4
<1>9. reached[N] \subseteq W
  BY <1>1, <1>8
<1>10. 0 \in 0 .. FirstNode
  BY ConstantsAre
<1>11. QED  BY <1>5, <1>9, <1>10 DEF W

LEMMA EvenBalanced ==
    ASSUME NEW w, NEW v, NEW B, Balanced(w, B), Set(w, v), Even(w, v)
    PROVE  Balanced(v, B)
BY DEF Balanced, Set, Even

LEMMA PaidBalanced ==
    ASSUME NEW w, Formed(w), NEW v, NEW B \in SUBSET (1 .. Len(w.heap)),
           Balanced(w, B), Fresh(w, v), Paid(w, v)
    PROVE  Balanced(v, B \cup {Len(w.heap) + 1})
<1> DEFINE m == Len(w.heap) + 1
<1>1. Len(w.heap) \in Nat /\ Len(v.heap) = m /\ m \notin B
  BY WorldIs DEF Fresh
<1>2. ASSUME NEW i \in 1 .. m PROVE Owed(v, i) = IF i \in B \cup {m} THEN 1 ELSE 0
  <2>1. CASE i = m
    BY <1>1, <2>1 DEF Paid
  <2>2. CASE i # m
    <3>1. i \in 1 .. Len(w.heap)
      BY <1>1, <2>2
    <3>2. Owed(v, i) = Owed(w, i) /\ Owed(w, i) = IF i \in B THEN 1 ELSE 0
      BY <3>1 DEF Paid, Balanced
    <3>3. QED  BY <2>2, <3>2
  <2>3. QED  BY <2>1, <2>2
<1>3. QED  BY <1>1, <1>2 DEF Balanced

LEMMA GivenBack ==
    ASSUME NEW w, Formed(w), NEW m \in 1 .. Len(w.heap), NEW B, m \notin B, Balanced(w, B \cup {m})
    PROVE  Balanced(Later(w, m), B)
<1> DEFINE v == Later(w, m)
<1>1. v.heap = w.heap /\ \A i \in 1 .. Len(w.heap) : Owed(v, i) = Owed(w, i) - One(i, m)
  <2>1. m \in 0 .. Len(w.heap)
    BY WorldIs
  <2>2. QED  BY <2>1, LaterOwed
<1> HIDE DEF v
<1>2. ASSUME NEW i \in 1 .. Len(w.heap) PROVE Owed(v, i) = IF i \in B THEN 1 ELSE 0
  <2>1. Owed(w, i) = IF i \in B \cup {m} THEN 1 ELSE 0
    BY DEF Balanced
  <2>2. CASE i = m
    <3>1. Owed(w, i) = 1 /\ One(i, m) = 1
      BY <2>1, <2>2 DEF One
    <3>2. QED  BY <1>1, <2>2, <3>1
  <2>3. CASE i # m
    <3>1. Owed(w, i) = (IF i \in B THEN 1 ELSE 0) /\ One(i, m) = 0
      BY <2>1, <2>3 DEF One
    <3>2. QED  BY <1>1, <3>1
  <2>4. QED  BY <2>2, <2>3
<1>3. Balanced(v, B)
  BY <1>1, <1>2 DEF Balanced
<1>4. QED  BY <1>3 DEF v

LEMMA HandedOver ==
    ASSUME NEW w, Formed(w), NEW u, Fresh(w, u), NEW n \in 1 .. Len(w.heap),
           NEW k \in 1 .. Len(w.heap[n].parts),
           <<w.heap[n].class, k>> \in Swapping \cup Counting \cup Storing
    PROVE  LET v == Later(SetOperand(u, n, k, Made(u)), Made(u)) IN
           /\ Formed(v) /\ Len(v.heap) = Len(w.heap) + 1 /\ w.blame \subseteq v.blame
           /\ \A B \in SUBSET (1 .. Len(w.heap)) :
                v.blame = {} /\ w.heap[n].count > 0 /\ Balanced(w, B) /\ Paid(w, u) => Balanced(v, B)
<1> DEFINE m == Len(w.heap) + 1
           x == SetOperand(u, n, k, m)
           v == Later(x, m)
<1>1. /\ Len(w.heap) \in Nat /\ Formed(u) /\ Kept(w.heap, u.heap) /\ Len(u.heap) = m
      /\ u.blame = w.blame /\ u.heap[m].count > 0 /\ Made(u) = m
      /\ m \in 1 .. m /\ m \notin 1 .. Len(w.heap) /\ m \in 0 .. m
  BY WorldIs DEF Fresh, Made
<1>2. /\ n \in 1 .. Len(u.heap) /\ k \in 1 .. Len(u.heap[n].parts)
      /\ <<u.heap[n].class, k>> \in Swapping \cup Counting \cup Storing
      /\ u.heap[n].count >= w.heap[n].count
  <2>1. /\ u.heap[n].class = w.heap[n].class /\ u.heap[n].parts = w.heap[n].parts
        /\ u.heap[n].count >= w.heap[n].count
    BY <1>1 DEF Kept
  <2>2. n \in 1 .. Len(u.heap)
    BY <1>1
  <2>3. <<u.heap[n].class, k>> = <<w.heap[n].class, k>>
    BY <2>1
  <2>4. QED  BY <2>1, <2>2, <2>3, Zenon
<1>3. /\ Set(u, x)
      /\ x.blame = {} /\ u.heap[n].count > 0 /\ u.heap[m].count > 0 => Even(u, x)
  <2>1. m \in 1 .. Len(u.heap)
    BY <1>1
  <2> HIDE DEF m
  <2>2. QED  BY <1>1, <1>2, <2>1, SetOperandOwed
<1> HIDE DEF x
<1>4. Formed(x) /\ Len(x.heap) = m /\ w.blame \subseteq x.blame
  BY <1>1, <1>3 DEF Set
<1>5. Formed(v) /\ v.heap = x.heap /\ v.blame = x.blame
  BY <1>1, <1>4, LaterOwed
<1>6. ASSUME NEW B \in SUBSET (1 .. Len(w.heap)),
             v.blame = {}, w.heap[n].count > 0, Balanced(w, B), Paid(w, u)
      PROVE  Balanced(v, B)
  <2>1. u.heap[n].count > 0
    <3>1. u.heap[n].count \in Nat /\ w.heap[n].count \in Nat
      BY <1>1, <1>2, WorldIs
    <3>2. QED  BY <1>2, <1>6, <3>1
  <2>2. Balanced(u, B \cup {m})
    BY <1>6, PaidBalanced
  <2>3. Even(u, x)
    BY <1>1, <1>3, <1>5, <1>6, <2>1
  <2>4. Balanced(x, B \cup {m})
    BY <1>3, <2>2, <2>3, EvenBalanced
  <2>5. m \in 1 .. Len(x.heap) /\ m \notin B
    BY <1>1, <1>4
  <2>6. QED  BY <1>4, <2>4, <2>5, GivenBack
<1>7. v = Later(SetOperand(u, n, k, Made(u)), Made(u))
  BY <1>1 DEF x
<1> HIDE DEF v
<1>8. QED  BY <1>4, <1>5, <1>6, <1>7

(***************************************************************************)
(* The numbers of types and entities.                                      *)
(***************************************************************************)

LEMMA FirstIs ==
    ASSUME NEW n \in Nat, NEW I \in SUBSET (1 .. n), I # {}
    PROVE  Min(I) \in I
<1>1. I \in SUBSET Nat
  OBVIOUS
<1>2. \E x \in I : \A y \in I : x <= y
  BY <1>1, Least
<1>3. QED  BY <1>2 DEF Min

LEMMA TypeIdIs ==
    ASSUME NEW r
    PROVE  /\ TypeId(r) \in 0 .. Len(TypeRefs)
           /\ r \in Range(TypeRefs) <=> TypeId(r) # 0
           /\ TypeId(r) # 0 => TypeRefs[TypeId(r)] = r
<1> DEFINE I == {i \in 1 .. Len(TypeRefs) : TypeRefs[i] = r}
<1>1. Len(TypeRefs) \in Nat /\ DOMAIN TypeRefs = 1 .. Len(TypeRefs)
  BY ConstantsAre, LenProperties
<1>2. r \in Range(TypeRefs) <=> I # {}
  BY <1>1 DEF Range
<1>3. TypeId(r) = IF I # {} THEN Min(I) ELSE 0
  BY DEF TypeId, Contains, SelectInSeq
<1>4. I # {} => Min(I) \in I
  BY <1>1, FirstIs
<1>5. I # {} => Min(I) \in 1 .. Len(TypeRefs) /\ TypeRefs[Min(I)] = r
  BY <1>4
<1>6. QED  BY <1>1, <1>2, <1>3, <1>5

LEMMA EntityIdIs ==
    ASSUME NEW name \in Range(Names)
    PROVE  EntityId(name) \in 1 .. FirstNode /\ EntityId(name) > Len(TypeRefs)
<1> DEFINE I == {i \in 1 .. Len(Names) : Names[i] = name}
<1>1. Len(Names) \in Nat /\ DOMAIN Names = 1 .. Len(Names) /\ Len(TypeRefs) \in Nat
  BY ConstantsAre, LenProperties
<1>2. I # {}
  BY <1>1 DEF Range
<1>3. EntityId(name) = Len(TypeRefs) + Min(I)
  BY <1>2 DEF EntityId, SelectInSeq
<1>4. Min(I) \in I
  BY <1>1, <1>2, FirstIs
<1>5. Min(I) \in 1 .. Len(Names)
  BY <1>4
<1>6. QED  BY <1>1, <1>3, <1>5 DEF FirstNode

(***************************************************************************)
(* Every call keeps the books in balance, or is one of the known mistakes. *)
(***************************************************************************)

Inv ==
    /\ Formed(World)
    /\ root \in FirstNode + 1 .. Len(heap)
    /\ status \in {"fine", "undefined"} /\ phase \in {"open", "closed"} /\ calls \in 0 .. MaxCalls
    /\ blame = {} => status = "fine" /\ Balanced(World, Standing)

LEMMA RecordIs ==
    ASSUME NEW w \in Worlds
    PROVE  w = [heap |-> w.heap, lost |-> w.lost, todo |-> w.todo, blame |-> w.blame]
BY DEF Worlds

LEMMA InvFacts ==
    ASSUME Inv
    PROVE  /\ Formed(World) /\ Len(World.heap) = Len(heap) /\ Len(heap) \in Nat
           /\ heap \in Seq(Nodes) /\ DOMAIN heap = 1 .. Len(heap)
           /\ root \in 1 .. Len(heap) /\ root > FirstNode
           /\ Standing \in SUBSET (1 .. Len(heap)) /\ 1 .. FirstNode \subseteq Standing
           /\ (phase = "open" => root \in Standing)
<1>1. Formed(World) /\ root \in FirstNode + 1 .. Len(heap)
  BY DEF Inv
<1>2. Len(World.heap) = Len(heap) /\ Len(heap) \in Nat /\ heap \in Seq(Nodes) /\ DOMAIN heap = 1 .. Len(heap)
  BY <1>1, WorldIs, WorldFields, LenProperties
<1>3. FirstNode <= Len(heap) /\ FirstNode \in Nat
  BY <1>1, WorldFields, ConstantsAre DEF Formed
<1>4. root \in 1 .. Len(heap) /\ root > FirstNode /\ 1 .. FirstNode \subseteq 1 .. Len(heap)
  BY <1>1, <1>2, <1>3
<1>5. QED  BY <1>1, <1>2, <1>4 DEF Standing

LEMMA SetterStep ==
    ASSUME Inv, Call, UNCHANGED status, Formed(World'), Len(heap) <= Len(heap'),
           blame' = {} => blame = {} /\ Balanced(World', Standing)
    PROVE  Inv'
<1>1. /\ root' = root /\ phase' = phase /\ status' = status /\ calls' \in 0 .. MaxCalls
  BY CallAssumption DEF Call, Inv
<1>2. Standing' = Standing
  BY <1>1 DEF Standing
<1>3. World'.heap = heap'
  BY DEF World
<1>4. Len(heap') \in Nat /\ Len(heap) \in Nat
  BY <1>3, WorldIs, InvFacts
<1>5. root' \in FirstNode + 1 .. Len(heap')
  BY <1>1, <1>4, ConstantsAre DEF Inv
<1>6. blame' = {} => status' = "fine" /\ Balanced(World', Standing')
  BY <1>1, <1>2 DEF Inv
<1>7. QED  BY <1>1, <1>5, <1>6 DEF Inv

LEMMA Visited ==
    ASSUME Inv, NEW n \in DOMAIN heap, Visit(n)
    PROVE  n \in 1 .. Len(heap) /\ heap[n].count > 0
BY InvFacts DEF Visit, Live

LEMMA ResolveKeeps ==
    ASSUME Inv, NEW n \in DOMAIN heap, Resolve(n)
    PROVE  Inv'
<1> DEFINE e == EntityId(heap[n].name)
           v == SetCounting(World, n, 1, e)
<1>1. /\ Call /\ UNCHANGED status /\ Visit(n) /\ After(v) /\ heap[n].class = "variable"
  BY DEF Resolve, Visit
<1>2. /\ n \in 1 .. Len(World.heap) /\ World.heap[n].count > 0 /\ Formed(World) /\ World.heap = heap
      /\ Len(World.heap) = Len(heap)
  BY <1>1, Visited, InvFacts, WorldFields
<1>3. 1 \in 1 .. Len(World.heap[n].parts) /\ heap[n].name \in Range(Names)
  <2>1. Shaped(World.heap, n)
    BY <1>2 DEF Formed
  <2>2. Len(World.heap[n].parts) = 1 /\ heap[n].name \in Range(Names)
    BY <1>1, <1>2, <2>1 DEF Shaped
  <2>3. QED  BY <2>2
<1>4. e \in 1 .. FirstNode
  BY <1>3, EntityIdIs
<1> HIDE DEF e
<1>5. e \in 1 .. Len(World.heap) /\ e \in Standing
  BY <1>2, <1>4, InvFacts
<1>6. Set(World, v) /\ (World.heap[e].count > 0 => Even(World, v))
  BY <1>2, <1>3, <1>5, CountingOwed
<1>7. Formed(v) /\ Len(v.heap) = Len(heap) /\ v \in Worlds /\ blame \subseteq v.blame
  BY <1>2, <1>6, WorldFields DEF Set, Formed
<1>8. World' = v /\ heap' = v.heap /\ blame' = v.blame
  <2> HIDE DEF v
  <2>1. World' = [heap |-> v.heap, lost |-> v.lost, todo |-> v.todo, blame |-> v.blame]
    BY <1>1 DEF After, World
  <2>2. QED  BY <1>1, <1>7, <2>1, RecordIs DEF After
<1>9. ASSUME v.blame = {} PROVE blame = {} /\ Balanced(v, Standing)
  <2>1. blame = {}
    BY <1>7, <1>9
  <2>2. Balanced(World, Standing)
    BY <2>1 DEF Inv
  <2>3. World.heap[e].count > 0
    BY <1>2, <1>5, <2>2, StandingLive
  <2> HIDE DEF v
  <2>4. QED  BY <1>6, <2>1, <2>2, <2>3, EvenBalanced
<1> HIDE DEF v
<1>10. Len(heap) <= Len(heap')
  BY <1>7, <1>8, InvFacts
<1>11. Formed(World') /\ (blame' = {} => blame = {} /\ Balanced(World', Standing))
  BY <1>7, <1>8, <1>9
<1>12. QED  BY <1>1, <1>10, <1>11, SetterStep

LEMMA AttachTypeKeeps ==
    ASSUME Inv, NEW n \in DOMAIN heap, AttachType(n)
    PROVE  Inv'
<1> DEFINE t == TypeId(Wanted(n))
           v == SetType(World, n, t)
<1>1. /\ Call /\ UNCHANGED status /\ Visit(n) /\ After(v) /\ t # 0
  BY DEF AttachType, Visit
<1>2. /\ n \in 1 .. Len(World.heap) /\ World.heap[n].count > 0 /\ Formed(World) /\ World.heap = heap
      /\ Len(World.heap) = Len(heap)
  BY <1>1, Visited, InvFacts, WorldFields
<1>3. t \in 1 .. Len(TypeRefs)
  <2>1. t \in 0 .. Len(TypeRefs)
    BY TypeIdIs
  <2> HIDE DEF t
  <2>2. QED  BY <1>1, <2>1, ConstantsAre
<1>4. World.heap[n].class \in Places \cup {"unary", "literal", "sizeof", "address", "binary"}
  <2>1. Wanted(n) # <<>>
    <3>1. Wanted(n) \in Range(TypeRefs)
      BY <1>1, TypeIdIs
    <3>2. QED  BY <3>1, TypeAssumption
  <2> SUFFICES ASSUME heap[n].class \notin Places, heap[n].class # "unary", heap[n].class # "literal",
                      heap[n].class # "sizeof", heap[n].class # "address", heap[n].class # "binary"
               PROVE  FALSE
    BY <1>2
  <2>2. Wanted(n) = <<>>
    BY DEF Wanted
  <2>3. QED  BY <2>1, <2>2
<1> HIDE DEF t
<1>5. t \in 1 .. Len(World.heap) /\ t \in Standing
  BY <1>2, <1>3, TypesAre, InvFacts
<1>6. Set(World, v) /\ (v.blame = {} /\ World.heap[t].count > 0 => Even(World, v))
  BY <1>2, <1>3, <1>4, SetTypeOwed
<1>7. Formed(v) /\ Len(v.heap) = Len(heap) /\ v \in Worlds /\ blame \subseteq v.blame
  BY <1>2, <1>6, WorldFields DEF Set, Formed
<1>8. World' = v /\ heap' = v.heap /\ blame' = v.blame
  <2> HIDE DEF v
  <2>1. World' = [heap |-> v.heap, lost |-> v.lost, todo |-> v.todo, blame |-> v.blame]
    BY <1>1 DEF After, World
  <2>2. QED  BY <1>1, <1>7, <2>1, RecordIs DEF After
<1>9. ASSUME v.blame = {} PROVE blame = {} /\ Balanced(v, Standing)
  <2>1. blame = {}
    BY <1>7, <1>9
  <2>2. Balanced(World, Standing)
    BY <2>1 DEF Inv
  <2>3. World.heap[t].count > 0
    BY <1>2, <1>5, <2>2, StandingLive
  <2> HIDE DEF v
  <2>4. QED  BY <1>6, <1>9, <2>1, <2>2, <2>3, EvenBalanced
<1> HIDE DEF v
<1>10. Len(heap) <= Len(heap')
  BY <1>7, <1>8, InvFacts
<1>11. Formed(World') /\ (blame' = {} => blame = {} /\ Balanced(World', Standing))
  BY <1>7, <1>8, <1>9
<1>12. QED  BY <1>1, <1>10, <1>11, SetterStep

\* What Convert and Fold have in common.
LEMMA HandOverKeeps ==
    ASSUME Inv, NEW n \in DOMAIN heap, Visit(n), NEW k \in Settable(n),
           NEW t \in 1 .. Len(TypeRefs), NEW u, Fresh(World, u),
           World.heap[n].count > 0 /\ blame = {} => Paid(World, u),
           HandOver(u, n, k)
    PROVE  Inv'
<1> DEFINE v == Later(SetOperand(u, n, k, Made(u)), Made(u))
<1>1. /\ Call /\ UNCHANGED status /\ After(v)
      /\ k \in DOMAIN heap[n].parts /\ <<heap[n].class, k>> \in Swapping \cup Counting \cup Storing
  BY DEF Visit, HandOver, Settable
<1>2. /\ n \in 1 .. Len(World.heap) /\ World.heap[n].count > 0 /\ Formed(World) /\ World.heap = heap
      /\ Len(World.heap) = Len(heap) /\ Standing \in SUBSET (1 .. Len(World.heap))
  BY Visited, InvFacts, WorldFields
<1>3. k \in 1 .. Len(World.heap[n].parts)
  BY <1>1, <1>2, InvFacts, NodeIs
<1>4. /\ Formed(v) /\ Len(v.heap) = Len(World.heap) + 1 /\ World.blame \subseteq v.blame
      /\ \A B \in SUBSET (1 .. Len(World.heap)) :
            v.blame = {} /\ World.heap[n].count > 0 /\ Balanced(World, B) /\ Paid(World, u) => Balanced(v, B)
  BY <1>1, <1>2, <1>3, HandedOver
<1> HIDE DEF v
<1>5. Formed(v) /\ Len(v.heap) = Len(heap) + 1 /\ v \in Worlds /\ blame \subseteq v.blame
  BY <1>2, <1>4, WorldFields DEF Formed
<1>6. World' = v /\ heap' = v.heap /\ blame' = v.blame
  <2>1. World' = [heap |-> v.heap, lost |-> v.lost, todo |-> v.todo, blame |-> v.blame]
    BY <1>1 DEF After, World
  <2>2. QED  BY <1>1, <1>5, <2>1, RecordIs DEF After
<1>7. ASSUME v.blame = {} PROVE blame = {} /\ Balanced(v, Standing)
  <2>1. blame = {}
    BY <1>5, <1>7
  <2>2. Balanced(World, Standing)
    BY <2>1 DEF Inv
  <2>3. QED  BY <1>2, <1>4, <1>7, <2>1, <2>2
<1>8. Len(heap) <= Len(heap')
  BY <1>5, <1>6, InvFacts
<1>9. Formed(World') /\ (blame' = {} => blame = {} /\ Balanced(World', Standing))
  BY <1>5, <1>6, <1>7
<1>10. QED  BY <1>1, <1>8, <1>9, SetterStep

LEMMA IntType == TypeId(<<"int">>) \in 1 .. Len(TypeRefs)
<1>1. <<"int">> \in Range(TypeRefs)
  BY TypeAssumption
<1> DEFINE t == TypeId(<<"int">>)
<1>2. t \in 0 .. Len(TypeRefs) /\ t # 0
  BY <1>1, TypeIdIs
<1> HIDE DEF t
<1>3. t \in 1 .. Len(TypeRefs)
  BY <1>2, ConstantsAre
<1>4. QED  BY <1>3 DEF t

LEMMA TypesLive ==
    ASSUME Inv, blame = {}, NEW t \in 1 .. Len(TypeRefs)
    PROVE  World.heap[t].count > 0
<1>1. Formed(World) /\ Balanced(World, Standing)
  BY DEF Inv
<1>2. t \in 1 .. Len(World.heap) /\ t \in Standing
  BY <1>1, TypesAre, InvFacts
<1>3. QED  BY <1>1, <1>2, StandingLive

LEMMA FoldKeeps ==
    ASSUME Inv, NEW n \in DOMAIN heap, Fold(n)
    PROVE  Inv'
<1> DEFINE t == TypeId(<<"int">>)
           u == NewLiteral(World, t)
<1>1. Visit(n) /\ \E k \in Settable(n) : HandOver(u, n, k)
  BY DEF Fold
<1>2. t \in 1 .. Len(TypeRefs)
  BY IntType
<1> HIDE DEF t
<1>3. Fresh(World, u) /\ (World.heap[t].count > 0 => Paid(World, u))
  BY <1>2, InvFacts, MadeLiteral
<1>4. World.heap[n].count > 0 /\ blame = {} => Paid(World, u)
  BY <1>2, <1>3, TypesLive
<1> HIDE DEF u
<1>5. QED  BY <1>1, <1>2, <1>3, <1>4, HandOverKeeps

LEMMA ConvertKeeps ==
    ASSUME Inv, NEW n \in DOMAIN heap, Convert(n)
    PROVE  Inv'
<1>1. PICK k \in Settable(n), r \in Converted :
        HandOver(NewCast(World, heap[n].parts[k], TypeId(r)), n, k)
  BY DEF Convert
<1> DEFINE t == TypeId(r)
           j == heap[n].parts[k]
           u == NewCast(World, j, t)
<1>2. Visit(n) /\ HandOver(u, n, k)
  BY <1>1 DEF Convert
<1>3. t \in 1 .. Len(TypeRefs)
  <2>1. r \in Range(TypeRefs)
    BY TypeAssumption
  <2>2. t \in 0 .. Len(TypeRefs) /\ t # 0
    BY <2>1, TypeIdIs
  <2> HIDE DEF t
  <2>3. QED  BY <2>2, ConstantsAre
<1>4. /\ n \in 1 .. Len(World.heap) /\ World.heap[n].count > 0 /\ Formed(World) /\ World.heap = heap
      /\ Len(World.heap) = Len(heap)
  BY <1>2, Visited, InvFacts, WorldFields
<1>5. k \in 1 .. Len(World.heap[n].parts) /\ <<heap[n].class, k>> \in Swapping \cup Counting \cup Storing
  <2>1. k \in DOMAIN heap[n].parts /\ <<heap[n].class, k>> \in Swapping \cup Counting \cup Storing
    BY DEF Settable
  <2>2. QED  BY <1>4, <2>1, InvFacts, NodeIs
<1>6. j \in 1 .. Len(World.heap)
  <2>1. heap[n].class # "variable"
    BY <1>5 DEF Swapping, Counting, Storing
  <2>2. Operand(World, n, k) = j
    BY <1>4 DEF Operand
  <2>3. j \in 0 .. Len(World.heap) /\ j # 0
    BY <1>4, <1>5, <2>1, <2>2, OperandIs
  <2> HIDE DEF j
  <2>4. QED  BY <1>4, <2>3, InvFacts
<1>7. PointsTo(World.heap, n, k) = j /\ k \in 0 .. Len(World.heap[n].parts)
  BY <1>4, <1>5, InvFacts, NodeIs DEF PointsTo
<1> HIDE DEF t, j
<1>8. Fresh(World, u) /\ (World.heap[t].count > 0 /\ World.heap[j].count > 0 => Paid(World, u))
  BY <1>3, <1>4, <1>6, MadeCast
<1>9. ASSUME blame = {} PROVE Paid(World, u)
  <2>1. Balanced(World, Standing)
    BY <1>9 DEF Inv
  <2>2. World.heap[j].count > 0
    BY <1>4, <1>6, <1>7, <2>1, RefLive
  <2>3. QED  BY <1>3, <1>8, <1>9, <2>2, TypesLive
<1> HIDE DEF u
<1>10. QED  BY <1>2, <1>3, <1>8, <1>9, HandOverKeeps

LEMMA ReplaceArgsKeeps ==
    ASSUME Inv, NEW n \in DOMAIN heap, ReplaceArgs(n)
    PROVE  Inv'
<1> DEFINE t == TypeId(<<"int">>)
           w == NewLiteral(World, t)
           s == Tail(heap[n].parts)
           x == [w EXCEPT !.todo = s]
           y == Lose(x, Made(w))
           v == Blame(y, "replaceArgs")
<1>1. Visit(n) /\ Call /\ UNCHANGED status /\ heap[n].class = "call" /\ After(v)
  BY DEF ReplaceArgs, Visit
<1>2. /\ n \in 1 .. Len(World.heap) /\ Formed(World) /\ World.heap = heap /\ Len(World.heap) = Len(heap)
      /\ Len(heap) \in Nat /\ heap \in Seq(Nodes)
  BY <1>1, Visited, InvFacts, WorldFields
<1>3. Fresh(World, w)
  <2>1. t \in 1 .. Len(TypeRefs)
    BY IntType
  <2> HIDE DEF t
  <2>2. QED  BY <1>2, <2>1, MadeLiteral
<1> HIDE DEF w
<1>4. /\ Formed(w) /\ w \in Worlds /\ Len(w.heap) = Len(heap) + 1 /\ Made(w) = Len(w.heap)
      /\ w.blame = blame
  BY <1>2, <1>3, WorldFields DEF Fresh, Formed, Made
<1>5. s \in Seq(Nat) /\ \A k \in 1 .. Len(s) : s[k] \in 0 .. Len(w.heap)
  <2> DEFINE p == heap[n].parts
  <2>1. p \in Seq(Nat) /\ p # <<>> /\ \A k \in 1 .. Len(p) : p[k] \in 0 .. Len(heap)
    <3>1. Shaped(heap, n)
      BY <1>2 DEF Formed
    <3>2. p \in Seq(Nat)
      BY <1>2, NodeIs
    <3>3. QED  BY <1>1, <3>1, <3>2 DEF Shaped
  <2>2. s = Tail(p)
    OBVIOUS
  <2> HIDE DEF p, s
  <2>3. /\ s \in Seq(Nat) /\ Len(s) = Len(p) - 1 /\ Len(p) \in Nat
        /\ \A k \in 1 .. Len(s) : s[k] = p[k + 1]
    BY <2>1, <2>2, HeadTailProperties, LenProperties
  <2>4. \A k \in 1 .. Len(s) : k + 1 \in 1 .. Len(p)
    BY <2>3
  <2>5. \A k \in 0 .. Len(heap) : k \in 0 .. Len(w.heap)
    BY <1>2, <1>4
  <2>6. QED  BY <2>1, <2>3, <2>4, <2>5
<1> HIDE DEF s
<1>6. x \in Worlds /\ x.heap = w.heap /\ x.lost = w.lost /\ x.blame = w.blame /\ x.todo = s
  BY <1>4, <1>5 DEF Worlds
<1> HIDE DEF x
<1>7. Formed(x)
  BY <1>4, <1>5, <1>6 DEF Formed
<1>8. Formed(y) /\ y.heap = x.heap /\ y.blame = x.blame
  <2>1. Made(w) \in 0 .. Len(x.heap)
    BY <1>2, <1>4, <1>6
  <2>2. QED  BY <1>7, <2>1, LoseOwed
<1> HIDE DEF y
<1>9. Formed(v) /\ v.heap = y.heap /\ v.blame = y.blame \cup {"replaceArgs"}
  <2>1. "replaceArgs" \in Mistakes
    BY DEF Mistakes
  <2>2. QED  BY <1>8, <2>1, BlameOwed
<1> HIDE DEF v
<1>10. World' = v /\ heap' = v.heap /\ blame' = v.blame
  <2>1. World' = [heap |-> v.heap, lost |-> v.lost, todo |-> v.todo, blame |-> v.blame]
    BY <1>1 DEF After, World
  <2>2. v \in Worlds
    BY <1>9 DEF Formed
  <2>3. QED  BY <1>1, <2>1, <2>2, RecordIs DEF After
<1>11. Len(heap) <= Len(heap') /\ blame' # {} /\ Formed(World')
  BY <1>2, <1>4, <1>6, <1>8, <1>9, <1>10
<1>12. QED  BY <1>1, <1>11, SetterStep

LEMMA AskAssignableKeeps ==
    ASSUME Inv, NEW n \in DOMAIN heap, AskAssignable(n)
    PROVE  Inv'
<1>1. /\ status' = "undefined" /\ blame' = blame \cup {"is_loadable"}
      /\ UNCHANGED <<heap, lost, todo, root, phase>> /\ calls' = calls + 1 /\ calls < MaxCalls
  BY DEF AskAssignable, Call
<1> DEFINE v == Blame(World, "is_loadable")
<1>2. Formed(v) /\ v.heap = heap /\ v.lost = lost /\ v.todo = todo /\ v.blame = blame \cup {"is_loadable"}
  <2>1. "is_loadable" \in Mistakes /\ World \in Worlds
    BY InvFacts DEF Mistakes, Formed
  <2>2. QED  BY <2>1, InvFacts, BlameOwed, BlameIs, WorldFields
<1> HIDE DEF v
<1>3. World' = v
  <2>1. World' = [heap |-> v.heap, lost |-> v.lost, todo |-> v.todo, blame |-> v.blame]
    BY <1>1, <1>2 DEF World
  <2>2. v \in Worlds
    BY <1>2 DEF Formed
  <2>3. QED  BY <2>1, <2>2, RecordIs
<1>4. calls' \in 0 .. MaxCalls
  BY <1>1, CallAssumption DEF Inv
<1>5. QED  BY <1>1, <1>2, <1>3, <1>4 DEF Inv

LEMMA StaleKeeps ==
    ASSUME Inv, NEW n \in DOMAIN heap, Stale(n)
    PROVE  Inv'
<1>1. /\ status' = "undefined" /\ UNCHANGED <<heap, lost, todo, blame, root, phase>>
      /\ calls' = calls + 1 /\ calls < MaxCalls /\ phase = "open" /\ n \in Reached \ Live
  BY DEF Stale, Call
<1>2. World' = World
  BY <1>1 DEF World
<1>3. calls' \in 0 .. MaxCalls
  BY <1>1, CallAssumption DEF Inv
<1>4. blame # {}
  <2> SUFFICES ASSUME blame = {} PROVE FALSE
    OBVIOUS
  <2>1. Balanced(World, Standing)
    BY DEF Inv
  <2>2. Reached \subseteq Live
    BY <1>1, <2>1, InvFacts, ReachedLive
  <2>3. QED  BY <1>1, <2>2
<1>5. QED  BY <1>1, <1>2, <1>3, <1>4 DEF Inv

LEMMA FinishKeeps ==
    ASSUME Inv, Finish
    PROVE  Inv'
<1>1. /\ phase = "open" /\ status = "fine" /\ todo = <<>> /\ phase' = "closed" /\ todo' = <<root>>
      /\ UNCHANGED <<heap, root, lost, status, blame, calls>>
  BY DEF Finish
<1> DEFINE v == Later(World, root)
<1>2. /\ Formed(World) /\ root \in 0 .. Len(World.heap) /\ root \in 1 .. Len(World.heap)
      /\ World \in Worlds /\ root > FirstNode /\ root \in Nat /\ Len(World.heap) = Len(heap)
  BY InvFacts DEF Formed
<1>3. Formed(v) /\ v.heap = heap /\ v.lost = lost /\ v.blame = blame /\ v.todo = <<root>>
  <2>1. Formed(v)
    BY <1>2, LaterOwed
  <2>2. v.heap = heap /\ v.lost = lost /\ v.blame = blame /\ v.todo = Append(todo, root)
    BY <1>2, LaterIs, WorldFields
  <2> HIDE DEF v
  <2>3. Append(todo, root) = <<root>>
    BY <1>1
  <2>4. QED  BY <2>1, <2>2, <2>3
<1> HIDE DEF v
<1>4. World' = v
  <2>1. World' = [heap |-> v.heap, lost |-> v.lost, todo |-> v.todo, blame |-> v.blame]
    BY <1>1, <1>3 DEF World
  <2>2. v \in Worlds
    BY <1>3 DEF Formed
  <2>3. QED  BY <2>1, <2>2, RecordIs
<1>5. ASSUME blame = {} PROVE Balanced(v, Standing')
  <2> DEFINE B == 1 .. FirstNode
  <2>1. Standing = B \cup {root} /\ Standing' = B
    BY <1>1 DEF Standing
  <2>2. root \notin B
    BY <1>2, ConstantsAre
  <2>3. Balanced(World, Standing)
    BY <1>5 DEF Inv
  <2>4. Balanced(v, B)
    <3> HIDE DEF B
    <3>1. QED  BY <1>2, <2>1, <2>2, <2>3, GivenBack DEF v
  <2>5. QED  BY <2>1, <2>4
<1>6. Formed(World') /\ (blame' = {} => status' = "fine" /\ Balanced(World', Standing'))
  BY <1>1, <1>3, <1>4, <1>5
<1>7. QED  BY <1>1, <1>6 DEF Inv

\* One dec_ref of an object that is alive.
Dropping(w, i) ==
    [w EXCEPT !.heap[i].count = @ - 1,
              !.todo = (IF w.heap[i].count = 1 THEN Append(w.heap[i].parts, w.heap[i].type) ELSE <<>>) \o Tail(@)]

LEMMA DropOwed ==
    ASSUME NEW w, Formed(w), w.todo # <<>>, NEW i \in 1 .. Len(w.heap), Head(w.todo) = i,
           w.heap[i].count > 0
    PROVE  LET v == Dropping(w, i) IN
           /\ Formed(v) /\ Len(v.heap) = Len(w.heap) /\ v.blame = w.blame /\ Even(w, v)
<1> DEFINE old == w.heap[i]
           node == [old EXCEPT !.count = old.count - 1]
           h == [w.heap EXCEPT ![i] = node]
           own == Append(old.parts, old.type)
           s == IF old.count = 1 THEN own ELSE <<>>
           rest == Tail(w.todo)
           t == s \o rest
           v == [w EXCEPT !.heap = h, !.todo = t]
<1>1. /\ w \in Worlds /\ w.heap \in Seq(Nodes) /\ w.todo \in Seq(Nat) /\ w.lost \in Seq(Nat)
      /\ Len(w.heap) \in Nat /\ Len(w.lost) = Len(w.heap)
  BY WorldIs
<1>2. /\ old \in Nodes /\ old.parts \in Seq(Nat) /\ old.type \in Nat /\ old.count \in Nat
      /\ old.count > 0 /\ Shaped(w.heap, i)
  BY <1>1, NodeIs DEF Formed
<1>3. v = Dropping(w, i)
  BY DEF Dropping
<1>4. own \in Seq(Nat) /\ \A k \in 1 .. Len(own) : own[k] \in 0 .. Len(w.heap)
  <2>1. /\ own \in Seq(Nat) /\ Len(old.parts) \in Nat /\ Len(own) = Len(old.parts) + 1
        /\ own[Len(old.parts) + 1] = old.type /\ \A k \in 1 .. Len(old.parts) : own[k] = old.parts[k]
    <3>1. old.parts \in Seq(Nat) /\ old.type \in Nat
      BY <1>2
    <3> HIDE DEF old, node, h, s, rest, t, v
    <3>2. QED  BY <3>1, AppendProperties, LenProperties
  <2>2. old.type \in 0 .. Len(w.heap) /\ \A k \in 1 .. Len(old.parts) : old.parts[k] \in 0 .. Len(w.heap)
    <3>1. old.type \in 0 .. Len(TypeRefs) /\ \A k \in 1 .. Len(old.parts) : old.parts[k] \in 0 .. Len(w.heap)
      BY <1>2 DEF Shaped
    <3>2. Len(TypeRefs) <= Len(w.heap)
      BY <1>1, ConstantsAre DEF Formed
    <3> HIDE DEF old
    <3>3. QED  BY <1>1, <3>1, <3>2, ConstantsAre
  <2> HIDE DEF own
  <2>3. ASSUME NEW k \in 1 .. Len(own) PROVE own[k] \in 0 .. Len(w.heap)
    <3>1. k = Len(old.parts) + 1 \/ k \in 1 .. Len(old.parts)
      BY <2>1
    <3>2. QED  BY <2>1, <2>2, <3>1
  <2>4. QED  BY <2>1, <2>3
<1>5. /\ node \in Nodes /\ node.class = old.class /\ node.name = old.name /\ node.parts = old.parts
      /\ node.type = old.type /\ node.count = old.count - 1
  <2>1. old.count - 1 \in Nat
    <3> HIDE DEF old
    <3>1. QED  BY <1>2
  <2> HIDE DEF old
  <2>2. QED  BY <1>2, <2>1 DEF Nodes
<1> HIDE DEF node, own
<1>6. h \in Seq(Nodes) /\ Len(h) = Len(w.heap) /\ h[i] = node /\ \A x \in 1 .. Len(w.heap) : x # i => h[x] = w.heap[x]
  BY <1>1, <1>5, ExceptSeq
<1>7. /\ rest \in Seq(Nat) /\ \A k \in 1 .. Len(rest) : rest[k] \in 0 .. Len(w.heap)
      /\ \A j : Times(j, w.todo) = One(j, i) + Times(j, rest)
  <2>1. /\ rest \in Seq(Nat) /\ Len(rest) = Len(w.todo) - 1 /\ Len(w.todo) \in Nat
        /\ \A k \in 1 .. Len(rest) : rest[k] = w.todo[k + 1]
    BY <1>1, HeadTailProperties, LenProperties
  <2>2. \A k \in 1 .. Len(rest) : k + 1 \in 1 .. Len(w.todo)
    <3> HIDE DEF rest
    <3>1. QED  BY <2>1
  <2>3. \A k \in 1 .. Len(w.todo) : w.todo[k] \in 0 .. Len(w.heap)
    BY DEF Formed
  <2>4. \A j : Times(j, w.todo) = One(j, i) + Times(j, rest)
    BY <1>1, TimesHead
  <2> HIDE DEF rest
  <2>5. QED  BY <2>1, <2>2, <2>3, <2>4
<1> HIDE DEF rest, h, old
<1>8. /\ s \in Seq(Nat) /\ \A k \in 1 .. Len(s) : s[k] \in 0 .. Len(w.heap)
      /\ \A j : Times(j, s) = IF old.count = 1 THEN Times(j, own) ELSE 0
  BY <1>4, TimesEmpty
<1> HIDE DEF s
<1>9. /\ t \in Seq(Nat) /\ \A k \in 1 .. Len(t) : t[k] \in 0 .. Len(w.heap)
      /\ \A j : Times(j, t) = Times(j, s) + Times(j, rest)
  <2>1. /\ t \in Seq(Nat) /\ Len(t) = Len(s) + Len(rest) /\ Len(s) \in Nat /\ Len(rest) \in Nat
        /\ \A k \in 1 .. Len(t) : t[k] = IF k <= Len(s) THEN s[k] ELSE rest[k - Len(s)]
    BY <1>7, <1>8, ConcatProperties, LenProperties
  <2>2. \A j : Times(j, t) = Times(j, s) + Times(j, rest)
    BY <1>7, <1>8, TimesConcat
  <2> HIDE DEF t
  <2>3. ASSUME NEW k \in 1 .. Len(t) PROVE t[k] \in 0 .. Len(w.heap)
    <3>1. CASE k <= Len(s)
      <4>1. k \in 1 .. Len(s)
        BY <2>1, <3>1
      <4>2. QED  BY <1>8, <2>1, <3>1, <4>1
    <3>2. CASE ~(k <= Len(s))
      <4>1. k - Len(s) \in 1 .. Len(rest)
        BY <2>1, <3>2
      <4>2. QED  BY <1>7, <2>1, <3>2, <4>1
    <3>3. QED  BY <3>1, <3>2
  <2>4. QED  BY <2>1, <2>2, <2>3
<1> HIDE DEF t
<1>10. v \in Worlds /\ v.heap = h /\ v.todo = t /\ v.lost = w.lost /\ v.blame = w.blame
  BY <1>1, <1>6, <1>9 DEF Worlds
<1> HIDE DEF v
<1>11. Formed(v)
  <2>1. ASSUME NEW j \in 1 .. Len(w.heap) PROVE Shaped(v.heap, j)
    <3>1. CASE j = i
      <4>1. /\ v.heap[j].class = w.heap[j].class /\ v.heap[j].name = w.heap[j].name
            /\ v.heap[j].parts = w.heap[j].parts /\ v.heap[j].type = w.heap[j].type
        BY <1>5, <1>6, <1>10, <3>1 DEF old
      <4>2. Shaped(w.heap, j) /\ Len(w.heap) \in Nat /\ Len(v.heap) \in Nat /\ Len(w.heap) <= Len(v.heap)
        BY <1>1, <1>2, <1>6, <1>10, <3>1
      <4>3. QED  BY <4>1, <4>2, ShapedAs
    <3>2. CASE j # i
      <4>1. Shaped(w.heap, j) /\ v.heap[j] = w.heap[j]
        BY <1>6, <1>10, <3>2 DEF Formed
      <4>2. Len(w.heap) \in Nat /\ Len(v.heap) \in Nat /\ Len(w.heap) <= Len(v.heap)
        BY <1>1, <1>6, <1>10
      <4>3. QED  BY <4>1, <4>2, ShapedAs
    <3>3. QED  BY <3>1, <3>2
  <2>2. QED  BY <1>6, <1>9, <1>10, <2>1 DEF Formed
<1>12. ASSUME NEW j \in 1 .. Len(w.heap)
       PROVE  Cardinality(Refs(h, j)) = Cardinality(Refs(w.heap, j)) - Times(j, s)
  <2>1. OnlyAt(w.heap, h, i)
    BY <1>6 DEF OnlyAt
  <2>2. CASE old.count = 1
    <3>1. h[i].count = 0
      BY <1>5, <1>6, <2>2
    <3>2. Cardinality(Refs(h, j)) = Cardinality(Refs(w.heap, j)) - Times(j, Append(w.heap[i].parts, w.heap[i].type))
      BY <1>1, <1>6, <2>1, <3>1, RefsDrop
    <3>3. Times(j, s) = Times(j, Append(w.heap[i].parts, w.heap[i].type))
      BY <1>8, <2>2 DEF own, old
    <3>4. QED  BY <3>2, <3>3
  <2>3. CASE old.count # 1
    <3>1. old.count > 0 /\ old.count - 1 > 0
      BY <1>2, <2>3
    <3>2. \A x \in 1 .. Len(w.heap) :
            /\ h[x].parts = w.heap[x].parts /\ h[x].type = w.heap[x].type
            /\ h[x].count > 0 <=> w.heap[x].count > 0
      BY <1>5, <1>6, <3>1 DEF old
    <3>3. Refs(h, j) = Refs(w.heap, j)
      BY <1>1, <1>6, <3>2, RefsSame
    <3>4. Times(j, s) = 0
      BY <1>8, <2>3
    <3>5. QED  BY <3>3, <3>4, WorldIs
  <2>4. QED  BY <2>2, <2>3
<1>13. ASSUME NEW j \in 1 .. Len(w.heap) PROVE Owed(v, j) = Owed(w, j)
  <2>1. h[j].count = w.heap[j].count - One(j, i) /\ w.heap[j].count \in Nat /\ One(j, i) \in Nat
    <3>1. w.heap[j].count \in Nat
      BY WorldIs
    <3>2. CASE j = i
      BY <1>5, <1>6, <3>1, <3>2 DEF One, old
    <3>3. CASE j # i
      BY <1>6, <3>1, <3>3 DEF One
    <3>4. QED  BY <3>2, <3>3
  <2>2. Times(j, s) \in Nat /\ Times(j, rest) \in Nat /\ Cardinality(Refs(w.heap, j)) \in Nat /\ w.lost[j] \in Nat
    BY <1>7, <1>8, TimesType, WorldIs
  <2>3. PICK a \in Nat, c \in Nat, l \in Nat, x \in Nat, y \in Nat, z \in Nat :
            /\ a = w.heap[j].count /\ c = Cardinality(Refs(w.heap, j)) /\ l = w.lost[j]
            /\ x = One(j, i) /\ y = Times(j, s) /\ z = Times(j, rest)
    BY <2>1, <2>2
  <2>4. Owed(w, j) = a - c - (x + z) - l
    BY <1>7, <2>3 DEF Owed
  <2>5. Owed(v, j) = (a - x) - (c - y) - (y + z) - l
    BY <1>9, <1>10, <1>12, <2>1, <2>3 DEF Owed
  <2>6. QED  BY <2>4, <2>5
<1>14. Even(w, v)
  BY <1>13 DEF Even
<1>15. QED  BY <1>3, <1>6, <1>10, <1>11, <1>14

LEMMA DropNextKeeps ==
    ASSUME Inv, DropNext
    PROVE  Inv'
<1>1. status = "fine" /\ todo # <<>> /\ UNCHANGED <<root, lost, blame, phase, calls>>
  BY DEF DropNext
<1>2. /\ Formed(World) /\ World \in Worlds /\ todo \in Seq(Nat) /\ Head(todo) \in Nat
      /\ Tail(todo) \in Seq(Nat) /\ Len(heap) \in Nat /\ Len(World.heap) = Len(heap)
      /\ World.heap = heap /\ World.todo = todo /\ World.lost = lost /\ World.blame = blame
  <2>1. todo \in Seq(Nat)
    BY InvFacts, WorldIs, WorldFields
  <2>2. QED  BY <1>1, <2>1, InvFacts, WorldFields, HeadTailProperties DEF Formed
<1>3. Head(todo) \in 0 .. Len(heap) /\ \E k \in 1 .. Len(todo) : todo[k] = Head(todo)
  <2>1. Head(todo) = todo[1] /\ 1 \in 1 .. Len(todo)
    BY <1>1, <1>2, HeadTailProperties, LenProperties
  <2>2. QED  BY <1>2, <2>1 DEF Formed
<1>4. Standing' = Standing
  BY <1>1 DEF Standing
<1>5. CASE OnNull
  <2>1. Head(todo) = 0 /\ todo' = Tail(todo) /\ heap' = heap /\ status' = status
    BY <1>5 DEF OnNull
  <2> DEFINE v == [World EXCEPT !.todo = Tail(todo)]
  <2>2. v \in Worlds /\ v.heap = heap /\ v.lost = lost /\ v.todo = Tail(todo) /\ v.blame = blame
    BY <1>2 DEF Worlds
  <2> HIDE DEF v
  <2>3. World' = v
    <3>1. World' = [heap |-> v.heap, lost |-> v.lost, todo |-> v.todo, blame |-> v.blame]
      BY <1>1, <2>1, <2>2 DEF World
    <3>2. QED  BY <2>2, <3>1, RecordIs
  <2>4. Formed(v)
    <3>1. ASSUME NEW k \in 1 .. Len(v.todo) PROVE v.todo[k] \in 0 .. Len(heap)
      <4>1. Len(v.todo) = Len(todo) - 1 /\ Len(todo) \in Nat /\ v.todo[k] = todo[k + 1]
        BY <1>1, <1>2, <2>2, HeadTailProperties, LenProperties
      <4>2. k + 1 \in 1 .. Len(todo)
        BY <4>1
      <4>3. QED  BY <1>2, <4>1, <4>2 DEF Formed
    <3>2. QED  BY <1>2, <2>2, <3>1 DEF Formed
  <2>5. Even(World, v)
    <3> SUFFICES ASSUME NEW i \in 1 .. Len(heap) PROVE Owed(v, i) = Owed(World, i)
      BY <1>2 DEF Even
    <3>1. Times(i, todo) = One(i, 0) + Times(i, Tail(todo)) /\ Times(i, Tail(todo)) \in Nat
      BY <1>1, <1>2, <2>1, TimesHead, TimesType
    <3>2. One(i, 0) = 0
      BY DEF One
    <3>3. Times(i, todo) = Times(i, Tail(todo))
      BY <3>1, <3>2
    <3>4. QED  BY <1>2, <2>2, <3>3 DEF Owed
  <2>6. blame = {} => Balanced(v, Standing)
    <3>1. Set(World, v)
      BY <1>2, <2>2, <2>4 DEF Set
    <3>2. QED  BY <2>5, <3>1, EvenBalanced DEF Inv
  <2>7. QED  BY <1>1, <1>4, <2>1, <2>3, <2>4, <2>6 DEF Inv
<1>6. CASE Head(todo) \in Live /\ Released(Head(todo))
  <2> DEFINE i == Head(todo)
             v == Dropping(World, i)
  <2>1. /\ i \in 1 .. Len(World.heap) /\ World.heap[i].count > 0
        /\ heap' = [heap EXCEPT ![i].count = @ - 1] /\ status' = status
        /\ todo' = (IF heap[i].count = 1 THEN Append(heap[i].parts, heap[i].type) ELSE <<>>) \o Tail(todo)
    BY <1>2, <1>6, InvFacts DEF Live, Released
  <2>2. Formed(v) /\ Len(v.heap) = Len(World.heap) /\ v.blame = World.blame /\ Even(World, v)
    BY <1>1, <1>2, <2>1, DropOwed
  <2>3. v.heap = heap' /\ v.todo = todo' /\ v.lost = lost
    <3> HIDE DEF i
    <3>1. QED  BY <1>2, <2>1 DEF Dropping, World
  <2> HIDE DEF v
  <2>4. World' = v
    <3>1. World' = [heap |-> v.heap, lost |-> v.lost, todo |-> v.todo, blame |-> v.blame]
      BY <1>1, <1>2, <2>2, <2>3 DEF World
    <3>2. v \in Worlds
      BY <2>2 DEF Formed
    <3>3. QED  BY <3>1, <3>2, RecordIs
  <2>5. blame = {} => Balanced(v, Standing)
    <3>1. Set(World, v)
      BY <2>2 DEF Set
    <3>2. QED  BY <2>2, <3>1, EvenBalanced DEF Inv
  <2>6. Len(heap') = Len(heap)
    BY <1>2, <2>2, <2>3
  <2>7. QED  BY <1>1, <1>4, <2>1, <2>2, <2>4, <2>5, <2>6 DEF Inv
<1>7. CASE Head(todo) \notin Live \cup {0} /\ status' = "undefined" /\ UNCHANGED <<heap, todo>>
  <2>1. World' = World
    BY <1>1, <1>7 DEF World
  <2>2. blame # {}
    <3> SUFFICES ASSUME blame = {} PROVE FALSE
      OBVIOUS
    <3>1. Balanced(World, Standing)
      BY DEF Inv
    <3>2. Head(todo) \in 1 .. Len(World.heap)
      BY <1>2, <1>3, <1>7
    <3>3. PICK k \in 1 .. Len(World.todo) : World.todo[k] = Head(todo)
      BY <1>2, <1>3
    <3>4. World.heap[Head(todo)].count > 0
      BY <1>2, <3>1, <3>2, <3>3, QueuedLive
    <3>5. QED  BY <1>2, <1>7, <3>2, <3>4, InvFacts DEF Live
  <2>3. QED  BY <1>1, <1>7, <2>1, <2>2 DEF Inv
<1>8. QED  BY <1>5, <1>6, <1>7 DEF DropNext

(***************************************************************************)
(* The tree as the parser leaves it.                                       *)
(***************************************************************************)

\* The three kinds of objects that a pass begins with.
TypeObject(program, i) ==
    Object("type", TypeRefs[i], <<>>, 0,
           1 + Cardinality({k \in DOMAIN program : TypeId(program[k].type) = i}))
EntityObject(i) == Object("entity", Names[i], <<>>, 0, 1)
PartsOf(program, m) ==
    [k \in DOMAIN program[m].parts |->
        IF program[m].parts[k] = 0 THEN 0 ELSE FirstNode + program[m].parts[k]]
NodeObject(program, m) ==
    Object(program[m].class, program[m].name, PartsOf(program, m), TypeId(program[m].type), 1)
Built(program) ==
    [i \in DOMAIN TypeRefs |-> TypeObject(program, i)]
        \o [i \in DOMAIN Names |-> EntityObject(i)]
        \o [i \in DOMAIN program |-> NodeObject(program, i)]

\* What the assumption says of one node.
LEMMA ProgramIs ==
    ASSUME NEW program \in Programs
    PROVE  /\ Len(program) \in Nat /\ Len(program) > 0 /\ DOMAIN program = 1 .. Len(program)
           /\ \A m \in 1 .. Len(program) :
                /\ program[m].class \in STRING /\ program[m].name \in STRING
                /\ program[m].parts \in Seq(Nat)
                /\ DOMAIN program[m].parts = 1 .. Len(program[m].parts)
                /\ Len(program[m].parts) \in Nat
                /\ \A k \in 1 .. Len(program[m].parts) :
                    /\ program[m].parts[k] \in Nat /\ program[m].parts[k] < m
                    /\ program[m].class # "variable" => program[m].parts[k] # 0
<1> DEFINE Row == [class : STRING, name : STRING, parts : Seq(Nat), type : Range(TypeRefs) \cup {<<>>}]
<1>1. program \in Seq(Row) /\ program # <<>>
  BY ProgramAssumption
<1>2. Len(program) \in Nat /\ Len(program) > 0 /\ DOMAIN program = 1 .. Len(program)
  <2> HIDE DEF Row
  <2>1. Len(program) \in Nat /\ DOMAIN program = 1 .. Len(program)
    BY <1>1, LenProperties
  <2>2. Len(program) # 0
    BY <1>1, EmptySeq
  <2>3. QED  BY <2>1, <2>2
<1>3. ASSUME NEW m \in 1 .. Len(program)
      PROVE  /\ program[m].class \in STRING /\ program[m].name \in STRING
             /\ program[m].parts \in Seq(Nat)
             /\ DOMAIN program[m].parts = 1 .. Len(program[m].parts)
             /\ Len(program[m].parts) \in Nat
             /\ \A k \in 1 .. Len(program[m].parts) :
                    /\ program[m].parts[k] \in Nat /\ program[m].parts[k] < m
                    /\ program[m].class # "variable" => program[m].parts[k] # 0
  <2>1. program[m] \in Row
    <3> HIDE DEF Row
    <3>1. QED  BY <1>1, ElementOfSeq
  <2>2. program[m].class \in STRING /\ program[m].name \in STRING /\ program[m].parts \in Seq(Nat)
    BY <2>1
  <2>3. DOMAIN program[m].parts = 1 .. Len(program[m].parts) /\ Len(program[m].parts) \in Nat
    BY <2>2, LenProperties
  <2>4. ASSUME NEW k \in 1 .. Len(program[m].parts)
        PROVE  /\ program[m].parts[k] \in Nat /\ program[m].parts[k] < m
               /\ program[m].class # "variable" => program[m].parts[k] # 0
    <3>1. program[m].parts[k] \in IF program[m].class = "variable" THEN {0} ELSE 1 .. m - 1
      BY <1>2, <2>3, ProgramAssumption
    <3>2. CASE program[m].class = "variable"
      BY <3>1, <3>2
    <3>3. CASE program[m].class # "variable"
      BY <3>1, <3>3
    <3>4. QED  BY <3>2, <3>3
  <2>5. QED  BY <2>2, <2>3, <2>4
<1>4. QED  BY <1>2, <1>3

LEMMA PartsAre ==
    ASSUME NEW program \in Programs, NEW m \in 1 .. Len(program)
    PROVE  /\ PartsOf(program, m) \in Seq(Nat)
           /\ Len(PartsOf(program, m)) = Len(program[m].parts)
           /\ \A k \in 1 .. Len(program[m].parts) :
                /\ PartsOf(program, m)[k] =
                    IF program[m].parts[k] = 0 THEN 0 ELSE FirstNode + program[m].parts[k]
                /\ PartsOf(program, m)[k] \in Nat
<1> DEFINE p == program[m].parts
           q == PartsOf(program, m)
<1>1. /\ Len(p) \in Nat /\ DOMAIN p = 1 .. Len(p) /\ \A k \in 1 .. Len(p) : p[k] \in Nat
  BY ProgramIs
<1> HIDE DEF p
<1>2. q = [k \in 1 .. Len(p) |-> IF p[k] = 0 THEN 0 ELSE FirstNode + p[k]]
  BY <1>1 DEF PartsOf, p
<1>3. \A k \in 1 .. Len(p) : (IF p[k] = 0 THEN 0 ELSE FirstNode + p[k]) \in Nat
  BY <1>1, ConstantsAre
<1> HIDE DEF q
<1>4. q \in [1 .. Len(p) -> Nat]
  BY <1>2, <1>3
<1>5. q \in Seq(Nat) /\ Len(q) = Len(p)
  BY <1>1, <1>4, LenProperties
<1>6. QED  BY <1>2, <1>3, <1>5 DEF p, q

\* What a heap holds, by numbers.
Holds(h, program) ==
    /\ h \in Seq(Nodes) /\ Len(h) = FirstNode + Len(program)
    /\ \A i \in 1 .. Len(TypeRefs) : h[i] = TypeObject(program, i)
    /\ \A i \in 1 .. Len(Names) : h[Len(TypeRefs) + i] = EntityObject(i)
    /\ \A m \in 1 .. Len(program) : h[FirstNode + m] = NodeObject(program, m)

LEMMA UsesFinite ==
    ASSUME NEW program \in Programs, NEW i
    PROVE  LET K == {k \in DOMAIN program : TypeId(program[k].type) = i}
           IN  IsFiniteSet(K) /\ Cardinality(K) \in Nat
<1> DEFINE K == {k \in DOMAIN program : TypeId(program[k].type) = i}
<1>1. IsFiniteSet(1 .. Len(program)) /\ K \in SUBSET (1 .. Len(program))
  <2>1. Len(program) \in Nat /\ DOMAIN program = 1 .. Len(program)
    BY ProgramIs
  <2>2. IsFiniteSet(1 .. Len(program))
    BY <2>1, FS_Interval
  <2>3. QED  BY <2>1, <2>2
<1> HIDE DEF K
<1>2. IsFiniteSet(K)
  BY <1>1, FS_Subset
<1>3. Cardinality(K) \in Nat
  BY <1>2, FS_CardinalityType
<1>4. QED  BY <1>2, <1>3 DEF K

LEMMA ObjectsAreNodes ==
    ASSUME NEW program \in Programs
    PROVE  /\ \A i \in 1 .. Len(TypeRefs) : TypeObject(program, i) \in Nodes
           /\ \A i \in 1 .. Len(Names) : EntityObject(i) \in Nodes
           /\ \A m \in 1 .. Len(program) : NodeObject(program, m) \in Nodes
<1>1. ASSUME NEW i \in 1 .. Len(TypeRefs) PROVE TypeObject(program, i) \in Nodes
  <2> DEFINE c == Cardinality({k \in DOMAIN program : TypeId(program[k].type) = i})
  <2>1. c \in Nat
    BY UsesFinite
  <2>2. TypeRefs[i] \in Labels
    <3>1. TypeRefs[i] \in Range(TypeRefs)
      BY ConstantsAre, ElementOfSeq
    <3>2. QED  BY <3>1, LabelsAre
  <2>3. TypeObject(program, i) = Object("type", TypeRefs[i], <<>>, 0, 1 + c)
    BY DEF TypeObject
  <2> HIDE DEF c
  <2>4. 1 + c \in Nat /\ 0 \in Nat /\ <<>> \in Seq(Nat) /\ "type" \in Labels
    BY <2>1, LabelsAre
  <2>5. QED  BY <2>2, <2>3, <2>4 DEF Nodes, Object
<1>2. ASSUME NEW i \in 1 .. Len(Names) PROVE EntityObject(i) \in Nodes
  <2>1. Names[i] \in Labels
    <3>1. Names[i] \in STRING
      BY ConstantsAre, ElementOfSeq
    <3>2. QED  BY <3>1, LabelsAre
  <2>2. 1 \in Nat /\ 0 \in Nat /\ <<>> \in Seq(Nat) /\ "entity" \in Labels
    BY LabelsAre
  <2>3. QED  BY <2>1, <2>2 DEF Nodes, Object, EntityObject
<1>3. ASSUME NEW m \in 1 .. Len(program) PROVE NodeObject(program, m) \in Nodes
  <2>1. program[m].class \in Labels /\ program[m].name \in Labels
    BY ProgramIs, LabelsAre
  <2>2. TypeId(program[m].type) \in Nat
    <3>1. TypeId(program[m].type) \in 0 .. Len(TypeRefs)
      BY TypeIdIs
    <3>2. QED  BY <3>1, ConstantsAre
  <2>3. PartsOf(program, m) \in Seq(Nat) /\ 1 \in Nat
    BY PartsAre
  <2>4. QED  BY <2>1, <2>2, <2>3 DEF Nodes, Object, NodeObject
<1>4. QED  BY <1>1, <1>2, <1>3

LEMMA FromFunction ==
    ASSUME NEW S, NEW n \in Nat, NEW f \in [1 .. n -> S]
    PROVE  f \in Seq(S) /\ Len(f) = n
<1>1. f \in Seq(S)
  BY SeqDef
<1>2. DOMAIN f = 1 .. n /\ DOMAIN f = 1 .. Len(f) /\ Len(f) \in Nat
  BY <1>1, LenProperties
<1>3. Len(f) = n
  <2>1. Len(f) \in 1 .. n \/ Len(f) = 0
    BY <1>2
  <2>2. n \in 1 .. Len(f) \/ n = 0
    BY <1>2
  <2>3. QED  BY <1>2, <2>1, <2>2
<1>4. QED  BY <1>1, <1>3

LEMMA BuiltIs ==
    ASSUME NEW program \in Programs
    PROVE  Holds(Built(program), program)
<1> DEFINE a == [i \in DOMAIN TypeRefs |-> TypeObject(program, i)]
           b == [i \in DOMAIN Names |-> EntityObject(i)]
           c == [i \in DOMAIN program |-> NodeObject(program, i)]
           T == Len(TypeRefs)
           M == Len(Names)
           N == Len(program)
<1>1. /\ T \in Nat /\ M \in Nat /\ N \in Nat /\ FirstNode = T + M
      /\ DOMAIN TypeRefs = 1 .. T /\ DOMAIN Names = 1 .. M /\ DOMAIN program = 1 .. N
  BY ConstantsAre, ProgramIs, LenProperties DEF FirstNode
<1>2. /\ a \in [1 .. T -> Nodes] /\ \A i \in 1 .. T : a[i] = TypeObject(program, i)
      /\ b \in [1 .. M -> Nodes] /\ \A i \in 1 .. M : b[i] = EntityObject(i)
      /\ c \in [1 .. N -> Nodes] /\ \A i \in 1 .. N : c[i] = NodeObject(program, i)
  BY <1>1, ObjectsAreNodes
<1>3. Built(program) = (a \o b) \o c
  BY DEF Built
<1> HIDE DEF a, b, c, T, M, N
<1>4. a \in Seq(Nodes) /\ Len(a) = T /\ b \in Seq(Nodes) /\ Len(b) = M /\ c \in Seq(Nodes) /\ Len(c) = N
  BY <1>1, <1>2, FromFunction
<1> DEFINE ab == a \o b
           h == ab \o c
<1>5. /\ ab \in Seq(Nodes) /\ Len(ab) = T + M
      /\ \A i \in 1 .. T + M : ab[i] = IF i <= T THEN a[i] ELSE b[i - T]
  BY <1>4, ConcatProperties
<1> HIDE DEF ab
<1>6. /\ h \in Seq(Nodes) /\ Len(h) = T + M + N
      /\ \A i \in 1 .. T + M + N : h[i] = IF i <= T + M THEN ab[i] ELSE c[i - (T + M)]
  <2>1. /\ h \in Seq(Nodes) /\ Len(h) = Len(ab) + Len(c)
        /\ \A i \in 1 .. Len(ab) + Len(c) : h[i] = IF i <= Len(ab) THEN ab[i] ELSE c[i - Len(ab)]
    <3>1. ab \in Seq(Nodes) /\ c \in Seq(Nodes)
      BY <1>4, <1>5
    <3>2. QED  BY <3>1, ConcatProperties
  <2> HIDE DEF h
  <2>2. QED  BY <1>4, <1>5, <2>1
<1>7. Built(program) = h
  BY <1>3 DEF ab
<1> HIDE DEF h
<1>8. ASSUME NEW i \in 1 .. T PROVE h[i] = TypeObject(program, i)
  <2>1. i \in 1 .. T + M /\ i \in 1 .. T + M + N /\ i <= T /\ i <= T + M
    BY <1>1
  <2>2. QED  BY <1>2, <1>5, <1>6, <2>1
<1>9. ASSUME NEW i \in 1 .. M PROVE h[T + i] = EntityObject(i)
  <2>1. T + i \in 1 .. T + M /\ T + i \in 1 .. T + M + N /\ ~(T + i <= T) /\ T + i <= T + M /\ (T + i) - T = i
    BY <1>1
  <2>2. h[T + i] = ab[T + i] /\ ab[T + i] = b[(T + i) - T]
    BY <1>5, <1>6, <2>1
  <2>3. QED  BY <1>2, <2>1, <2>2
<1>10. ASSUME NEW m \in 1 .. N PROVE h[(T + M) + m] = NodeObject(program, m)
  <2>1. (T + M) + m \in 1 .. T + M + N /\ ~((T + M) + m <= T + M) /\ ((T + M) + m) - (T + M) = m
    BY <1>1
  <2>2. h[(T + M) + m] = c[((T + M) + m) - (T + M)]
    BY <1>6, <2>1
  <2>3. QED  BY <1>2, <2>1, <2>2
<1>11. QED  BY <1>1, <1>6, <1>7, <1>8, <1>9, <1>10 DEF Holds, T, M, N

LEMMA HeldAtFirst ==
    ASSUME NEW program \in Programs, NEW h, Holds(h, program)
    PROVE  /\ \A i \in 1 .. FirstNode :
                /\ h[i].class \in {"type", "entity"} /\ h[i].parts = <<>> /\ h[i].type = 0
                /\ i > Len(TypeRefs) => h[i].count = 1
           /\ \A i \in 1 .. Len(TypeRefs) :
                h[i].count = 1 + Cardinality({k \in DOMAIN program : TypeId(program[k].type) = i})
           /\ \A m \in 1 .. Len(program) :
                /\ h[FirstNode + m].class = program[m].class /\ h[FirstNode + m].name = program[m].name
                /\ h[FirstNode + m].parts = PartsOf(program, m)
                /\ h[FirstNode + m].type = TypeId(program[m].type) /\ h[FirstNode + m].count = 1
<1>1. ASSUME NEW i \in 1 .. FirstNode
      PROVE  /\ h[i].class \in {"type", "entity"} /\ h[i].parts = <<>> /\ h[i].type = 0
             /\ i > Len(TypeRefs) => h[i].count = 1
  <2>1. Len(TypeRefs) \in Nat /\ Len(Names) \in Nat /\ FirstNode = Len(TypeRefs) + Len(Names)
    BY ConstantsAre DEF FirstNode
  <2>2. CASE i <= Len(TypeRefs)
    <3>1. i \in 1 .. Len(TypeRefs) /\ ~(i > Len(TypeRefs))
      BY <2>1, <2>2
    <3>2. h[i] = TypeObject(program, i)
      BY <3>1 DEF Holds
    <3>3. QED  BY <3>1, <3>2 DEF TypeObject, Object
  <2>3. CASE i > Len(TypeRefs)
    <3> DEFINE e == i - Len(TypeRefs)
    <3>1. e \in 1 .. Len(Names) /\ Len(TypeRefs) + e = i
      BY <2>1, <2>3
    <3> HIDE DEF e
    <3>2. h[i] = EntityObject(e)
      BY <3>1 DEF Holds
    <3>3. QED  BY <3>2 DEF EntityObject, Object
  <2>4. QED  BY <2>1, <2>2, <2>3
<1>2. ASSUME NEW i \in 1 .. Len(TypeRefs)
      PROVE  h[i].count = 1 + Cardinality({k \in DOMAIN program : TypeId(program[k].type) = i})
  <2> DEFINE c == Cardinality({k \in DOMAIN program : TypeId(program[k].type) = i})
  <2>1. h[i] = TypeObject(program, i)
    BY DEF Holds
  <2>2. TypeObject(program, i) = Object("type", TypeRefs[i], <<>>, 0, 1 + c)
    BY DEF TypeObject
  <2> HIDE DEF c
  <2>3. h[i].count = 1 + c
    BY <2>1, <2>2 DEF Object
  <2>4. QED  BY <2>3 DEF c
<1>3. ASSUME NEW m \in 1 .. Len(program)
      PROVE  /\ h[FirstNode + m].class = program[m].class /\ h[FirstNode + m].name = program[m].name
             /\ h[FirstNode + m].parts = PartsOf(program, m)
             /\ h[FirstNode + m].type = TypeId(program[m].type) /\ h[FirstNode + m].count = 1
  <2>1. h[FirstNode + m] = NodeObject(program, m)
    BY DEF Holds
  <2>2. QED  BY <2>1 DEF NodeObject, Object
<1>4. QED  BY <1>1, <1>2, <1>3

\* An object is one of the first or a node.
LEMMA Number ==
    ASSUME NEW N \in Nat, NEW j \in 1 .. FirstNode + N
    PROVE  j \in 1 .. FirstNode \/ \E m \in 1 .. N : j = FirstNode + m
<1>1. FirstNode \in Nat
  BY ConstantsAre
<1>2. CASE j > FirstNode
  <2>1. j - FirstNode \in 1 .. N /\ j = FirstNode + (j - FirstNode)
    BY <1>1, <1>2
  <2>2. QED  BY <2>1
<1>3. CASE j <= FirstNode
  BY <1>1, <1>3
<1>4. QED  BY <1>1, <1>2, <1>3

LEMMA ShapedAtFirst ==
    ASSUME NEW program \in Programs, NEW h, Holds(h, program), NEW j \in 1 .. Len(h)
    PROVE  Shaped(h, j)
<1> DEFINE N == Len(program)
<1>1. N \in Nat /\ Len(h) = FirstNode + N /\ FirstNode \in Nat /\ Len(TypeRefs) \in Nat
  BY ProgramIs, ConstantsAre DEF Holds
<1>2. CASE j \in 1 .. FirstNode
  <2>1. h[j].class \in {"type", "entity"} /\ h[j].parts = <<>> /\ h[j].type = 0
    BY <1>2, HeldAtFirst
  <2>2. 1 .. Len(h[j].parts) = {} /\ h[j].type \in 0 .. Len(TypeRefs)
    BY <1>1, <2>1
  <2>3. h[j].class # "variable" /\ h[j].class # "call"
    BY <2>1
  <2>4. QED  BY <2>2, <2>3 DEF Shaped
<1>3. ASSUME NEW m \in 1 .. N, j = FirstNode + m PROVE Shaped(h, j)
  <2> DEFINE p == program[m].parts
             q == h[j].parts
  <2>1. /\ h[j].class = program[m].class /\ h[j].name = program[m].name
        /\ q = PartsOf(program, m) /\ h[j].type = TypeId(program[m].type)
    BY <1>3, HeldAtFirst
  <2>2. /\ Len(q) = Len(p)
        /\ \A k \in 1 .. Len(p) : q[k] = IF p[k] = 0 THEN 0 ELSE FirstNode + p[k]
    BY <2>1, PartsAre
  <2>3. \A k \in 1 .. Len(p) : /\ p[k] \in Nat /\ p[k] < m
                               /\ program[m].class # "variable" => p[k] # 0
    BY ProgramIs
  <2>4. /\ program[m].class = "variable" => program[m].name \in Range(Names) /\ Len(p) = 1
        /\ program[m].class = "call" => p # <<>>
    BY ProgramIs, ProgramAssumption
  <2>5. Len(p) \in Nat /\ p \in Seq(Nat) /\ q \in Seq(Nat)
    BY <2>1, ProgramIs, PartsAre
  <2> HIDE DEF p, q
  <2>6. ASSUME NEW k \in 1 .. Len(p)
        PROVE  q[k] \in 0 .. FirstNode + N /\ (program[m].class # "variable" => q[k] # 0)
    <3>1. p[k] \in Nat /\ p[k] < m /\ m <= N /\ m \in Nat
      BY <1>1, <2>3
    <3>2. CASE p[k] = 0
      BY <1>1, <2>2, <2>3, <3>2
    <3>3. CASE p[k] # 0
      <4>1. q[k] = FirstNode + p[k]
        BY <2>2, <3>3
      <4>2. QED  BY <1>1, <3>1, <3>3, <4>1
    <3>4. QED  BY <3>2, <3>3
  <2>7. h[j].type \in 0 .. Len(TypeRefs)
    BY <2>1, TypeIdIs
  <2>8. p # <<>> => q # <<>>
    <3>1. p # <<>> => Len(p) # 0
      BY <2>5, EmptySeq
    <3>2. q = <<>> => Len(q) = 0
      BY EmptySeq
    <3>3. QED  BY <2>2, <3>1, <3>2
  <2>9. QED  BY <1>1, <2>1, <2>2, <2>4, <2>6, <2>7, <2>8 DEF Shaped, q
<1>4. QED  BY <1>1, <1>2, <1>3, Number

\* The places of the first heap: nothing is held by types and entities.
FirstPlace(program, i, u) ==
    /\ u \in Nat \X Nat
    /\ \E m \in 1 .. Len(program) :
        /\ u[1] = FirstNode + m
        /\ \/ u[2] = 0 /\ TypeId(program[m].type) = i
           \/ /\ u[2] \in 1 .. Len(program[m].parts) /\ program[m].parts[u[2]] # 0
              /\ FirstNode + program[m].parts[u[2]] = i

LEMMA PlacesAtFirst ==
    ASSUME NEW program \in Programs, NEW h, Holds(h, program), NEW i \in 1 .. Len(h), NEW u
    PROVE  u \in Refs(h, i) <=> FirstPlace(program, i, u)
<1> DEFINE N == Len(program)
           F == FirstNode
<1>1. N \in Nat /\ Len(h) = F + N /\ F \in Nat /\ i # 0
  BY ProgramIs, ConstantsAre DEF Holds
<1>2. ASSUME u \in Nat \X Nat, NEW m \in 1 .. N, u[1] = F + m
      PROVE  u \in Refs(h, i) <=>
                \/ u[2] = 0 /\ TypeId(program[m].type) = i
                \/ /\ u[2] \in 1 .. Len(program[m].parts) /\ program[m].parts[u[2]] # 0
                   /\ F + program[m].parts[u[2]] = i
  <2> DEFINE p == program[m].parts
             q == h[F + m].parts
  <2>1. /\ q = PartsOf(program, m) /\ h[F + m].type = TypeId(program[m].type) /\ h[F + m].count = 1
    BY HeldAtFirst
  <2>2. /\ Len(q) = Len(p) /\ Len(p) \in Nat
        /\ \A k \in 1 .. Len(p) : q[k] = IF p[k] = 0 THEN 0 ELSE F + p[k]
    BY <2>1, PartsAre, ProgramIs
  <2>3. F + m \in 1 .. Len(h)
    BY <1>1
  <2> HIDE DEF p, q, F
  <2>4. u \in Refs(h, i) <=> u[2] \in 0 .. Len(q) /\ PointsTo(h, F + m, u[2]) = i
    BY <1>2, <2>1, <2>3 DEF Refs, q
  <2>5. CASE u[2] = 0
    <3>1. PointsTo(h, F + m, u[2]) = TypeId(program[m].type) /\ u[2] \in 0 .. Len(q) /\ u[2] \notin 1 .. Len(p)
      BY <2>1, <2>2, <2>5 DEF PointsTo
    <3>2. QED  BY <2>4, <2>5, <3>1 DEF p
  <2>6. CASE u[2] # 0
    <3>1. PointsTo(h, F + m, u[2]) = q[u[2]]
      BY <2>6 DEF PointsTo, q
    <3>2. u[2] \in 0 .. Len(q) <=> u[2] \in 1 .. Len(p)
      BY <1>2, <2>2, <2>6
    <3>3. u[2] \in 1 .. Len(p) => (q[u[2]] = i <=> p[u[2]] # 0 /\ F + p[u[2]] = i)
      BY <1>1, <2>2
    <3>4. QED  BY <2>4, <2>6, <3>1, <3>2, <3>3 DEF p
  <2>7. QED  BY <2>5, <2>6
<1>3. ASSUME u \in Nat \X Nat, u[1] \in 1 .. F PROVE u \notin Refs(h, i)
  <2>1. h[u[1]].parts = <<>> /\ h[u[1]].type = 0
    BY <1>3, HeldAtFirst
  <2>2. u \in Refs(h, i) => u[2] \in 0 .. 0
    BY <2>1 DEF Refs
  <2>3. u[2] \in 0 .. 0 => PointsTo(h, u[1], u[2]) = 0
    BY <2>1 DEF PointsTo
  <2>4. u \in Refs(h, i) => PointsTo(h, u[1], u[2]) = i
    BY DEF Refs
  <2>5. QED  BY <1>1, <2>2, <2>3, <2>4
<1>4. u \in Refs(h, i) => u \in Nat \X Nat /\ u[1] \in 1 .. F + N
  BY <1>1 DEF Refs
<1>5. u \in Refs(h, i) => \E m \in 1 .. N : u[1] = F + m
  BY <1>1, <1>3, <1>4, Number
<1>6. QED  BY <1>2, <1>4, <1>5 DEF FirstPlace

LEMMA SameSize ==
    ASSUME NEW K, IsFiniteSet(K), NEW M, NEW f \in [K -> M],
           \A x, y \in K : f[x] = f[y] => x = y, \A z \in M : \E x \in K : f[x] = z
    PROVE  Cardinality(M) = Cardinality(K)
<1>1. f \in Bijection(K, M)
  BY DEF Bijection, Injection, Surjection, IsInjective
<1>2. ExistsBijection(K, M)
  BY <1>1 DEF ExistsBijection
<1>3. QED  BY <1>2, FS_Bijection

\* A type is held by the table and by the nodes of that type, an entity by its scope, a node
\* by the node it is an operand of, and the last by the pass.
LEMMA TypeAtFirst ==
    ASSUME NEW program \in Programs, NEW h, Holds(h, program), NEW i \in 1 .. Len(TypeRefs)
    PROVE  Cardinality(Refs(h, i)) = Cardinality({k \in DOMAIN program : TypeId(program[k].type) = i})
<1> DEFINE F == FirstNode
           K == {k \in DOMAIN program : TypeId(program[k].type) = i}
           M == Refs(h, i)
           f == [k \in K |-> <<F + k, 0>>]
<1>1. /\ F \in Nat /\ Len(TypeRefs) <= F /\ DOMAIN program = 1 .. Len(program)
      /\ Len(program) \in Nat /\ Len(h) = F + Len(program) /\ i \in 1 .. Len(h)
  BY ProgramIs, ConstantsAre DEF Holds
<1>2. IsFiniteSet(K)
  BY UsesFinite
<1>3. ASSUME NEW u PROVE u \in M <=> \E k \in K : u = <<F + k, 0>>
  <2>1. u \in M <=>
            /\ u \in Nat \X Nat
            /\ \E m \in 1 .. Len(program) :
                /\ u[1] = F + m
                /\ \/ u[2] = 0 /\ TypeId(program[m].type) = i
                   \/ /\ u[2] \in 1 .. Len(program[m].parts) /\ program[m].parts[u[2]] # 0
                      /\ F + program[m].parts[u[2]] = i
    <3>1. i \in 1 .. Len(h)
      BY <1>1
    <3>2. u \in M <=> FirstPlace(program, i, u)
      BY <3>1, PlacesAtFirst
    <3> HIDE DEF M
    <3>3. QED  BY <3>2 DEF FirstPlace
  <2>2. ASSUME NEW m \in 1 .. Len(program), NEW k \in 1 .. Len(program[m].parts), program[m].parts[k] # 0
        PROVE  F + program[m].parts[k] # i
    <3>1. program[m].parts[k] \in Nat
      BY ProgramIs
    <3> DEFINE p == program[m].parts[k]
    <3> HIDE DEF p
    <3>2. p \in Nat /\ p # 0
      BY <2>2, <3>1 DEF p
    <3>3. F + p # i
      BY <1>1, <3>2
    <3>4. QED  BY <3>3 DEF p
  <2>3. u \in M <=> u \in Nat \X Nat /\ \E m \in 1 .. Len(program) :
                        u[1] = F + m /\ u[2] = 0 /\ TypeId(program[m].type) = i
    <3> HIDE DEF M, F
    <3>1. QED  BY <2>1, <2>2
  <2>4. ASSUME u \in M PROVE \E k \in K : u = <<F + k, 0>>
    <3>1. PICK m \in 1 .. Len(program) : u[1] = F + m /\ u[2] = 0 /\ TypeId(program[m].type) = i
      BY <2>3, <2>4
    <3>2. u = <<F + m, 0>>
      BY <2>3, <2>4, <3>1
    <3>3. QED  BY <1>1, <3>1, <3>2
  <2>5. ASSUME NEW k \in K, u = <<F + k, 0>> PROVE u \in M
    <3>1. k \in 1 .. Len(program) /\ TypeId(program[k].type) = i
      BY <1>1
    <3>2. u \in Nat \X Nat /\ u[1] = F + k /\ u[2] = 0
      BY <1>1, <2>5, <3>1
    <3> HIDE DEF M, F
    <3>3. QED  BY <2>3, <3>1, <3>2
  <2>6. QED  BY <2>4, <2>5
<1> HIDE DEF M
<1>4. f \in [K -> M]
  BY <1>3
<1>5. \A x, y \in K : f[x] = f[y] => x = y
  BY <1>1
<1>6. \A z \in M : \E x \in K : f[x] = z
  BY <1>3
<1> HIDE DEF K, f
<1>7. Cardinality(M) = Cardinality(K)
  BY <1>2, <1>4, <1>5, <1>6, SameSize
<1>8. QED  BY <1>7 DEF K, M

LEMMA EntityAtFirst ==
    ASSUME NEW program \in Programs, NEW h, Holds(h, program), NEW i \in 1 .. FirstNode,
           i > Len(TypeRefs)
    PROVE  Cardinality(Refs(h, i)) = 0
<1> SUFFICES ASSUME NEW u \in Refs(h, i) PROVE FALSE
  BY FS_EmptySet
<1>1. /\ FirstNode \in Nat /\ Len(TypeRefs) \in Nat /\ Len(program) \in Nat
      /\ Len(h) = FirstNode + Len(program) /\ i \in 1 .. Len(h)
  BY ProgramIs, ConstantsAre DEF Holds
<1>2. PICK m \in 1 .. Len(program) :
        \/ TypeId(program[m].type) = i
        \/ /\ u[2] \in 1 .. Len(program[m].parts) /\ program[m].parts[u[2]] # 0
           /\ FirstNode + program[m].parts[u[2]] = i
  <2>1. FirstPlace(program, i, u)
    BY <1>1, PlacesAtFirst
  <2>2. QED  BY <2>1 DEF FirstPlace
<1>3. TypeId(program[m].type) # i
  <2>1. TypeId(program[m].type) \in 0 .. Len(TypeRefs)
    BY TypeIdIs
  <2>2. QED  BY <1>1, <2>1
<1>4. ASSUME NEW k \in 1 .. Len(program[m].parts), program[m].parts[k] # 0
      PROVE  FirstNode + program[m].parts[k] # i
  <2> DEFINE p == program[m].parts[k]
  <2>1. p \in Nat
    BY ProgramIs
  <2> HIDE DEF p
  <2>2. p # 0
    BY <1>4 DEF p
  <2>3. FirstNode + p # i
    BY <1>1, <2>1, <2>2
  <2>4. QED  BY <2>3 DEF p
<1>5. QED  BY <1>2, <1>3, <1>4

LEMMA NodeAtFirst ==
    ASSUME NEW program \in Programs, NEW h, Holds(h, program), NEW m \in 1 .. Len(program)
    PROVE  Cardinality(Refs(h, FirstNode + m)) = IF m = Len(program) THEN 0 ELSE 1
<1> DEFINE F == FirstNode
           N == Len(program)
           i == F + m
           K == Refs(h, i)
           M == OperandOf(program, m)
           f == [u \in K |-> <<u[1] - F, u[2]>>]
<1>1. /\ F \in Nat /\ Len(TypeRefs) <= F /\ Len(TypeRefs) \in Nat /\ N \in Nat /\ DOMAIN program = 1 .. N
      /\ Len(h) = F + N /\ i \in 1 .. Len(h) /\ m \in Nat
  BY ProgramIs, ConstantsAre DEF Holds
<1>2. ASSUME NEW u
      PROVE  u \in K <=>
                /\ u \in Nat \X Nat
                /\ \E j \in 1 .. N : /\ u[1] = F + j /\ u[2] \in 1 .. Len(program[j].parts)
                                     /\ program[j].parts[u[2]] = m
  <2>1. u \in K <=>
            /\ u \in Nat \X Nat
            /\ \E j \in 1 .. N :
                /\ u[1] = F + j
                /\ \/ u[2] = 0 /\ TypeId(program[j].type) = i
                   \/ /\ u[2] \in 1 .. Len(program[j].parts) /\ program[j].parts[u[2]] # 0
                      /\ F + program[j].parts[u[2]] = i
    <3>1. i \in 1 .. Len(h)
      BY <1>1
    <3> HIDE DEF i
    <3>2. u \in K <=> FirstPlace(program, i, u)
      BY <3>1, PlacesAtFirst DEF K
    <3> HIDE DEF K
    <3>3. QED  BY <3>2 DEF FirstPlace
  <2>2. ASSUME NEW j \in 1 .. N PROVE TypeId(program[j].type) # i
    <3>1. TypeId(program[j].type) \in 0 .. Len(TypeRefs)
      BY TypeIdIs
    <3>2. QED  BY <1>1, <3>1
  <2>3. ASSUME NEW j \in 1 .. N, NEW k \in 1 .. Len(program[j].parts)
        PROVE  program[j].parts[k] # 0 /\ F + program[j].parts[k] = i <=> program[j].parts[k] = m
    <3> DEFINE p == program[j].parts[k]
    <3>1. p \in Nat
      BY ProgramIs
    <3> HIDE DEF p
    <3>2. p # 0 /\ F + p = i <=> p = m
      BY <1>1, <3>1
    <3>3. QED  BY <3>2 DEF p
  <2> HIDE DEF K, F, N, i
  <2>4. QED  BY <2>1, <2>2, <2>3
<1>3. ASSUME NEW u
      PROVE  u \in M <=> /\ u \in Nat \X Nat
                         /\ u[1] \in 1 .. N /\ u[2] \in 1 .. Len(program[u[1]].parts)
                         /\ program[u[1]].parts[u[2]] = m
  <2>1. \A j \in 1 .. N : DOMAIN program[j].parts = 1 .. Len(program[j].parts) /\ Len(program[j].parts) \in Nat
    BY ProgramIs
  <2>2. u \in M <=> (\E j \in 1 .. N : u \in {j} \X DOMAIN program[j].parts) /\ program[u[1]].parts[u[2]] = m
    BY <1>1 DEF OperandOf
  <2>3. ASSUME u \in M
        PROVE  /\ u \in Nat \X Nat
               /\ u[1] \in 1 .. N /\ u[2] \in 1 .. Len(program[u[1]].parts)
               /\ program[u[1]].parts[u[2]] = m
    <3>1. PICK j \in 1 .. N : u \in {j} \X (1 .. Len(program[j].parts))
      BY <2>1, <2>2, <2>3
    <3>2. u[1] = j /\ u[2] \in 1 .. Len(program[j].parts) /\ u = <<u[1], u[2]>>
      BY <3>1
    <3>3. j \in Nat /\ u[2] \in Nat
      BY <1>1, <3>2
    <3>4. QED  BY <2>2, <2>3, <3>2, <3>3
  <2>4. ASSUME u \in Nat \X Nat, u[1] \in 1 .. N, u[2] \in 1 .. Len(program[u[1]].parts),
               program[u[1]].parts[u[2]] = m
        PROVE  u \in M
    <3>1. u \in {u[1]} \X DOMAIN program[u[1]].parts
      BY <2>1, <2>4
    <3>2. QED  BY <2>2, <2>4, <3>1
  <2>5. QED  BY <2>3, <2>4
<1> HIDE DEF K, M
<1>4. IsFiniteSet(K)
  BY RefsFinite DEF Holds, K
<1>5. CASE m = N
  <2>1. ASSUME NEW u \in K PROVE FALSE
    <3>1. PICK j \in 1 .. N : u[2] \in 1 .. Len(program[j].parts) /\ program[j].parts[u[2]] = m
      BY <1>2
    <3>2. program[j].parts[u[2]] < j
      BY <3>1, ProgramIs
    <3>3. QED  BY <1>1, <1>5, <3>1, <3>2
  <2>2. QED  BY <1>5, <2>1, FS_EmptySet DEF K
<1>6. CASE m # N
  <2>1. f \in [K -> M]
    <3> SUFFICES ASSUME NEW u \in K PROVE <<u[1] - F, u[2]>> \in M
      OBVIOUS
    <3>1. PICK j \in 1 .. N : /\ u \in Nat \X Nat /\ u[1] = F + j /\ u[2] \in 1 .. Len(program[j].parts)
                              /\ program[j].parts[u[2]] = m
      BY <1>2
    <3>2. u[1] - F = j /\ u[2] \in Nat /\ j \in Nat
      BY <1>1, <3>1
    <3> DEFINE v == <<j, u[2]>>
    <3>3. v \in Nat \X Nat /\ v[1] = j /\ v[2] = u[2]
      BY <3>2
    <3> HIDE DEF v
    <3>4. v \in M
      BY <1>3, <3>1, <3>3
    <3>5. QED  BY <3>2, <3>4 DEF v
  <2>2. ASSUME NEW x \in K, NEW y \in K, f[x] = f[y] PROVE x = y
    <3>1. x \in Nat \X Nat /\ y \in Nat \X Nat
      BY <1>2
    <3>2. x[1] - F = y[1] - F /\ x[2] = y[2]
      BY <2>2
    <3>3. QED  BY <1>1, <3>1, <3>2
  <2>3. ASSUME NEW z \in M PROVE \E x \in K : f[x] = z
    <3> DEFINE x == <<F + z[1], z[2]>>
    <3>1. /\ z \in Nat \X Nat
          /\ z[1] \in 1 .. N /\ z[2] \in 1 .. Len(program[z[1]].parts)
          /\ program[z[1]].parts[z[2]] = m
      BY <1>3
    <3>2. x \in Nat \X Nat /\ x[1] = F + z[1] /\ x[2] = z[2] /\ x[1] - F = z[1] /\ z = <<z[1], z[2]>>
      BY <1>1, <3>1
    <3> HIDE DEF x
    <3>3. x \in K
      BY <1>2, <3>1, <3>2
    <3>4. f[x] = z
      BY <3>2, <3>3
    <3>5. QED  BY <3>3, <3>4
  <2> HIDE DEF f
  <2>4. Cardinality(M) = Cardinality(K)
    BY <1>4, <2>1, <2>2, <2>3, SameSize
  <2>5. m \in 1 .. Len(program) - 1
    <3>1. N \in Nat /\ m \in 1 .. N /\ m # N
      BY <1>1, <1>6
    <3> HIDE DEF N
    <3>2. m \in 1 .. N - 1
      BY <3>1
    <3>3. QED  BY <3>2 DEF N
  <2>6. Cardinality(M) = 1
    BY <2>5, ProgramAssumption DEF M
  <2>7. QED  BY <1>6, <2>4, <2>6 DEF K
<1>7. QED  BY <1>5, <1>6

LEMMA BooksAtFirst ==
    ASSUME NEW program \in Programs, NEW h, Holds(h, program), NEW i \in 1 .. Len(h)
    PROVE  h[i].count - Cardinality(Refs(h, i))
                = IF i \in (1 .. FirstNode) \cup {FirstNode + Len(program)} THEN 1 ELSE 0
<1> DEFINE N == Len(program)
<1>1. N \in Nat /\ Len(h) = FirstNode + N /\ FirstNode \in Nat /\ Len(TypeRefs) \in Nat
  BY ProgramIs, ConstantsAre DEF Holds
<1>2. CASE i \in 1 .. Len(TypeRefs)
  <2> DEFINE c == Cardinality({k \in DOMAIN program : TypeId(program[k].type) = i})
  <2>1. c \in Nat
    BY UsesFinite
  <2>2. h[i].count = 1 + c /\ Cardinality(Refs(h, i)) = c
    BY <1>2, HeldAtFirst, TypeAtFirst
  <2> HIDE DEF c
  <2>3. i \in 1 .. FirstNode
    BY <1>1, <1>2, ConstantsAre
  <2>4. QED  BY <2>1, <2>2, <2>3
<1>3. CASE i \in 1 .. FirstNode /\ i > Len(TypeRefs)
  <2>1. h[i].count = 1 /\ Cardinality(Refs(h, i)) = 0
    BY <1>3, HeldAtFirst, EntityAtFirst
  <2>2. QED  BY <1>3, <2>1
<1>4. ASSUME NEW m \in 1 .. N, i = FirstNode + m
      PROVE  h[i].count - Cardinality(Refs(h, i))
                = IF i \in (1 .. FirstNode) \cup {FirstNode + N} THEN 1 ELSE 0
  <2>1. h[i].count = 1 /\ Cardinality(Refs(h, i)) = IF m = N THEN 0 ELSE 1
    BY <1>4, HeldAtFirst, NodeAtFirst
  <2>2. i \notin 1 .. FirstNode /\ (i = FirstNode + N <=> m = N)
    BY <1>1, <1>4
  <2>3. QED  BY <2>1, <2>2
<1>5. i \in 1 .. FirstNode \/ \E m \in 1 .. N : i = FirstNode + m
  BY <1>1, Number
<1>6. i \in 1 .. FirstNode => i \in 1 .. Len(TypeRefs) \/ i > Len(TypeRefs)
  BY <1>1
<1>7. QED  BY <1>2, <1>3, <1>4, <1>5, <1>6

LEMMA InitInv == Init => Inv
<1> SUFFICES ASSUME Init PROVE Inv
  OBVIOUS
<1>1. PICK program \in Programs :
        /\ heap = Built(program) /\ root = FirstNode + Len(program)
        /\ lost = [i \in 1 .. FirstNode + Len(program) |-> 0]
        /\ todo = <<>> /\ status = "fine" /\ blame = {} /\ phase = "open" /\ calls = 0
  BY DEF Init, Built, TypeObject, EntityObject, NodeObject, PartsOf
<1>2. Holds(heap, program)
  BY <1>1, BuiltIs
<1> DEFINE n == Len(heap)
<1>3. /\ heap \in Seq(Nodes) /\ n = FirstNode + Len(program) /\ Len(program) \in Nat /\ Len(program) > 0
      /\ FirstNode \in Nat /\ n \in Nat
  BY <1>2, ProgramIs, ConstantsAre DEF Holds
<1>4. lost \in Seq(Nat) /\ Len(lost) = n /\ \A i \in 1 .. n : lost[i] = 0
  <2>1. lost = [i \in 1 .. n |-> 0]
    BY <1>1, <1>3
  <2> HIDE DEF n
  <2>2. lost \in [1 .. n -> Nat]
    BY <2>1
  <2>3. QED  BY <1>3, <2>1, <2>2, FromFunction
<1>5. World \in Worlds /\ World.heap = heap /\ World.lost = lost /\ World.todo = <<>>
  <2>1. <<>> \in Seq(Nat) /\ {} \in SUBSET Mistakes
    OBVIOUS
  <2>2. QED  BY <1>1, <1>3, <1>4, <2>1 DEF World, Worlds
<1>6. Formed(World)
  <2>1. \A j \in 1 .. n : Shaped(heap, j)
    BY <1>2, ShapedAtFirst
  <2>2. Len(<<>>) = 0
    BY EmptySeq
  <2>3. FirstNode <= n /\ 1 .. 0 = {}
    BY <1>3
  <2> HIDE DEF n
  <2>4. QED  BY <1>4, <1>5, <2>1, <2>2, <2>3 DEF Formed, n
<1>7. Balanced(World, Standing)
  <2> SUFFICES ASSUME NEW i \in 1 .. n PROVE Owed(World, i) = IF i \in Standing THEN 1 ELSE 0
    BY <1>5 DEF Balanced
  <2> DEFINE B == (1 .. FirstNode) \cup {FirstNode + Len(program)}
  <2>1. Standing = B
    BY <1>1 DEF Standing
  <2>2. heap[i].count - Cardinality(Refs(heap, i)) = IF i \in B THEN 1 ELSE 0
    BY <1>2, BooksAtFirst
  <2>3. heap[i].count \in Nat /\ Cardinality(Refs(heap, i)) \in Nat
    BY <1>3, NodeIs, RefsFinite
  <2>4. Times(i, <<>>) = 0 /\ lost[i] = 0
    BY <1>4, TimesEmpty
  <2> HIDE DEF B, n
  <2>5. PICK a \in Nat, c \in Nat : a = heap[i].count /\ c = Cardinality(Refs(heap, i))
    BY <2>3
  <2>6. a - c - 0 - 0 = IF i \in B THEN 1 ELSE 0
    BY <2>2, <2>5
  <2>7. Owed(World, i) = a - c - 0 - 0
    BY <1>5, <2>4, <2>5 DEF Owed
  <2>8. QED  BY <2>1, <2>6, <2>7
<1>8. root \in FirstNode + 1 .. n
  BY <1>1, <1>3
<1>9. calls \in 0 .. MaxCalls
  BY <1>1, CallAssumption
<1>10. QED  BY <1>1, <1>6, <1>7, <1>8, <1>9 DEF Inv

LEMMA StepKeeps ==
    ASSUME Inv, [Next]_vars
    PROVE  Inv'
<1>1. ASSUME UNCHANGED vars PROVE Inv'
  <2>1. UNCHANGED <<heap, root, lost, todo, status, blame, phase, calls>>
    BY <1>1 DEF vars
  <2>2. World' = World /\ Standing' = Standing
    BY <2>1 DEF World, Standing
  <2>3. QED  BY <2>1, <2>2 DEF Inv
<1>2. ASSUME Done PROVE Inv'
  BY <1>1, <1>2 DEF Done
<1>3. QED
  BY <1>1, <1>2, StaleKeeps, ResolveKeeps, AttachTypeKeeps, ConvertKeeps, FoldKeeps,
     ReplaceArgsKeeps, AskAssignableKeeps, DropNextKeeps, FinishKeeps DEF Next

LEMMA Invariant == Spec => []Inv
<1>1. Inv /\ [Next]_vars => Inv'
  BY StepKeeps
<1>2. QED  BY <1>1, InitInv, PTL DEF Spec

(***************************************************************************)
(* What the invariant says of the three properties.                        *)
(***************************************************************************)

LEMMA InvTypes == Inv => TypeOK
<1> SUFFICES ASSUME Inv PROVE TypeOK
  OBVIOUS
<1> DEFINE n == Len(heap)
<1>1. /\ heap \in Seq(Nodes) /\ n \in Nat /\ DOMAIN heap = 1 .. n /\ root \in 1 .. n
      /\ lost \in Seq(Nat) /\ todo \in Seq(Nat) /\ Len(lost) = n /\ blame \in SUBSET Mistakes
  <2>1. Formed(World) /\ World.heap = heap /\ World.lost = lost /\ World.todo = todo /\ World.blame = blame
    BY InvFacts, WorldFields
  <2>2. lost \in Seq(Nat) /\ todo \in Seq(Nat) /\ Len(lost) = Len(heap)
    BY <2>1, WorldIs
  <2>3. blame \in SUBSET Mistakes
    BY <2>1 DEF Formed, Worlds
  <2>4. QED  BY <2>2, <2>3, InvFacts
<1>2. ASSUME NEW i \in 1 .. n PROVE heap[i].count \in Nat /\ Held(i) \subseteq 1 .. n
  <2>1. Shaped(heap, i) /\ FirstNode <= n
    BY WorldFields DEF Inv, Formed
  <2>2. /\ heap[i].count \in Nat /\ heap[i].parts \in Seq(Nat)
        /\ DOMAIN heap[i].parts = 1 .. Len(heap[i].parts)
    BY <1>1, NodeIs
  <2>3. heap[i].type \in 0 .. n
    <3>1. heap[i].type \in 0 .. Len(TypeRefs) /\ Len(TypeRefs) <= FirstNode
      BY <2>1, ConstantsAre DEF Shaped
    <3> HIDE DEF n
    <3>2. QED  BY <1>1, <2>1, <3>1, ConstantsAre
  <2>4. \A x \in ToSet(heap[i].parts) : x \in 0 .. n
    BY <2>1, <2>2 DEF Shaped, ToSet
  <2> HIDE DEF n
  <2>5. Held(i) \subseteq (0 .. n) \ {0}
    BY <2>3, <2>4 DEF Held
  <2>6. (0 .. n) \ {0} \subseteq 1 .. n
    BY <1>1
  <2>7. QED  BY <2>2, <2>5, <2>6
<1>3. lost \in [DOMAIN heap -> Nat]
  <2>1. DOMAIN lost = 1 .. Len(lost) /\ lost \in [1 .. Len(lost) -> Nat]
    BY <1>1, LenProperties
  <2>2. QED  BY <1>1, <2>1
<1>4. todo \in Seq(DOMAIN heap \cup {0})
  <2>1. \A k \in 1 .. Len(todo) : todo[k] \in 0 .. n
    BY WorldFields DEF Inv, Formed
  <2>2. DOMAIN todo = 1 .. Len(todo) /\ Len(todo) \in Nat /\ todo \in [1 .. Len(todo) -> Nat]
    BY <1>1, LenProperties
  <2>3. todo \in [1 .. Len(todo) -> 0 .. n]
    BY <2>1, <2>2
  <2>4. 0 .. n \subseteq DOMAIN heap \cup {0}
    BY <1>1
  <2>5. todo \in [1 .. Len(todo) -> DOMAIN heap \cup {0}]
    BY <2>3, <2>4
  <2>6. QED  BY <2>2, <2>5, FromFunction
<1>5. blame \subseteq {"set_left", "BinaryOpNode::set_type", "replaceArgs", "is_loadable"}
  BY <1>1 DEF Mistakes
<1>6. status \in {"fine", "undefined"} /\ phase \in {"open", "closed"} /\ calls \in 0 .. MaxCalls
  BY DEF Inv
<1>7. QED  BY <1>1, <1>2, <1>3, <1>4, <1>5, <1>6 DEF TypeOK

LEMMA SlotsAreRefs ==
    ASSUME heap \in Seq(Nodes), NEW i
    PROVE  {slot \in Slots : At(slot) = i} = Refs(heap, i)
<1>1. DOMAIN heap = 1 .. Len(heap) /\ Len(heap) \in Nat
  BY LenProperties
<1>2. ASSUME NEW u
      PROVE  u \in Slots <=> /\ u \in Nat \X Nat
                             /\ u[1] \in 1 .. Len(heap) /\ heap[u[1]].count > 0
                             /\ u[2] \in 0 .. Len(heap[u[1]].parts)
  <2>1. u \in Slots <=> \E j \in Live : u \in {j} \X (0 .. Len(heap[j].parts))
    BY DEF Slots
  <2>2. \A j : j \in Live <=> j \in 1 .. Len(heap) /\ heap[j].count > 0
    BY <1>1 DEF Live
  <2>3. ASSUME NEW j \in Live, u \in {j} \X (0 .. Len(heap[j].parts))
        PROVE  /\ u \in Nat \X Nat
               /\ u[1] \in 1 .. Len(heap) /\ heap[u[1]].count > 0
               /\ u[2] \in 0 .. Len(heap[u[1]].parts)
    <3>1. j \in Nat /\ Len(heap[j].parts) \in Nat
      BY <2>2, NodeIs
    <3>2. u = <<j, u[2]>> /\ u[1] = j /\ u[2] \in 0 .. Len(heap[j].parts)
      BY <2>3
    <3>3. u \in Nat \X Nat
      BY <3>1, <3>2
    <3>4. QED  BY <2>2, <3>2, <3>3
  <2>4. ASSUME u \in Nat \X Nat, u[1] \in 1 .. Len(heap), heap[u[1]].count > 0,
               u[2] \in 0 .. Len(heap[u[1]].parts)
        PROVE  u \in Slots
    <3>1. u[1] \in Live /\ u \in {u[1]} \X (0 .. Len(heap[u[1]].parts))
      BY <2>2, <2>4
    <3>2. QED  BY <2>1, <3>1
  <2>5. QED  BY <2>1, <2>3, <2>4
<1>3. \A u : At(u) = PointsTo(heap, u[1], u[2])
  BY DEF At, PointsTo
<1>4. \A u : u \in {slot \in Slots : At(slot) = i} <=> u \in Refs(heap, i)
  BY <1>2, <1>3 DEF Refs
<1>5. QED  BY <1>4

LEMMA InvCounts == Inv => CountsExact
<1> SUFFICES ASSUME Inv, blame = {}, NEW i \in Live
             PROVE  heap[i].count = Holders(i) + lost[i]
  BY DEF CountsExact
<1> DEFINE r == Cardinality(Refs(heap, i))
           one == IF i <= FirstNode \/ (i = root /\ phase = "open") THEN 1 ELSE 0
<1>1. /\ i \in 1 .. Len(heap) /\ heap \in Seq(Nodes) /\ Formed(World) /\ Balanced(World, Standing)
      /\ World.heap = heap /\ World.lost = lost /\ World.todo = todo /\ i \in Nat
  BY InvFacts, WorldFields DEF Live, Inv
<1>2. heap[i].count \in Nat /\ r \in Nat /\ Times(i, todo) \in Nat /\ lost[i] \in Nat
  BY <1>1, WorldIs
<1>3. Owed(World, i) = one
  <2>1. i \in Standing <=> i <= FirstNode \/ (i = root /\ phase = "open")
    BY <1>1, ConstantsAre DEF Standing
  <2>2. Owed(World, i) = IF i \in Standing THEN 1 ELSE 0
    BY <1>1 DEF Balanced
  <2>3. QED  BY <2>1, <2>2
<1>4. Holders(i) = r + Times(i, todo) + one
  <2>1. {slot \in Slots : At(slot) = i} = Refs(heap, i)
    BY <1>1, SlotsAreRefs
  <2>2. QED  BY <2>1 DEF Holders
<1>5. Owed(World, i) = heap[i].count - r - Times(i, todo) - lost[i]
  BY <1>1 DEF Owed
<1>6. one \in Nat
  OBVIOUS
<1> HIDE DEF r, one
<1>7. PICK a \in Nat, t \in Nat, l \in Nat : a = heap[i].count /\ t = Times(i, todo) /\ l = lost[i]
  BY <1>2
<1>8. a - r - t - l = one
  BY <1>3, <1>5, <1>7
<1>9. a = r + t + one + l
  BY <1>2, <1>6, <1>8
<1>10. QED  BY <1>4, <1>7, <1>9

\* Every heap that a pass makes of a tree has objects for all its operands and types, and every
\* dec_ref to come is of an object or null.
THEOREM ExpressionTypes == Spec => []TypeOK
<1>1. QED  BY Invariant, InvTypes, PTL

\* However long a pass resolves, retypes, converts and folds, the count of every object is the
\* number of its holders and of the references that the setters of node.cc:126, 156, 206 and
\* 212 forget, until one of the setters that do not count is called.
THEOREM HoldersAreCounted == Spec => []CountsExact
<1>1. QED  BY Invariant, InvCounts, PTL

\* So no walk from the root and no destructor meets a deleted object unless one of these was
\* called (node.h:438, node.cc:386, 577), and no call makes the program undefined but the
\* question for orig_type_ (node.cc:134).
THEOREM FaultsAreKnown == Spec => []OnlyKnownFaults
<1>1. Inv => OnlyKnownFaults
  BY DEF Inv, OnlyKnownFaults
<1>2. QED  BY <1>1, Invariant, PTL

(***************************************************************************)
(* The types of places.                                                    *)
(***************************************************************************)

\* The classes that have types of their own.
Operators == Places \cup {"call", "unary", "assign", "conditional", "binary"}

\* What orig_type_ of each class makes of the types of the operands.
LEMMA OrigIs ==
    ASSUME NEW f, NEW n
    PROVE  /\ n.class = "variable" => OrigFrom(f, n) = IF n.parts[1] = 0 THEN Undefined ELSE Declared[heap[n.parts[1]].name]
           /\ n.class = "aref" => OrigFrom(f, n) = BaseOf(f[n.parts[1]].orig)
           /\ n.class = "dereference" => OrigFrom(f, n) = BaseOf(f[n.parts[1]].type)
           /\ n.class = "member" => OrigFrom(f, n) = MemberOf(f[n.parts[1]].type, n.name)
           /\ n.class = "ptrmember" => OrigFrom(f, n) = MemberOf(PointedBy(f[n.parts[1]].type), n.name)
           /\ n.class = "call" => OrigFrom(f, n) = ResultOf(PointedBy(f[n.parts[1]].type))
           /\ n.class \in {"unary", "assign"} => OrigFrom(f, n) = f[n.parts[1]].type
           /\ n.class = "conditional" => OrigFrom(f, n) = f[n.parts[2]].type
           /\ n.class = "binary" => OrigFrom(f, n) = IF n.type = 0 THEN f[n.parts[1]].type ELSE Own(n)
           /\ n.class \notin Operators => OrigFrom(f, n) = Own(n)
BY DEF OrigFrom, Operators, Places

\* The types that C gives them.
LEMMA CTypeFromIs ==
    ASSUME NEW f, NEW n
    PROVE  /\ n.class = "variable" => CTypeFrom(f, n) = Declared[n.name]
           /\ n.class = "aref" => CTypeFrom(f, n) = BaseOf(f[n.parts[1]])
           /\ n.class = "dereference" => CTypeFrom(f, n) = Element(f[n.parts[1]])
           /\ n.class = "member" => CTypeFrom(f, n) = Field(f[n.parts[1]], n.name)
           /\ n.class = "ptrmember" => CTypeFrom(f, n) = Field(Element(f[n.parts[1]]), n.name)
           /\ n.class = "call" => CTypeFrom(f, n) = Result(Element(f[n.parts[1]]))
           /\ n.class = "address" => CTypeFrom(f, n) = PointerTo(f[n.parts[1]])
           /\ n.class \in {"unary", "assign"} => CTypeFrom(f, n) = f[n.parts[1]]
           /\ n.class = "conditional" => CTypeFrom(f, n) = f[n.parts[2]]
           /\ n.class = "binary" => CTypeFrom(f, n) = IF n.type = 0 THEN f[n.parts[1]] ELSE Own(n)
           /\ n.class \notin Operators \cup {"address"} => CTypeFrom(f, n) = Own(n)
BY DEF CTypeFrom, Operators, Places

\* A heap whose nodes are trees: every node has the operands that its class has, each a node;
\* and a name is not resolved, or by its entity.
Tree(h) ==
    /\ \A i \in 1 .. FirstNode : h[i].class \in {"type", "entity"} /\ h[i].parts = <<>>
    /\ \A i \in FirstNode + 1 .. Len(h) :
        /\ h[i].class = "variable" => h[i].parts[1] \in {0, EntityId(h[i].name)}
        /\ h[i].class # "variable" => \A k \in 1 .. Len(h[i].parts) : h[i].parts[k] > FirstNode
        /\ h[i].class \in Operators \cup {"address"} => Len(h[i].parts) >= 1
        /\ h[i].class = "conditional" => Len(h[i].parts) >= 2

\* Types and entities have their names.
Titled(h) ==
    /\ \A i \in 1 .. Len(TypeRefs) : h[i].name = TypeRefs[i]
    /\ \A i \in 1 .. Len(Names) : h[Len(TypeRefs) + i].name = Names[i]

\* Operands come before what is made of them, in some order.
Ranks(h, M, rank) ==
    /\ rank \in [1 .. Len(h) -> 0 .. M]
    /\ \A i \in FirstNode + 1 .. Len(h) : \A k \in 1 .. Len(h[i].parts) :
        h[i].parts[k] > FirstNode => rank[h[i].parts[k]] < rank[i]
Ranked(h) == \E M \in Nat : \E rank : Ranks(h, M, rank)

\* What the second invariant says; the first is Inv.
TreeInv == Tree(heap) /\ Titled(heap) /\ Ranked(heap)

\* The nodes that i is made of.
Kids(i) == ToSet(heap[i].parts) \ (0 .. FirstNode)

\* The operands of a node that are nodes.
LEMMA KidsAre ==
    ASSUME Inv, TreeInv, NEW i \in FirstNode + 1 .. Len(heap)
    PROVE  /\ i \in 1 .. Len(heap) /\ i \in DOMAIN heap /\ heap[i].parts \in Seq(Nat) /\ Len(heap[i].parts) \in Nat
           /\ Kids(i) = {heap[i].parts[k] : k \in 1 .. Len(heap[i].parts)} \ (0 .. FirstNode)
           /\ Kids(i) \subseteq FirstNode + 1 .. Len(heap)
           /\ heap[i].class \in (Operators \cup {"address"}) \ {"variable"} => heap[i].parts[1] \in Kids(i)
           /\ heap[i].class = "conditional" => heap[i].parts[2] \in Kids(i)
           /\ heap[i].class = "variable" => Kids(i) = {}
<1>1. /\ Len(heap) \in Nat /\ heap \in Seq(Nodes) /\ DOMAIN heap = 1 .. Len(heap) /\ FirstNode \in Nat
      /\ Formed(World) /\ World.heap = heap
  BY InvFacts, ConstantsAre, WorldFields
<1>2. i \in 1 .. Len(heap) /\ i \notin 1 .. FirstNode
  BY <1>1
<1>3. heap[i].parts \in Seq(Nat) /\ DOMAIN heap[i].parts = 1 .. Len(heap[i].parts) /\ Len(heap[i].parts) \in Nat
  <2>1. heap[i].parts \in Seq(Nat)
    BY <1>1, <1>2, NodeIs
  <2>2. QED  BY <2>1, LenProperties
<1>4. Kids(i) = {heap[i].parts[k] : k \in 1 .. Len(heap[i].parts)} \ (0 .. FirstNode)
  BY <1>3 DEF Kids, ToSet
<1>5. Shaped(heap, i)
  BY <1>1, <1>2 DEF Formed
<1>6. \A k \in 1 .. Len(heap[i].parts) : heap[i].parts[k] \in 0 .. Len(heap)
  BY <1>5 DEF Shaped
<1>7. Kids(i) \subseteq FirstNode + 1 .. Len(heap)
  <2> SUFFICES ASSUME NEW k \in 1 .. Len(heap[i].parts), heap[i].parts[k] \notin 0 .. FirstNode
               PROVE  heap[i].parts[k] \in FirstNode + 1 .. Len(heap)
    BY <1>4
  <2>1. heap[i].parts[k] \in 0 .. Len(heap)
    BY <1>6
  <2>2. QED  BY <1>1, <2>1
<1>8. ASSUME NEW k \in 1 .. Len(heap[i].parts), heap[i].class # "variable"
      PROVE  heap[i].parts[k] \in Kids(i)
  <2>1. heap[i].parts[k] > FirstNode
    BY <1>8 DEF TreeInv, Tree
  <2>2. heap[i].parts[k] \notin 0 .. FirstNode
    BY <1>1, <2>1
  <2>3. QED  BY <1>4, <2>2
<1>9. heap[i].class \in (Operators \cup {"address"}) \ {"variable"} => heap[i].parts[1] \in Kids(i)
  <2> SUFFICES ASSUME heap[i].class \in (Operators \cup {"address"}) \ {"variable"} PROVE heap[i].parts[1] \in Kids(i)
    OBVIOUS
  <2>1. Len(heap[i].parts) >= 1
    BY DEF TreeInv, Tree
  <2>2. 1 \in 1 .. Len(heap[i].parts)
    BY <1>3, <2>1
  <2>3. QED  BY <1>8, <2>2
<1>10. heap[i].class = "conditional" => heap[i].parts[2] \in Kids(i)
  <2> SUFFICES ASSUME heap[i].class = "conditional" PROVE heap[i].parts[2] \in Kids(i)
    OBVIOUS
  <2>1. Len(heap[i].parts) >= 2 /\ heap[i].class # "variable"
    BY DEF TreeInv, Tree
  <2>2. 2 \in 1 .. Len(heap[i].parts)
    BY <1>3, <2>1
  <2>3. QED  BY <1>8, <2>1, <2>2
<1>11. heap[i].class = "variable" => Kids(i) = {}
  <2> SUFFICES ASSUME heap[i].class = "variable", NEW k \in 1 .. Len(heap[i].parts)
               PROVE  heap[i].parts[k] \in 0 .. FirstNode
    BY <1>4
  <2>1. Len(heap[i].parts) = 1 /\ heap[i].name \in Range(Names)
    BY <1>5 DEF Shaped
  <2>2. k = 1
    BY <2>1
  <2>3. heap[i].parts[1] \in {0, EntityId(heap[i].name)}
    BY DEF TreeInv, Tree
  <2>4. EntityId(heap[i].name) \in 1 .. FirstNode
    BY <2>1, EntityIdIs
  <2>5. QED  BY <1>1, <2>2, <2>3, <2>4
<1>12. QED  BY <1>1, <1>2, <1>3, <1>4, <1>7, <1>9, <1>10, <1>11

\* What becomes of a node depends on its operands only.
LEMMA OrigLooks ==
    ASSUME Inv, TreeInv, NEW i \in 1 .. Len(heap), NEW f, NEW g,
           i > FirstNode => \A j \in Kids(i) : f[j] = g[j]
    PROVE  TypesFrom(f, heap[i]) = TypesFrom(g, heap[i])
<1> DEFINE n == heap[i]
<1>1. CASE n.class \notin Operators
  <2>1. OrigFrom(f, n) = OrigFrom(g, n)
    <3> HIDE DEF n
    <3>1. QED  BY <1>1, OrigIs
  <2>2. QED  BY <2>1 DEF TypesFrom
<1>2. CASE n.class = "variable"
  <2>1. OrigFrom(f, n) = OrigFrom(g, n)
    <3> HIDE DEF n
    <3>1. QED  BY <1>2, OrigIs
  <2>2. QED  BY <2>1 DEF TypesFrom
<1>3. CASE n.class \in Operators \ {"variable"}
  <2>1. i \in FirstNode + 1 .. Len(heap)
    <3>1. ~(i \in 1 .. FirstNode)
      BY <1>3 DEF TreeInv, Tree, Operators, Places
    <3>2. QED  BY <3>1, ConstantsAre, InvFacts
  <2>2. i > FirstNode
    BY <2>1, ConstantsAre, InvFacts
  <2>3. n.parts[1] \in Kids(i) /\ (n.class = "conditional" => n.parts[2] \in Kids(i))
    BY <1>3, <2>1, KidsAre
  <2>4. f[n.parts[1]] = g[n.parts[1]] /\ (n.class = "conditional" => f[n.parts[2]] = g[n.parts[2]])
    BY <2>2, <2>3
  <2>5. n.class \in {"aref", "dereference", "member", "ptrmember", "call", "unary", "assign", "conditional",
                     "binary"}
    BY <1>3 DEF Operators, Places
  <2>6. OrigFrom(f, n) = OrigFrom(g, n)
    <3> HIDE DEF n
    <3>1. QED  BY <2>4, <2>5, OrigIs
  <2>7. QED  BY <2>6 DEF TypesFrom
<1>4. QED  BY <1>1, <1>2, <1>3

\* The same of the type that C gives it.
LEMMA CTypeLooks ==
    ASSUME Inv, TreeInv, NEW i \in 1 .. Len(heap), NEW f, NEW g,
           i > FirstNode => \A j \in Kids(i) : f[j] = g[j]
    PROVE  CTypeFrom(f, heap[i]) = CTypeFrom(g, heap[i])
<1> DEFINE n == heap[i]
<1>1. CASE n.class \notin Operators \cup {"address"}
  <2>1. CTypeFrom(f, n) = CTypeFrom(g, n)
    <3> HIDE DEF n
    <3>1. QED  BY <1>1, CTypeFromIs
  <2>2. QED  BY <2>1
<1>2. CASE n.class = "variable"
  <2>1. CTypeFrom(f, n) = CTypeFrom(g, n)
    <3> HIDE DEF n
    <3>1. QED  BY <1>2, CTypeFromIs
  <2>2. QED  BY <2>1
<1>3. CASE n.class \in (Operators \cup {"address"}) \ {"variable"}
  <2>1. i \in FirstNode + 1 .. Len(heap)
    <3>1. ~(i \in 1 .. FirstNode)
      BY <1>3 DEF TreeInv, Tree, Operators, Places
    <3>2. QED  BY <3>1, ConstantsAre, InvFacts
  <2>2. i > FirstNode
    BY <2>1, ConstantsAre, InvFacts
  <2>3. n.parts[1] \in Kids(i) /\ (n.class = "conditional" => n.parts[2] \in Kids(i))
    BY <1>3, <2>1, KidsAre
  <2>4. f[n.parts[1]] = g[n.parts[1]] /\ (n.class = "conditional" => f[n.parts[2]] = g[n.parts[2]])
    BY <2>2, <2>3
  <2>5. n.class \in {"aref", "dereference", "member", "ptrmember", "call", "unary", "assign", "conditional",
                     "binary", "address"}
    BY <1>3 DEF Operators, Places
  <2>6. CTypeFrom(f, n) = CTypeFrom(g, n)
    <3> HIDE DEF n
    <3>1. QED  BY <2>4, <2>5, CTypeFromIs
  <2>7. QED  BY <2>6
<1>4. QED  BY <1>1, <1>2, <1>3

\* The numbers up to which the functions that recurse over operands are known.
LEMMA ByRank ==
    ASSUME Inv, NEW M \in Nat, NEW rank, Ranks(heap, M, rank), TreeInv,
           NEW S, 0 \in S, \A n \in 0 .. M : n \in S => n + 1 \in S
    PROVE  M + 1 \in S
<1>1. 0 .. M + 1 \subseteq S
  <2>1. 0 \in Int /\ M + 1 \in Int /\ \A k \in 0 .. (M + 1) - 1 : k \in S => k + 1 \in S
    <3>1. \A k \in 0 .. (M + 1) - 1 : k \in 0 .. M
      OBVIOUS
    <3>2. QED  BY <3>1
  <2> HIDE DEF Ranks
  <2>2. QED  BY <2>1, InductUpTo
<1>2. QED  BY <1>1

\* What the operands of a node are, is of a lower rank.
LEMMA KidsBelow ==
    ASSUME Inv, TreeInv, NEW M \in Nat, NEW rank, Ranks(heap, M, rank), NEW i \in FirstNode + 1 .. Len(heap),
           NEW j \in Kids(i)
    PROVE  rank[j] \in 0 .. M /\ rank[i] \in 0 .. M /\ rank[j] < rank[i]
<1>1. PICK k \in 1 .. Len(heap[i].parts) : j = heap[i].parts[k] /\ j \notin 0 .. FirstNode
  BY KidsAre
<1>2. j \in FirstNode + 1 .. Len(heap)
  BY KidsAre
<1>3. j > FirstNode /\ j \in 1 .. Len(heap) /\ i \in 1 .. Len(heap)
  BY <1>2, ConstantsAre, InvFacts
<1>4. QED  BY <1>1, <1>3 DEF Ranks

\* type() and orig_type() of a node are what their definition makes of the operands.
LEMMA TypeOfIs ==
    ASSUME Inv, TreeInv
    PROVE  \A i \in 1 .. Len(heap) : TypeOf[i] = TypesFrom(TypeOf, heap[i])
<1> DEFINE N == Len(heap)
           Rec(f) == f = [i \in DOMAIN heap |-> TypesFrom(f, heap[i])]
<1>1. N \in Nat /\ DOMAIN heap = 1 .. N /\ FirstNode \in Nat
  BY InvFacts, ConstantsAre
<1>0. PICK M \in Nat : \E rank : Ranks(heap, M, rank)
  BY DEF TreeInv, Ranked
<1>2. PICK rank : Ranks(heap, M, rank)
  BY <1>0
<1> DEFINE Good(f, n) == \A i \in 1 .. N : rank[i] < n => f[i] = TypesFrom(f, heap[i])
           S == {n \in Nat : \E f : Good(f, n)}
<1>3. \A i \in 1 .. N : rank[i] \in 0 .. M
  BY <1>2 DEF Ranks
<1>4. 0 \in S
  <2>1. \A i \in 1 .. N : ~(rank[i] < 0)
    BY <1>3
  <2>2. QED  BY <2>1
<1>5. ASSUME NEW n \in 0 .. M, n \in S PROVE n + 1 \in S
  <2>1. PICK f : Good(f, n)
    BY <1>5
  <2> DEFINE g == [i \in 1 .. N |-> TypesFrom(f, heap[i])]
  <2>2. ASSUME NEW i \in 1 .. N, rank[i] < n + 1 PROVE g[i] = TypesFrom(g, heap[i])
    <3>1. ASSUME NEW j \in Kids(i), i > FirstNode PROVE f[j] = g[j]
      <4>1. i \in FirstNode + 1 .. Len(heap)
        BY <1>1, <3>1
      <4>2. j \in 1 .. N
        BY <1>1, <3>1, <4>1, KidsAre
      <4>3. rank[j] < rank[i] /\ rank[j] \in 0 .. M /\ rank[i] \in 0 .. M
        BY <1>2, <3>1, <4>1, KidsBelow
      <4>4. rank[j] < n
        BY <2>2, <4>3
      <4>5. QED  BY <2>1, <4>2, <4>4
    <3> HIDE DEF N
    <3>2. g[i] = TypesFrom(f, heap[i])
      OBVIOUS
    <3> HIDE DEF g
    <3>3. TypesFrom(f, heap[i]) = TypesFrom(g, heap[i])
      BY <3>1, OrigLooks DEF N
    <3>4. QED  BY <3>2, <3>3
  <2> HIDE DEF g
  <2>3. Good(g, n + 1)
    BY <2>2
  <2>4. QED  BY <2>3
<1>6. M + 1 \in S
  <2> HIDE DEF S
  <2>1. QED  BY <1>2, <1>4, <1>5, ByRank
<1>7. PICK f : Good(f, M + 1)
  BY <1>6
<1>8. Rec([i \in DOMAIN heap |-> f[i]])
  <2> DEFINE g == [i \in DOMAIN heap |-> f[i]]
  <2>1. ASSUME NEW i \in 1 .. N PROVE f[i] = TypesFrom(g, heap[i])
    <3>1. rank[i] < M + 1
      BY <1>3
    <3>2. f[i] = TypesFrom(f, heap[i])
      BY <1>7, <3>1
    <3>3. ASSUME NEW j \in Kids(i), i > FirstNode PROVE f[j] = g[j]
      <4>1. i \in FirstNode + 1 .. Len(heap)
        BY <1>1, <3>3
      <4>2. j \in 1 .. N
        BY <1>1, <3>3, <4>1, KidsAre
      <4>3. QED  BY <1>1, <4>2
    <3> HIDE DEF g
    <3>4. TypesFrom(f, heap[i]) = TypesFrom(g, heap[i])
      BY <3>3, OrigLooks
    <3>5. QED  BY <3>2, <3>4
  <2>2. QED  BY <1>1, <2>1
<1>9. \E f2 : Rec(f2)
  <2> HIDE DEF Rec
  <2>1. QED  BY <1>8
<1> DEFINE types == CHOOSE f2 : Rec(f2)
<1>10. TypeOf = types
  BY DEF TypeOf
<1>11. Rec(types)
  <2> HIDE DEF Rec
  <2>1. QED  BY <1>9, Zenon
<1> HIDE DEF types
<1>12. QED  BY <1>1, <1>10, <1>11

\* What these functions make of a node depends on its operands only.
LEMMA UnderLooks ==
    ASSUME Inv, TreeInv, NEW i \in 1 .. Len(heap), NEW f, NEW g,
           i > FirstNode => \A j \in Kids(i) : f[j] = g[j]
    PROVE  UnderFrom(f, i) = UnderFrom(g, i)
<1>1. CASE i > FirstNode
  <2>1. \A j \in ToSet(heap[i].parts) \ (0 .. FirstNode) : f[j] = g[j]
    BY <1>1 DEF Kids
  <2>2. {f[j] : j \in ToSet(heap[i].parts) \ (0 .. FirstNode)} = {g[j] : j \in ToSet(heap[i].parts) \ (0 .. FirstNode)}
    BY <2>1
  <2>3. QED  BY <2>2 DEF UnderFrom
<1>2. CASE ~(i > FirstNode)
  <2>1. i \in 1 .. FirstNode
    BY <1>2, ConstantsAre, InvFacts
  <2>2. heap[i].parts = <<>>
    BY <2>1 DEF TreeInv, Tree
  <2>3. ToSet(heap[i].parts) = {}
    BY <2>2 DEF ToSet
  <2>4. QED  BY <2>3 DEF UnderFrom
<1>3. QED  BY <1>1, <1>2

\* An element is taken of its first operand.
LEMMA ElementIs ==
    ASSUME Inv, TreeInv, NEW i \in Elements
    PROVE  /\ i \in FirstNode + 1 .. Len(heap) /\ i \in 1 .. Len(heap) /\ i > FirstNode
           /\ heap[i].class = "aref" /\ heap[i].parts[1] \in Kids(i)
<1>1. i \in 1 .. Len(heap) /\ heap[i].class = "aref"
  BY InvFacts DEF Elements
<1>2. ~(i \in 1 .. FirstNode)
  BY <1>1 DEF TreeInv, Tree
<1>3. i \in FirstNode + 1 .. Len(heap) /\ i > FirstNode
  BY <1>1, <1>2, ConstantsAre, InvFacts
<1>4. heap[i].parts[1] \in Kids(i)
  BY <1>1, <1>3, KidsAre DEF Operators, Places
<1>5. QED  BY <1>1, <1>3, <1>4

\* The same of what it is taken of, and of its base.
LEMMA IndexedLooks ==
    ASSUME Inv, TreeInv, NEW i \in Elements, NEW f, NEW g,
           \A j \in Kids(i) \cap Elements : f[j] = g[j]
    PROVE  IndexedFrom(f, i) = IndexedFrom(g, i)
<1>1. heap[i].parts[1] \in Kids(i)
  BY ElementIs
<1>2. heap[i].parts[1] \in Elements => f[heap[i].parts[1]] = g[heap[i].parts[1]]
  BY <1>1
<1>3. QED  BY <1>2 DEF IndexedFrom

\* Two choices of the bases that agree on the operand agree on the element.
LEMMA BaseLooks ==
    ASSUME Inv, TreeInv, NEW i \in Elements, NEW f, NEW g,
           \A j \in Kids(i) \cap Elements : f[j] = g[j]
    PROVE  BaseFrom(f, i) = BaseFrom(g, i)
<1>1. heap[i].parts[1] \in Kids(i)
  BY ElementIs
<1>2. heap[i].parts[1] \in Elements => f[heap[i].parts[1]] = g[heap[i].parts[1]]
  BY <1>1
<1>3. heap[i].parts[1] \in Kids(i) /\ heap[i].parts[1] \in FirstNode + 1 .. Len(heap)
  BY <1>1, ElementIs, KidsAre
<1>4. heap[i].parts[1] \in DOMAIN heap
  BY <1>3, ConstantsAre, InvFacts
<1>5. IsMultiDimension(i) => heap[i].parts[1] \in Elements
  BY <1>4 DEF IsMultiDimension, Elements
<1>6. QED  BY <1>2, <1>5 DEF BaseFrom

\* The type that C gives a node is what its definition makes of the operands.
LEMMA CTypeIs ==
    ASSUME Inv, TreeInv
    PROVE  \A i \in 1 .. Len(heap) : CType[i] = CTypeFrom(CType, heap[i])
<1> DEFINE N == Len(heap)
           Rec(f) == f = [i \in DOMAIN heap |-> CTypeFrom(f, heap[i])]
<1>1. N \in Nat /\ DOMAIN heap = 1 .. N /\ FirstNode \in Nat
  BY InvFacts, ConstantsAre
<1>0. PICK M \in Nat : \E rank : Ranks(heap, M, rank)
  BY DEF TreeInv, Ranked
<1>2. PICK rank : Ranks(heap, M, rank)
  BY <1>0
<1> DEFINE Good(f, n) == \A i \in 1 .. Len(heap) : rank[i] < n => f[i] = CTypeFrom(f, heap[i])
           S == {n \in Nat : \E f : Good(f, n)}
<1>3. \A i \in 1 .. Len(heap) : i \in 1 .. N /\ rank[i] \in 0 .. M
  BY <1>1, <1>2 DEF Ranks
<1>4. 0 \in S
  <2>1. \A i \in 1 .. Len(heap) : ~(rank[i] < 0)
    BY <1>3
  <2>2. QED  BY <2>1
<1>5. ASSUME NEW n \in 0 .. M, n \in S PROVE n + 1 \in S
  <2>1. PICK f : Good(f, n)
    BY <1>5
  <2> DEFINE g == [i \in 1 .. Len(heap) |-> CTypeFrom(f, heap[i])]
  <2>2. ASSUME NEW i \in 1 .. Len(heap), rank[i] < n + 1 PROVE g[i] = CTypeFrom(g, heap[i])
    <3>1. ASSUME NEW j \in Kids(i), i > FirstNode PROVE f[j] = g[j]
      <4>1. i \in FirstNode + 1 .. Len(heap)
        BY <1>1, <1>3, <3>1
      <4>2. j \in 1 .. Len(heap)
        BY <1>1, <3>1, <4>1, KidsAre
      <4>3. rank[j] < rank[i] /\ rank[j] \in 0 .. M /\ rank[i] \in 0 .. M
        BY <1>2, <3>1, <4>1, KidsBelow
      <4>4. rank[j] < n
        BY <2>2, <4>3
      <4>5. QED  BY <2>1, <4>2, <4>4
    <3>2. i > FirstNode => \A j \in Kids(i) : f[j] = g[j]
      BY <3>1
    <3> HIDE DEF N
    <3>3. g[i] = CTypeFrom(f, heap[i])
      OBVIOUS
    <3> HIDE DEF g
    <3>4. CTypeFrom(f, heap[i]) = CTypeFrom(g, heap[i])
      BY <3>2, CTypeLooks DEF N
    <3>5. QED  BY <3>3, <3>4
  <2> HIDE DEF g
  <2>3. Good(g, n + 1)
    BY <2>2
  <2>4. QED  BY <2>3
<1>6. M + 1 \in S
  <2> HIDE DEF S
  <2>1. QED  BY <1>2, <1>4, <1>5, ByRank
<1>7. PICK f : Good(f, M + 1)
  BY <1>6
<1>8. Rec([i \in DOMAIN heap |-> f[i]])
  <2> DEFINE g == [i \in DOMAIN heap |-> f[i]]
  <2>1. ASSUME NEW i \in 1 .. Len(heap) PROVE f[i] = CTypeFrom(g, heap[i])
    <3>1. rank[i] < M + 1
      BY <1>3
    <3>2. f[i] = CTypeFrom(f, heap[i])
      BY <1>7, <3>1
    <3>3. ASSUME NEW j \in Kids(i), i > FirstNode PROVE f[j] = g[j]
      <4>1. i \in FirstNode + 1 .. Len(heap)
        BY <1>1, <1>3, <3>3
      <4>2. j \in 1 .. Len(heap)
        BY <1>1, <3>3, <4>1, KidsAre
      <4>3. QED  BY <1>1, <4>2
    <3>4. i > FirstNode => \A j \in Kids(i) : f[j] = g[j]
      BY <3>3
    <3> HIDE DEF g
    <3>5. CTypeFrom(f, heap[i]) = CTypeFrom(g, heap[i])
      BY <3>4, CTypeLooks
    <3>6. QED  BY <3>2, <3>5
  <2>2. QED  BY <1>1, <2>1
<1>9. \E f2 : Rec(f2)
  <2> HIDE DEF Rec
  <2>1. QED  BY <1>8
<1> DEFINE chosen == CHOOSE f2 : Rec(f2)
<1>10. CType = chosen
  BY DEF CType
<1>11. Rec(chosen)
  <2> HIDE DEF Rec
  <2>1. QED  BY <1>9, Zenon
<1> HIDE DEF chosen
<1>12. QED  BY <1>1, <1>10, <1>11

\* What a node is made of, too.
LEMMA UnderIs ==
    ASSUME Inv, TreeInv
    PROVE  \A i \in 1 .. Len(heap) : Under[i] = UnderFrom(Under, i)
<1> DEFINE N == Len(heap)
           Rec(f) == f = [i \in DOMAIN heap |-> UnderFrom(f, i)]
<1>1. N \in Nat /\ DOMAIN heap = 1 .. N /\ FirstNode \in Nat
  BY InvFacts, ConstantsAre
<1>0. PICK M \in Nat : \E rank : Ranks(heap, M, rank)
  BY DEF TreeInv, Ranked
<1>2. PICK rank : Ranks(heap, M, rank)
  BY <1>0
<1> DEFINE Good(f, n) == \A i \in 1 .. Len(heap) : rank[i] < n => f[i] = UnderFrom(f, i)
           S == {n \in Nat : \E f : Good(f, n)}
<1>3. \A i \in 1 .. Len(heap) : i \in 1 .. N /\ rank[i] \in 0 .. M
  BY <1>1, <1>2 DEF Ranks
<1>4. 0 \in S
  <2>1. \A i \in 1 .. Len(heap) : ~(rank[i] < 0)
    BY <1>3
  <2>2. QED  BY <2>1
<1>5. ASSUME NEW n \in 0 .. M, n \in S PROVE n + 1 \in S
  <2>1. PICK f : Good(f, n)
    BY <1>5
  <2> DEFINE g == [i \in 1 .. Len(heap) |-> UnderFrom(f, i)]
  <2>2. ASSUME NEW i \in 1 .. Len(heap), rank[i] < n + 1 PROVE g[i] = UnderFrom(g, i)
    <3>1. ASSUME NEW j \in Kids(i), i > FirstNode PROVE f[j] = g[j]
      <4>1. i \in FirstNode + 1 .. Len(heap)
        BY <1>1, <1>3, <3>1
      <4>2. j \in 1 .. Len(heap)
        BY <1>1, <3>1, <4>1, KidsAre
      <4>3. rank[j] < rank[i] /\ rank[j] \in 0 .. M /\ rank[i] \in 0 .. M
        BY <1>2, <3>1, <4>1, KidsBelow
      <4>4. rank[j] < n
        BY <2>2, <4>3
      <4>5. QED  BY <2>1, <4>2, <4>4
    <3>2. i > FirstNode => \A j \in Kids(i) : f[j] = g[j]
      BY <3>1
    <3> HIDE DEF N
    <3>3. g[i] = UnderFrom(f, i)
      OBVIOUS
    <3> HIDE DEF g
    <3>4. UnderFrom(f, i) = UnderFrom(g, i)
      BY <3>2, UnderLooks DEF N
    <3>5. QED  BY <3>3, <3>4
  <2> HIDE DEF g
  <2>3. Good(g, n + 1)
    BY <2>2
  <2>4. QED  BY <2>3
<1>6. M + 1 \in S
  <2> HIDE DEF S
  <2>1. QED  BY <1>2, <1>4, <1>5, ByRank
<1>7. PICK f : Good(f, M + 1)
  BY <1>6
<1>8. Rec([i \in DOMAIN heap |-> f[i]])
  <2> DEFINE g == [i \in DOMAIN heap |-> f[i]]
  <2>1. ASSUME NEW i \in 1 .. Len(heap) PROVE f[i] = UnderFrom(g, i)
    <3>1. rank[i] < M + 1
      BY <1>3
    <3>2. f[i] = UnderFrom(f, i)
      BY <1>7, <3>1
    <3>3. ASSUME NEW j \in Kids(i), i > FirstNode PROVE f[j] = g[j]
      <4>1. i \in FirstNode + 1 .. Len(heap)
        BY <1>1, <1>3, <3>3
      <4>2. j \in 1 .. Len(heap)
        BY <1>1, <3>3, <4>1, KidsAre
      <4>3. QED  BY <1>1, <4>2
    <3>4. i > FirstNode => \A j \in Kids(i) : f[j] = g[j]
      BY <3>3
    <3> HIDE DEF g
    <3>5. UnderFrom(f, i) = UnderFrom(g, i)
      BY <3>4, UnderLooks
    <3>6. QED  BY <3>2, <3>5
  <2>2. QED  BY <1>1, <2>1
<1>9. \E f2 : Rec(f2)
  <2> HIDE DEF Rec
  <2>1. QED  BY <1>8
<1> DEFINE chosen == CHOOSE f2 : Rec(f2)
<1>10. Under = chosen
  BY DEF Under
<1>11. Rec(chosen)
  <2> HIDE DEF Rec
  <2>1. QED  BY <1>9, Zenon
<1> HIDE DEF chosen
<1>12. QED  BY <1>1, <1>10, <1>11

\* And what an element is taken of.
LEMMA IndexedIs ==
    ASSUME Inv, TreeInv
    PROVE  \A i \in Elements : Indexed[i] = IndexedFrom(Indexed, i)
<1> DEFINE N == Len(heap)
           Rec(f) == f = [i \in Elements |-> IndexedFrom(f, i)]
<1>1. N \in Nat /\ DOMAIN heap = 1 .. N /\ FirstNode \in Nat
  BY InvFacts, ConstantsAre
<1>0. PICK M \in Nat : \E rank : Ranks(heap, M, rank)
  BY DEF TreeInv, Ranked
<1>2. PICK rank : Ranks(heap, M, rank)
  BY <1>0
<1> DEFINE Good(f, n) == \A i \in Elements : rank[i] < n => f[i] = IndexedFrom(f, i)
           S == {n \in Nat : \E f : Good(f, n)}
<1>3. \A i \in Elements : i \in 1 .. N /\ rank[i] \in 0 .. M
  BY <1>1, <1>2 DEF Ranks, Elements
<1>4. 0 \in S
  <2>1. \A i \in Elements : ~(rank[i] < 0)
    BY <1>3
  <2>2. QED  BY <2>1
<1>5. ASSUME NEW n \in 0 .. M, n \in S PROVE n + 1 \in S
  <2>1. PICK f : Good(f, n)
    BY <1>5
  <2> DEFINE g == [i \in Elements |-> IndexedFrom(f, i)]
  <2>2. ASSUME NEW i \in Elements, rank[i] < n + 1 PROVE g[i] = IndexedFrom(g, i)
    <3>1. ASSUME NEW j \in Kids(i) \cap Elements, i > FirstNode PROVE f[j] = g[j]
      <4>1. i \in FirstNode + 1 .. Len(heap)
        BY <1>1, <1>3, <3>1
      <4>2. j \in Elements
        BY <1>1, <3>1, <4>1, KidsAre
      <4>3. rank[j] < rank[i] /\ rank[j] \in 0 .. M /\ rank[i] \in 0 .. M
        BY <1>2, <3>1, <4>1, KidsBelow
      <4>4. rank[j] < n
        BY <2>2, <4>3
      <4>5. QED  BY <2>1, <4>2, <4>4
    <3>2. i > FirstNode => \A j \in Kids(i) \cap Elements : f[j] = g[j]
      BY <3>1
    <3> HIDE DEF N
    <3>3. g[i] = IndexedFrom(f, i)
      OBVIOUS
    <3> HIDE DEF g
    <3>4. IndexedFrom(f, i) = IndexedFrom(g, i)
      BY <3>2, IndexedLooks, ElementIs DEF N
    <3>5. QED  BY <3>3, <3>4
  <2> HIDE DEF g
  <2>3. Good(g, n + 1)
    BY <2>2
  <2>4. QED  BY <2>3
<1>6. M + 1 \in S
  <2> HIDE DEF S
  <2>1. QED  BY <1>2, <1>4, <1>5, ByRank
<1>7. PICK f : Good(f, M + 1)
  BY <1>6
<1>8. Rec([i \in Elements |-> f[i]])
  <2> DEFINE g == [i \in Elements |-> f[i]]
  <2>1. ASSUME NEW i \in Elements PROVE f[i] = IndexedFrom(g, i)
    <3>1. rank[i] < M + 1
      BY <1>3
    <3>2. f[i] = IndexedFrom(f, i)
      BY <1>7, <3>1
    <3>3. ASSUME NEW j \in Kids(i) \cap Elements, i > FirstNode PROVE f[j] = g[j]
      <4>1. i \in FirstNode + 1 .. Len(heap)
        BY <1>1, <1>3, <3>3
      <4>2. j \in Elements
        BY <1>1, <3>3, <4>1, KidsAre
      <4>3. QED  BY <1>1, <4>2
    <3>4. i > FirstNode => \A j \in Kids(i) \cap Elements : f[j] = g[j]
      BY <3>3
    <3> HIDE DEF g
    <3>5. IndexedFrom(f, i) = IndexedFrom(g, i)
      BY <3>4, IndexedLooks, ElementIs
    <3>6. QED  BY <3>2, <3>5
  <2>2. QED  BY <1>1, <2>1
<1>9. \E f2 : Rec(f2)
  <2> HIDE DEF Rec
  <2>1. QED  BY <1>8
<1> DEFINE chosen == CHOOSE f2 : Rec(f2)
<1>10. Indexed = chosen
  BY DEF Indexed
<1>11. Rec(chosen)
  <2> HIDE DEF Rec
  <2>1. QED  BY <1>9, Zenon
<1> HIDE DEF chosen
<1>12. QED  BY <1>1, <1>10, <1>11

\* And the base of an element.
LEMMA BaseIs ==
    ASSUME Inv, TreeInv
    PROVE  \A i \in Elements : BaseOfElement[i] = BaseFrom(BaseOfElement, i)
<1> DEFINE N == Len(heap)
           Rec(f) == f = [i \in Elements |-> BaseFrom(f, i)]
<1>1. N \in Nat /\ DOMAIN heap = 1 .. N /\ FirstNode \in Nat
  BY InvFacts, ConstantsAre
<1>0. PICK M \in Nat : \E rank : Ranks(heap, M, rank)
  BY DEF TreeInv, Ranked
<1>2. PICK rank : Ranks(heap, M, rank)
  BY <1>0
<1> DEFINE Good(f, n) == \A i \in Elements : rank[i] < n => f[i] = BaseFrom(f, i)
           S == {n \in Nat : \E f : Good(f, n)}
<1>3. \A i \in Elements : i \in 1 .. N /\ rank[i] \in 0 .. M
  BY <1>1, <1>2 DEF Ranks, Elements
<1>4. 0 \in S
  <2>1. \A i \in Elements : ~(rank[i] < 0)
    BY <1>3
  <2>2. QED  BY <2>1
<1>5. ASSUME NEW n \in 0 .. M, n \in S PROVE n + 1 \in S
  <2>1. PICK f : Good(f, n)
    BY <1>5
  <2> DEFINE g == [i \in Elements |-> BaseFrom(f, i)]
  <2>2. ASSUME NEW i \in Elements, rank[i] < n + 1 PROVE g[i] = BaseFrom(g, i)
    <3>1. ASSUME NEW j \in Kids(i) \cap Elements, i > FirstNode PROVE f[j] = g[j]
      <4>1. i \in FirstNode + 1 .. Len(heap)
        BY <1>1, <1>3, <3>1
      <4>2. j \in Elements
        BY <1>1, <3>1, <4>1, KidsAre
      <4>3. rank[j] < rank[i] /\ rank[j] \in 0 .. M /\ rank[i] \in 0 .. M
        BY <1>2, <3>1, <4>1, KidsBelow
      <4>4. rank[j] < n
        BY <2>2, <4>3
      <4>5. QED  BY <2>1, <4>2, <4>4
    <3>2. i > FirstNode => \A j \in Kids(i) \cap Elements : f[j] = g[j]
      BY <3>1
    <3> HIDE DEF N
    <3>3. g[i] = BaseFrom(f, i)
      OBVIOUS
    <3> HIDE DEF g
    <3>4. BaseFrom(f, i) = BaseFrom(g, i)
      BY <3>2, BaseLooks, ElementIs DEF N
    <3>5. QED  BY <3>3, <3>4
  <2> HIDE DEF g
  <2>3. Good(g, n + 1)
    BY <2>2
  <2>4. QED  BY <2>3
<1>6. M + 1 \in S
  <2> HIDE DEF S
  <2>1. QED  BY <1>2, <1>4, <1>5, ByRank
<1>7. PICK f : Good(f, M + 1)
  BY <1>6
<1>8. Rec([i \in Elements |-> f[i]])
  <2> DEFINE g == [i \in Elements |-> f[i]]
  <2>1. ASSUME NEW i \in Elements PROVE f[i] = BaseFrom(g, i)
    <3>1. rank[i] < M + 1
      BY <1>3
    <3>2. f[i] = BaseFrom(f, i)
      BY <1>7, <3>1
    <3>3. ASSUME NEW j \in Kids(i) \cap Elements, i > FirstNode PROVE f[j] = g[j]
      <4>1. i \in FirstNode + 1 .. Len(heap)
        BY <1>1, <1>3, <3>3
      <4>2. j \in Elements
        BY <1>1, <3>3, <4>1, KidsAre
      <4>3. QED  BY <1>1, <4>2
    <3>4. i > FirstNode => \A j \in Kids(i) \cap Elements : f[j] = g[j]
      BY <3>3
    <3> HIDE DEF g
    <3>5. BaseFrom(f, i) = BaseFrom(g, i)
      BY <3>4, BaseLooks, ElementIs
    <3>6. QED  BY <3>2, <3>5
  <2>2. QED  BY <1>1, <2>1
<1>9. \E f2 : Rec(f2)
  <2> HIDE DEF Rec
  <2>1. QED  BY <1>8
<1> DEFINE chosen == CHOOSE f2 : Rec(f2)
<1>10. BaseOfElement = chosen
  BY DEF BaseOfElement
<1>11. Rec(chosen)
  <2> HIDE DEF Rec
  <2>1. QED  BY <1>9, Zenon
<1> HIDE DEF chosen
<1>12. QED  BY <1>1, <1>10, <1>11

\* The queries that failed.
Failures == {Throws, Undefined}

\* The type of the address of what is not a value of its own.
Decays(r) == Real(r)[1] \in {"arr", "fun"}
Decayed(r) == IF Real(r)[1] = "arr" THEN PointerTo(Real(r)[2])
              ELSE IF Real(r)[1] = "fun" THEN PointerTo(r) ELSE r

\* What the types of the operands may be.
Likes(t, c) == t \in {c, Decayed(c)} \cup Failures

\* Aliases stand for types that are no aliases.
LEMMA RealIs ==
    ASSUME NEW r
    PROVE  /\ r[1] # "user" => Real(r) = r /\ r \notin DOMAIN Alias
           /\ r \notin DOMAIN Alias => Real(r) = r
           /\ Real(Throws) = Throws /\ Real(Undefined) = Undefined
           /\ Real(PointerTo(r)) = PointerTo(r) /\ PointerTo(r)[1] = "ptr" /\ PointerTo(r)[2] = r
           /\ PointerTo(r) # Throws /\ PointerTo(r) # Undefined /\ PointerTo(r) # <<>>
           /\ Throws[1] = "throws" /\ Undefined[1] = "undefined" /\ Throws # Undefined
<1>1. \A x \in DOMAIN Alias : x[1] = "user"
  BY TypeAssumption
<1>2. \A x : x[1] # "user" => x \notin DOMAIN Alias
  BY <1>1
<1>3. Throws[1] = "throws" /\ Undefined[1] = "undefined"
  BY DEF Throws, Undefined
<1>4. PointerTo(r)[1] = "ptr" /\ PointerTo(r)[2] = r
  BY DEF PointerTo
<1>5. PointerTo(r) # <<>>
  BY DEF PointerTo
<1>6. Throws # Undefined /\ PointerTo(r) # Throws /\ PointerTo(r) # Undefined
  BY <1>3, <1>4
<1>7. QED  BY <1>2, <1>3, <1>4, <1>5, <1>6 DEF Real

\* A query of a type that fails is a query that failed.
LEMMA FailedIs ==
    ASSUME NEW r
    PROVE  /\ Failed(r) \in Failures
           /\ r \in Failures => Failed(r) = r
           /\ r \notin Failures => Failed(r) = Throws
BY DEF Failed, Failures

\* The base of what an operand has.
LEMMA BaseOfIs ==
    ASSUME NEW t, NEW c, Likes(t, c)
    PROVE  /\ BaseOf(t) \in {Element(c)} \cup Failures
           /\ Real(c)[1] # "fun" => BaseOf(t) \in {BaseOf(c)} \cup Failures
           /\ BaseOf(Decayed(c)) = Element(c)
           /\ Real(c)[1] # "fun" => BaseOf(Decayed(c)) = BaseOf(c)
<1>1. BaseOf(Decayed(c)) = Element(c)
  <2>1. CASE Real(c)[1] = "arr"
    <3>1. Decayed(c) = PointerTo(Real(c)[2])
      BY <2>1 DEF Decayed
    <3>2. BaseOf(Decayed(c)) = Real(c)[2]
      BY <3>1, RealIs DEF BaseOf
    <3>3. Element(c) = Real(c)[2]
      BY <2>1 DEF Element, BaseOf
    <3>4. QED  BY <3>2, <3>3
  <2>2. CASE Real(c)[1] = "fun"
    <3>1. Decayed(c) = PointerTo(c)
      BY <2>2 DEF Decayed
    <3>2. BaseOf(Decayed(c)) = c
      BY <3>1, RealIs DEF BaseOf
    <3>3. Element(c) = c
      BY <2>2 DEF Element
    <3>4. QED  BY <3>2, <3>3
  <2>3. CASE Real(c)[1] \notin {"arr", "fun"}
    BY <2>3 DEF Decayed, Element
  <2>4. QED  BY <2>1, <2>2, <2>3
<1>2. Real(c)[1] # "fun" => Element(c) = BaseOf(c)
  BY DEF Element
<1>3. BaseOf(c) \in {Element(c)} \cup Failures
  BY <1>2, FailedIs DEF BaseOf, Element
<1>4. \A x \in Failures : BaseOf(x) \in Failures
  BY RealIs, FailedIs DEF BaseOf, Failures
<1>5. QED  BY <1>1, <1>2, <1>3, <1>4 DEF Likes

\* The member of what an operand has.
LEMMA MemberOfIs ==
    ASSUME NEW t, NEW c, NEW name
    PROVE  /\ Likes(t, c) => MemberOf(t, name) \in {Field(c, name)} \cup Failures
           /\ t \in Failures => MemberOf(t, name) \in Failures
           /\ MemberOf(c, name) \in {Field(c, name)} \cup Failures
           /\ c \notin DOMAIN Alias => MemberOf(c, name) = Field(c, name) /\ MemberOf(Decayed(c), name) = Field(c, name)
<1>1. t \in Failures => MemberOf(t, name) \in Failures
  BY RealIs, FailedIs DEF MemberOf, Failures
<1>2. c \notin DOMAIN Alias => MemberOf(c, name) = Field(c, name)
  BY RealIs DEF MemberOf, Field
<1>3. MemberOf(c, name) \in {Field(c, name)} \cup Failures
  <2>1. CASE c[1] = "struct"
    <3>1. c \notin DOMAIN Alias
      BY <2>1, RealIs
    <3>2. QED  BY <1>2, <3>1
  <2>2. CASE c[1] # "struct"
    BY <2>2, FailedIs DEF MemberOf
  <2>3. QED  BY <2>1, <2>2
<1>4. Decayed(c) # c => \E r : Decayed(c) = PointerTo(r)
  BY DEF Decayed
<1>5. Decayed(c) # c => MemberOf(Decayed(c), name) \in Failures
  <2> SUFFICES ASSUME Decayed(c) # c PROVE MemberOf(Decayed(c), name) \in Failures
    OBVIOUS
  <2>1. PICK r : Decayed(c) = PointerTo(r)
    BY <1>4
  <2>2. Decayed(c)[1] # "struct"
    BY <2>1, RealIs
  <2>3. QED  BY <2>2, FailedIs DEF MemberOf
<1>6. c \notin DOMAIN Alias => MemberOf(Decayed(c), name) = Field(c, name)
  <2> SUFFICES ASSUME c \notin DOMAIN Alias, Decayed(c) # c PROVE MemberOf(Decayed(c), name) = Field(c, name)
    BY <1>2
  <2>1. PICK r : Decayed(c) = PointerTo(r)
    BY <1>4
  <2>2. Decayed(c)[1] # "struct" /\ Decayed(c) \notin Failures
    BY <2>1, RealIs DEF Failures
  <2>3. MemberOf(Decayed(c), name) = Throws
    BY <2>2, FailedIs DEF MemberOf
  <2>4. Real(c) = c /\ c[1] \in {"arr", "fun"}
    BY RealIs DEF Decayed
  <2>5. c \notin Failures
    BY <2>4, RealIs DEF Failures
  <2>6. Field(c, name) = Throws
    BY <2>4, <2>5, FailedIs DEF Field
  <2>7. QED  BY <2>3, <2>6
<1>7. QED  BY <1>1, <1>2, <1>3, <1>5, <1>6 DEF Likes

\* What an operand points at.
LEMMA PointedByIs ==
    ASSUME NEW t, NEW c
    PROVE  /\ Likes(t, c) => PointedBy(t) \in {Element(c)} \cup Failures
           /\ c \notin DOMAIN Alias => PointedBy(Decayed(c)) = Element(c)
<1>1. \A x : x[1] = "ptr" => Real(x) = x /\ PointedBy(x) = BaseOf(x)
  BY RealIs DEF PointedBy, BaseOf
<1>2. PointedBy(c) \in {Element(c)} \cup Failures
  <2>1. CASE c[1] = "ptr"
    <3>1. Real(c)[1] # "fun" /\ PointedBy(c) = BaseOf(c)
      BY <1>1, <2>1
    <3>2. QED  BY <3>1 DEF Element
  <2>2. CASE c[1] # "ptr"
    BY <2>2, FailedIs DEF PointedBy
  <2>3. QED  BY <2>1, <2>2
<1>3. Decayed(c) # c => Decayed(c)[1] = "ptr"
  BY RealIs DEF Decayed
<1>4. BaseOf(Decayed(c)) = Element(c)
  BY BaseOfIs DEF Likes
<1>5. Decayed(c) # c => PointedBy(Decayed(c)) = Element(c)
  BY <1>1, <1>3, <1>4
<1>6. t \in Failures => PointedBy(t) \in Failures
  BY RealIs, FailedIs DEF PointedBy, Failures
<1>7. c \notin DOMAIN Alias /\ Decayed(c) = c => PointedBy(Decayed(c)) = Element(c)
  <2> SUFFICES ASSUME c \notin DOMAIN Alias, Decayed(c) = c PROVE PointedBy(c) = Element(c)
    OBVIOUS
  <2>1. Real(c) = c
    BY RealIs
  <2>2. c[1] # "arr" /\ c[1] # "fun"
    <3>1. c[1] = "arr" => Decayed(c) = PointerTo(c[2])
      BY <2>1 DEF Decayed
    <3>2. c[1] = "fun" => Decayed(c) = PointerTo(c)
      BY <2>1 DEF Decayed
    <3>3. QED  BY <3>1, <3>2, RealIs
  <2>3. QED  BY <2>1, <2>2 DEF PointedBy, Element, BaseOf
<1>8. QED  BY <1>2, <1>5, <1>6, <1>7 DEF Likes

\* What a function returns.
LEMMA ResultOfIs ==
    ASSUME NEW t, NEW e, t \in {e} \cup Failures
    PROVE  /\ ResultOf(t) \in {Result(e)} \cup Failures
           /\ e \notin DOMAIN Alias => ResultOf(e) = Result(e)
<1>1. \A x \in Failures : ResultOf(x) \in Failures
  BY RealIs, FailedIs DEF ResultOf, Failures
<1>2. e \notin DOMAIN Alias => ResultOf(e) = Result(e)
  BY RealIs DEF ResultOf, Result
<1>3. ResultOf(e) \in {Result(e)} \cup Failures
  <2>1. CASE e[1] = "fun"
    <3>1. e \notin DOMAIN Alias
      BY <2>1, RealIs
    <3>2. QED  BY <1>2, <3>1
  <2>2. CASE e[1] # "fun"
    BY <2>2, FailedIs DEF ResultOf
  <2>3. QED  BY <2>1, <2>2
<1>4. QED  BY <1>1, <1>2, <1>3

\* A node is among those it is made of, and so are those that its operands are made of.
LEMMA UnderHolds ==
    ASSUME Inv, TreeInv, NEW i \in FirstNode + 1 .. Len(heap)
    PROVE  /\ i \in Under[i]
           /\ \A j \in Kids(i) : j \in Under[i] /\ Under[j] \subseteq Under[i] /\ j \in FirstNode + 1 .. Len(heap)
<1>1. i \in 1 .. Len(heap) /\ Kids(i) \subseteq FirstNode + 1 .. Len(heap)
  BY KidsAre
<1>2. Under[i] = {i} \cup UNION {Under[j] : j \in Kids(i)}
  BY <1>1, UnderIs DEF UnderFrom, Kids
<1>3. ASSUME NEW j \in Kids(i) PROVE j \in Under[j]
  <2>1. j \in 1 .. Len(heap)
    BY <1>1, KidsAre
  <2>2. Under[j] = UnderFrom(Under, j)
    BY <2>1, UnderIs
  <2>3. QED  BY <2>2 DEF UnderFrom
<1>4. QED  BY <1>1, <1>2, <1>3

\* So what C allows for a tree, it allows for the parts; and the other conditions too.
LEMMA Inherited ==
    ASSUME Inv, TreeInv, NEW i \in FirstNode + 1 .. Len(heap), NEW j \in Kids(i)
    PROVE  /\ Lawful(i) => Lawful(j)
           /\ Current(i) => Current(j)
           /\ Annotated(i) => Annotated(j)
           /\ Transparent(i) => Transparent(j)
<1>1. Under[j] \subseteq Under[i]
  BY UnderHolds
<1>2. Lawful(i) => Lawful(j)
  BY <1>1 DEF Lawful
<1>3. Current(i) => Current(j)
  BY <1>1 DEF Current
<1>4. Annotated(i) => Annotated(j)
  BY <1>1 DEF Annotated
<1>5. Transparent(i) => Transparent(j)
  BY <1>1 DEF Transparent
<1>6. QED  BY <1>2, <1>3, <1>4, <1>5

\* What the queries return, whatever has been resolved and attached.
Typed(j) ==
    /\ heap[j].class \in Places => OrigType(j) \in {CType[j]} \cup Failures
    /\ heap[j].class \notin Places => OrigType(j) = Type(j)
    /\ Likes(Type(j), CType[j])

\* And when everything has been.
Exact(j) ==
    /\ heap[j].class \in Places => OrigType(j) = CType[j]
    /\ heap[j].class \notin Places => OrigType(j) = Type(j)
    /\ Type(j) = Decayed(CType[j])

\* The original type of an operand is like the type that C gives it.
LEMMA OrigLikes ==
    ASSUME NEW j
    PROVE  /\ Typed(j) => Likes(OrigType(j), CType[j])
           /\ Exact(j) => OrigType(j) \in {CType[j], Decayed(CType[j])}
BY DEF Typed, Exact, Likes

\* Attached types have names, and none is of a pointer to nothing.
LEMMA AttachedIs ==
    ASSUME Inv, TreeInv, NEW i \in 1 .. Len(heap), heap[i].type # 0
    PROVE  /\ Own(heap[i]) = heap[heap[i].type].name /\ Own(heap[i]) \in Range(TypeRefs)
           /\ Own(heap[i]) # <<>> /\ Own(heap[i]) # PointerTo(Throws) /\ Own(heap[i]) # PointerTo(Undefined)
<1> DEFINE t == heap[i].type
<1>1. Formed(World) /\ World.heap = heap
  BY InvFacts, WorldFields
<1>2. t \in 0 .. Len(TypeRefs)
  BY <1>1 DEF Formed, Shaped
<1>3. t # 0 /\ Own(heap[i]) = heap[t].name
  BY DEF Own
<1> HIDE DEF t
<1>4. t \in 1 .. Len(TypeRefs)
  BY <1>2, <1>3, ConstantsAre
<1>5. heap[t].name = TypeRefs[t]
  BY <1>4 DEF TreeInv, Titled
<1>6. TypeRefs[t] \in Range(TypeRefs)
  BY <1>4, ConstantsAre, ElementOfSeq
<1>7. Own(heap[i]) \in Range(TypeRefs)
  BY <1>3, <1>5, <1>6
<1>8. \A r \in Range(TypeRefs) : r # <<>> /\ (r[1] = "ptr" => r[2][1] \notin {"throws", "undefined"})
  BY TypeAssumption
<1>9. \A r \in Failures : PointerTo(r) \notin Range(TypeRefs)
  BY <1>8, RealIs DEF Failures
<1>10. QED  BY <1>3, <1>7, <1>8, <1>9 DEF t, Failures

\* What the pass wants a place to have.
LEMMA WantedIs ==
    ASSUME NEW n
    PROVE  /\ heap[n].class \in Places =>
                /\ Wanted(n) = IF Decays(OrigType(n)) THEN Decayed(OrigType(n)) ELSE <<>>
                /\ ~Decays(OrigType(n)) => Decayed(OrigType(n)) = OrigType(n)
           /\ heap[n].class = "address" => Wanted(n) = PointerTo(OrigType(heap[n].parts[1]))
<1>1. heap[n].class = "address" => Wanted(n) = PointerTo(OrigType(heap[n].parts[1]))
  BY DEF Wanted, Places
<1> DEFINE o == OrigType(n)
<1>2. heap[n].class \in Places =>
        Wanted(n) = IF Real(o)[1] = "arr" THEN PointerTo(BaseOf(o))
                    ELSE IF Real(o)[1] = "fun" THEN PointerTo(o) ELSE <<>>
  BY DEF Wanted, Places
<1> HIDE DEF o
<1>3. Real(o)[1] = "arr" => BaseOf(o) = Real(o)[2]
  BY DEF BaseOf
<1>4. QED  BY <1>1, <1>2, <1>3 DEF Decays, Decayed, o

\* The type of a place follows from its original type.
LEMMA PlaceTyped ==
    ASSUME Inv, TreeInv, NEW i \in 1 .. Len(heap), heap[i].class \in Places,
           heap[i].type # 0 => Own(heap[i]) = Wanted(i),
           TypeOf[i] = TypesFrom(TypeOf, heap[i])
    PROVE  /\ OrigType(i) \in {CType[i]} \cup Failures => Likes(Type(i), CType[i])
           /\ OrigType(i) = CType[i] /\ (heap[i].type = 0 => Wanted(i) = <<>>) => Type(i) = Decayed(CType[i])
<1> DEFINE o == OrigType(i)
           c == CType[i]
<1>1. Type(i) = IF heap[i].type # 0 THEN Own(heap[i]) ELSE o
  BY DEF Type, OrigType, TypesFrom
<1>2. /\ Wanted(i) = IF Decays(o) THEN Decayed(o) ELSE <<>>
      /\ ~Decays(o) => Decayed(o) = o
  BY WantedIs
<1>3. heap[i].type # 0 => Own(heap[i]) # <<>>
  BY AttachedIs
<1>4. heap[i].type # 0 => Decays(o) /\ Type(i) = Decayed(o)
  BY <1>1, <1>2, <1>3
<1>5. heap[i].type = 0 => Type(i) = o
  BY <1>1
<1>6. o \in Failures => ~Decays(o)
  BY RealIs DEF Failures, Decays
<1>7. Decays(o) => Wanted(i) # <<>>
  <2>1. Decays(o) => \E r : Decayed(o) = PointerTo(r)
    BY DEF Decays, Decayed
  <2>2. QED  BY <1>2, <2>1, RealIs
<1> HIDE DEF o, c
<1>8. o \in {c} \cup Failures => Likes(Type(i), c)
  BY <1>4, <1>5, <1>6 DEF Likes
<1>9. o = c /\ (heap[i].type = 0 => Wanted(i) = <<>>) => Type(i) = Decayed(c)
  BY <1>2, <1>4, <1>5, <1>7
<1>10. QED  BY <1>8, <1>9 DEF o, c

\* What the conditions say of a node itself.
LEMMA ConditionsAre ==
    ASSUME Inv, TreeInv, NEW i \in FirstNode + 1 .. Len(heap)
    PROVE  /\ Lawful(i) =>
                /\ heap[i].class = "address" => heap[heap[i].parts[1]].class \in Places
                /\ heap[i].class = "aref" => Real(CType[heap[i].parts[1]])[1] # "fun"
                /\ heap[i].class \notin Places \cup {"conditional"} => ~Decays(CType[i])
           /\ Current(i) => (heap[i].class \in Places \cup {"address"} /\ heap[i].type # 0 => Own(heap[i]) = Wanted(i))
           /\ Annotated(i) =>
                /\ heap[i].class = "variable" => heap[i].parts[1] # 0
                /\ heap[i].class \in Places \cup {"address"} /\ heap[i].type = 0 => Wanted(i) = <<>>
           /\ Transparent(i) => (heap[i].class \in {"member", "ptrmember", "call"} =>
                /\ CType[heap[i].parts[1]] \notin DOMAIN Alias
                /\ heap[i].class # "member" => Element(CType[heap[i].parts[1]]) \notin DOMAIN Alias)
<1>1. i \in Under[i]
  BY UnderHolds
<1>2. Lawful(i) =>
        /\ heap[i].class = "address" => heap[heap[i].parts[1]].class \in Places
        /\ heap[i].class = "aref" => Real(CType[heap[i].parts[1]])[1] # "fun"
        /\ heap[i].class \notin Places \cup {"conditional"} => ~Decays(CType[i])
  BY <1>1 DEF Lawful, Decays
<1>3. Current(i) => (heap[i].class \in Places \cup {"address"} /\ heap[i].type # 0 => Own(heap[i]) = Wanted(i))
  BY <1>1 DEF Current, Own
<1>4. Annotated(i) =>
        /\ heap[i].class = "variable" => heap[i].parts[1] # 0
        /\ heap[i].class \in Places \cup {"address"} /\ heap[i].type = 0 => Wanted(i) = <<>>
  BY <1>1 DEF Annotated
<1>5. Transparent(i) => (heap[i].class \in {"member", "ptrmember", "call"} =>
        /\ CType[heap[i].parts[1]] \notin DOMAIN Alias
        /\ heap[i].class # "member" => Element(CType[heap[i].parts[1]]) \notin DOMAIN Alias)
  BY <1>1 DEF Transparent
<1>6. QED  BY <1>2, <1>3, <1>4, <1>5

\* The entity that a name has been resolved by has that name.
LEMMA EntityNamed ==
    ASSUME Inv, TreeInv, NEW i \in FirstNode + 1 .. Len(heap), heap[i].class = "variable", heap[i].parts[1] # 0
    PROVE  heap[heap[i].parts[1]].name = heap[i].name
<1> DEFINE name == heap[i].name
           I == {k \in 1 .. Len(Names) : Names[k] = name}
<1>1. Formed(World) /\ World.heap = heap /\ i \in 1 .. Len(heap)
  BY InvFacts, WorldFields, KidsAre
<1>2. name \in Range(Names)
  BY <1>1 DEF Formed, Shaped
<1>3. heap[i].parts[1] = EntityId(name)
  BY DEF TreeInv, Tree
<1> HIDE DEF name
<1>4. Len(Names) \in Nat /\ DOMAIN Names = 1 .. Len(Names)
  BY ConstantsAre, LenProperties
<1>5. I # {}
  BY <1>2, <1>4 DEF Range
<1>6. EntityId(name) = Len(TypeRefs) + Min(I)
  BY <1>5 DEF EntityId, SelectInSeq
<1>7. Min(I) \in I
  BY <1>4, <1>5, FirstIs
<1>8. Min(I) \in 1 .. Len(Names) /\ Names[Min(I)] = name
  BY <1>7
<1>9. heap[Len(TypeRefs) + Min(I)].name = Names[Min(I)]
  BY <1>8 DEF TreeInv, Titled
<1>10. QED  BY <1>3, <1>6, <1>8, <1>9 DEF name

\* One node, whatever has been resolved and attached.
LEMMA TypedStep ==
    ASSUME Inv, TreeInv, NEW i \in FirstNode + 1 .. Len(heap), Lawful(i), Current(i),
           \A j \in Kids(i) : Typed(j)
    PROVE  Typed(i)
<1> DEFINE n == heap[i]
           p == n.parts[1]
           c == CType[p]
           t == Type(p)
           o == OrigType(i)
<1>1. i \in 1 .. Len(heap)
  BY KidsAre
<1>2. TypeOf[i] = TypesFrom(TypeOf, n) /\ CType[i] = CTypeFrom(CType, n)
  BY <1>1, TypeOfIs, CTypeIs
<1>3. o = OrigFrom(TypeOf, n)
  BY <1>2 DEF OrigType, TypesFrom
<1>4. TypeOf[p].type = t /\ TypeOf[p].orig = OrigType(p)
  BY DEF Type, OrigType
<1>5. /\ n.class = "address" => heap[p].class \in Places
      /\ n.class = "aref" => Real(c)[1] # "fun"
      /\ n.class \notin Places \cup {"conditional"} => ~Decays(CType[i])
      /\ n.class \in Places \cup {"address"} /\ n.type # 0 => Own(n) = Wanted(i)
  BY ConditionsAre
<1>6. n.class \in (Operators \cup {"address"}) \ {"variable"} => p \in Kids(i)
  BY KidsAre
<1>7. n.class \in (Operators \cup {"address"}) \ {"variable"} => Likes(t, c) /\ Likes(OrigType(p), c)
  BY <1>6, OrigLikes DEF Typed
<1>8. n.class \in Places => o \in {CType[i]} \cup Failures
  <2>1. CASE n.class = "variable"
    <3>1. CType[i] = Declared[n.name] /\ o = IF p = 0 THEN Undefined ELSE Declared[heap[p].name]
      BY <1>2, <1>3, <2>1, OrigIs, CTypeFromIs
    <3>2. p # 0 => heap[p].name = n.name
      BY <2>1, EntityNamed
    <3>3. QED  BY <3>1, <3>2 DEF Failures
  <2>2. CASE n.class = "aref"
    <3>1. CType[i] = BaseOf(c) /\ o = BaseOf(OrigType(p))
      BY <1>2, <1>3, <1>4, <2>2, OrigIs, CTypeFromIs
    <3>2. Likes(OrigType(p), c) /\ Real(c)[1] # "fun"
      BY <1>5, <1>7, <2>2 DEF Operators, Places
    <3> HIDE DEF o, c, n, p
    <3>3. QED  BY <3>1, <3>2, BaseOfIs
  <2>3. CASE n.class = "dereference"
    <3>1. CType[i] = Element(c) /\ o = BaseOf(t)
      BY <1>2, <1>3, <1>4, <2>3, OrigIs, CTypeFromIs
    <3>2. Likes(t, c)
      BY <1>7, <2>3 DEF Operators, Places
    <3> HIDE DEF o, c, n, p, t
    <3>3. QED  BY <3>1, <3>2, BaseOfIs
  <2>4. CASE n.class = "member"
    <3>1. CType[i] = Field(c, n.name) /\ o = MemberOf(t, n.name)
      BY <1>2, <1>3, <1>4, <2>4, OrigIs, CTypeFromIs
    <3>2. Likes(t, c)
      BY <1>7, <2>4 DEF Operators, Places
    <3> HIDE DEF o, c, n, p, t
    <3>3. QED  BY <3>1, <3>2, MemberOfIs
  <2>5. CASE n.class = "ptrmember"
    <3>1. CType[i] = Field(Element(c), n.name) /\ o = MemberOf(PointedBy(t), n.name)
      BY <1>2, <1>3, <1>4, <2>5, OrigIs, CTypeFromIs
    <3>2. Likes(t, c)
      BY <1>7, <2>5 DEF Operators, Places
    <3> HIDE DEF o, c, n, p, t
    <3>3. PointedBy(t) \in {Element(c)} \cup Failures
      BY <3>2, PointedByIs
    <3>4. QED  BY <3>1, <3>3, MemberOfIs
  <2>6. QED  BY <2>1, <2>2, <2>3, <2>4, <2>5 DEF Places
<1>9. CASE n.class \in Places
  <2>1. Likes(Type(i), CType[i])
    BY <1>1, <1>2, <1>5, <1>8, <1>9, PlaceTyped
  <2>2. QED  BY <1>8, <1>9, <2>1 DEF Typed
<1>10. CASE n.class \notin Places
  <2>1. Type(i) = o
    BY <1>2, <1>10 DEF Type, OrigType, TypesFrom
  <2>2. Likes(o, CType[i])
    <3>1. CASE n.class = "call"
      <4>1. CType[i] = Result(Element(c)) /\ o = ResultOf(PointedBy(t))
        BY <1>2, <1>3, <1>4, <3>1, OrigIs, CTypeFromIs
      <4>2. Likes(t, c)
        BY <1>7, <3>1 DEF Operators, Places
      <4> HIDE DEF o, c, n, p, t
      <4>3. PointedBy(t) \in {Element(c)} \cup Failures
        BY <4>2, PointedByIs
      <4>4. o \in {CType[i]} \cup Failures
        BY <4>1, <4>3, ResultOfIs
      <4>5. QED  BY <4>4 DEF Likes
    <3>2. CASE n.class \in {"unary", "assign"} \/ (n.class = "binary" /\ n.type = 0)
      <4>1. CType[i] = c /\ o = t
        BY <1>2, <1>3, <1>4, <3>2, OrigIs, CTypeFromIs
      <4>2. Likes(t, c)
        BY <1>7, <3>2 DEF Operators, Places
      <4>3. QED  BY <4>1, <4>2
    <3>3. CASE n.class = "conditional"
      <4>1. CType[i] = CType[n.parts[2]] /\ o = Type(n.parts[2])
        BY <1>2, <1>3, <3>3, OrigIs, CTypeFromIs DEF Type
      <4>2. n.parts[2] \in Kids(i)
        BY <3>3, KidsAre
      <4>3. QED  BY <4>1, <4>2 DEF Typed
    <3>4. CASE n.class = "address"
      <4>1. CType[i] = PointerTo(c)
        BY <1>2, <3>4, CTypeFromIs
      <4>2. o = Own(n)
        <5>1. n.class \notin Operators
          BY <3>4 DEF Operators, Places
        <5>2. QED  BY <1>3, <5>1, OrigIs
      <4>3. p \in Kids(i) /\ heap[p].class \in Places
        BY <1>5, <1>6, <3>4 DEF Operators, Places
      <4>4. OrigType(p) \in {c} \cup Failures
        BY <4>3 DEF Typed
      <4>5. n.type # 0 => Own(n) = PointerTo(OrigType(p))
        BY <1>5, <3>4, WantedIs
      <4>6. n.type # 0 => Own(n) # PointerTo(Throws) /\ Own(n) # PointerTo(Undefined)
        BY <1>1, AttachedIs
      <4>7. n.type = 0 => Own(n) = Throws
        BY DEF Own
      <4> HIDE DEF o, c, n, p, t
      <4>8. QED  BY <4>1, <4>2, <4>4, <4>5, <4>6, <4>7 DEF Likes, Failures
    <3>5. CASE (n.class \notin Operators \cup {"address"}) \/ (n.class = "binary" /\ n.type # 0)
      <4>1. CType[i] = Own(n) /\ o = Own(n)
        BY <1>2, <1>3, <3>5, OrigIs, CTypeFromIs
      <4>2. QED  BY <4>1 DEF Likes
    <3>6. QED  BY <1>10, <3>1, <3>2, <3>3, <3>4, <3>5 DEF Operators
  <2>3. QED  BY <1>10, <2>1, <2>2 DEF Typed
<1>11. QED  BY <1>9, <1>10

\* One node, when everything has been.
LEMMA ExactStep ==
    ASSUME Inv, TreeInv, NEW i \in FirstNode + 1 .. Len(heap), Lawful(i), Current(i),
           Annotated(i), Transparent(i), \A j \in Kids(i) : Exact(j)
    PROVE  Exact(i)
<1> DEFINE n == heap[i]
           p == n.parts[1]
           c == CType[p]
           t == Type(p)
           o == OrigType(i)
<1>1. i \in 1 .. Len(heap)
  BY KidsAre
<1>2. TypeOf[i] = TypesFrom(TypeOf, n) /\ CType[i] = CTypeFrom(CType, n)
  BY <1>1, TypeOfIs, CTypeIs
<1>3. o = OrigFrom(TypeOf, n)
  BY <1>2 DEF OrigType, TypesFrom
<1>4. TypeOf[p].type = t /\ TypeOf[p].orig = OrigType(p)
  BY DEF Type, OrigType
<1>5. /\ n.class = "address" => heap[p].class \in Places
      /\ n.class = "aref" => Real(c)[1] # "fun"
      /\ n.class \notin Places \cup {"conditional"} => ~Decays(CType[i])
      /\ n.class \in Places \cup {"address"} /\ n.type # 0 => Own(n) = Wanted(i)
      /\ n.class = "variable" => p # 0
      /\ n.class \in Places \cup {"address"} /\ n.type = 0 => Wanted(i) = <<>>
      /\ n.class \in {"member", "ptrmember", "call"} =>
            c \notin DOMAIN Alias /\ (n.class # "member" => Element(c) \notin DOMAIN Alias)
  BY ConditionsAre
<1>6. n.class \in (Operators \cup {"address"}) \ {"variable"} => p \in Kids(i)
  BY KidsAre
<1>7. n.class \in (Operators \cup {"address"}) \ {"variable"} =>
        t = Decayed(c) /\ OrigType(p) \in {c, Decayed(c)}
  BY <1>6, OrigLikes DEF Exact
<1>8. n.class \in Places => o = CType[i]
  <2>1. CASE n.class = "variable"
    <3>1. CType[i] = Declared[n.name] /\ o = IF p = 0 THEN Undefined ELSE Declared[heap[p].name]
      BY <1>2, <1>3, <2>1, OrigIs, CTypeFromIs
    <3>2. p # 0 => heap[p].name = n.name
      BY <2>1, EntityNamed
    <3>3. QED  BY <1>5, <2>1, <3>1, <3>2
  <2>2. CASE n.class = "aref"
    <3>1. CType[i] = BaseOf(c) /\ o = BaseOf(OrigType(p))
      BY <1>2, <1>3, <1>4, <2>2, OrigIs, CTypeFromIs
    <3>2. OrigType(p) \in {c, Decayed(c)} /\ Real(c)[1] # "fun"
      BY <1>5, <1>7, <2>2 DEF Operators, Places
    <3> HIDE DEF o, c, n, p
    <3>3. Likes(c, c)
      BY DEF Likes
    <3>4. QED  BY <3>1, <3>2, <3>3, BaseOfIs
  <2>3. CASE n.class = "dereference"
    <3>1. CType[i] = Element(c) /\ o = BaseOf(t)
      BY <1>2, <1>3, <1>4, <2>3, OrigIs, CTypeFromIs
    <3>2. t = Decayed(c)
      BY <1>7, <2>3 DEF Operators, Places
    <3> HIDE DEF o, c, n, p, t
    <3>3. Likes(c, c)
      BY DEF Likes
    <3>4. QED  BY <3>1, <3>2, <3>3, BaseOfIs
  <2>4. CASE n.class = "member"
    <3>1. CType[i] = Field(c, n.name) /\ o = MemberOf(t, n.name)
      BY <1>2, <1>3, <1>4, <2>4, OrigIs, CTypeFromIs
    <3>2. t = Decayed(c) /\ c \notin DOMAIN Alias
      BY <1>5, <1>7, <2>4 DEF Operators, Places
    <3> HIDE DEF o, c, n, p, t
    <3>3. QED  BY <3>1, <3>2, MemberOfIs
  <2>5. CASE n.class = "ptrmember"
    <3>1. CType[i] = Field(Element(c), n.name) /\ o = MemberOf(PointedBy(t), n.name)
      BY <1>2, <1>3, <1>4, <2>5, OrigIs, CTypeFromIs
    <3>2. t = Decayed(c) /\ c \notin DOMAIN Alias /\ Element(c) \notin DOMAIN Alias
      BY <1>5, <1>7, <2>5 DEF Operators, Places
    <3> HIDE DEF o, c, n, p, t
    <3>3. PointedBy(t) = Element(c)
      BY <3>2, PointedByIs
    <3>4. QED  BY <3>1, <3>2, <3>3, MemberOfIs
  <2>6. QED  BY <2>1, <2>2, <2>3, <2>4, <2>5 DEF Places
<1>9. CASE n.class \in Places
  <2>1. Type(i) = Decayed(CType[i])
    BY <1>1, <1>2, <1>5, <1>8, <1>9, PlaceTyped
  <2>2. QED  BY <1>8, <1>9, <2>1 DEF Exact
<1>10. CASE n.class \notin Places
  <2>1. Type(i) = o
    BY <1>2, <1>10 DEF Type, OrigType, TypesFrom
  <2>2. ~Decays(CType[i]) => Decayed(CType[i]) = CType[i]
    BY DEF Decays, Decayed
  <2>3. o = Decayed(CType[i])
    <3>1. CASE n.class = "call"
      <4>1. CType[i] = Result(Element(c)) /\ o = ResultOf(PointedBy(t))
        BY <1>2, <1>3, <1>4, <3>1, OrigIs, CTypeFromIs
      <4>2. t = Decayed(c) /\ c \notin DOMAIN Alias /\ Element(c) \notin DOMAIN Alias /\ ~Decays(CType[i])
        BY <1>5, <1>7, <3>1 DEF Operators, Places
      <4> HIDE DEF o, c, n, p, t
      <4>3. PointedBy(t) = Element(c)
        BY <4>2, PointedByIs
      <4>4. o = CType[i]
        BY <4>1, <4>2, <4>3, ResultOfIs
      <4>5. QED  BY <2>2, <4>2, <4>4
    <3>2. CASE n.class \in {"unary", "assign"} \/ (n.class = "binary" /\ n.type = 0)
      <4>1. CType[i] = c /\ o = t
        BY <1>2, <1>3, <1>4, <3>2, OrigIs, CTypeFromIs
      <4>2. t = Decayed(c)
        BY <1>7, <3>2 DEF Operators, Places
      <4>3. QED  BY <4>1, <4>2
    <3>3. CASE n.class = "conditional"
      <4>1. CType[i] = CType[n.parts[2]] /\ o = Type(n.parts[2])
        BY <1>2, <1>3, <3>3, OrigIs, CTypeFromIs DEF Type
      <4>2. n.parts[2] \in Kids(i)
        BY <3>3, KidsAre
      <4>3. QED  BY <4>1, <4>2 DEF Exact
    <3>4. CASE n.class = "address"
      <4>1. CType[i] = PointerTo(c)
        BY <1>2, <3>4, CTypeFromIs
      <4>2. o = Own(n)
        <5>1. n.class \notin Operators
          BY <3>4 DEF Operators, Places
        <5>2. QED  BY <1>3, <5>1, OrigIs
      <4>3. p \in Kids(i) /\ heap[p].class \in Places
        BY <1>5, <1>6, <3>4 DEF Operators, Places
      <4>4. OrigType(p) = c
        BY <4>3 DEF Exact
      <4>5. Wanted(i) = PointerTo(OrigType(p))
        BY <3>4, WantedIs
      <4>6. n.type # 0
        BY <1>5, <3>4, <4>5, RealIs
      <4>7. Own(n) = Wanted(i)
        BY <1>5, <3>4, <4>6
      <4>8. ~Decays(CType[i])
        BY <1>5, <3>4 DEF Places
      <4>9. QED  BY <2>2, <4>1, <4>2, <4>4, <4>5, <4>7, <4>8
    <3>5. CASE (n.class \notin Operators \cup {"address"}) \/ (n.class = "binary" /\ n.type # 0)
      <4>1. CType[i] = Own(n) /\ o = Own(n)
        BY <1>2, <1>3, <3>5, OrigIs, CTypeFromIs
      <4>2. ~Decays(CType[i])
        BY <1>5, <1>10, <3>5 DEF Operators
      <4>3. QED  BY <2>2, <4>1, <4>2
    <3>6. QED  BY <1>10, <3>1, <3>2, <3>3, <3>4, <3>5 DEF Operators
  <2>4. QED  BY <1>10, <2>1, <2>3 DEF Exact
<1>11. QED  BY <1>9, <1>10

\* Every node of a lawful tree, whatever has been resolved and attached.
LEMMA AllTyped ==
    ASSUME Inv, TreeInv
    PROVE  \A i \in FirstNode + 1 .. Len(heap) : Lawful(i) /\ Current(i) => Typed(i)
<1> DEFINE N == FirstNode + 1 .. Len(heap)
<1>0. PICK M \in Nat : \E rank : Ranks(heap, M, rank)
  BY DEF TreeInv, Ranked
<1>1. PICK rank : Ranks(heap, M, rank)
  BY <1>0
<1> DEFINE S == {n \in Nat : \A i \in N : rank[i] < n /\ Lawful(i) /\ Current(i) => Typed(i)}
<1>2. \A i \in N : rank[i] \in 0 .. M
  BY <1>1, InvFacts, ConstantsAre DEF Ranks
<1>3. 0 \in S
  <2>1. \A i \in N : ~(rank[i] < 0)
    BY <1>2
  <2>2. QED  BY <2>1
<1>4. ASSUME NEW n \in 0 .. M, n \in S PROVE n + 1 \in S
  <2>1. ASSUME NEW i \in N, rank[i] < n + 1, Lawful(i), Current(i) PROVE Typed(i)
    <3>1. ASSUME NEW j \in Kids(i) PROVE Typed(j)
      <4>1. rank[j] \in 0 .. M /\ rank[i] \in 0 .. M /\ rank[j] < rank[i]
        BY <1>1, KidsBelow
      <4>2. rank[j] < n
        BY <2>1, <4>1
      <4>3. j \in N
        BY UnderHolds
      <4>4. Lawful(j) /\ Current(j)
        BY <2>1, Inherited
      <4>5. QED  BY <1>4, <4>2, <4>3, <4>4
    <3>2. QED  BY <2>1, <3>1, TypedStep
  <2>2. QED  BY <2>1
<1>5. M + 1 \in S
  <2> HIDE DEF S
  <2>1. QED  BY <1>1, <1>3, <1>4, ByRank
<1>6. \A i \in N : rank[i] < M + 1
  BY <1>2
<1>7. QED  BY <1>5, <1>6

\* And when everything has been.
LEMMA AllExact ==
    ASSUME Inv, TreeInv
    PROVE  \A i \in FirstNode + 1 .. Len(heap) :
                Lawful(i) /\ Current(i) /\ Annotated(i) /\ Transparent(i) => Exact(i)
<1> DEFINE N == FirstNode + 1 .. Len(heap)
           Ready(i) == Lawful(i) /\ Current(i) /\ Annotated(i) /\ Transparent(i)
<1>0. PICK M \in Nat : \E rank : Ranks(heap, M, rank)
  BY DEF TreeInv, Ranked
<1>1. PICK rank : Ranks(heap, M, rank)
  BY <1>0
<1> DEFINE S == {n \in Nat : \A i \in N : rank[i] < n /\ Ready(i) => Exact(i)}
<1>2. \A i \in N : rank[i] \in 0 .. M
  BY <1>1, InvFacts, ConstantsAre DEF Ranks
<1>3. 0 \in S
  <2>1. \A i \in N : ~(rank[i] < 0)
    BY <1>2
  <2>2. QED  BY <2>1
<1>4. ASSUME NEW n \in 0 .. M, n \in S PROVE n + 1 \in S
  <2>1. ASSUME NEW i \in N, rank[i] < n + 1, Ready(i) PROVE Exact(i)
    <3>1. ASSUME NEW j \in Kids(i) PROVE Exact(j)
      <4>1. rank[j] \in 0 .. M /\ rank[i] \in 0 .. M /\ rank[j] < rank[i]
        BY <1>1, KidsBelow
      <4>2. rank[j] < n
        BY <2>1, <4>1
      <4>3. j \in N
        BY UnderHolds
      <4>4. Ready(j)
        BY <2>1, Inherited
      <4>5. QED  BY <1>4, <4>2, <4>3, <4>4
    <3>2. QED  BY <2>1, <3>1, ExactStep
  <2>2. QED  BY <2>1
<1>5. M + 1 \in S
  <2> HIDE DEF S
  <2>1. QED  BY <1>1, <1>3, <1>4, ByRank
<1>6. \A i \in N : rank[i] < M + 1
  BY <1>2
<1>7. QED  BY <1>5, <1>6

\* What an element is taken of comes before it.
LEMMA IndexedBelow ==
    ASSUME Inv, TreeInv, NEW M \in Nat, NEW rank, Ranks(heap, M, rank)
    PROVE  \A i \in Elements : \A j \in Indexed[i] : rank[j] \in 0 .. M /\ rank[i] \in 0 .. M /\ rank[j] < rank[i]
<1> DEFINE Below(i) == \A j \in Indexed[i] : rank[j] \in 0 .. M /\ rank[i] \in 0 .. M /\ rank[j] < rank[i]
           S == {n \in Nat : \A i \in Elements : rank[i] < n => Below(i)}
<1>1. \A i \in Elements : rank[i] \in 0 .. M
  BY ElementIs DEF Ranks
<1>2. 0 \in S
  <2>1. \A i \in Elements : ~(rank[i] < 0)
    BY <1>1
  <2>2. QED  BY <2>1
<1>3. ASSUME NEW n \in 0 .. M, n \in S PROVE n + 1 \in S
  <2>1. ASSUME NEW i \in Elements, rank[i] < n + 1 PROVE Below(i)
    <3> DEFINE p == heap[i].parts[1]
    <3>1. Indexed[i] = IF p \in Elements THEN {p} \cup Indexed[p] ELSE {p}
      BY IndexedIs DEF IndexedFrom
    <3>2. p \in Kids(i) /\ i \in FirstNode + 1 .. Len(heap)
      BY ElementIs
    <3> HIDE DEF p
    <3>3. rank[p] \in 0 .. M /\ rank[i] \in 0 .. M /\ rank[p] < rank[i]
      BY <3>2, KidsBelow
    <3>4. p \in Elements => Below(p)
      <4>1. rank[p] < n
        BY <2>1, <3>3
      <4>2. QED  BY <1>3, <4>1
    <3>5. ASSUME NEW j \in Indexed[i] PROVE rank[j] \in 0 .. M /\ rank[i] \in 0 .. M /\ rank[j] < rank[i]
      <4>1. CASE j = p
        BY <3>3, <4>1
      <4>2. CASE j # p
        <5>1. p \in Elements /\ j \in Indexed[p]
          BY <3>1, <4>2
        <5>2. rank[j] \in 0 .. M /\ rank[j] < rank[p]
          BY <3>4, <5>1
        <5>3. QED  BY <3>3, <5>2
      <4>3. QED  BY <4>1, <4>2
    <3>6. QED  BY <3>5
  <2>2. QED  BY <2>1
<1>4. M + 1 \in S
  <2> HIDE DEF S
  <2>1. QED  BY <1>2, <1>3, ByRank
<1>5. \A i \in Elements : rank[i] < M + 1
  BY <1>1
<1>6. QED  BY <1>4, <1>5

\* The base of an element.
Based(i) ==
    LET b == BaseExpr(i)
    IN  /\ b \in Indexed[i]
        /\ b \in Elements => Real(CType[b])[1] # "arr"
        /\ \A j \in Indexed[i] \cap Elements : b \in Indexed[j] => Real(CType[j])[1] = "arr"

\* One element, from the element it may be taken of.
LEMMA BasedStep ==
    ASSUME Inv, TreeInv, NEW i \in Elements, Lawful(i), Current(i),
           OrigType(i) \notin Failures,
           heap[i].parts[1] \in Elements /\ OrigType(heap[i].parts[1]) \notin Failures => Based(heap[i].parts[1])
    PROVE  Based(i)
<1> DEFINE p == heap[i].parts[1]
           c == CType[p]
           o == OrigType(p)
<1>1. /\ i \in FirstNode + 1 .. Len(heap) /\ i \in 1 .. Len(heap) /\ heap[i].class = "aref" /\ p \in Kids(i)
  BY ElementIs
<1>2. OrigType(i) = BaseOf(o)
  <2>1. TypeOf[i] = TypesFrom(TypeOf, heap[i])
    BY <1>1, TypeOfIs
  <2>2. QED  BY <1>1, <2>1, OrigIs DEF OrigType, TypesFrom
<1>3. o \notin Failures /\ Real(o)[1] \in {"ptr", "arr"}
  <2> HIDE DEF o
  <2>1. Real(o)[1] \in {"ptr", "arr"}
    BY <1>2, FailedIs DEF BaseOf
  <2>2. QED  BY <2>1, RealIs DEF Failures
<1>4. BaseExpr(i) = BaseFrom(BaseOfElement, i) /\ Indexed[i] = IndexedFrom(Indexed, i)
  BY BaseIs, IndexedIs DEF BaseExpr
<1>5. p \in FirstNode + 1 .. Len(heap) /\ p \in DOMAIN heap
  BY <1>1, UnderHolds, KidsAre, InvFacts, ConstantsAre
<1>6. p \in Elements <=> heap[p].class = "aref"
  BY <1>5 DEF Elements
<1>7. IsMultiDimension(i) <=> p \in Elements /\ Real(o)[1] # "ptr"
  BY <1>6 DEF IsMultiDimension
<1>8. CASE p \notin Elements
  <2>1. BaseExpr(i) = p /\ Indexed[i] = {p}
    BY <1>4, <1>7, <1>8 DEF BaseFrom, IndexedFrom
  <2> HIDE DEF p
  <2>2. QED  BY <1>8, <2>1 DEF Based
<1>9. CASE p \in Elements
  <2>1. Indexed[i] = {p} \cup Indexed[p]
    BY <1>4, <1>9 DEF IndexedFrom
  <2>2. o = c
    <3>1. Typed(p)
      <4>1. Lawful(p) /\ Current(p)
        BY <1>1, Inherited
      <4>2. QED  BY <1>5, <4>1, AllTyped
    <3>2. QED  BY <1>3, <1>6, <1>9, <3>1 DEF Typed, Places
  <2>3. CASE Real(o)[1] = "ptr"
    <3>1. BaseExpr(i) = p
      BY <1>4, <1>7, <2>3 DEF BaseFrom
    <3>0. PICK M \in Nat : \E rank : Ranks(heap, M, rank)
      BY DEF TreeInv, Ranked
    <3>2. PICK rank : Ranks(heap, M, rank)
      BY <3>0
    <3>3. ASSUME NEW j \in Indexed[i] \cap Elements, p \in Indexed[j] PROVE FALSE
      <4>1. rank[p] \in 0 .. M /\ rank[j] \in 0 .. M /\ rank[p] < rank[j]
        BY <3>2, <3>3, IndexedBelow
      <4>2. j # p => rank[j] < rank[p]
        BY <1>9, <2>1, <3>2, <3>3, IndexedBelow
      <4> HIDE DEF p
      <4>3. QED  BY <4>1, <4>2
    <3>4. Real(c)[1] # "arr"
      BY <2>2, <2>3
    <3> HIDE DEF p, o
    <3>5. QED  BY <2>1, <3>1, <3>3, <3>4 DEF Based
  <2>4. CASE Real(o)[1] = "arr"
    <3>1. BaseExpr(i) = BaseExpr(p)
      BY <1>4, <1>7, <1>9, <2>4 DEF BaseFrom, BaseExpr
    <3>2. Based(p)
      BY <1>3, <1>9
    <3>3. Real(c)[1] = "arr"
      BY <2>2, <2>4
    <3> HIDE DEF p, o
    <3>4. QED  BY <2>1, <3>1, <3>2, <3>3 DEF Based
  <2>5. QED  BY <1>3, <2>3, <2>4
<1>10. QED  BY <1>8, <1>9

\* And so every element.
LEMMA AllBased ==
    ASSUME Inv, TreeInv
    PROVE  \A i \in Elements : Lawful(i) /\ Current(i) /\ OrigType(i) \notin Failures => Based(i)
<1> DEFINE Ready(i) == Lawful(i) /\ Current(i) /\ OrigType(i) \notin Failures
<1>0. PICK M \in Nat : \E rank : Ranks(heap, M, rank)
  BY DEF TreeInv, Ranked
<1>1. PICK rank : Ranks(heap, M, rank)
  BY <1>0
<1> DEFINE S == {n \in Nat : \A i \in Elements : rank[i] < n /\ Ready(i) => Based(i)}
<1>2. \A i \in Elements : rank[i] \in 0 .. M
  BY <1>1, ElementIs DEF Ranks
<1>3. 0 \in S
  <2>1. \A i \in Elements : ~(rank[i] < 0)
    BY <1>2
  <2>2. QED  BY <2>1
<1>4. ASSUME NEW n \in 0 .. M, n \in S PROVE n + 1 \in S
  <2>1. ASSUME NEW i \in Elements, rank[i] < n + 1, Ready(i) PROVE Based(i)
    <3> DEFINE p == heap[i].parts[1]
    <3>1. p \in Kids(i) /\ i \in FirstNode + 1 .. Len(heap)
      BY ElementIs
    <3>2. rank[p] \in 0 .. M /\ rank[i] \in 0 .. M /\ rank[p] < rank[i]
      BY <1>1, <3>1, KidsBelow
    <3>3. Lawful(p) /\ Current(p)
      BY <2>1, <3>1, Inherited
    <3>4. p \in Elements /\ OrigType(p) \notin Failures => Based(p)
      <4> HIDE DEF p
      <4>1. rank[p] < n
        BY <2>1, <3>2
      <4>2. QED  BY <1>4, <3>3, <4>1
    <3>5. QED  BY <2>1, <3>4, BasedStep
  <2>2. QED  BY <2>1
<1>5. M + 1 \in S
  <2> HIDE DEF S
  <2>1. QED  BY <1>1, <1>3, <1>4, ByRank
<1>6. \A i \in Elements : rank[i] < M + 1
  BY <1>2
<1>7. QED  BY <1>5, <1>6

\* What the queries return follows from what the heap is.
LEMMA InvPlaces ==
    ASSUME Inv, TreeInv
    PROVE  PlacesExact
<1> SUFFICES ASSUME NEW i \in Reached \cap Live, heap[i].class \in Places, Lawful(i), Current(i)
             PROVE  /\ OrigType(i) \in {CType[i], Throws, Undefined}
                    /\ Annotated(i) /\ Transparent(i) => OrigType(i) = CType[i]
                    /\ i \in Elements /\ OrigType(i) \notin {Throws, Undefined} =>
                        LET b == BaseExpr(i)
                        IN  /\ b \in Indexed[i]
                            /\ b \in Elements => Real(CType[b])[1] # "arr"
                            /\ \A j \in Indexed[i] \cap Elements : b \in Indexed[j] => Real(CType[j])[1] = "arr"
  BY DEF PlacesExact
<1>1. i \in FirstNode + 1 .. Len(heap)
  <2>1. i \in 1 .. Len(heap)
    BY InvFacts DEF Live
  <2>2. i \notin 0 .. FirstNode
    BY DEF Reached
  <2>3. QED  BY <2>1, <2>2, InvFacts, ConstantsAre
<1>2. OrigType(i) \in {CType[i], Throws, Undefined}
  <2>1. Typed(i)
    BY <1>1, AllTyped
  <2>2. QED  BY <2>1 DEF Typed, Failures
<1>3. Annotated(i) /\ Transparent(i) => OrigType(i) = CType[i]
  <2>1. Annotated(i) /\ Transparent(i) => Exact(i)
    BY <1>1, AllExact
  <2>2. QED  BY <2>1 DEF Exact
<1>4. i \in Elements /\ OrigType(i) \notin {Throws, Undefined} => Based(i)
  BY AllBased DEF Failures
<1>5. QED  BY <1>2, <1>3, <1>4 DEF Based

\* The parser leaves a tree.
LEMMA TreeAtFirst ==
    ASSUME NEW program \in Programs, NEW h, Holds(h, program)
    PROVE  Tree(h) /\ Titled(h) /\ Ranked(h)
<1> DEFINE N == Len(program)
           F == FirstNode
<1>1. /\ N \in Nat /\ Len(h) = F + N /\ F \in Nat /\ Len(TypeRefs) \in Nat /\ Len(TypeRefs) <= F
      /\ Len(h) \in Nat
  BY ProgramIs, ConstantsAre DEF Holds
<1>2. ASSUME NEW m \in 1 .. N
      PROVE  /\ h[F + m].class = program[m].class /\ h[F + m].name = program[m].name
             /\ Len(h[F + m].parts) = Len(program[m].parts) /\ Len(program[m].parts) \in Nat
             /\ \A k \in 1 .. Len(program[m].parts) :
                    /\ h[F + m].parts[k] = IF program[m].parts[k] = 0 THEN 0 ELSE F + program[m].parts[k]
                    /\ program[m].parts[k] \in Nat /\ program[m].parts[k] < m
                    /\ program[m].class # "variable" => program[m].parts[k] # 0
                    /\ program[m].class = "variable" => program[m].parts[k] = 0
             /\ program[m].class = "variable" => Len(program[m].parts) = 1
             /\ program[m].class \in Operators \cup {"address"} => Len(program[m].parts) >= 1
             /\ program[m].class = "conditional" => Len(program[m].parts) >= 2
  <2> DEFINE p == program[m].parts
             q == h[F + m].parts
  <2>1. h[F + m].class = program[m].class /\ h[F + m].name = program[m].name /\ q = PartsOf(program, m)
    BY HeldAtFirst
  <2>2. Len(q) = Len(p) /\ \A k \in 1 .. Len(p) : q[k] = IF p[k] = 0 THEN 0 ELSE F + p[k]
    BY <2>1, PartsAre
  <2>3. \A k \in 1 .. Len(p) : p[k] \in Nat /\ p[k] < m /\ (program[m].class # "variable" => p[k] # 0)
    BY ProgramIs
  <2>4. Len(p) \in Nat /\ p \in Seq(Nat) /\ DOMAIN p = 1 .. Len(p) /\ m \in DOMAIN program
    BY ProgramIs
  <2>5. \A k \in 1 .. Len(p) : program[m].class = "variable" => p[k] = 0
    <3>1. \A k \in DOMAIN p : p[k] \in IF program[m].class = "variable" THEN {0} ELSE 1 .. m - 1
      BY <2>4, ProgramAssumption
    <3> HIDE DEF p
    <3>2. QED  BY <2>4, <3>1
  <2>6. /\ program[m].class = "variable" => Len(p) = 1
        /\ program[m].class \in Places \cup {"call", "address", "unary", "assign", "binary"} => p # <<>>
        /\ program[m].class = "conditional" => Len(p) = 3
    BY <2>4, ProgramAssumption
  <2>7. p # <<>> => Len(p) >= 1
    <3>1. p # <<>> => Len(p) # 0
      BY <2>4, EmptySeq
    <3>2. QED  BY <2>4, <3>1
  <2>8. program[m].class \in Operators \cup {"address"} => Len(p) >= 1
    <3> HIDE DEF p
    <3>1. program[m].class = "conditional" => Len(p) >= 1
      BY <2>6
    <3>2. program[m].class \in Places \cup {"call", "address", "unary", "assign", "binary"} => Len(p) >= 1
      BY <2>6, <2>7
    <3>3. QED  BY <3>1, <3>2 DEF Operators
  <2>9. program[m].class = "conditional" => Len(p) >= 2
    <3> HIDE DEF p
    <3>1. QED  BY <2>6
  <2>10. program[m].class = "variable" => Len(p) = 1
    BY <2>6
  <2>11. Len(q) = Len(p) /\ Len(p) \in Nat
    BY <2>2, <2>4
  <2>12. \A k \in 1 .. Len(p) :
            /\ q[k] = IF p[k] = 0 THEN 0 ELSE F + p[k]
            /\ p[k] \in Nat /\ p[k] < m
            /\ program[m].class # "variable" => p[k] # 0
            /\ program[m].class = "variable" => p[k] = 0
    BY <2>2, <2>3, <2>5
  <2>13. QED  BY <2>1, <2>8, <2>9, <2>10, <2>11, <2>12
<1>3. \A i \in F + 1 .. Len(h) : \E m \in 1 .. N : i = F + m
  <2> SUFFICES ASSUME NEW i \in F + 1 .. Len(h) PROVE \E m \in 1 .. N : i = F + m
    OBVIOUS
  <2>1. i - F \in 1 .. N /\ i = F + (i - F)
    BY <1>1
  <2>2. QED  BY <2>1
<1>4. Tree(h)
  <2>1. \A i \in 1 .. F : h[i].class \in {"type", "entity"} /\ h[i].parts = <<>>
    BY HeldAtFirst
  <2>2. ASSUME NEW i \in F + 1 .. Len(h)
        PROVE  /\ h[i].class = "variable" => h[i].parts[1] \in {0, EntityId(h[i].name)}
               /\ h[i].class # "variable" => \A k \in 1 .. Len(h[i].parts) : h[i].parts[k] > F
               /\ h[i].class \in Operators \cup {"address"} => Len(h[i].parts) >= 1
               /\ h[i].class = "conditional" => Len(h[i].parts) >= 2
    <3>1. PICK m \in 1 .. N : i = F + m
      BY <1>3
    <3> HIDE DEF F, N
    <3>2. h[i].class = "variable" => h[i].parts[1] = 0
      <4> SUFFICES ASSUME h[i].class = "variable" PROVE h[i].parts[1] = 0
        OBVIOUS
      <4>1. program[m].class = "variable"
        BY <1>2, <3>1
      <4>2. Len(program[m].parts) = 1
        BY <1>2, <4>1
      <4>3. 1 \in 1 .. Len(program[m].parts)
        BY <4>2
      <4>4. program[m].parts[1] = 0
        BY <1>2, <4>1, <4>3
      <4>5. QED  BY <1>2, <3>1, <4>3, <4>4
    <3>3. h[i].class # "variable" => \A k \in 1 .. Len(h[i].parts) : h[i].parts[k] > F
      <4> SUFFICES ASSUME h[i].class # "variable", NEW k \in 1 .. Len(h[i].parts) PROVE h[i].parts[k] > F
        OBVIOUS
      <4>1. program[m].class # "variable" /\ k \in 1 .. Len(program[m].parts)
        BY <1>2, <3>1
      <4>2. program[m].parts[k] \in Nat /\ program[m].parts[k] # 0 /\ h[i].parts[k] = F + program[m].parts[k]
        BY <1>2, <3>1, <4>1
      <4>3. QED  BY <1>1, <4>2
    <3>4. QED  BY <1>2, <3>1, <3>2, <3>3
  <2>3. QED  BY <2>1, <2>2 DEF Tree
<1>5. Titled(h)
  <2>1. ASSUME NEW i \in 1 .. Len(TypeRefs) PROVE h[i].name = TypeRefs[i]
    <3>1. h[i] = TypeObject(program, i)
      BY DEF Holds
    <3> DEFINE c == 1 + Cardinality({k \in DOMAIN program : TypeId(program[k].type) = i})
    <3>2. TypeObject(program, i) = Object("type", TypeRefs[i], <<>>, 0, c)
      BY DEF TypeObject
    <3> HIDE DEF c
    <3>3. QED  BY <3>1, <3>2 DEF Object
  <2>2. ASSUME NEW i \in 1 .. Len(Names) PROVE h[Len(TypeRefs) + i].name = Names[i]
    <3>1. h[Len(TypeRefs) + i] = EntityObject(i)
      BY DEF Holds
    <3>2. QED  BY <3>1 DEF EntityObject, Object
  <2>3. QED  BY <2>1, <2>2 DEF Titled
<1>6. Ranked(h)
  <2> DEFINE rank == [i \in 1 .. Len(h) |-> i]
  <2>1. rank \in [1 .. Len(h) -> 0 .. Len(h)]
    OBVIOUS
  <2>2. ASSUME NEW i \in F + 1 .. Len(h), NEW k \in 1 .. Len(h[i].parts), h[i].parts[k] > F
        PROVE  h[i].parts[k] \in 1 .. Len(h) /\ h[i].parts[k] < i
    <3>1. PICK m \in 1 .. N : i = F + m
      BY <1>3
    <3> HIDE DEF F, N
    <3>2. k \in 1 .. Len(program[m].parts)
      BY <1>2, <3>1
    <3>3. /\ h[i].parts[k] = IF program[m].parts[k] = 0 THEN 0 ELSE F + program[m].parts[k]
          /\ program[m].parts[k] \in Nat /\ program[m].parts[k] < m
      BY <1>2, <3>1, <3>2
    <3>4. program[m].parts[k] # 0
      BY <1>1, <2>2, <3>3
    <3>5. PICK x \in Nat : x = program[m].parts[k]
      BY <3>3
    <3>6. h[i].parts[k] = F + x /\ x < m /\ x # 0
      BY <3>3, <3>4, <3>5
    <3>7. F + x \in 1 .. Len(h) /\ F + x < i
      BY <1>1, <3>1, <3>5, <3>6
    <3>8. QED  BY <3>6, <3>7
  <2>3. ASSUME NEW i \in F + 1 .. Len(h), NEW k \in 1 .. Len(h[i].parts), h[i].parts[k] > F
        PROVE  rank[h[i].parts[k]] < rank[i]
    <3>1. i \in 1 .. Len(h)
      BY <1>1
    <3>2. h[i].parts[k] \in 1 .. Len(h) /\ h[i].parts[k] < i
      BY <2>2, <2>3
    <3>3. QED  BY <3>1, <3>2
  <2> HIDE DEF rank
  <2>4. Ranks(h, Len(h), rank)
    BY <2>1, <2>3 DEF Ranks
  <2>5. QED  BY <1>1, <2>4 DEF Ranked
<1>7. QED  BY <1>4, <1>5, <1>6

\* The first heap is one of those.
LEMMA InitTree == Init => TreeInv
<1> SUFFICES ASSUME Init PROVE TreeInv
  OBVIOUS
<1>1. PICK program \in Programs : heap = Built(program)
  BY DEF Init, Built, TypeObject, EntityObject, NodeObject, PartsOf
<1>2. Holds(heap, program)
  BY <1>1, BuiltIs
<1>3. QED  BY <1>2, TreeAtFirst DEF TreeInv

(***************************************************************************)
(* The tree stays a tree: casts come between a node and its operand, which  *)
(* the order makes room for.                                               *)
(***************************************************************************)

\* Heaps that differ in counts and types only, and those in which one operand has been replaced.
Alike(h, g) ==
    /\ Len(g) = Len(h)
    /\ \A i \in 1 .. Len(h) : g[i].class = h[i].class /\ g[i].name = h[i].name /\ g[i].parts = h[i].parts

\* A tree and its order.
Grove(h, M, rank) == Tree(h) /\ Titled(h) /\ Ranks(h, M, rank)

\* Counts and types are of no importance to the tree.
LEMMA AlikeGrove ==
    ASSUME NEW h, NEW g, NEW M, NEW rank, Len(h) \in Nat, FirstNode <= Len(h), Alike(h, g), Grove(h, M, rank)
    PROVE  Grove(g, M, rank)
<1>1. Len(g) = Len(h) /\ FirstNode \in Nat /\ Len(TypeRefs) \in Nat /\ Len(TypeRefs) <= FirstNode
  BY ConstantsAre DEF Alike
<1>2. \A i \in 1 .. FirstNode : i \in 1 .. Len(h)
  BY <1>1
<1>3. \A i \in FirstNode + 1 .. Len(h) : i \in 1 .. Len(h)
  BY <1>1
<1>4. \A i \in 1 .. Len(h) : g[i].class = h[i].class /\ g[i].name = h[i].name /\ g[i].parts = h[i].parts
  BY DEF Alike
<1>5. Tree(g)
  BY <1>1, <1>2, <1>3, <1>4 DEF Grove, Tree
<1>6. Titled(g)
  <2>1. \A i \in 1 .. Len(TypeRefs) : i \in 1 .. Len(h)
    BY <1>1
  <2>2. \A i \in 1 .. Len(Names) : Len(TypeRefs) + i \in 1 .. Len(h)
    BY <1>1, ConstantsAre DEF FirstNode
  <2>3. QED  BY <1>4, <2>1, <2>2 DEF Grove, Titled
<1>7. Ranks(g, M, rank)
  BY <1>1, <1>3, <1>4 DEF Grove, Ranks
<1>8. QED  BY <1>5, <1>6, <1>7 DEF Grove

\* Objects that are counted look as they did.
LEMMA KeptAlike ==
    ASSUME NEW h, NEW g, Kept(h, g), Len(g) = Len(h)
    PROVE  Alike(h, g)
BY DEF Kept, Alike

\* g is h but for one operand.
Patched(h, g, n, k, j) ==
    /\ Len(g) = Len(h) /\ \A i \in 1 .. Len(h) : i # n => g[i] = h[i]
    /\ g[n].class = h[n].class /\ g[n].name = h[n].name /\ Len(g[n].parts) = Len(h[n].parts)
    /\ \A x \in 1 .. Len(h[n].parts) : g[n].parts[x] = IF x = k THEN j ELSE h[n].parts[x]

\* That is what Put does.
LEMMA PutPatches ==
    ASSUME NEW w \in Worlds, NEW n \in 1 .. Len(w.heap), NEW k \in 1 .. Len(w.heap[n].parts), NEW j \in Nat
    PROVE  Patched(w.heap, Put(w, n, k, j).heap, n, k, j)
<1> DEFINE v == Put(w, n, k, j)
<1> HIDE DEF v
<1>1. /\ v \in Worlds /\ Besides(w, v) /\ OnlyAt(w.heap, v.heap, n)
      /\ v.heap[n].class = w.heap[n].class /\ v.heap[n].name = w.heap[n].name
      /\ v.heap[n].type = w.heap[n].type /\ v.heap[n].count = w.heap[n].count
      /\ v.heap[n].parts \in Seq(Nat) /\ Len(v.heap[n].parts) = Len(w.heap[n].parts)
      /\ \A x \in 1 .. Len(w.heap[n].parts) :
            v.heap[n].parts[x] = IF x = k THEN j ELSE w.heap[n].parts[x]
  BY PutIs DEF v
<1>2. Patched(w.heap, v.heap, n, k, j)
  BY <1>1 DEF Patched, OnlyAt
<1>3. QED  BY <1>2 DEF v

\* The tree stays one if what is put in comes before the node; the order stays too.
LEMMA PatchGrove ==
    ASSUME NEW h, NEW g, NEW n \in 1 .. Len(h), NEW k \in 1 .. Len(h[n].parts), NEW j \in 1 .. Len(h),
           Patched(h, g, n, k, j), Len(h) \in Nat, FirstNode <= Len(h), NEW M, NEW rank, Grove(h, M, rank),
           h[n].class = "variable" => k = 1 /\ j = EntityId(h[n].name) /\ j <= FirstNode,
           h[n].class # "variable" => j > FirstNode /\ rank[j] < rank[n]
    PROVE  Grove(g, M, rank)
<1>1. /\ FirstNode \in Nat /\ Len(TypeRefs) \in Nat /\ Len(TypeRefs) <= FirstNode
      /\ Len(h) \in Nat /\ FirstNode <= Len(h) /\ Grove(h, M, rank)
  BY ConstantsAre
<1>2. /\ Len(g) = Len(h) /\ \A i \in 1 .. Len(h) : i # n => g[i] = h[i]
      /\ g[n].class = h[n].class /\ g[n].name = h[n].name /\ Len(g[n].parts) = Len(h[n].parts)
      /\ \A x \in 1 .. Len(h[n].parts) : g[n].parts[x] = IF x = k THEN j ELSE h[n].parts[x]
  BY DEF Patched
<1>3. /\ k \in 1 .. Len(h[n].parts) /\ n \in 1 .. Len(h) /\ j \in 1 .. Len(h)
      /\ h[n].class = "variable" => k = 1 /\ j = EntityId(h[n].name) /\ j <= FirstNode
      /\ h[n].class # "variable" => j > FirstNode /\ rank[j] < rank[n]
  OBVIOUS
<1>4. n \notin 1 .. FirstNode
  <2>1. n \in 1 .. FirstNode => h[n].parts = <<>>
    BY <1>1 DEF Grove, Tree
  <2>2. Len(<<>>) = 0
    BY EmptySeq
  <2>3. QED  BY <1>3, <2>1, <2>2
<1>5. n \in FirstNode + 1 .. Len(h)
  BY <1>1, <1>3, <1>4
<1>6. \A i \in 1 .. Len(h) : g[i].class = h[i].class /\ g[i].name = h[i].name
                              /\ Len(g[i].parts) = Len(h[i].parts)
  BY <1>2
<1>7. Tree(g)
  <2>1. ASSUME NEW i \in 1 .. FirstNode PROVE g[i].class \in {"type", "entity"} /\ g[i].parts = <<>>
    <3>1. i # n /\ i \in 1 .. Len(h)
      BY <1>1, <1>4
    <3>2. QED  BY <1>1, <1>2, <3>1 DEF Grove, Tree
  <2>2. ASSUME NEW i \in FirstNode + 1 .. Len(g)
        PROVE  /\ g[i].class = "variable" => g[i].parts[1] \in {0, EntityId(g[i].name)}
               /\ g[i].class # "variable" => \A x \in 1 .. Len(g[i].parts) : g[i].parts[x] > FirstNode
               /\ g[i].class \in Operators \cup {"address"} => Len(g[i].parts) >= 1
               /\ g[i].class = "conditional" => Len(g[i].parts) >= 2
    <3>1. i \in FirstNode + 1 .. Len(h) /\ i \in 1 .. Len(h)
      BY <1>1, <1>2
    <3>2. /\ h[i].class = "variable" => h[i].parts[1] \in {0, EntityId(h[i].name)}
          /\ h[i].class # "variable" => \A x \in 1 .. Len(h[i].parts) : h[i].parts[x] > FirstNode
          /\ h[i].class \in Operators \cup {"address"} => Len(h[i].parts) >= 1
          /\ h[i].class = "conditional" => Len(h[i].parts) >= 2
      BY <1>1, <3>1 DEF Grove, Tree
    <3>3. CASE i # n
      <4>1. g[i] = h[i]
        BY <1>2, <3>1, <3>3
      <4>2. QED  BY <3>2, <4>1
    <3>4. CASE i = n
      <4>1. g[i].class = "variable" => g[i].parts[1] \in {0, EntityId(g[i].name)}
        <5> SUFFICES ASSUME g[i].class = "variable" PROVE g[i].parts[1] = EntityId(g[i].name)
          OBVIOUS
        <5>1. h[n].class = "variable" /\ h[n].name = g[i].name
          BY <1>2, <3>4
        <5>2. k = 1 /\ j = EntityId(h[n].name)
          BY <1>3, <5>1
        <5>3. g[n].parts[1] = j
          BY <1>2, <1>3, <5>2
        <5>4. QED  BY <3>4, <5>1, <5>2, <5>3
      <4>2. g[i].class # "variable" => \A x \in 1 .. Len(g[i].parts) : g[i].parts[x] > FirstNode
        <5> SUFFICES ASSUME g[i].class # "variable", NEW x \in 1 .. Len(g[i].parts)
                     PROVE  g[i].parts[x] > FirstNode
          OBVIOUS
        <5>1. h[n].class # "variable" /\ x \in 1 .. Len(h[n].parts)
          BY <1>2, <3>4
        <5>2. g[n].parts[x] = IF x = k THEN j ELSE h[n].parts[x]
          BY <1>2, <5>1
        <5>3. h[n].parts[x] > FirstNode /\ j > FirstNode
          BY <1>3, <3>2, <3>4, <5>1
        <5>4. QED  BY <3>4, <5>2, <5>3
      <4>3. QED  BY <1>6, <3>1, <3>2, <4>1, <4>2
    <3>5. QED  BY <3>3, <3>4
  <2>3. QED  BY <2>1, <2>2 DEF Tree
<1>8. Titled(g)
  <2>1. \A i \in 1 .. Len(TypeRefs) : i \in 1 .. Len(h)
    BY <1>1
  <2>2. \A i \in 1 .. Len(Names) : Len(TypeRefs) + i \in 1 .. Len(h)
    BY <1>1, ConstantsAre DEF FirstNode
  <2>3. QED  BY <1>1, <1>6, <2>1, <2>2 DEF Grove, Titled
<1>9. Ranks(g, M, rank)
  <2>1. rank \in [1 .. Len(g) -> 0 .. M]
    BY <1>1, <1>2 DEF Grove, Ranks
  <2>2. ASSUME NEW i \in FirstNode + 1 .. Len(g), NEW x \in 1 .. Len(g[i].parts), g[i].parts[x] > FirstNode
        PROVE  rank[g[i].parts[x]] < rank[i]
    <3>1. i \in FirstNode + 1 .. Len(h) /\ i \in 1 .. Len(h) /\ x \in 1 .. Len(h[i].parts)
      BY <1>1, <1>2, <1>6
    <3>2. h[i].parts[x] > FirstNode => rank[h[i].parts[x]] < rank[i]
      BY <1>1, <3>1 DEF Grove, Ranks
    <3>3. CASE i # n \/ x # k
      <4>1. g[i].parts[x] = h[i].parts[x]
        BY <1>2, <3>1, <3>3
      <4>2. QED  BY <2>2, <3>2, <4>1
    <3>4. CASE i = n /\ x = k
      <4>1. g[i].parts[x] = j
        BY <1>2, <1>3, <3>4
      <4>2. h[n].class # "variable"
        BY <1>1, <1>3, <2>2, <4>1
      <4>3. QED  BY <1>3, <3>4, <4>1, <4>2
    <3>5. QED  BY <3>3, <3>4
  <2>3. QED  BY <2>1, <2>2 DEF Ranks
<1>10. QED  BY <1>7, <1>8, <1>9 DEF Grove

\* A cast comes between its operand and what becomes of it.
Between(h, g, rank) ==
    [i \in 1 .. Len(g) |-> IF i <= Len(h) THEN 2 * rank[i]
                           ELSE IF g[i].parts = <<>> THEN 0 ELSE 2 * rank[g[i].parts[1]] + 1]

\* With what the pass has made, the heap is a tree in the order Between.
LEMMA MadeGrove ==
    ASSUME NEW h, NEW g, NEW M \in Nat, NEW rank, Len(h) \in Nat, FirstNode <= Len(h), Grove(h, M, rank),
           \A i \in 1 .. Len(h) : \A x \in 1 .. Len(h[i].parts) : h[i].parts[x] \in 0 .. Len(h),
           Kept(h, g), Len(g) = Len(h) + 1, g[Len(h) + 1].class \in {"literal", "cast"},
           \/ g[Len(h) + 1].parts = <<>>
           \/ \E p \in FirstNode + 1 .. Len(h) : g[Len(h) + 1].parts = <<p>>
    PROVE  Grove(g, 2 * M + 1, Between(h, g, rank))
<1> DEFINE m == Len(h) + 1
           between == Between(h, g, rank)
<1>1. FirstNode \in Nat /\ Len(TypeRefs) \in Nat /\ Len(TypeRefs) <= FirstNode
  BY ConstantsAre
<1>2. \A i \in 1 .. Len(h) : g[i].class = h[i].class /\ g[i].name = h[i].name /\ g[i].parts = h[i].parts
  BY DEF Kept
<1>3. /\ g[m].class \in {"literal", "cast"}
      /\ \A x \in 1 .. Len(g[m].parts) :
            /\ x = 1 /\ g[m].parts # <<>> /\ g[m].parts[x] \in FirstNode + 1 .. Len(h)
  <2>1. CASE g[m].parts = <<>>
    <3>1. Len(g[m].parts) = 0
      BY <2>1, EmptySeq
    <3>2. QED  BY <3>1
  <2>2. ASSUME NEW p \in FirstNode + 1 .. Len(h), g[m].parts = <<p>>
        PROVE  \A x \in 1 .. Len(g[m].parts) :
                    /\ x = 1 /\ g[m].parts # <<>> /\ g[m].parts[x] \in FirstNode + 1 .. Len(h)
    <3> DEFINE s == <<p>>
    <3>1. Len(s) = 1 /\ s[1] = p /\ s # <<>>
      OBVIOUS
    <3> HIDE DEF s
    <3>2. \A x \in 1 .. Len(s) : x = 1 /\ s # <<>> /\ s[x] \in FirstNode + 1 .. Len(h)
      BY <3>1
    <3>3. QED  BY <2>2, <3>2 DEF s
  <2>3. QED  BY <2>1, <2>2
<1> HIDE DEF m
<1>4. m = Len(h) + 1 /\ Len(g) = m
  BY DEF m
<1>5. \A i \in FirstNode + 1 .. Len(g) : i = m \/ (i \in FirstNode + 1 .. Len(h) /\ i \in 1 .. Len(h) /\ i # m)
  BY <1>1, <1>4
<1>6. Tree(g)
  <2>1. \A i \in 1 .. FirstNode : i \in 1 .. Len(h)
    BY <1>1
  <2>2. \A i \in 1 .. FirstNode : g[i].class \in {"type", "entity"} /\ g[i].parts = <<>>
    BY <1>2, <2>1 DEF Grove, Tree
  <2>3. ASSUME NEW i \in FirstNode + 1 .. Len(g)
        PROVE  /\ g[i].class = "variable" => g[i].parts[1] \in {0, EntityId(g[i].name)}
               /\ g[i].class # "variable" => \A x \in 1 .. Len(g[i].parts) : g[i].parts[x] > FirstNode
               /\ g[i].class \in Operators \cup {"address"} => Len(g[i].parts) >= 1
               /\ g[i].class = "conditional" => Len(g[i].parts) >= 2
    <3>1. CASE i # m
      BY <1>2, <1>5, <3>1 DEF Grove, Tree
    <3>2. CASE i = m
      <4>1. \A x \in 1 .. Len(g[m].parts) : g[m].parts[x] > FirstNode
        BY <1>1, <1>3
      <4>2. g[m].class # "variable" /\ g[m].class \notin Operators \cup {"address"} /\ g[m].class # "conditional"
        BY <1>3 DEF Operators, Places
      <4>3. QED  BY <3>2, <4>1, <4>2
    <3>3. QED  BY <3>1, <3>2
  <2>4. QED  BY <2>2, <2>3 DEF Tree
<1>7. Titled(g)
  <2>1. \A i \in 1 .. Len(TypeRefs) : i \in 1 .. Len(h)
    BY <1>1
  <2>2. \A i \in 1 .. Len(Names) : Len(TypeRefs) + i \in 1 .. Len(h)
    BY <1>1, ConstantsAre DEF FirstNode
  <2>3. QED  BY <1>2, <2>1, <2>2 DEF Grove, Titled
<1>8. /\ \A i \in 1 .. Len(h) : rank[i] \in 0 .. M /\ between[i] = 2 * rank[i] /\ i \in 1 .. Len(g)
      /\ m \in 1 .. Len(g) /\ between[m] = IF g[m].parts = <<>> THEN 0 ELSE 2 * rank[g[m].parts[1]] + 1
  <2>1. \A i \in 1 .. Len(h) : rank[i] \in 0 .. M /\ i \in 1 .. Len(g) /\ i <= Len(h)
    BY <1>4 DEF Grove, Ranks
  <2>2. m \in 1 .. Len(g) /\ ~(m <= Len(h))
    BY <1>4
  <2>3. QED  BY <2>1, <2>2 DEF Between
<1>9. g[m].parts # <<>> => g[m].parts[1] \in 1 .. Len(h)
  <2>1. CASE g[m].parts = <<>>
    BY <2>1
  <2>2. ASSUME NEW p \in FirstNode + 1 .. Len(h), g[m].parts = <<p>> PROVE g[m].parts[1] \in 1 .. Len(h)
    BY <1>1, <2>2
  <2>3. QED  BY <2>1, <2>2 DEF m
<1>10. between \in [1 .. Len(g) -> 0 .. 2 * M + 1]
  <2>1. ASSUME NEW i \in 1 .. Len(g) PROVE between[i] \in 0 .. 2 * M + 1
    <3> HIDE DEF between
    <3>1. CASE i # m
      <4>1. i \in 1 .. Len(h)
        BY <1>4, <3>1
      <4>2. rank[i] \in 0 .. M /\ between[i] = 2 * rank[i]
        BY <1>8, <4>1
      <4>3. QED  BY <4>2
    <3>2. CASE i = m /\ g[m].parts = <<>>
      BY <1>8, <3>2
    <3>3. CASE i = m /\ g[m].parts # <<>>
      <4>1. between[i] = 2 * rank[g[m].parts[1]] + 1 /\ rank[g[m].parts[1]] \in 0 .. M
        BY <1>8, <1>9, <3>3
      <4>2. QED  BY <4>1
    <3>4. QED  BY <3>1, <3>2, <3>3
  <2>2. between = [i \in 1 .. Len(g) |-> between[i]]
    BY DEF Between
  <2> HIDE DEF between
  <2>3. QED  BY <2>1, <2>2
<1> HIDE DEF between
<1>11. ASSUME NEW i \in FirstNode + 1 .. Len(g), NEW x \in 1 .. Len(g[i].parts), g[i].parts[x] > FirstNode
       PROVE  between[g[i].parts[x]] < between[i]
  <2>1. CASE i # m
    <3>1. i \in FirstNode + 1 .. Len(h) /\ i \in 1 .. Len(h) /\ g[i].parts = h[i].parts
      BY <1>2, <1>5, <2>1
    <3> DEFINE p == h[i].parts[x]
    <3>2. g[i].parts[x] = p /\ x \in 1 .. Len(h[i].parts) /\ p > FirstNode
      BY <1>11, <3>1
    <3>3. rank[p] < rank[i]
      BY <3>1, <3>2 DEF Grove, Ranks
    <3>4. p \in 1 .. Len(h)
      <4>1. p \in 0 .. Len(h)
        BY <3>1, <3>2
      <4> HIDE DEF p
      <4>2. QED  BY <1>1, <3>2, <4>1
    <3> HIDE DEF p
    <3>5. between[p] = 2 * rank[p] /\ between[i] = 2 * rank[i] /\ rank[p] \in 0 .. M /\ rank[i] \in 0 .. M
      BY <1>8, <3>1, <3>4
    <3>6. between[p] < between[i]
      BY <3>3, <3>5
    <3>7. QED  BY <3>2, <3>6
  <2>2. CASE i = m
    <3>1. x = 1 /\ g[m].parts # <<>> /\ g[m].parts[1] \in FirstNode + 1 .. Len(h)
      BY <1>3, <2>2
    <3> DEFINE p == g[m].parts[1]
    <3>2. p \in 1 .. Len(h)
      BY <1>1, <3>1
    <3> HIDE DEF p
    <3>3. between[p] = 2 * rank[p] /\ between[m] = 2 * rank[p] + 1 /\ rank[p] \in 0 .. M
      BY <1>8, <3>1, <3>2 DEF p
    <3>4. between[p] < between[m]
      BY <3>3
    <3>5. QED  BY <2>2, <3>1, <3>4 DEF p
  <2>3. QED  BY <2>1, <2>2
<1>12. Ranks(g, 2 * M + 1, between)
  BY <1>10, <1>11 DEF Ranks
<1>13. QED  BY <1>6, <1>7, <1>12 DEF Grove, between

\* What may replace an operand.
Fits(h, rank, n, k, j) ==
    /\ n \in 1 .. Len(h) /\ k \in 1 .. Len(h[n].parts) /\ j \in 1 .. Len(h)
    /\ h[n].class = "variable" => k = 1 /\ j = EntityId(h[n].name) /\ j <= FirstNode
    /\ h[n].class # "variable" => j > FirstNode /\ rank[j] < rank[n]

\* The setters keep a tree a tree.
LEMMA PutGrove ==
    ASSUME NEW w, Formed(w), NEW a, Formed(a), Alike(w.heap, a.heap), NEW M, NEW rank, Grove(w.heap, M, rank),
           NEW n, NEW k, NEW j, Fits(w.heap, rank, n, k, j)
    PROVE  Grove(Put(a, n, k, j).heap, M, rank)
<1> DEFINE h == a.heap
           g == Put(a, n, k, j).heap
<1>1. /\ Len(w.heap) \in Nat /\ FirstNode <= Len(w.heap) /\ a \in Worlds /\ Len(h) \in Nat /\ FirstNode <= Len(h)
  BY WorldIs DEF Formed
<1>2. Grove(h, M, rank)
  BY <1>1, AlikeGrove
<1>3. Len(h) = Len(w.heap)
  BY DEF Alike
<1>4. /\ n \in 1 .. Len(w.heap) /\ k \in 1 .. Len(w.heap[n].parts) /\ j \in 1 .. Len(w.heap)
      /\ w.heap[n].class = "variable" => k = 1 /\ j = EntityId(w.heap[n].name) /\ j <= FirstNode
      /\ w.heap[n].class # "variable" => j > FirstNode /\ rank[j] < rank[n]
  BY DEF Fits
<1>5. h[n].class = w.heap[n].class /\ h[n].name = w.heap[n].name /\ h[n].parts = w.heap[n].parts
  BY <1>4 DEF Alike
<1>6. n \in 1 .. Len(h) /\ k \in 1 .. Len(h[n].parts) /\ j \in 1 .. Len(h) /\ j \in Nat
  BY <1>1, <1>3, <1>4, <1>5
<1>7. Patched(h, g, n, k, j)
  BY <1>1, <1>6, PutPatches
<1>8. /\ h[n].class = "variable" => k = 1 /\ j = EntityId(h[n].name) /\ j <= FirstNode
      /\ h[n].class # "variable" => j > FirstNode /\ rank[j] < rank[n]
  BY <1>4, <1>5
<1> HIDE DEF h, g
<1>9. Grove(g, M, rank)
  BY <1>1, <1>2, <1>6, <1>7, <1>8, PatchGrove
<1>10. QED  BY <1>9 DEF g

LEMMA SwappingGrove ==
    ASSUME NEW w, Formed(w), NEW M, NEW rank, Grove(w.heap, M, rank), NEW n, NEW k, NEW j,
           Fits(w.heap, rank, n, k, j)
    PROVE  Grove(SetSwapping(w, n, k, j).heap, M, rank)
<1> DEFINE a == Inc(w, j)
           b == Later(a, Operand(w, n, k))
<1>1. n \in 1 .. Len(w.heap) /\ k \in 1 .. Len(w.heap[n].parts) /\ j \in 1 .. Len(w.heap)
  BY DEF Fits
<1>2. Formed(a) /\ Kept(w.heap, a.heap) /\ Len(a.heap) = Len(w.heap)
  BY <1>1, IncOwed
<1>3. Operand(w, n, k) \in 0 .. Len(w.heap)
  BY <1>1, OperandIs
<1> HIDE DEF a
<1>4. Formed(b) /\ b.heap = a.heap
  BY <1>2, <1>3, LaterOwed
<1>5. SetSwapping(w, n, k, j) = Put(b, n, k, j)
  BY DEF SetSwapping, a
<1> HIDE DEF b
<1>6. Alike(w.heap, b.heap)
  BY <1>2, <1>4, KeptAlike
<1>7. QED  BY <1>4, <1>5, <1>6, PutGrove

LEMMA CountingGrove ==
    ASSUME NEW w, Formed(w), NEW M, NEW rank, Grove(w.heap, M, rank), NEW n, NEW k, NEW j,
           Fits(w.heap, rank, n, k, j)
    PROVE  Grove(SetCounting(w, n, k, j).heap, M, rank)
<1> DEFINE a == Inc(w, j)
           b == Put(a, n, k, j)
           v == Lose(b, Operand(w, n, k))
<1>1. n \in 1 .. Len(w.heap) /\ k \in 1 .. Len(w.heap[n].parts) /\ j \in 1 .. Len(w.heap)
  BY DEF Fits
<1>2. Formed(a) /\ Kept(w.heap, a.heap) /\ Len(a.heap) = Len(w.heap)
  BY <1>1, IncOwed
<1>3. Operand(w, n, k) \in 0 .. Len(w.heap)
  BY <1>1, OperandIs
<1> HIDE DEF a
<1>4. Alike(w.heap, a.heap)
  BY <1>2, KeptAlike
<1>5. Grove(b.heap, M, rank)
  BY <1>2, <1>4, PutGrove
<1>6. n \in 1 .. Len(a.heap) /\ k \in 1 .. Len(a.heap[n].parts) /\ j \in 1 .. Len(a.heap)
  BY <1>1, <1>4 DEF Alike
<1>7. Formed(b) /\ Len(b.heap) = Len(a.heap)
  BY <1>2, <1>6, PutOwed
<1> HIDE DEF b
<1>8. v.heap = b.heap
  BY <1>2, <1>3, <1>7, LoseOwed
<1>9. SetCounting(w, n, k, j) = v
  BY DEF SetCounting, a, b
<1> HIDE DEF v
<1>10. QED  BY <1>5, <1>8, <1>9

LEMMA StoringGrove ==
    ASSUME NEW w, Formed(w), NEW M, NEW rank, Grove(w.heap, M, rank), NEW n, NEW k, NEW j,
           Fits(w.heap, rank, n, k, j)
    PROVE  Grove(SetStoring(w, n, k, j).heap, M, rank)
<1> DEFINE a == Put(w, n, k, j)
           v == Blame(a, "set_left")
<1>1. n \in 1 .. Len(w.heap) /\ k \in 1 .. Len(w.heap[n].parts) /\ j \in 1 .. Len(w.heap)
  BY DEF Fits
<1>2. Alike(w.heap, w.heap)
  BY DEF Alike
<1>3. Grove(a.heap, M, rank)
  BY <1>2, PutGrove
<1>4. Formed(a)
  BY <1>1, PutOwed
<1> HIDE DEF a
<1>5. v.heap = a.heap
  <2>1. "set_left" \in Mistakes
    BY DEF Mistakes
  <2>2. QED  BY <1>4, <2>1, BlameOwed
<1>6. SetStoring(w, n, k, j) = v
  BY DEF SetStoring, a
<1> HIDE DEF v
<1>7. QED  BY <1>3, <1>5, <1>6

LEMMA SetOperandGrove ==
    ASSUME NEW w, Formed(w), NEW M, NEW rank, Grove(w.heap, M, rank), NEW n, NEW k, NEW j,
           Fits(w.heap, rank, n, k, j), <<w.heap[n].class, k>> \in Swapping \cup Counting \cup Storing
    PROVE  Grove(SetOperand(w, n, k, j).heap, M, rank)
<1> DEFINE v == SetOperand(w, n, k, j)
<1>1. \/ v = SetSwapping(w, n, k, j)
      \/ v = SetCounting(w, n, k, j)
      \/ v = SetStoring(w, n, k, j)
  BY DEF SetOperand
<1> HIDE DEF v
<1>2. CASE v = SetSwapping(w, n, k, j)
  BY <1>2, SwappingGrove DEF v
<1>3. CASE v = SetCounting(w, n, k, j)
  BY <1>3, CountingGrove DEF v
<1>4. CASE v = SetStoring(w, n, k, j)
  BY <1>4, StoringGrove DEF v
<1>5. QED  BY <1>1, <1>2, <1>3, <1>4 DEF v

\* What the pass makes: a literal has no operands, and a cast one.
Leaf(w, v) == v.heap[Len(w.heap) + 1].class = "literal" /\ v.heap[Len(w.heap) + 1].parts = <<>>
Wrap(w, v, j) == v.heap[Len(w.heap) + 1].class = "cast" /\ v.heap[Len(w.heap) + 1].parts = <<j>>

\* NewLiteral and NewCast do.
LEMMA LiteralIs ==
    ASSUME NEW w, Formed(w), NEW type \in 1 .. Len(TypeRefs)
    PROVE  Fresh(w, NewLiteral(w, type)) /\ Leaf(w, NewLiteral(w, type))
<1> DEFINE u == New(w, "literal", type)
           v == Inc(u, type)
           m == Len(w.heap) + 1
           node == Object("literal", "", <<>>, type, 1)
<1>1. v = NewLiteral(w, type)
  BY DEF NewLiteral
<1>2. Fresh(w, NewLiteral(w, type)) /\ NewLiteral(w, type).heap[m].parts = <<>>
  BY MadeLiteral
<1>3. "literal" \in Labels /\ "literal" # "variable" /\ "literal" # "call"
  BY LabelsAre
<1>4. w \in Worlds /\ w.heap \in Seq(Nodes) /\ Len(w.heap) \in Nat /\ type \in Nat
  BY WorldIs, ConstantsAre
<1>5. u \in Worlds /\ u.heap = Append(w.heap, node)
  BY <1>3, <1>4, NewIs
<1>6. node.class = "literal" /\ node \in Nodes
  <2>1. <<>> \in Seq(Nat) /\ 1 \in Nat
    OBVIOUS
  <2>2. "" \in Labels
    BY DEF Labels
  <2>3. QED  BY <1>3, <1>4, <2>1, <2>2 DEF Nodes, Object
<1>7. Formed(u) /\ Kept(w.heap, u.heap) /\ Len(u.heap) = m
  BY <1>3, NewOwed
<1> HIDE DEF u, node
<1>8. u.heap[m] = node
  BY <1>4, <1>5, <1>6, AppendProperties
<1>9. type \in 1 .. Len(u.heap) /\ m \in 1 .. Len(u.heap)
  <2>1. FirstNode <= Len(w.heap)
    BY DEF Formed
  <2>2. QED  BY <1>4, <1>7, <2>1, ConstantsAre
<1>10. Kept(u.heap, v.heap)
  BY <1>7, <1>9, IncOwed
<1> HIDE DEF v, m
<1>11. v.heap[m].class = "literal"
  BY <1>6, <1>8, <1>9, <1>10 DEF Kept
<1>12. QED  BY <1>1, <1>2, <1>11 DEF Leaf, m

LEMMA CastIs ==
    ASSUME NEW w, Formed(w), NEW type \in 1 .. Len(TypeRefs), NEW j \in 1 .. Len(w.heap)
    PROVE  Fresh(w, NewCast(w, j, type)) /\ Wrap(w, NewCast(w, j, type), j)
<1> DEFINE m == Len(w.heap) + 1
           u == NewLiteral(w, type)
           old == u.heap[m]
           node == [old EXCEPT !.class = "cast", !.parts = <<j>>]
           h == [u.heap EXCEPT ![m] = node]
           x == [u EXCEPT !.heap = h]
           v == Inc(x, j)
<1>1. Fresh(w, NewCast(w, j, type))
  BY MadeCast
<1>2. v = NewCast(w, j, type)
  BY DEF NewCast, NewCastMoving
<1>3. Fresh(w, u) /\ u.heap[m].parts = <<>>
  BY MadeLiteral
<1>4. x = Wrapping(u, m, j)
  BY DEF Wrapping
<1> HIDE DEF u
<1>5. /\ Formed(u) /\ Len(u.heap) = m /\ Len(w.heap) \in Nat /\ m \in 1 .. Len(u.heap) /\ j \in 1 .. Len(u.heap)
      /\ u.heap \in Seq(Nodes) /\ u \in Worlds
  BY <1>3, WorldIs DEF Fresh
<1>6. Formed(x)
  BY <1>3, <1>4, <1>5, WrapOwed
<1>7. old \in Nodes
  BY <1>5, ElementOfSeq
<1> HIDE DEF old
<1>8. node \in Nodes /\ node.class = "cast" /\ node.parts = <<j>>
  <2> DEFINE s == <<j>>
             base == [old EXCEPT !.class = "cast"]
  <2>1. s \in Seq(Nat)
    <3>1. j \in Nat
      BY <1>5
    <3>2. QED  BY <3>1
  <2> HIDE DEF s
  <2>2. "cast" \in Labels
    BY LabelsAre
  <2>3. base \in Nodes /\ base.class = "cast"
    BY <1>7, <2>2 DEF Nodes
  <2>4. node = [base EXCEPT !.parts = s]
    BY DEF s
  <2> HIDE DEF base, node
  <2>5. node \in Nodes /\ node.class = base.class /\ node.parts = s
    BY <2>1, <2>3, <2>4 DEF Nodes
  <2>6. QED  BY <2>3, <2>5 DEF s
<1> HIDE DEF node
<1>9. Len(h) = Len(u.heap) /\ h[m] = node
  BY <1>5, <1>8, ExceptSeq
<1> HIDE DEF h
<1>10. x.heap = h
  BY <1>5 DEF Worlds
<1> HIDE DEF x
<1>11. j \in 1 .. Len(x.heap) /\ m \in 1 .. Len(x.heap)
  BY <1>5, <1>9, <1>10
<1>12. Kept(x.heap, v.heap)
  BY <1>6, <1>11, IncOwed
<1> HIDE DEF v, m
<1>13. v.heap[m].class = "cast" /\ v.heap[m].parts = <<j>>
  BY <1>8, <1>9, <1>10, <1>11, <1>12 DEF Kept
<1>14. QED  BY <1>1, <1>2, <1>13 DEF Wrap, m

\* A heap that may be a tree in the same or in another order is one.
LEMMA Regrown ==
    ASSUME NEW M \in Nat, NEW rank, Grove(heap', M, rank)
    PROVE  TreeInv'
<1>1. Tree(heap') /\ Titled(heap') /\ Ranks(heap', M, rank)
  BY DEF Grove
<1>2. Ranked(heap')
  BY <1>1 DEF Ranked
<1>3. QED  BY <1>1, <1>2 DEF TreeInv

\* And the heap has an order while it is one.
LEMMA GroveNow ==
    ASSUME TreeInv
    PROVE  \E M \in Nat : \E rank : Grove(heap, M, rank)
<1>1. PICK M \in Nat : \E rank : Ranks(heap, M, rank)
  BY DEF TreeInv, Ranked
<1>2. PICK rank : Ranks(heap, M, rank)
  BY <1>1
<1>3. Grove(heap, M, rank)
  BY <1>2 DEF TreeInv, Grove
<1>4. QED  BY <1>3

\* Steps that change counts and types only.
LEMMA AlikeKeeps ==
    ASSUME Inv, TreeInv, Alike(heap, heap')
    PROVE  TreeInv'
<1>1. Len(heap) \in Nat /\ FirstNode <= Len(heap)
  BY InvFacts, WorldFields DEF Formed
<1>2. PICK M \in Nat : \E rank : Grove(heap, M, rank)
  BY GroveNow
<1>3. PICK rank : Grove(heap, M, rank)
  BY <1>2
<1>4. Grove(heap', M, rank)
  BY <1>1, <1>3, AlikeGrove
<1>5. QED  BY <1>4, Regrown

LEMMA SameAlike == \A h : Alike(h, h)
BY DEF Alike

\* The setters of types are such.
LEMMA RetypedAlike ==
    ASSUME NEW w, Formed(w), NEW a, Formed(a), Alike(w.heap, a.heap), NEW n \in 1 .. Len(w.heap), NEW j \in Nat
    PROVE  Alike(w.heap, PutType(a, n, j).heap)
<1> DEFINE v == PutType(a, n, j)
           old == a.heap[n]
           node == [old EXCEPT !.type = j]
<1>1. Len(a.heap) = Len(w.heap) /\ a \in Worlds /\ a.heap \in Seq(Nodes) /\ n \in 1 .. Len(a.heap)
  BY WorldIs DEF Alike
<1>2. OnlyAt(a.heap, v.heap, n) /\ v.heap[n] = node
  BY <1>1, PutTypeIs
<1>3. old \in Nodes
  BY <1>1, ElementOfSeq
<1> HIDE DEF old, v
<1>4. node.class = old.class /\ node.name = old.name /\ node.parts = old.parts
  BY <1>3 DEF Nodes
<1> HIDE DEF node
<1>5. ASSUME NEW i \in 1 .. Len(w.heap)
      PROVE  v.heap[i].class = w.heap[i].class /\ v.heap[i].name = w.heap[i].name
             /\ v.heap[i].parts = w.heap[i].parts
  <2>1. a.heap[i].class = w.heap[i].class /\ a.heap[i].name = w.heap[i].name /\ a.heap[i].parts = w.heap[i].parts
    BY DEF Alike
  <2>2. CASE i = n
    BY <1>2, <1>4, <2>1, <2>2 DEF old
  <2>3. CASE i # n
    BY <1>1, <1>2, <2>1, <2>3 DEF OnlyAt
  <2>4. QED  BY <2>2, <2>3
<1>6. Alike(w.heap, v.heap)
  BY <1>1, <1>2, <1>5 DEF Alike, OnlyAt
<1>7. QED  BY <1>6 DEF v

LEMMA SetTypeAlike ==
    ASSUME NEW w, Formed(w), NEW n \in 1 .. Len(w.heap), NEW j \in 1 .. Len(TypeRefs),
           w.heap[n].class \in Places \cup {"unary", "literal", "sizeof", "address", "binary"}
    PROVE  Alike(w.heap, SetType(w, n, j).heap)
<1> DEFINE v == SetType(w, n, j)
           old == w.heap[n].type
           a == Inc(w, j)
           b == PutType(a, n, j)
<1>1. \/ v = SetTypeCounting(w, n, j)
      \/ v = SetTypeOnce(w, n, j)
      \/ v = SetTypeTwice(w, n, j)
  BY DEF SetType
<1>2. old \in 0 .. Len(TypeRefs) /\ j \in 1 .. Len(w.heap) /\ j \in Nat /\ Len(TypeRefs) <= Len(w.heap)
  <2>1. old \in 0 .. Len(TypeRefs)
    BY DEF Formed, Shaped
  <2>2. j \in 1 .. Len(w.heap)
    BY TypesAre
  <2>3. FirstNode <= Len(w.heap) /\ Len(w.heap) \in Nat
    BY WorldIs DEF Formed
  <2>4. Len(TypeRefs) <= Len(w.heap)
    BY <2>3, ConstantsAre
  <2>5. QED  BY <2>1, <2>2, <2>4, ConstantsAre
<1>3. Formed(a) /\ Alike(w.heap, a.heap)
  BY <1>2, IncOwed, KeptAlike
<1>4. Alike(w.heap, b.heap)
  <2> HIDE DEF a
  <2>1. QED  BY <1>2, <1>3, RetypedAlike
<1>5. Formed(b) /\ Len(b.heap) = Len(w.heap)
  BY RetypeOwed
<1>6. old \in 0 .. Len(b.heap)
  <2> HIDE DEF old, b
  <2>1. QED  BY <1>2, <1>5, ConstantsAre, WorldIs
<1>7. CASE v = SetTypeCounting(w, n, j)
  <2>1. v = Lose(b, old)
    BY <1>7 DEF SetTypeCounting
  <2> HIDE DEF v, b, old
  <2>2. v.heap = b.heap
    BY <1>5, <1>6, <2>1, LoseOwed
  <2>3. QED  BY <1>4, <2>2 DEF v
<1>8. CASE v = SetTypeOnce(w, n, j)
  <2>1. v = w \/ v = b
    BY <1>8 DEF SetTypeOnce
  <2> HIDE DEF v, b
  <2>2. Alike(w.heap, v.heap)
    BY <1>4, <2>1, SameAlike
  <2>3. QED  BY <2>2 DEF v
<1>9. CASE v = SetTypeTwice(w, n, j)
  <2> DEFINE c == Inc(w, old)
             d == PutType(c, n, j)
  <2>1. v = w \/ (old # 0 /\ v = Blame(d, "BinaryOpNode::set_type"))
    BY <1>9 DEF SetTypeTwice
  <2>2. ASSUME old # 0 PROVE Formed(d) /\ Alike(w.heap, d.heap)
    <3>1. old \in 1 .. Len(w.heap)
      <4> HIDE DEF old
      <4>1. QED  BY <1>2, <2>2, ConstantsAre, WorldIs
    <3>2. Formed(c) /\ Len(c.heap) = Len(w.heap) /\ Kept(w.heap, c.heap)
      <4> HIDE DEF old
      <4>1. QED  BY <3>1, IncOwed
    <3>3. Alike(w.heap, c.heap)
      BY <3>2, KeptAlike
    <3> HIDE DEF c
    <3>4. Alike(w.heap, d.heap)
      BY <1>2, <3>2, <3>3, RetypedAlike
    <3>5. j \in 0 .. Len(TypeRefs) /\ n \in 1 .. Len(c.heap)
      BY <3>2, ConstantsAre
    <3>6. Formed(d)
      BY <3>2, <3>5, PutTypeOwed
    <3>7. QED  BY <3>4, <3>6
  <2> HIDE DEF d, v, old
  <2>3. CASE v = w
    <3>1. Alike(w.heap, v.heap)
      BY <2>3, SameAlike
    <3>2. QED  BY <3>1 DEF v
  <2>4. CASE old # 0 /\ v = Blame(d, "BinaryOpNode::set_type")
    <3>1. "BinaryOpNode::set_type" \in Mistakes
      BY DEF Mistakes
    <3>2. v.heap = d.heap
      BY <2>2, <2>4, <3>1, BlameOwed
    <3>3. Alike(w.heap, v.heap)
      BY <2>2, <2>4, <3>2
    <3>4. QED  BY <3>3 DEF v
  <2>5. QED  BY <2>1, <2>3, <2>4
<1>10. QED  BY <1>1, <1>7, <1>8, <1>9

\* The steps, one by one.
LEMMA ResolveTree ==
    ASSUME Inv, TreeInv, NEW n \in DOMAIN heap, Resolve(n)
    PROVE  TreeInv'
<1> DEFINE e == EntityId(heap[n].name)
           v == SetCounting(World, n, 1, e)
<1>1. Visit(n) /\ After(v) /\ heap[n].class = "variable"
  BY DEF Resolve
<1>2. /\ n \in 1 .. Len(World.heap) /\ Formed(World) /\ World.heap = heap
      /\ Len(World.heap) = Len(heap) /\ FirstNode <= Len(heap) /\ Len(heap) \in Nat
  BY <1>1, Visited, InvFacts, WorldFields DEF Formed
<1>3. 1 \in 1 .. Len(World.heap[n].parts) /\ heap[n].name \in Range(Names)
  <2>1. Shaped(World.heap, n)
    BY <1>2 DEF Formed
  <2>2. Len(World.heap[n].parts) = 1 /\ heap[n].name \in Range(Names)
    BY <1>1, <1>2, <2>1 DEF Shaped
  <2>3. QED  BY <2>2
<1>4. e \in 1 .. FirstNode
  BY <1>3, EntityIdIs
<1>5. e = EntityId(World.heap[n].name)
  BY <1>2
<1> HIDE DEF e
<1>6. e \in 1 .. Len(World.heap) /\ e <= FirstNode
  BY <1>2, <1>4, ConstantsAre
<1>7. PICK M \in Nat : \E rank : Grove(heap, M, rank)
  BY GroveNow
<1>8. PICK rank : Grove(heap, M, rank)
  BY <1>7
<1>9. Grove(World.heap, M, rank)
  BY <1>2, <1>8
<1>10. Fits(World.heap, rank, n, 1, e)
  BY <1>1, <1>2, <1>3, <1>5, <1>6 DEF Fits
<1>11. Grove(v.heap, M, rank)
  BY <1>2, <1>9, <1>10, CountingGrove
<1> HIDE DEF v
<1>12. heap' = v.heap
  BY <1>1 DEF After
<1>13. QED  BY <1>11, <1>12, Regrown

LEMMA AttachTypeTree ==
    ASSUME Inv, TreeInv, NEW n \in DOMAIN heap, AttachType(n)
    PROVE  TreeInv'
<1> DEFINE t == TypeId(Wanted(n))
           v == SetType(World, n, t)
<1>1. Visit(n) /\ After(v) /\ t # 0
  BY DEF AttachType
<1>2. n \in 1 .. Len(World.heap) /\ Formed(World) /\ World.heap = heap
  BY <1>1, Visited, InvFacts, WorldFields
<1>3. t \in 1 .. Len(TypeRefs)
  <2>1. t \in 0 .. Len(TypeRefs)
    BY TypeIdIs
  <2> HIDE DEF t
  <2>2. QED  BY <1>1, <2>1, ConstantsAre
<1>4. World.heap[n].class \in Places \cup {"unary", "literal", "sizeof", "address", "binary"}
  <2>1. Wanted(n) # <<>>
    <3>1. Wanted(n) \in Range(TypeRefs)
      BY <1>1, TypeIdIs
    <3>2. QED  BY <3>1, TypeAssumption
  <2> SUFFICES ASSUME heap[n].class \notin Places, heap[n].class # "unary", heap[n].class # "literal",
                      heap[n].class # "sizeof", heap[n].class # "address", heap[n].class # "binary"
               PROVE  FALSE
    BY <1>2
  <2>2. Wanted(n) = <<>>
    BY DEF Wanted
  <2>3. QED  BY <2>1, <2>2
<1> HIDE DEF t
<1>5. Alike(World.heap, v.heap)
  BY <1>2, <1>3, <1>4, SetTypeAlike
<1> HIDE DEF v
<1>6. Alike(heap, heap')
  BY <1>1, <1>2, <1>5 DEF After
<1>7. QED  BY <1>6, AlikeKeeps

\* An operand that can be set is a node, and comes before what it is an operand of.
LEMMA OperandBelow ==
    ASSUME Inv, NEW M \in Nat, NEW rank, Grove(heap, M, rank), NEW n \in DOMAIN heap, NEW k \in Settable(n)
    PROVE  /\ n \in 1 .. Len(heap) /\ n > FirstNode /\ k \in 1 .. Len(heap[n].parts)
           /\ heap[n].class # "variable" /\ <<heap[n].class, k>> \in Swapping \cup Counting \cup Storing
           /\ heap[n].parts[k] \in FirstNode + 1 .. Len(heap)
           /\ rank[heap[n].parts[k]] \in Nat /\ rank[n] \in Nat /\ rank[heap[n].parts[k]] < rank[n]
<1> DEFINE p == heap[n].parts[k]
<1>1. /\ n \in 1 .. Len(heap) /\ Formed(World) /\ World.heap = heap /\ Len(heap) \in Nat /\ heap \in Seq(Nodes)
      /\ FirstNode \in Nat /\ FirstNode <= Len(heap)
  BY InvFacts, WorldFields, ConstantsAre DEF Formed
<1>2. k \in DOMAIN heap[n].parts /\ <<heap[n].class, k>> \in Swapping \cup Counting \cup Storing
  BY DEF Settable
<1>3. k \in 1 .. Len(heap[n].parts)
  BY <1>1, <1>2, NodeIs
<1>4. heap[n].class # "variable"
  BY <1>2 DEF Swapping, Counting, Storing
<1>5. n > FirstNode
  <2>1. n \in 1 .. FirstNode => heap[n].parts = <<>>
    BY DEF Grove, Tree
  <2>2. Len(<<>>) = 0
    BY EmptySeq
  <2>3. n \notin 1 .. FirstNode
    BY <1>3, <2>1, <2>2
  <2>4. QED  BY <1>1, <2>3
<1>6. n \in FirstNode + 1 .. Len(heap)
  BY <1>1, <1>5
<1>7. p > FirstNode
  BY <1>3, <1>4, <1>6 DEF Grove, Tree
<1>8. p \in 0 .. Len(heap)
  <2>1. Shaped(World.heap, n)
    BY <1>1 DEF Formed
  <2>2. QED  BY <1>1, <1>3, <2>1 DEF Shaped
<1>9. rank[p] < rank[n]
  BY <1>3, <1>6, <1>7 DEF Grove, Ranks
<1> HIDE DEF p
<1>10. p \in FirstNode + 1 .. Len(heap) /\ p \in 1 .. Len(heap)
  BY <1>1, <1>7, <1>8
<1>11. rank[p] \in 0 .. M /\ rank[n] \in 0 .. M
  BY <1>1, <1>10 DEF Grove, Ranks
<1>12. QED  BY <1>1, <1>2, <1>3, <1>4, <1>5, <1>9, <1>10, <1>11 DEF p

\* What has been made for it leaves the heap a tree.
LEMMA FreshGrove ==
    ASSUME Inv, NEW M \in Nat, NEW rank, Grove(heap, M, rank), NEW u, Fresh(World, u),
           \/ Leaf(World, u)
           \/ \E p \in FirstNode + 1 .. Len(heap) : Wrap(World, u, p)
    PROVE  Grove(u.heap, 2 * M + 1, Between(heap, u.heap, rank))
<1> DEFINE g == u.heap
<1>1. /\ Formed(World) /\ World.heap = heap /\ Len(heap) \in Nat /\ FirstNode <= Len(heap)
  BY InvFacts, WorldFields DEF Formed
<1>2. \A i \in 1 .. Len(heap) : \A x \in 1 .. Len(heap[i].parts) : heap[i].parts[x] \in 0 .. Len(heap)
  BY <1>1 DEF Formed, Shaped
<1>3. Kept(heap, g) /\ Len(g) = Len(heap) + 1
  BY <1>1 DEF Fresh
<1>4. /\ g[Len(heap) + 1].class \in {"literal", "cast"}
      /\ \/ g[Len(heap) + 1].parts = <<>>
         \/ \E p \in FirstNode + 1 .. Len(heap) : g[Len(heap) + 1].parts = <<p>>
  BY <1>1 DEF Leaf, Wrap
<1> HIDE DEF g
<1>5. g[Len(heap) + 1].class \in {"literal", "cast"}
  BY <1>4
<1>6. \/ g[Len(heap) + 1].parts = <<>>
      \/ \E p \in FirstNode + 1 .. Len(heap) : g[Len(heap) + 1].parts = <<p>>
  BY <1>4
<1>7. Grove(g, 2 * M + 1, Between(heap, g, rank))
  BY <1>1, <1>2, <1>3, <1>5, <1>6, MadeGrove
<1>8. QED  BY <1>7 DEF g

\* A cast of the operand, or a literal, comes before what the operand came before.
LEMMA FreshFits ==
    ASSUME Inv, NEW M \in Nat, NEW rank, Grove(heap, M, rank), NEW n \in DOMAIN heap, NEW k \in Settable(n),
           NEW u, Fresh(World, u), Leaf(World, u) \/ Wrap(World, u, heap[n].parts[k])
    PROVE  Fits(u.heap, Between(heap, u.heap, rank), n, k, Made(u))
<1> DEFINE p == heap[n].parts[k]
           g == u.heap
           m == Len(heap) + 1
           between == Between(heap, g, rank)
<1>1. /\ n \in 1 .. Len(heap) /\ n > FirstNode /\ k \in 1 .. Len(heap[n].parts)
      /\ heap[n].class # "variable"
      /\ p \in FirstNode + 1 .. Len(heap)
      /\ rank[p] \in Nat /\ rank[n] \in Nat /\ rank[p] < rank[n]
  BY OperandBelow
<1>2. /\ World.heap = heap /\ Len(heap) \in Nat /\ FirstNode <= Len(heap) /\ FirstNode \in Nat
  BY InvFacts, WorldFields, ConstantsAre DEF Formed
<1>3. Kept(heap, g) /\ Len(g) = m /\ Made(u) = m
  BY <1>2 DEF Fresh, Made
<1>4. g[n].class = heap[n].class /\ g[n].name = heap[n].name /\ g[n].parts = heap[n].parts
  BY <1>1, <1>3 DEF Kept
<1>5. g[m].parts = <<>> \/ g[m].parts = <<p>>
  BY <1>2 DEF Leaf, Wrap
<1>6. g[m].parts # <<>> => g[m].parts[1] = p
  <2>1. <<p>>[1] = p
    OBVIOUS
  <2>2. QED  BY <1>5, <2>1
<1> HIDE DEF m, p
<1>7. n <= Len(heap) /\ n \in 1 .. m /\ m \in 1 .. m /\ ~(m <= Len(heap)) /\ m > FirstNode
  BY <1>1, <1>2 DEF m
<1>8. /\ between[n] = 2 * rank[n]
      /\ between[m] = IF g[m].parts = <<>> THEN 0 ELSE 2 * rank[g[m].parts[1]] + 1
  BY <1>3, <1>7 DEF Between
<1> HIDE DEF between, g
<1>9. between[m] < between[n]
  <2>1. PICK a \in Nat, b \in Nat : a = rank[p] /\ b = rank[n] /\ a < b
    BY <1>1
  <2>2. between[n] = 2 * b
    BY <1>8, <2>1
  <2>3. between[m] = 0 \/ between[m] = 2 * a + 1
    BY <1>6, <1>8, <2>1
  <2>4. QED  BY <2>1, <2>2, <2>3
<1>10. Fits(g, between, n, k, m)
  BY <1>1, <1>3, <1>4, <1>7, <1>9 DEF Fits
<1>11. QED  BY <1>3, <1>10 DEF between, g

\* What Convert and Fold have in common.
LEMMA HandOverTree ==
    ASSUME Inv, TreeInv, NEW n \in DOMAIN heap, NEW k \in Settable(n), NEW u, Fresh(World, u),
           Leaf(World, u) \/ Wrap(World, u, heap[n].parts[k]), HandOver(u, n, k)
    PROVE  TreeInv'
<1> DEFINE s == SetOperand(u, n, k, Made(u))
           v == Later(s, Made(u))
<1>1. PICK M \in Nat : \E rank : Grove(heap, M, rank)
  BY GroveNow
<1>2. PICK rank : Grove(heap, M, rank)
  BY <1>1
<1> DEFINE between == Between(heap, u.heap, rank)
<1>3. /\ n \in 1 .. Len(heap) /\ k \in 1 .. Len(heap[n].parts)
      /\ <<heap[n].class, k>> \in Swapping \cup Counting \cup Storing
      /\ heap[n].parts[k] \in FirstNode + 1 .. Len(heap)
  BY <1>2, OperandBelow
<1>4. Grove(u.heap, 2 * M + 1, between)
  BY <1>2, <1>3, FreshGrove
<1>5. Fits(u.heap, between, n, k, Made(u))
  BY <1>2, FreshFits
<1>6. World.heap = heap /\ Len(heap) \in Nat
  BY InvFacts, WorldFields
<1>7. Formed(u) /\ Kept(heap, u.heap) /\ Len(u.heap) = Len(heap) + 1 /\ Made(u) = Len(u.heap)
  BY <1>6 DEF Fresh, Made
<1>8. u.heap[n].class = heap[n].class
  BY <1>3, <1>7 DEF Kept
<1>9. <<u.heap[n].class, k>> \in Swapping \cup Counting \cup Storing
  BY <1>3, <1>8, Zenon
<1> HIDE DEF between
<1>10. Grove(s.heap, 2 * M + 1, between)
  BY <1>4, <1>5, <1>7, <1>9, SetOperandGrove
<1>11. /\ n \in 1 .. Len(u.heap) /\ k \in 1 .. Len(u.heap[n].parts) /\ Made(u) \in 1 .. Len(u.heap)
  BY <1>5 DEF Fits
<1>12. Formed(s) /\ Len(s.heap) = Len(u.heap)
  BY <1>7, <1>9, <1>11, SetOperandOwed DEF Set
<1>13. Made(u) \in 0 .. Len(s.heap)
  BY <1>6, <1>7, <1>12
<1> HIDE DEF s
<1>14. v.heap = s.heap
  BY <1>12, <1>13, LaterOwed
<1>15. heap' = v.heap
  BY DEF HandOver, After, s
<1> HIDE DEF v
<1>16. Grove(heap', 2 * M + 1, between) /\ 2 * M + 1 \in Nat
  BY <1>10, <1>14, <1>15
<1>17. QED  BY <1>16, Regrown

LEMMA FoldTree ==
    ASSUME Inv, TreeInv, NEW n \in DOMAIN heap, Fold(n)
    PROVE  TreeInv'
<1> DEFINE t == TypeId(<<"int">>)
           u == NewLiteral(World, t)
<1>1. PICK k \in Settable(n) : HandOver(u, n, k)
  BY DEF Fold
<1>2. t \in 1 .. Len(TypeRefs)
  BY IntType
<1> HIDE DEF t
<1>3. Fresh(World, u) /\ Leaf(World, u)
  BY <1>2, InvFacts, LiteralIs
<1> HIDE DEF u
<1>4. QED  BY <1>1, <1>3, HandOverTree

LEMMA ConvertTree ==
    ASSUME Inv, TreeInv, NEW n \in DOMAIN heap, Convert(n)
    PROVE  TreeInv'
<1>1. PICK k \in Settable(n), r \in Converted :
        HandOver(NewCast(World, heap[n].parts[k], TypeId(r)), n, k)
  BY DEF Convert
<1> DEFINE t == TypeId(r)
           j == heap[n].parts[k]
           u == NewCast(World, j, t)
<1>2. t \in 1 .. Len(TypeRefs)
  <2>1. r \in Range(TypeRefs)
    BY TypeAssumption
  <2>2. t \in 0 .. Len(TypeRefs) /\ t # 0
    BY <2>1, TypeIdIs
  <2> HIDE DEF t
  <2>3. QED  BY <2>2, ConstantsAre
<1>3. PICK M \in Nat : \E rank : Grove(heap, M, rank)
  BY GroveNow
<1>4. PICK rank : Grove(heap, M, rank)
  BY <1>3
<1>5. j \in FirstNode + 1 .. Len(heap)
  BY <1>4, OperandBelow
<1>6. j \in 1 .. Len(World.heap) /\ Formed(World)
  <2> HIDE DEF j
  <2>1. Len(World.heap) = Len(heap) /\ Len(heap) \in Nat /\ Formed(World)
    BY InvFacts
  <2>2. QED  BY <1>5, <2>1, ConstantsAre
<1>7. HandOver(u, n, k)
  BY <1>1
<1> HIDE DEF t, j
<1>8. Fresh(World, u) /\ Wrap(World, u, j)
  BY <1>2, <1>6, CastIs
<1> HIDE DEF u
<1>9. QED  BY <1>7, <1>8, HandOverTree DEF j

\* What replaceArgs does besides is nothing to the heap.
LEMMA QueuedLost ==
    ASSUME NEW w \in Worlds, NEW s, NEW j, NEW mistake
    PROVE  Blame(Lose([w EXCEPT !.todo = s], j), mistake).heap = w.heap
<1> DEFINE x == [w EXCEPT !.todo = s]
           y == Lose(x, j)
<1>1. x = [heap |-> w.heap, lost |-> w.lost, todo |-> s, blame |-> w.blame]
  BY RecordIs
<1> HIDE DEF x
<1>2. y = x \/ y = [x EXCEPT !.lost[j] = @ + 1]
  BY DEF Lose
<1>3. y = [heap |-> y.heap, lost |-> y.lost, todo |-> y.todo, blame |-> y.blame] /\ y.heap = w.heap
  BY <1>1, <1>2
<1> HIDE DEF y
<1>4. Blame(y, mistake).heap = w.heap
  BY <1>3 DEF Blame
<1>5. QED  BY <1>4 DEF x, y

LEMMA ReplaceArgsTree ==
    ASSUME Inv, TreeInv, NEW n \in DOMAIN heap, ReplaceArgs(n)
    PROVE  TreeInv'
<1> DEFINE t == TypeId(<<"int">>)
           w == NewLiteral(World, t)
           x == [w EXCEPT !.todo = Tail(heap[n].parts)]
           y == Lose(x, Made(w))
           v == Blame(y, "replaceArgs")
<1>1. After(v)
  BY DEF ReplaceArgs
<1>2. Fresh(World, w) /\ Leaf(World, w)
  <2>1. t \in 1 .. Len(TypeRefs)
    BY IntType
  <2> HIDE DEF t
  <2>2. QED  BY <2>1, InvFacts, LiteralIs
<1> HIDE DEF w
<1>3. w \in Worlds
  BY <1>2 DEF Fresh, Formed
<1>4. v.heap = w.heap
  BY <1>3, QueuedLost
<1> HIDE DEF v, y, x
<1>7. heap' = w.heap
  BY <1>1, <1>4 DEF After
<1>8. PICK M \in Nat : \E rank : Grove(heap, M, rank)
  BY GroveNow
<1>9. PICK rank : Grove(heap, M, rank)
  BY <1>8
<1>10. Grove(heap', 2 * M + 1, Between(heap, w.heap, rank)) /\ 2 * M + 1 \in Nat
  BY <1>2, <1>7, <1>9, FreshGrove
<1>11. QED  BY <1>10, Regrown

\* A dec_ref changes a count.
LEMMA DropNextTree ==
    ASSUME Inv, TreeInv, DropNext
    PROVE  TreeInv'
<1>1. heap \in Seq(Nodes) /\ DOMAIN heap = 1 .. Len(heap) /\ Len(heap) \in Nat
  BY InvFacts
<1>2. heap' = heap \/ \E i \in Live : heap' = [heap EXCEPT ![i].count = @ - 1]
  BY DEF DropNext, OnNull, Released
<1>3. ASSUME NEW i \in Live, heap' = [heap EXCEPT ![i].count = @ - 1]
      PROVE  Alike(heap, heap')
  <2> DEFINE old == heap[i]
             node == [old EXCEPT !.count = old.count - 1]
  <2>1. i \in 1 .. Len(heap) /\ old \in Nodes /\ old.count \in Nat /\ old.count > 0
    <3>1. i \in 1 .. Len(heap) /\ old.count > 0
      BY <1>1 DEF Live
    <3>2. old \in Nodes
      BY <1>1, <3>1, ElementOfSeq
    <3>3. QED  BY <3>1, <3>2 DEF Nodes
  <2>2. heap' = [heap EXCEPT ![i] = node]
    BY <1>3
  <2> HIDE DEF old
  <2>3. node \in Nodes /\ node.class = old.class /\ node.name = old.name /\ node.parts = old.parts
    <3>1. old.count - 1 \in Nat
      BY <2>1
    <3>2. QED  BY <2>1, <3>1 DEF Nodes
  <2> HIDE DEF node
  <2>4. Len(heap') = Len(heap) /\ heap'[i] = node /\ \A x \in 1 .. Len(heap) : x # i => heap'[x] = heap[x]
    BY <1>1, <2>1, <2>2, <2>3, ExceptSeq
  <2>5. QED  BY <2>3, <2>4 DEF Alike, old
<1>4. Alike(heap, heap')
  BY <1>2, <1>3, SameAlike
<1>5. QED  BY <1>4, AlikeKeeps

\* Every step.
LEMMA TreeKeeps ==
    ASSUME Inv, TreeInv, [Next]_vars
    PROVE  TreeInv'
<1>1. ASSUME heap' = heap PROVE TreeInv'
  <2>1. Alike(heap, heap')
    BY <1>1, SameAlike
  <2>2. QED  BY <2>1, AlikeKeeps
<1>2. ASSUME NEW n \in DOMAIN heap, Stale(n) \/ AskAssignable(n) PROVE TreeInv'
  BY <1>1, <1>2 DEF Stale, AskAssignable
<1>3. ASSUME Finish \/ Done \/ UNCHANGED vars PROVE TreeInv'
  BY <1>1, <1>3 DEF Finish, Done, vars
<1>4. QED
  BY <1>2, <1>3, ResolveTree, AttachTypeTree, ConvertTree, FoldTree, ReplaceArgsTree, DropNextTree DEF Next

\* So both invariants hold throughout.
LEMMA TreeInvariant == Spec => [](Inv /\ TreeInv)
<1>1. Init => Inv /\ TreeInv
  BY InitInv, InitTree
<1>2. Inv /\ TreeInv /\ [Next]_vars => (Inv /\ TreeInv)'
  BY StepKeeps, TreeKeeps
<1>3. QED  BY <1>1, <1>2, PTL DEF Spec

\* Whatever a pass attaches, converts and folds, and in whatever order, a place of a lawful tree
\* that is not out of date answers with the type that C gives it or throws, and an element's
\* base is the innermost array it is part of (node.cc:256), until one of the four is called.
THEOREM PlacesAreExact == Spec => []PlacesExact
<1>1. Inv /\ TreeInv => PlacesExact
  BY InvPlaces
<1>2. QED  BY <1>1, TreeInvariant, PTL
=============================================================================
