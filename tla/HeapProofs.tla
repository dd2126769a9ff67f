------------------------------ MODULE HeapProofs ------------------------------
(***************************************************************************)
(* Reference counts across nested Loaders: HeldEntitiesAlive and RefExact  *)
(* are invariants of Driver.                                               *)
(***************************************************************************)
EXTENDS DriverProofs

(***************************************************************************)
(* What creating, adding and destroying do to one count.                   *)
(***************************************************************************)

One(e, S) == IF e \in S THEN 1 ELSE 0

LEMMA AddAt ==
    ASSUME NEW r, NEW from, NEW into
    PROVE  /\ DOMAIN Add(r, from, into) = DOMAIN r
           /\ \A e \in DOMAIN r :
                Add(r, from, into)[e] = IF e \in from \ into THEN r[e] + 1 ELSE r[e]
BY DEF Add

\* An entity survives ~Declarations exactly when it has more references than
\* those given back.
LEMMA DestroyAt ==
    ASSUME NEW r, NEW decls, NEW e
    PROVE  /\ e \in DOMAIN Destroy(r, decls) <=> e \in DOMAIN r /\ r[e] > Held(e, decls)
           /\ e \in DOMAIN Destroy(r, decls) =>
                Destroy(r, decls)[e] = r[e] - Held(e, decls)
BY DEF Destroy

LEMMA HeldOne ==
    ASSUME NEW e, NEW decls
    PROVE  Held(e, <<decls>>) = One(e, decls)
<1> DEFINE K == {k \in DOMAIN <<decls>> : e \in <<decls>>[k]}
<1>1. K = IF e \in decls THEN {1} ELSE {}
  OBVIOUS
<1>2. Cardinality({1}) = 1 /\ Cardinality({}) = 0
  BY FS_Singleton, FS_EmptySet
<1>3. QED  BY <1>1, <1>2 DEF Held, One

\* Caching the declarations of a library that had none cached.
LEMMA HeldCached ==
    ASSUME NEW c \in [Lib -> SUBSET Entity], NEW l \in Lib, c[l] = {}, NEW decls, NEW e
    PROVE  /\ Held(e, c) \in Nat
           /\ Held(e, [c EXCEPT ![l] = decls]) = Held(e, c) + One(e, decls)
<1> DEFINE d == [c EXCEPT ![l] = decls]
           K == {k \in DOMAIN c : e \in c[k]}
           M == {k \in DOMAIN d : e \in d[k]}
<1>1. IsFiniteSet(K) /\ Cardinality(K) \in Nat
  BY LibAssumption, FS_Subset, FS_CardinalityType
<1>2. M = IF e \in decls THEN K \cup {l} ELSE K
  OBVIOUS
<1>3. l \notin K
  OBVIOUS
<1>4. Cardinality(K \cup {l}) = Cardinality(K) + 1
  BY <1>1, <1>3, FS_AddElement
<1>5. Cardinality(M) = Cardinality(K) + One(e, decls)
  <2> HIDE DEF K, M
  <2>1. CASE e \in decls
    BY <1>2, <1>4, <2>1 DEF One
  <2>2. CASE e \notin decls
    BY <1>1, <1>2, <2>2 DEF One
  <2>3. QED  BY <2>1, <2>2
<1>6. Held(e, c) = Cardinality(K) /\ Held(e, d) = Cardinality(M)
  BY DEF Held
<1>7. QED  BY <1>1, <1>5, <1>6

\* The heap after a start rule: the entities that were only on loan to import_stmts
\* are back at the count they had, and the file's own entity, if it has one, has
\* one reference.
LEMMA AcceptAt ==
    ASSUME Heap(ref), NEW f, f.imp \subseteq DOMAIN ref,
           <<f.lib, serial>> \notin DOMAIN ref
    PROVE  /\ DOMAIN Accept(f) = DOMAIN ref \cup Own(f)
           /\ \A e \in DOMAIN ref : Accept(f)[e] = ref[e]
           /\ \A e \in Own(f) : Accept(f)[e] = 1
<1> DEFINE new == <<f.lib, serial>>
           r1 == Create(ref, new)
           r2 == Add(r1, f.imp, Own(f))
           r3 == Destroy(r2, <<f.imp>>)
<1>1. CASE f.body = "none"
  BY <1>1 DEF Accept, Own
<1>2. CASE f.body # "none"
  <2>1. Own(f) = {new} /\ Accept(f) = r3
    BY <1>2 DEF Own, Accept
  <2>2. /\ DOMAIN r1 = DOMAIN ref \cup {new} /\ r1[new] = 1
        /\ \A e \in DOMAIN ref : r1[e] = ref[e]
    BY DEF Create
  <2> HIDE DEF new, r1
  <2>3. /\ DOMAIN r2 = DOMAIN ref \cup {new} /\ r2[new] = 1
        /\ \A e \in DOMAIN ref : r2[e] = ref[e] + One(e, f.imp)
    <3>1. /\ DOMAIN r2 = DOMAIN r1
          /\ \A e \in DOMAIN r1 :
                r2[e] = IF e \in f.imp \ {new} THEN r1[e] + 1 ELSE r1[e]
      BY <2>1, AddAt
    <3>2. new \notin DOMAIN ref
      BY DEF new
    <3>3. \A e \in DOMAIN ref : ref[e] \in Nat \ {0}
      BY DEF Heap
    <3>4. QED  BY <2>2, <3>1, <3>2, <3>3 DEF One
  <2> HIDE DEF r2
  <2>4. \A e : /\ e \in DOMAIN r3 <=> e \in DOMAIN r2 /\ r2[e] > One(e, f.imp)
               /\ e \in DOMAIN r3 => r3[e] = r2[e] - One(e, f.imp)
    BY DestroyAt, HeldOne
  <2>5. new \notin f.imp
    BY DEF new
  <2>6. \A e \in DOMAIN ref : ref[e] \in Nat \ {0}
    BY DEF Heap
  <2> HIDE DEF r3
  <2>7. new \in DOMAIN r3 /\ r3[new] = 1
    BY <2>3, <2>4, <2>5 DEF One
  <2>8. \A e \in DOMAIN ref : e \in DOMAIN r3 /\ r3[e] = ref[e]
    BY <2>3, <2>4, <2>6 DEF One
  <2>9. DOMAIN r3 = DOMAIN ref \cup {new}
    BY <2>3, <2>4, <2>7, <2>8
  <2>10. QED  BY <2>1, <2>7, <2>8, <2>9
<1>3. QED  BY <1>1, <1>2

(***************************************************************************)
(* How many Declarations objects hold an entity.                           *)
(***************************************************************************)

Place(f, k) == IF k = Main THEN f.imp ELSE f.cache[k]

\* The holders of e in the stack s, one by one and counted.
HoldersIn(s, e) == {h \in (DOMAIN s) \X (Lib \cup {Main}) : e \in Place(s[h[1]], h[2])}
Total(s, e) == Cardinality(HoldersIn(s, e))

\* How many of them belong to one activation.
HeldBy(f, e) == Held(e, f.cache) + One(e, f.imp)

LEMMA HoldersAreIn == \A e : Holders(e) = HoldersIn(frames, e)
BY DEF Holders, HoldersIn, Place

LEMMA HeldByType ==
    ASSUME NEW f \in Frame, NEW e
    PROVE  /\ Held(e, f.cache) \in Nat /\ HeldBy(f, e) \in Nat
           /\ HeldBy(f, e) > 0 <=> \E k \in Lib \cup {Main} : e \in Place(f, k)
           /\ LET P == {k \in Lib \cup {Main} : e \in Place(f, k)}
              IN  IsFiniteSet(P) /\ Cardinality(P) = HeldBy(f, e)
<1> DEFINE K == {k \in Lib : e \in f.cache[k]}
           P == {k \in Lib \cup {Main} : e \in Place(f, k)}
<1>1. DOMAIN f.cache = Lib
  BY DEF Frame
<1>2. IsFiniteSet(K) /\ Cardinality(K) \in Nat
  BY LibAssumption, FS_Subset, FS_CardinalityType
<1>3. Held(e, f.cache) = Cardinality(K)
  BY <1>1 DEF Held
<1>4. P = IF e \in f.imp THEN K \cup {Main} ELSE K
  BY LibAssumption DEF Place
<1>5. Main \notin K
  BY LibAssumption
<1>6. /\ IsFiniteSet(K \cup {Main})
      /\ Cardinality(K \cup {Main}) = Cardinality(K) + 1
  BY <1>2, <1>5, FS_AddElement
<1>7. IsFiniteSet(P) /\ Cardinality(P) = HeldBy(f, e)
  <2> HIDE DEF K, P
  <2>1. CASE e \in f.imp
    BY <1>3, <1>4, <1>6, <2>1 DEF HeldBy, One
  <2>2. CASE e \notin f.imp
    BY <1>2, <1>3, <1>4, <2>2 DEF HeldBy, One
  <2>3. QED  BY <2>1, <2>2
<1>8. HeldBy(f, e) \in Nat
  BY <1>2, <1>3 DEF HeldBy, One
<1>9. Cardinality(P) = 0 <=> P = {}
  BY <1>7, FS_EmptySet
<1>10. HeldBy(f, e) > 0 <=> P # {}
  BY <1>7, <1>8, <1>9
<1>11. QED  BY <1>2, <1>3, <1>7, <1>8, <1>10

LEMMA TotalType ==
    ASSUME NEW s \in Seq(Frame), NEW e
    PROVE  /\ IsFiniteSet(HoldersIn(s, e)) /\ Total(s, e) \in Nat
           /\ Total(s, e) = 0 <=> HoldersIn(s, e) = {}
<1>1. IsFiniteSet(DOMAIN s)
  <2>1. DOMAIN s = 1 .. Len(s) /\ Len(s) \in Nat
    OBVIOUS
  <2>2. QED  BY <2>1, FS_Interval
<1>2. IsFiniteSet(Lib \cup {Main})
  BY LibAssumption, FS_AddElement
<1>3. IsFiniteSet((DOMAIN s) \X (Lib \cup {Main}))
  BY <1>1, <1>2, FS_Product
<1>4. IsFiniteSet(HoldersIn(s, e))
  BY <1>3, FS_Subset DEF HoldersIn
<1>5. QED  BY <1>4, FS_CardinalityType, FS_EmptySet DEF Total

\* The innermost activation's holders and those below it add up.
LEMMA TotalPop ==
    ASSUME NEW s \in Seq(Frame), NEW t \in Seq(Frame), NEW e,
           Len(s) = Len(t) + 1, \A i \in 1 .. Len(t) : t[i] = s[i]
    PROVE  Total(s, e) = Total(t, e) + HeldBy(s[Len(s)], e)
<1> DEFINE n == Len(s)
           f == s[n]
           P == {k \in Lib \cup {Main} : e \in Place(f, k)}
           At == {h \in {n} \X (Lib \cup {Main}) : e \in Place(f, h[2])}
<1>1. /\ DOMAIN s = 1 .. n /\ DOMAIN t = 1 .. Len(t) /\ n \in Nat \ {0}
      /\ 1 .. n = 1 .. Len(t) \cup {n} /\ n \notin 1 .. Len(t) /\ f \in Frame
  OBVIOUS
<1>2. HoldersIn(s, e) = HoldersIn(t, e) \cup At
  <2>1. \A h \in (1 .. Len(t)) \X (Lib \cup {Main}) : t[h[1]] = s[h[1]]
    OBVIOUS
  <2>2. \A h \in {n} \X (Lib \cup {Main}) : s[h[1]] = f
    OBVIOUS
  <2>3. (DOMAIN s) \X (Lib \cup {Main}) =
          ((DOMAIN t) \X (Lib \cup {Main})) \cup ({n} \X (Lib \cup {Main}))
    BY <1>1
  <2> HIDE DEF f, n
  <2>4. QED  BY <1>1, <2>1, <2>2, <2>3 DEF HoldersIn
<1>3. HoldersIn(t, e) \cap At = {}
  BY <1>1 DEF HoldersIn
<1>4. IsFiniteSet(P) /\ Cardinality(P) = HeldBy(f, e) /\ HeldBy(f, e) \in Nat
  BY <1>1, HeldByType
<1>5. IsFiniteSet(At) /\ Cardinality(At) = Cardinality(P)
  <2> DEFINE b == [k \in P |-> <<n, k>>]
  <2>1. b \in Bijection(P, At)
    <3>1. b \in [P -> At]
      OBVIOUS
    <3>2. \A j, k \in P : b[j] = b[k] => j = k
      OBVIOUS
    <3>3. \A h \in At : \E k \in P : b[k] = h
      <4> SUFFICES ASSUME NEW h \in At PROVE \E k \in P : b[k] = h
        OBVIOUS
      <4>1. h[2] \in P /\ b[h[2]] = h
        OBVIOUS
      <4>2. QED  BY <4>1
    <3> HIDE DEF b, P, At
    <3>4. QED  BY <3>1, <3>2, <3>3 DEF Bijection, Injection, Surjection, IsInjective
  <2>2. ExistsBijection(P, At)
    BY <2>1 DEF ExistsBijection
  <2>3. QED  BY <1>4, <2>2, FS_Bijection
<1>6. IsFiniteSet(HoldersIn(t, e)) /\ Total(t, e) \in Nat
  BY TotalType
<1>7. Cardinality({}) = 0
  BY FS_EmptySet
<1> HIDE DEF P, At, n, f
<1>8. Cardinality(HoldersIn(t, e) \cup At) = Cardinality(HoldersIn(t, e)) + Cardinality(At)
  <2>1. Cardinality(HoldersIn(t, e) \cup At) =
          Cardinality(HoldersIn(t, e)) + Cardinality(At) - Cardinality(HoldersIn(t, e) \cap At)
    BY <1>5, <1>6, FS_Union
  <2>2. Cardinality(HoldersIn(t, e) \cap At) = 0
    BY <1>3, <1>7
  <2>3. QED  BY <1>4, <1>5, <1>6, <2>1, <2>2 DEF Total
<1>9. QED  BY <1>2, <1>4, <1>5, <1>8 DEF Total, n, f

LEMMA TotalSame ==
    ASSUME NEW s \in Seq(Frame), NEW t \in Seq(Frame), NEW e, Len(s) = Len(t),
           \A i \in 1 .. Len(t) : t[i].imp = s[i].imp /\ t[i].cache = s[i].cache
    PROVE  Total(t, e) = Total(s, e)
<1>1. DOMAIN s = 1 .. Len(t) /\ DOMAIN t = 1 .. Len(t)
  OBVIOUS
<1>2. \A h \in (1 .. Len(t)) \X (Lib \cup {Main}) :
        Place(t[h[1]], h[2]) = Place(s[h[1]], h[2])
  BY DEF Place
<1>3. HoldersIn(t, e) = HoldersIn(s, e)
  BY <1>1, <1>2 DEF HoldersIn
<1>4. QED  BY <1>3 DEF Total

LEMMA TotalEmpty == \A e : Total(<<>>, e) = 0
<1> SUFFICES ASSUME NEW e PROVE Total(<<>>, e) = 0
  OBVIOUS
<1>1. HoldersIn(<<>>, e) = {}
  BY DEF HoldersIn
<1>2. QED  BY <1>1, FS_EmptySet DEF Total

\* An activation that holds nothing.
LEMMA HeldByNone ==
    ASSUME NEW f \in Frame, f.imp = {}, f.cache = [k \in Lib |-> {}], NEW e
    PROVE  HeldBy(f, e) = 0
<1>1. \A k \in Lib \cup {Main} : e \notin Place(f, k)
  BY DEF Place
<1>2. HeldBy(f, e) \in Nat /\ ~(HeldBy(f, e) > 0)
  BY <1>1, HeldByType
<1>3. QED  BY <1>2

(***************************************************************************)
(* The invariant.                                                          *)
(***************************************************************************)

AnyEntity == Entity \cup MainEntity

\* Nothing has been rejected or thrown.
CleanRun == Clean /\ \A i \in DOMAIN results : results[i].status # "rejected"

\* Every entity that is held is alive, with a reference for each holder.
Counted == \A e \in AnyEntity :
    Total(frames, e) > 0 => e \in DOMAIN ref /\ ref[e] >= Total(frames, e)

\* The next entity is a new one.
Fresh == \A e \in DOMAIN ref : e[2] < serial

\* In a clean run there is no other reference.
Exact == CleanRun => \A e \in DOMAIN ref : ref[e] = Total(frames, e)

HeapInv == Counted /\ Fresh /\ Exact

LEMMA InitHeap == Init => HeapInv
<1> SUFFICES ASSUME Init PROVE HeapInv
  OBVIOUS
<1>1. frames = <<>> /\ ref = <<>>
  BY DEF Init, LoaderInit
<1>2. \A e : Total(frames, e) = 0
  BY <1>1, TotalEmpty
<1>3. DOMAIN ref = {}
  BY <1>1
<1>4. QED  BY <1>2, <1>3 DEF HeapInv, Counted, Fresh, Exact

LEMMA CleanRunBefore ==
    ASSUME Inv, [Next]_vars, CleanRun'
    PROVE  CleanRun /\ ~CatchAll
<1>1. Clean /\ ~CatchAll
  BY CleanBefore DEF CleanRun
<1>2. \A i \in DOMAIN results : results[i].status # "rejected"
  BY PastResults DEF CleanRun
<1>3. QED  BY <1>1, <1>2 DEF CleanRun

\* What an activation on the stack holds is alive, and the entity to be made next
\* is not among it.
LEMMA HeldAlive ==
    ASSUME Inv, HeapInv, NEW F \in Seq(Frame), NEW f \in Frame, NEW e \in AnyEntity,
           Total(frames, e) = Total(F, e) + HeldBy(f, e)
    PROVE  /\ Total(frames, e) \in Nat /\ Total(F, e) \in Nat /\ HeldBy(f, e) \in Nat
           /\ Held(e, f.cache) \in Nat
           /\ HeldBy(f, e) = Held(e, f.cache) + One(e, f.imp)
           /\ Total(frames, e) > 0 => /\ e \in DOMAIN ref
                                      /\ ref[e] \in Nat /\ ref[e] >= Total(frames, e)
                                      /\ e[2] < serial
<1>1. Total(frames, e) \in Nat /\ Total(F, e) \in Nat
  BY TotalType DEF Inv, Types
<1>2. HeldBy(f, e) \in Nat /\ Held(e, f.cache) \in Nat
  BY HeldByType
<1>3. \A x \in DOMAIN ref : ref[x] \in Nat
  BY DEF Inv, Types, Heap
<1>4. QED  BY <1>1, <1>2, <1>3 DEF HeapInv, Counted, Fresh, HeldBy

(***************************************************************************)
(* Every step keeps it.                                                    *)
(***************************************************************************)

LEMMA HeapKept ==
    ASSUME Inv, HeapInv, [Next]_vars, UNCHANGED <<ref, serial>>,
           \A e \in AnyEntity : Total(frames', e) = Total(frames, e)
    PROVE  HeapInv'
<1>1. Counted' /\ Fresh'
  BY DEF HeapInv, Counted, Fresh
<1>2. \A e \in DOMAIN ref : e \in AnyEntity
  BY DEF Inv, Types, Heap, AnyEntity
<1>3. Exact'
  BY <1>2, CleanRunBefore DEF HeapInv, Exact
<1>4. QED  BY <1>1, <1>3 DEF HeapInv

LEMMA OpenLibraryHeap ==
    ASSUME Inv, HeapInv, [Next]_vars, OpenLibrary
    PROVE  HeapInv'
<1> DEFINE n == Len(frames)
           g == frames'[n + 1]
           F == Front(frames')
<1>1. /\ frames \in Seq(Frame) /\ n \in Nat \ {0} /\ Top \in Frame
      /\ frames' \in Seq(Frame) /\ Len(frames') = n + 1
      /\ \A i \in 1 .. n : i # n => frames'[i] = frames[i]
      /\ OnlyLoading(Top, frames'[n])
      /\ g = NewFrame(Wanted, files[Wanted].imports, files[Wanted].body)
  BY OpenStep
<1>2. F \in Seq(Frame) /\ Len(F) = n /\ \A i \in 1 .. n : F[i] = frames'[i]
  BY <1>1 DEF Front
<1>3. g \in Frame /\ g.imp = {} /\ g.cache = [k \in Lib |-> {}]
  BY <1>1 DEF NewFrame
<1> HIDE DEF g, F
<1>4. \A i \in 1 .. n : F[i].imp = frames[i].imp /\ F[i].cache = frames[i].cache
  BY <1>1, <1>2 DEF OnlyLoading, Top
<1>5. ASSUME NEW e \in AnyEntity
      PROVE  Total(frames', e) = Total(frames, e)
  <2>1. Total(F, e) = Total(frames, e)
    BY <1>1, <1>2, <1>4, TotalSame
  <2>2. Total(frames', e) = Total(F, e) + HeldBy(g, e)
    BY <1>1, <1>2, TotalPop DEF g
  <2>3. HeldBy(g, e) = 0 /\ Total(F, e) \in Nat
    BY <1>2, <1>3, HeldByNone, TotalType
  <2>4. QED  BY <2>1, <2>2, <2>3
<1>6. UNCHANGED <<ref, serial>>
  BY DEF OpenLibrary
<1>7. QED  BY <1>5, <1>6, HeapKept

LEMMA SearchFailsHeap ==
    ASSUME Inv, HeapInv, [Next]_vars, SearchFails
    PROVE  HeapInv'
<1> DEFINE n == Len(frames)
<1>1. Importing /\ frames' = WithWantedPushed /\ UNCHANGED <<ref, serial>>
  BY DEF SearchFails, NotOpened, SearchThrows, Searching
<1>2. /\ frames \in Seq(Frame) /\ n \in Nat \ {0}
      /\ frames' \in Seq(Frame) /\ Len(frames') = n
      /\ \A i \in 1 .. n : i # n => frames'[i] = frames[i]
      /\ OnlyLoading(Top, frames'[n])
  BY <1>1, PushStep
<1>3. \A i \in 1 .. n : frames'[i].imp = frames[i].imp /\ frames'[i].cache = frames[i].cache
  BY <1>2 DEF OnlyLoading, Top
<1>4. \A e \in AnyEntity : Total(frames', e) = Total(frames, e)
  BY <1>2, <1>3, TotalSame
<1>5. QED  BY <1>1, <1>4, HeapKept

\* import_stmts holds what the cache of the same file holds, once more.
LEMMA CachedImportHeap ==
    ASSUME Inv, HeapInv, [Next]_vars, CachedImport
    PROVE  HeapInv'
<1> DEFINE n == Len(frames)
           h == frames'[n]
           decls == Top.cache[Wanted]
           F == Front(frames)
<1>1. /\ frames \in Seq(Frame) /\ n \in Nat \ {0} /\ Top \in Frame
      /\ Wanted \in Lib
      /\ frames' \in Seq(Frame) /\ Len(frames') = n
      /\ \A i \in 1 .. n : i # n => frames'[i] = frames[i]
      /\ h.imp = Top.imp \cup decls /\ h.cache = Top.cache
  BY CachedStep DEF Imported
<1>2. /\ F \in Seq(Frame) /\ Len(F) = n - 1
      /\ \A i \in 1 .. n - 1 : F[i] = frames[i]
  BY <1>1, PopFrame
<1>3. Top = frames[n] /\ h \in Frame
  BY <1>1 DEF Top
<1>4. ref' = Add(ref, decls, Top.imp) /\ UNCHANGED serial
  BY DEF CachedImport, CachedWith
<1> HIDE DEF h, decls, F
<1>5. ASSUME NEW e \in AnyEntity
      PROVE  /\ Total(frames, e) = Total(F, e) + HeldBy(Top, e)
             /\ Total(frames', e) = Total(F, e) + HeldBy(h, e)
  <2>1. Total(frames, e) = Total(F, e) + HeldBy(Top, e)
    BY <1>1, <1>2, <1>3, TotalPop
  <2>2. \A i \in 1 .. Len(F) : F[i] = frames'[i]
    BY <1>1, <1>2
  <2>3. Total(frames', e) = Total(F, e) + HeldBy(h, e)
    BY <1>1, <1>2, <2>2, TotalPop DEF h
  <2>4. QED  BY <2>1, <2>3
<1>6. ASSUME NEW e \in AnyEntity
      PROVE  /\ Total(frames, e) \in Nat
             /\ Total(frames', e) = Total(frames, e) + One(e, decls \ Top.imp)
             /\ Total(frames, e) > 0 => /\ e \in DOMAIN ref /\ ref[e] \in Nat
                                        /\ ref[e] >= Total(frames, e)
             /\ e \in decls => Total(frames, e) > 0
  <2>1. /\ Total(frames, e) \in Nat /\ Total(F, e) \in Nat
        /\ HeldBy(Top, e) = Held(e, Top.cache) + One(e, Top.imp)
        /\ Held(e, Top.cache) \in Nat /\ HeldBy(Top, e) \in Nat
        /\ Total(frames, e) > 0 => /\ e \in DOMAIN ref /\ ref[e] \in Nat
                                   /\ ref[e] >= Total(frames, e)
    BY <1>1, <1>2, <1>5, HeldAlive
  <2>2. HeldBy(h, e) = Held(e, Top.cache) + One(e, Top.imp \cup decls)
    BY <1>1 DEF HeldBy
  <2>3. e \in decls => HeldBy(Top, e) > 0
    BY <1>1, HeldByType, LibAssumption DEF decls, Place
  <2>4. QED  BY <1>5, <2>1, <2>2, <2>3 DEF One
<1>7. /\ DOMAIN ref' = DOMAIN ref
      /\ \A e \in DOMAIN ref : ref'[e] = IF e \in decls \ Top.imp THEN ref[e] + 1 ELSE ref[e]
  BY <1>4, AddAt
<1>8. Counted'
  <2> SUFFICES ASSUME NEW e \in AnyEntity, Total(frames', e) > 0
               PROVE  e \in DOMAIN ref' /\ ref'[e] >= Total(frames', e)
    BY DEF Counted
  <2>1. Total(frames, e) > 0
    BY <1>6 DEF One
  <2>2. QED  BY <1>6, <1>7, <2>1 DEF One
<1>9. Fresh'
  BY <1>4, <1>7 DEF HeapInv, Fresh
<1>10. Exact'
  <2> SUFFICES ASSUME CleanRun', NEW e \in DOMAIN ref
               PROVE  ref'[e] = Total(frames', e)
    BY <1>7 DEF Exact
  <2>1. e \in AnyEntity /\ ref[e] = Total(frames, e)
    BY CleanRunBefore DEF HeapInv, Exact, Inv, Types, Heap, AnyEntity
  <2>2. QED  BY <1>6, <1>7, <2>1 DEF One
<1>11. QED  BY <1>8, <1>9, <1>10 DEF HeapInv

\* The heap a start rule works on: the file's new entity is new, and what
\* import_stmts holds is alive.
LEMMA AcceptTop ==
    ASSUME Inv, HeapInv, frames # <<>>
    PROVE  /\ DOMAIN Accept(Top) = DOMAIN ref \cup Own(Top)
           /\ \A e \in DOMAIN ref : Accept(Top)[e] = ref[e]
           /\ \A e \in Own(Top) : Accept(Top)[e] = 1 /\ e \notin DOMAIN ref /\ e[2] = serial
<1> DEFINE F == Front(frames)
<1>1. frames \in Seq(Frame) /\ Heap(ref) /\ serial \in Nat
  BY DEF Inv, Types
<1>2. /\ Len(frames) \in Nat \ {0} /\ Top \in Frame /\ Top = frames[Len(frames)]
      /\ F \in Seq(Frame) /\ Len(F) = Len(frames) - 1
      /\ \A i \in 1 .. Len(frames) - 1 : F[i] = frames[i]
  BY <1>1, TopFrame, PopFrame DEF Top
<1> HIDE DEF F
<1>3. Top.imp \subseteq DOMAIN ref
  <2> SUFFICES ASSUME NEW e \in Top.imp PROVE e \in DOMAIN ref
    OBVIOUS
  <2>1. e \in AnyEntity
    BY <1>2 DEF Frame, AnyEntity
  <2>2. Total(frames, e) = Total(F, e) + HeldBy(Top, e)
    BY <1>1, <1>2, TotalPop
  <2>3. HeldBy(Top, e) > 0
    BY <1>2, HeldByType DEF Place
  <2>4. QED  BY <1>2, <2>1, <2>2, <2>3, HeldAlive
<1>4. <<Top.lib, serial>> \notin DOMAIN ref
  BY <1>1 DEF HeapInv, Fresh
<1>5. \A e \in Own(Top) : e = <<Top.lib, serial>>
  BY DEF Own
<1>6. /\ DOMAIN Accept(Top) = DOMAIN ref \cup Own(Top)
      /\ \A e \in DOMAIN ref : Accept(Top)[e] = ref[e]
      /\ \A e \in Own(Top) : Accept(Top)[e] = 1
  BY <1>1, <1>3, <1>4, AcceptAt
<1>7. \A e \in Own(Top) : e \notin DOMAIN ref /\ e[2] = serial
  BY <1>4, <1>5
<1>8. QED  BY <1>6, <1>7

LEMMA FrontFrames ==
    ASSUME NEW s \in Seq(Frame), Len(s) >= 1
    PROVE  /\ Front(s) \in Seq(Frame) /\ Len(Front(s)) = Len(s) - 1
           /\ \A i \in 1 .. Len(s) - 1 : Front(s)[i] = s[i]
<1> DEFINE n == Len(s) - 1
<1>1. Len(s) \in Nat \ {0} /\ n \in Int /\ n \in Nat /\ n - 1 + 1 = n
  OBVIOUS
<1>2. \A i \in 1 .. n : s[i] \in Frame
  BY <1>1
<1>3. Front(s) = SubSeq(s, 1, n)
  BY DEF Front
<1> HIDE DEF n
<1>4. /\ SubSeq(s, 1, n) \in Seq(Frame)
      /\ Len(SubSeq(s, 1, n)) = IF 1 <= n THEN n - 1 + 1 ELSE 0
      /\ \A i \in 1 .. n - 1 + 1 : SubSeq(s, 1, n)[i] = s[1 + i - 1]
  BY <1>1, <1>2, SubSeqProperties
<1>5. Len(SubSeq(s, 1, n)) = n /\ \A i \in 1 .. n : SubSeq(s, 1, n)[i] = s[i]
  BY <1>1, <1>4
<1>6. QED  BY <1>3, <1>4, <1>5 DEF n

\* The parse below takes over: what the finished one declares is held by the
\* cache and by import_stmts of its parent, and no longer by what has gone.
LEMMA ReturnTotals ==
    ASSUME Inv, LoadInv, HeapInv, ReturnDecls, NEW e \in AnyEntity
    PROVE  LET p == frames[Len(frames) - 1]
               decls == Declared(Top) IN
           /\ Total(frames, e) \in Nat /\ Held(e, Top.cache) \in Nat
           /\ Total(frames, e) >= Held(e, Top.cache) + One(e, Top.imp) + One(e, p.imp)
           /\ Total(frames', e) =
                Total(frames, e) - Held(e, Top.cache) - One(e, Top.imp)
                  + One(e, decls) + One(e, decls \ p.imp)
<1> DEFINE n == Len(frames)
           m == n - 1
           p == frames[m]
           h == frames'[m]
           decls == Declared(Top)
           F == Front(frames)
           G == Front(F)
<1>1. /\ Nested /\ decls \in SUBSET Entity
      /\ frames' \in Seq(Frame) /\ Len(frames') = m
      /\ \A i \in 1 .. m : i # m => frames'[i] = frames[i]
      /\ h.imp = p.imp \cup decls
      /\ h.cache = [p.cache EXCEPT ![Top.lib] = decls]
  BY ReturnStep DEF Imported
<1>2. /\ frames \in Seq(Frame) /\ n \in Nat /\ n > 1
      /\ Top \in Frame /\ Top = frames[n] /\ p \in Frame /\ Top.lib \in Lib
      /\ F \in Seq(Frame) /\ Len(F) = m /\ \A i \in 1 .. m : F[i] = frames[i]
  BY <1>1, PopStep
<1>3. G \in Seq(Frame) /\ Len(G) = m - 1 /\ \A i \in 1 .. m - 1 : G[i] = F[i]
  <2>1. F \in Seq(Frame) /\ Len(F) >= 1
    BY <1>2
  <2> HIDE DEF F
  <2>2. Len(G) = Len(F) - 1 /\ G \in Seq(Frame) /\ \A i \in 1 .. Len(F) - 1 : G[i] = F[i]
    BY <2>1, FrontFrames
  <2>3. QED  BY <1>2, <2>2
<1>m. m \in Nat /\ m >= 1 /\ n = m + 1
  BY <1>2
<1>4. p.cache[Top.lib] = {}
  <2>1. n \in DOMAIN frames /\ m \in DOMAIN frames
    BY <1>2
  <2>2. Top.lib \notin p.loaded /\ Recorded(p)
    BY <1>2, <2>1 DEF LoadInv
  <2>3. QED  BY <1>2, <2>2 DEF Recorded
<1> HIDE DEF n, m, p, h, decls, F, G
<1>5. Total(frames, e) = Total(F, e) + HeldBy(Top, e)
  BY <1>2, <1>m, TotalPop DEF n
<1>6. Total(F, e) = Total(G, e) + HeldBy(p, e)
  <2>1. F[m] = p
    BY <1>2, <1>m DEF p
  <2>2. QED  BY <1>2, <1>3, <1>m, <2>1, TotalPop
<1>7. Total(frames', e) = Total(G, e) + HeldBy(h, e)
  <2>1. \A i \in 1 .. m - 1 : G[i] = frames'[i]
    <3> SUFFICES ASSUME NEW i \in 1 .. m - 1 PROVE G[i] = frames'[i]
      OBVIOUS
    <3>1. i \in 1 .. m /\ i # m
      BY <1>m
    <3>2. QED  BY <1>1, <1>2, <1>3, <3>1
  <2>2. Len(frames') = Len(G) + 1 /\ frames'[Len(frames')] = h
    BY <1>1, <1>3, <1>m DEF h
  <2>3. QED  BY <1>1, <1>3, <2>1, <2>2, TotalPop
<1>8. HeldBy(h, e) = Held(e, p.cache) + One(e, decls) + One(e, p.imp \cup decls)
  <2>1. Held(e, h.cache) = Held(e, p.cache) + One(e, decls)
    <3>1. p.cache \in [Lib -> SUBSET Entity]
      BY <1>2 DEF Frame
    <3>2. Held(e, [p.cache EXCEPT ![Top.lib] = decls]) = Held(e, p.cache) + One(e, decls)
      BY <1>2, <1>4, <3>1, HeldCached
    <3>3. QED  BY <1>1, <3>2
  <2>2. QED  BY <1>1, <2>1 DEF HeldBy
<1>9. /\ Total(G, e) \in Nat /\ Held(e, p.cache) \in Nat /\ Held(e, Top.cache) \in Nat
      /\ Total(frames, e) \in Nat
  BY <1>2, <1>3, TotalType, HeldByType
<1>10. /\ HeldBy(Top, e) = Held(e, Top.cache) + One(e, Top.imp)
       /\ HeldBy(p, e) = Held(e, p.cache) + One(e, p.imp)
  BY DEF HeldBy
<1>11. One(e, p.imp \cup decls) = One(e, p.imp) + One(e, decls \ p.imp)
  BY DEF One
<1>12. \A S : One(e, S) \in {0, 1}
  BY DEF One
<1>13. /\ Total(frames, e) >= Held(e, Top.cache) + One(e, Top.imp) + One(e, p.imp)
       /\ Total(frames', e) =
            Total(frames, e) - Held(e, Top.cache) - One(e, Top.imp)
              + One(e, decls) + One(e, decls \ p.imp)
  <2>1. /\ One(e, Top.imp) \in Nat /\ One(e, p.imp) \in Nat /\ One(e, decls) \in Nat
        /\ One(e, decls \ p.imp) \in Nat
    BY <1>12
  <2>2. QED  BY <1>5, <1>6, <1>7, <1>8, <1>9, <1>10, <1>11, <2>1
<1>14. QED  BY <1>9, <1>13 DEF p, decls, m, n

LEMMA ReturnDeclsHeap ==
    ASSUME Inv, LoadInv, HeapInv, [Next]_vars, ReturnDecls
    PROVE  HeapInv'
<1> DEFINE p == frames[Len(frames) - 1]
           decls == Declared(Top)
           r1 == Accept(Top)
           r2 == Destroy(r1, Top.cache)
<1>1. frames # <<>> /\ serial \in Nat
  BY ReturnStep, NestedType DEF Inv, Types
<1>2. ref' = Add(r2, decls, p.imp)
  BY DEF ReturnDecls, ReturnWith
<1>3. /\ DOMAIN r1 = DOMAIN ref \cup Own(Top)
      /\ \A e \in DOMAIN ref : r1[e] = ref[e]
      /\ \A e \in Own(Top) : r1[e] = 1 /\ e \notin DOMAIN ref /\ e[2] = serial
  BY <1>1, AcceptTop
<1>4. decls = Own(Top) \cup Top.imp
  BY DEF Declared
<1>5. \A e : /\ e \in DOMAIN r2 <=> e \in DOMAIN r1 /\ r1[e] > Held(e, Top.cache)
             /\ e \in DOMAIN r2 => r2[e] = r1[e] - Held(e, Top.cache)
  BY DestroyAt
<1>6. /\ DOMAIN ref' = DOMAIN r2
      /\ \A e \in DOMAIN r2 : ref'[e] = r2[e] + One(e, decls \ p.imp)
  <2>1. Heap(r2)
    BY <1>1, ReturnStep, NestedType, AcceptType, DestroyCache DEF Inv
  <2>2. \A e \in DOMAIN r2 : r2[e] \in Nat
    BY <2>1 DEF Heap
  <2>3. QED  BY <1>2, <2>2, AddAt DEF One
<1>7. \A e \in AnyEntity :
        /\ Total(frames, e) \in Nat /\ Held(e, Top.cache) \in Nat
        /\ Total(frames, e) >= Held(e, Top.cache) + One(e, Top.imp) + One(e, p.imp)
        /\ Total(frames', e) =
             Total(frames, e) - Held(e, Top.cache) - One(e, Top.imp)
               + One(e, decls) + One(e, decls \ p.imp)
  BY ReturnTotals
<1>8. \A e \in AnyEntity : Total(frames, e) > 0 =>
        e \in DOMAIN ref /\ ref[e] >= Total(frames, e)
  BY DEF HeapInv, Counted
<1>9. \A e \in DOMAIN ref : e \in AnyEntity /\ ref[e] \in Nat \ {0}
  BY DEF Inv, Types, Heap, AnyEntity
<1>10. \A e \in Own(Top) : e \in AnyEntity
  BY ReturnStep, NestedType DEF Own, AnyEntity
<1> HIDE DEF p, decls, r1, r2
\* The entity of the file itself: made with one reference, and now held twice.
<1>11. ASSUME NEW e \in Own(Top)
       PROVE  e \in DOMAIN ref' /\ ref'[e] = 2 /\ Total(frames', e) = 2
  <2>1. e \in AnyEntity /\ e \notin DOMAIN ref /\ r1[e] = 1 /\ e \in DOMAIN r1 /\ e \in decls
    BY <1>3, <1>4, <1>10
  <2>2. Total(frames, e) = 0
    BY <1>7, <1>8, <2>1
  <2>3. One(e, Top.imp) = 0 /\ One(e, p.imp) = 0 /\ Held(e, Top.cache) = 0
    BY <1>7, <2>1, <2>2 DEF One
  <2>4. e \notin p.imp
    BY <2>3 DEF One
  <2>5. One(e, decls) = 1 /\ One(e, decls \ p.imp) = 1
    BY <2>1, <2>4 DEF One
  <2>6. e \in DOMAIN r2 /\ r2[e] = 1
    BY <1>5, <2>1, <2>3
  <2>7. e \in DOMAIN ref' /\ ref'[e] = 2
    BY <1>6, <2>5, <2>6
  <2>8. Total(frames', e) =
          Total(frames, e) - Held(e, Top.cache) - One(e, Top.imp)
            + One(e, decls) + One(e, decls \ p.imp)
    BY <1>7, <2>1
  <2>9. Total(frames', e) = 2
    BY <2>2, <2>3, <2>5, <2>8
  <2>10. QED  BY <2>7, <2>9
\* Any other: the reference of the finished import_stmts passes to the cache.
<1>12. ASSUME NEW e \in AnyEntity, e \notin Own(Top)
       PROVE  /\ Total(frames', e) =
                   Total(frames, e) - Held(e, Top.cache) + One(e, decls \ p.imp)
              /\ One(e, decls \ p.imp) = 1 => Total(frames, e) > Held(e, Top.cache)
  <2>1. One(e, decls) = One(e, Top.imp)
    BY <1>4, <1>12 DEF One
  <2>2. One(e, decls \ p.imp) = 1 => One(e, Top.imp) = 1
    BY <2>1 DEF One
  <2>3. One(e, Top.imp) \in {0, 1} /\ One(e, p.imp) \in {0, 1}
        /\ One(e, decls \ p.imp) \in {0, 1}
    BY DEF One
  <2>4. QED  BY <1>7, <2>1, <2>2, <2>3
<1>13. Counted'
  <2> SUFFICES ASSUME NEW e \in AnyEntity, Total(frames', e) > 0
               PROVE  e \in DOMAIN ref' /\ ref'[e] >= Total(frames', e)
    BY DEF Counted
  <2>1. CASE e \in Own(Top)
    BY <1>11, <2>1
  <2>2. CASE e \notin Own(Top)
    <3>1. One(e, decls \ p.imp) \in {0, 1}
      BY DEF One
    <3>7. /\ Total(frames, e) \in Nat /\ Held(e, Top.cache) \in Nat
          /\ Total(frames', e) =
               Total(frames, e) - Held(e, Top.cache) + One(e, decls \ p.imp)
          /\ One(e, decls \ p.imp) = 1 => Total(frames, e) > Held(e, Top.cache)
      BY <1>7, <1>12, <2>2
    <3>2. Total(frames, e) > Held(e, Top.cache)
      BY <3>1, <3>7
    <3>3. e \in DOMAIN ref /\ ref[e] >= Total(frames, e) /\ ref[e] \in Nat
      BY <1>8, <1>9, <3>2, <3>7
    <3>4. e \in DOMAIN r1 /\ r1[e] = ref[e]
      BY <1>3, <3>3
    <3>5. e \in DOMAIN r2 /\ r2[e] = ref[e] - Held(e, Top.cache)
      BY <1>5, <3>2, <3>3, <3>4, <3>7
    <3>8. e \in DOMAIN ref' /\ ref'[e] = ref[e] - Held(e, Top.cache) + One(e, decls \ p.imp)
      BY <1>6, <3>5
    <3>6. QED  BY <3>1, <3>3, <3>7, <3>8
  <2>3. QED  BY <2>1, <2>2
<1>14. Fresh'
  <2> SUFFICES ASSUME NEW e \in DOMAIN ref' PROVE e[2] < serial'
    BY DEF Fresh
  <2>1. e \in DOMAIN ref \cup Own(Top)
    BY <1>3, <1>5, <1>6
  <2>2. \A x \in DOMAIN ref : x[2] < serial /\ x[2] \in Nat
    BY DEF HeapInv, Fresh, Inv, Types, Heap, Entity, MainEntity
  <2>3. serial' = serial \/ serial' = serial + 1
    BY DEF ReturnDecls, ReturnWith
  <2>4. Own(Top) # {} => serial' = serial + 1
    BY DEF Own, ReturnDecls, ReturnWith
  <2>5. QED  BY <1>1, <1>3, <2>1, <2>2, <2>3, <2>4
<1>15. Exact'
  <2> SUFFICES ASSUME CleanRun', NEW e \in DOMAIN ref'
               PROVE  ref'[e] = Total(frames', e)
    BY DEF Exact
  <2>1. CASE e \in Own(Top)
    BY <1>11, <2>1
  <2>2. CASE e \notin Own(Top)
    <3>1. e \in DOMAIN r2 /\ e \in DOMAIN r1 /\ r1[e] > Held(e, Top.cache) /\ e \in DOMAIN ref
      BY <1>3, <1>5, <1>6, <2>2
    <3>2. ref[e] = Total(frames, e) /\ e \in AnyEntity /\ ref[e] \in Nat
      BY <1>9, <3>1, CleanRunBefore DEF HeapInv, Exact
    <3>3. r2[e] = ref[e] - Held(e, Top.cache)
      BY <1>3, <1>5, <3>1
    <3>4. One(e, decls \ p.imp) \in {0, 1}
      BY DEF One
    <3>5. QED  BY <1>6, <1>7, <1>12, <2>2, <3>1, <3>2, <3>3, <3>4
  <2>3. QED  BY <2>1, <2>2
<1>16. QED  BY <1>13, <1>14, <1>15 DEF HeapInv

\* ~Loader as an exception leaves a nested parse: what the activations below hold
\* still has its references.
LEMMA UnwindHeap ==
    ASSUME Inv, HeapInv, [Next]_vars, Unwind
    PROVE  HeapInv'
<1> DEFINE F == Front(frames)
<1>1. Nested /\ frames' = F /\ ref' = Destroy(ref, Top.cache) /\ serial' = serial
      /\ exc # "none" /\ exc' = exc
  BY DEF Unwind
<1>2. /\ frames \in Seq(Frame) /\ Len(frames) \in Nat /\ Top \in Frame
      /\ Top = frames[Len(frames)] /\ F \in Seq(Frame) /\ Len(F) = Len(frames) - 1
      /\ \A i \in 1 .. Len(frames) - 1 : F[i] = frames[i]
  BY <1>1, PopStep
<1>3. \A e : Total(frames, e) = Total(F, e) + HeldBy(Top, e)
  BY <1>2, TotalPop
<1>4. \A e : /\ e \in DOMAIN ref' <=> e \in DOMAIN ref /\ ref[e] > Held(e, Top.cache)
             /\ e \in DOMAIN ref' => ref'[e] = ref[e] - Held(e, Top.cache)
  BY <1>1, DestroyAt
<1> HIDE DEF F
<1>5. Counted'
  <2> SUFFICES ASSUME NEW e \in AnyEntity, Total(F, e) > 0
               PROVE  e \in DOMAIN ref' /\ ref'[e] >= Total(F, e)
    BY <1>1 DEF Counted
  <2>1. /\ Total(frames, e) \in Nat /\ Total(F, e) \in Nat /\ HeldBy(Top, e) \in Nat
        /\ Held(e, Top.cache) \in Nat
        /\ HeldBy(Top, e) = Held(e, Top.cache) + One(e, Top.imp)
        /\ Total(frames, e) > 0 => /\ e \in DOMAIN ref
                                   /\ ref[e] \in Nat /\ ref[e] >= Total(frames, e)
    BY <1>2, <1>3, HeldAlive
  <2>2. Total(frames, e) = Total(F, e) + HeldBy(Top, e)
    BY <1>3
  <2>3. One(e, Top.imp) \in {0, 1}
    BY DEF One
  <2>4. ref[e] - Held(e, Top.cache) >= Total(F, e) /\ e \in DOMAIN ref
        /\ ref[e] > Held(e, Top.cache)
    BY <2>1, <2>2, <2>3
  <2>5. QED  BY <1>4, <2>4
<1>6. Fresh'
  BY <1>1, <1>4 DEF HeapInv, Fresh
<1>7. Exact'
  BY <1>1 DEF Exact, CleanRun, Clean
<1>8. QED  BY <1>5, <1>6, <1>7 DEF HeapInv

\* A definition that throws leaks references, and takes none.
LEMMA BodyThrowsHeap ==
    ASSUME Inv, HeapInv, [Next]_vars, BodyThrows
    PROVE  HeapInv'
<1>1. frames' = frames /\ exc' = "throw" /\ frames # <<>>
  BY DEF BodyThrows, AtEnd, Running
<1>2. Exact'
  BY <1>1 DEF Exact, CleanRun, Clean
<1>3. CASE UNCHANGED <<ref, serial>>
  BY <1>1, <1>2, <1>3 DEF HeapInv, Counted, Fresh
<1>4. CASE /\ Nested
           /\ ref' = Add(Create(ref, <<Top.lib, serial>>), Top.imp, {})
           /\ serial' = serial + 1
  <2> DEFINE new == <<Top.lib, serial>>
             r1 == Create(ref, new)
  <2>1. /\ DOMAIN r1 = DOMAIN ref \cup {new}
        /\ \A e \in DOMAIN ref : e # new => r1[e] = ref[e]
    BY DEF Create
  <2>2. serial \in Nat /\ new \notin DOMAIN ref
    BY DEF Inv, Types, HeapInv, Fresh
  <2> HIDE DEF r1
  <2>3. /\ DOMAIN ref' = DOMAIN r1
        /\ \A e \in DOMAIN r1 : ref'[e] = IF e \in Top.imp \ {} THEN r1[e] + 1 ELSE r1[e]
    BY <1>4, AddAt DEF r1
  <2>4. \A e \in DOMAIN ref : ref[e] \in Nat
    BY DEF Inv, Types, Heap
  <2>5. \A e \in DOMAIN ref : e \in DOMAIN ref' /\ ref'[e] \in {ref[e], ref[e] + 1}
    BY <2>1, <2>2, <2>3
  <2>6. Counted'
    <3> SUFFICES ASSUME NEW e \in AnyEntity, Total(frames, e) > 0
                 PROVE  e \in DOMAIN ref' /\ ref'[e] >= Total(frames, e)
      BY <1>1 DEF Counted
    <3>1. e \in DOMAIN ref /\ ref[e] >= Total(frames, e)
      BY DEF HeapInv, Counted
    <3>2. Total(frames, e) \in Nat
      BY TotalType DEF Inv, Types
    <3>3. QED  BY <2>4, <2>5, <3>1, <3>2
  <2>7. Fresh'
    <3> SUFFICES ASSUME NEW e \in DOMAIN ref' PROVE e[2] < serial'
      BY DEF Fresh
    <3>1. CASE e \in DOMAIN ref
      <4>1. e[2] < serial /\ e[2] \in Nat
        BY <3>1 DEF HeapInv, Fresh, Inv, Types, Heap, Entity, MainEntity
      <4>2. QED  BY <1>4, <2>2, <4>1
    <3>2. CASE e = new
      BY <1>4, <2>2, <3>2
    <3>3. QED  BY <2>1, <2>3, <3>1, <3>2
  <2>8. QED  BY <1>2, <2>6, <2>7 DEF HeapInv
<1>5. QED  BY <1>3, <1>4 DEF BodyThrows

\* The outermost activation is all there is, and it is gone after the step.
LEMMA OutermostHolds ==
    ASSUME NEW e, Inv, frames # <<>>, ~Nested
    PROVE  Total(frames, e) = HeldBy(Top, e)
<1> DEFINE t == <<>>
<1>1. frames \in Seq(Frame) /\ Top \in Frame
  BY TopFrame DEF Inv, Types
<1>2. Len(frames) = 1
  BY LastFrame
<1>3. t \in Seq(Frame) /\ Len(t) = 0 /\ \A i \in 1 .. 0 : t[i] = frames[i]
  OBVIOUS
<1>4. Total(t, e) = 0
  BY TotalEmpty
<1> HIDE DEF t
<1>5. Len(frames) = Len(t) + 1 /\ \A i \in 1 .. Len(t) : t[i] = frames[i]
  BY <1>2, <1>3
<1>6. Total(frames, e) = Total(t, e) + HeldBy(frames[Len(frames)], e)
  BY <1>1, <1>3, <1>5, TotalPop
<1>7. HeldBy(Top, e) \in Nat
  BY <1>1, HeldByType
<1>8. QED  BY <1>4, <1>6, <1>7 DEF Top

LEMMA EmptyCounted ==
    ASSUME frames' = <<>>
    PROVE  Counted'
<1>1. \A e : Total(frames', e) = 0
  BY TotalEmpty
<1>2. QED  BY <1>1 DEF Counted

LEMMA OpenFileHeap ==
    ASSUME Inv, HeapInv, [Next]_vars, OpenFile
    PROVE  HeapInv'
<1> DEFINE f == NewFrame(Main, Current.imports, Current.body)
<1>1. frames' = <<f>> /\ frames = <<>> /\ UNCHANGED <<ref, serial>>
  BY DEF OpenFile, MoreFiles, Idle
<1>2. f \in Frame
  <2>1. Current \in Program
    BY ProgramType DEF OpenFile, Inv
  <2>2. QED  BY <2>1, NewFrameType DEF Program
<1>3. f.imp = {} /\ f.cache = [k \in Lib |-> {}]
  BY DEF NewFrame
<1> HIDE DEF f
<1>4. \A e : HeldBy(f, e) = 0
  BY <1>2, <1>3, HeldByNone
<1>5. <<f>> \in Seq(Frame) /\ Len(<<f>>) = 1 /\ <<f>>[1] = f /\ <<>> \in Seq(Frame)
      /\ Len(<<>>) = 0
  BY <1>2
<1> DEFINE s == <<f>>
           t == <<>>
<1>10. /\ s \in Seq(Frame) /\ t \in Seq(Frame) /\ Len(s) = Len(t) + 1
       /\ \A i \in 1 .. Len(t) : t[i] = s[i]
  BY <1>5
<1> HIDE DEF s, t
<1>11. \A e : Total(s, e) = Total(t, e) + HeldBy(s[Len(s)], e)
  BY <1>10, TotalPop
<1>6. \A e : Total(<<f>>, e) = Total(<<>>, e) + HeldBy(<<f>>[Len(<<f>>)], e)
  BY <1>11 DEF s, t
<1>7. \A e : Total(<<>>, e) = 0
  BY TotalEmpty
<1>8. \A e \in AnyEntity : Total(frames', e) = Total(frames, e)
  <2> SUFFICES ASSUME NEW e PROVE Total(<<f>>, e) = Total(<<>>, e)
    BY <1>1
  <2>1. Total(<<f>>, e) = Total(<<>>, e) + HeldBy(f, e)
    BY <1>5, <1>6
  <2>2. QED  BY <1>4, <1>7, <2>1
<1>9. QED  BY <1>1, <1>8, HeapKept

\* main drops the AST and the Option: the references of top_defs and of the
\* cache are the last ones.
LEMMA FinishCompileHeap ==
    ASSUME Inv, HeapInv, [Next]_vars, FinishCompile
    PROVE  HeapInv'
<1> DEFINE decls == Declared(Top)
           r1 == Accept(Top)
           r2 == Destroy(r1, <<decls>>)
<1>1. /\ frames # <<>> /\ ~Nested /\ frames' = <<>> /\ serial' = serial + 1
      /\ ref' = Destroy(r2, Top.cache)
  BY DEF FinishCompile, AtEnd, Running
<1>2. /\ DOMAIN r1 = DOMAIN ref \cup Own(Top)
      /\ \A e \in DOMAIN ref : r1[e] = ref[e]
      /\ \A e \in Own(Top) : r1[e] = 1 /\ e \notin DOMAIN ref /\ e[2] = serial
  BY <1>1, AcceptTop
<1>3. decls = Own(Top) \cup Top.imp
  BY DEF Declared
<1> HIDE DEF r1, decls
<1>4. \A e : /\ e \in DOMAIN r2 <=> e \in DOMAIN r1 /\ r1[e] > One(e, decls)
             /\ e \in DOMAIN r2 => r2[e] = r1[e] - One(e, decls)
  BY DestroyAt, HeldOne
<1> HIDE DEF r2
<1>5. \A e : /\ e \in DOMAIN ref' <=> e \in DOMAIN r2 /\ r2[e] > Held(e, Top.cache)
             /\ e \in DOMAIN ref' => ref'[e] = r2[e] - Held(e, Top.cache)
  BY <1>1, DestroyAt
<1>6. DOMAIN ref' \subseteq DOMAIN ref
  <2> SUFFICES ASSUME NEW e \in DOMAIN ref' PROVE e \in DOMAIN ref
    OBVIOUS
  <2>1. e \in DOMAIN r1 /\ r1[e] > One(e, decls)
    BY <1>4, <1>5
  <2>2. CASE e \in Own(Top)
    <3>1. r1[e] = 1 /\ One(e, decls) = 1
      BY <1>2, <1>3, <2>2 DEF One
    <3>2. QED  BY <2>1, <3>1
  <2>3. QED  BY <1>2, <2>1, <2>2
<1>7. Counted'
  BY <1>1, EmptyCounted
<1>8. Fresh'
  <2> SUFFICES ASSUME NEW e \in DOMAIN ref' PROVE e[2] < serial + 1
    BY <1>1 DEF Fresh
  <2>1. e[2] < serial /\ e[2] \in Nat /\ serial \in Nat
    BY <1>6 DEF HeapInv, Fresh, Inv, Types, Heap, Entity, MainEntity
  <2>2. QED  BY <2>1
<1>9. Exact'
  <2> SUFFICES ASSUME CleanRun', NEW e \in DOMAIN ref' PROVE FALSE
    BY DEF Exact
  <2>1. e \in DOMAIN ref /\ r1[e] = ref[e] /\ ref[e] \in Nat
    BY <1>2, <1>6 DEF Inv, Types, Heap
  <2>2. ref[e] = Total(frames, e)
    BY <2>1, CleanRunBefore DEF HeapInv, Exact
  <2>3. Total(frames, e) = Held(e, Top.cache) + One(e, Top.imp)
    <3>1. Total(frames, e) = HeldBy(Top, e)
      BY <1>1, OutermostHolds
    <3>2. QED  BY <3>1 DEF HeldBy
  <2>4. Held(e, Top.cache) \in Nat
    <3>1. Top \in Frame
      BY <1>1, TopFrame DEF Inv, Types
    <3>2. QED  BY <3>1, HeldByType
  <2>5. e \notin Own(Top)
    BY <1>2, <2>1
  <2>6. One(e, decls) = One(e, Top.imp)
    BY <1>3, <2>5 DEF One
  <2>7. One(e, Top.imp) \in {0, 1}
    BY DEF One
  <2>8. r2[e] = r1[e] - One(e, decls) /\ r2[e] > Held(e, Top.cache)
    BY <1>4, <1>5
  <2>9. QED  BY <2>1, <2>2, <2>3, <2>4, <2>6, <2>7, <2>8
<1>10. QED  BY <1>7, <1>8, <1>9 DEF HeapInv

\* A rejected file and a swallowed exception: the cache is given back, and the run
\* is no longer clean.
LEMMA GivenUpHeap ==
    ASSUME Inv, HeapInv, [Next]_vars, MainSyntaxError \/ CatchAll
    PROVE  HeapInv'
<1>1. frames' = <<>> /\ serial' = serial /\ ref' = Destroy(ref, Top.cache)
  BY DEF MainSyntaxError, CatchAll, CatchWith
<1>2. Counted'
  BY <1>1, EmptyCounted
<1>3. Fresh'
  BY <1>1, DestroyAt DEF HeapInv, Fresh
<1>4. ~CleanRun'
  <2>1. CASE MainSyntaxError
    <3>1. results \in Seq(Result)
      BY DEF Inv, Types
    <3>2. results' = Append(results, [status |-> "rejected", libs |-> {}])
      BY <2>1 DEF MainSyntaxError, Record
    <3>3. /\ Len(results) + 1 \in DOMAIN results'
          /\ results'[Len(results) + 1].status = "rejected"
      BY <3>1, <3>2
    <3>4. QED  BY <3>3 DEF CleanRun
  <2>2. CASE CatchAll
    BY <2>2, CleanRunBefore
  <2>3. QED  BY <2>1, <2>2
<1>5. QED  BY <1>2, <1>3, <1>4 DEF HeapInv, Exact

LEMMA NextHeap ==
    ASSUME Inv, LoadInv, HeapInv, [Next]_vars
    PROVE  HeapInv'
<1>1. CASE UNCHANGED <<frames, ref, serial>>
  BY <1>1, HeapKept
<1>2. CASE \/ RecursiveImport \/ LibSyntaxError \/ ScannerJams \/ CannotOpen
           \/ DumpTokens \/ DumpDies \/ DumpGoesOn \/ Terminated
  BY <1>1, <1>2 DEF RecursiveImport, LibSyntaxError, ScannerJams, CannotOpen,
                    DumpTokens, DumpDies, DumpGoesOn, Terminated, loaderVars, vars
<1>3. QED
  BY <1>1, <1>2, CachedImportHeap, OpenLibraryHeap, SearchFailsHeap, ReturnDeclsHeap,
     BodyThrowsHeap, UnwindHeap, OpenFileHeap, FinishCompileHeap, GivenUpHeap
     DEF Next, LoaderStep, LoaderNext, vars, loaderVars

(***************************************************************************)
(* The theorems.                                                           *)
(***************************************************************************)

LEMMA HeapInvariant == Spec => [](Inv /\ HeapInv)
<1>1. Init => HeapInv
  BY InitHeap
<1>2. Inv /\ LoadInv /\ HeapInv /\ [Next]_vars => HeapInv'
  BY NextHeap
<1>3. QED  BY <1>1, <1>2, StackInvariants, PTL DEF Spec

LEMMA HeldAndCounted == Inv /\ HeapInv => HeldEntitiesAlive
<1> SUFFICES ASSUME Inv, HeapInv, NEW i \in DOMAIN frames,
                    NEW e \in frames[i].imp \cup UNION {frames[i].cache[l] : l \in Lib}
             PROVE  e \in DOMAIN ref /\ ref[e] >= Cardinality(Holders(e))
  BY DEF HeldEntitiesAlive
<1>1. frames \in Seq(Frame) /\ frames[i] \in Frame
  BY DEF Inv, Types
<1>2. PICK k \in Lib \cup {Main} : e \in Place(frames[i], k)
  <2>1. CASE e \in frames[i].imp
    BY <2>1 DEF Place
  <2>2. CASE e \in UNION {frames[i].cache[l] : l \in Lib}
    BY <2>2, LibAssumption DEF Place
  <2>3. QED  BY <2>1, <2>2
<1>3. e \in AnyEntity
  BY <1>1 DEF Frame, AnyEntity
<1>4. <<i, k>> \in HoldersIn(frames, e)
  BY <1>2 DEF HoldersIn
<1>5. Total(frames, e) \in Nat /\ Total(frames, e) # 0
  BY <1>1, <1>4, TotalType
<1>6. QED  BY <1>3, <1>5, HoldersAreIn DEF HeapInv, Counted, Total

LEMMA ExactlyCounted == HeapInv => RefExact
BY HoldersAreIn DEF HeapInv, Exact, CleanRun, RefExact, Total

\* No Declarations object of an active parse points to a deleted entity, however
\* deep the Loaders nest and in whichever order they are destroyed.
THEOREM HeldEntitiesLive == Spec => []HeldEntitiesAlive
BY HeapInvariant, HeldAndCounted, PTL

\* Until a file is rejected or an exception thrown, the references of every entity
\* are exactly its holders: nothing leaks and nothing is counted twice.
THEOREM CountsAreExact == Spec => []RefExact
BY HeapInvariant, ExactlyCounted, PTL
=============================================================================
