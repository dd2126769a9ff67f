---------------------------- MODULE DriverProofs ----------------------------
(***************************************************************************)
(* Theorems about Driver, for every set of libraries, every set of import  *)
(* trees (cyclic ones included), every command line and every limit on     *)
(* descriptors: types and descriptors first, then what an import brings    *)
(* in, then what load_library remembers and refuses.                       *)
(***************************************************************************)
EXTENDS Driver, SequenceTheorems, FiniteSetTheorems, TLAPS

(***************************************************************************)
(* Reference counts.                                                       *)
(***************************************************************************)

\* A heap: a positive count for each live entity.
Heap(r) == /\ DOMAIN r \subseteq Entity \cup MainEntity
           /\ r \in [DOMAIN r -> Nat \ {0}]

\* Object::Object, Declarations::add and ~Declarations keep a heap a heap: no
\* count goes below one without the entity being deleted.
LEMMA HeapCreate ==
    ASSUME NEW r, Heap(r), NEW e \in Entity \cup MainEntity
    PROVE  Heap(Create(r, e))
BY DEF Heap, Create

LEMMA HeapAdd ==
    ASSUME NEW r, Heap(r), NEW from, NEW into
    PROVE  Heap(Add(r, from, into))
BY DEF Heap, Add

LEMMA HeldNat ==
    ASSUME NEW decls, IsFiniteSet(DOMAIN decls), NEW e
    PROVE  Held(e, decls) \in Nat
<1>1. IsFiniteSet({k \in DOMAIN decls : e \in decls[k]})
  BY FS_Subset
<1>2. QED  BY <1>1, FS_CardinalityType DEF Held

LEMMA HeapDestroy ==
    ASSUME NEW r, Heap(r), NEW decls, IsFiniteSet(DOMAIN decls)
    PROVE  Heap(Destroy(r, decls))
<1>1. \A e : Held(e, decls) \in Nat
  BY HeldNat
<1>2. \A e \in DOMAIN r : r[e] > Held(e, decls) => r[e] - Held(e, decls) \in Nat \ {0}
  BY <1>1 DEF Heap
<1>3. QED  BY <1>2 DEF Heap, Destroy

\* The two families of Declarations objects that are destroyed at once: a single
\* object, and the loaded_ of a Loader.
LEMMA DestroyOne ==
    ASSUME NEW r, Heap(r), NEW decls
    PROVE  Heap(Destroy(r, <<decls>>))
<1>1. DOMAIN <<decls>> = 1 .. 1
  OBVIOUS
<1>2. 1 .. 1 = {1}
  OBVIOUS
<1>3. IsFiniteSet({1})
  BY FS_Singleton
<1>4. IsFiniteSet(DOMAIN <<decls>>)
  BY <1>1, <1>2, <1>3, Zenon
<1>5. QED  BY <1>4, HeapDestroy

LEMMA DestroyCache ==
    ASSUME NEW r, Heap(r), NEW f \in Frame
    PROVE  Heap(Destroy(r, f.cache))
<1>1. DOMAIN f.cache = Lib
  BY DEF Frame
<1>2. IsFiniteSet(DOMAIN f.cache)
  BY <1>1, LibAssumption
<1>3. QED  BY <1>2, HeapDestroy

(***************************************************************************)
(* The stack of activations.                                               *)
(***************************************************************************)

LEMMA TopFrame ==
    ASSUME frames \in Seq(Frame), frames # <<>>
    PROVE  /\ Len(frames) \in Nat \ {0}
           /\ Len(frames) \in DOMAIN frames
           /\ Top \in Frame
BY DEF Top

LEMMA PopFrame ==
    ASSUME frames \in Seq(Frame), frames # <<>>
    PROVE  /\ Front(frames) \in Seq(Frame)
           /\ Len(Front(frames)) = Len(frames) - 1
           /\ \A i \in 1 .. Len(frames) - 1 : Front(frames)[i] = frames[i]
<1> DEFINE n == Len(frames) - 1
<1>1. n \in Nat /\ \A i \in 1 .. n : frames[i] \in Frame
  OBVIOUS
<1>2. Front(frames) = SubSeq(frames, 1, n)
  BY DEF Front
<1> HIDE DEF n
<1>3. /\ SubSeq(frames, 1, n) \in Seq(Frame) /\ Len(SubSeq(frames, 1, n)) = n
      /\ \A i \in 1 .. n : SubSeq(frames, 1, n)[i] = frames[i]
  <2>1. 1 \in Int /\ n \in Int /\ n - 1 + 1 = n /\ (IF 1 <= n THEN n - 1 + 1 ELSE 0) = n
        /\ \A i \in 1 .. n : 1 + i - 1 = i
    BY <1>1
  <2>2. /\ SubSeq(frames, 1, n) \in Seq(Frame)
        /\ Len(SubSeq(frames, 1, n)) = IF 1 <= n THEN n - 1 + 1 ELSE 0
        /\ \A i \in 1 .. n - 1 + 1 : SubSeq(frames, 1, n)[i] = frames[1 + i - 1]
    BY <1>1, <2>1, SubSeqProperties
  <2>3. QED  BY <2>1, <2>2
<1>4. QED  BY <1>2, <1>3 DEF n

LEMMA NewFrameType ==
    ASSUME NEW l \in Lib \cup {Main}, NEW imports \in Seq(Lib), NEW body \in Body
    PROVE  NewFrame(l, imports, body) \in Frame
BY DEF NewFrame, Frame

LEMMA MergeType ==
    ASSUME NEW f \in Frame, NEW decls \in SUBSET Entity
    PROVE  Merge(f, decls) \in Frame
<1>1. f.pos \in Nat /\ f.imp \in SUBSET Entity /\ f.typename \in SUBSET Lib
  BY DEF Frame
<1>2. NamesOf(decls) \subseteq Lib
  BY DEF NamesOf, Entity
<1>3. /\ f.pos + 1 \in Nat
      /\ f.imp \cup decls \in SUBSET Entity
      /\ f.typename \cup NamesOf(decls) \in SUBSET Lib
  BY <1>1, <1>2
<1>4. QED  BY <1>3, Zenon DEF Merge, Frame

LEMMA WantedType ==
    ASSUME frames \in Seq(Frame), Importing
    PROVE  /\ frames # <<>> /\ exc = "none" /\ ~exited
           /\ Top \in Frame
           /\ Wanted \in Lib
           /\ Top.pos + 1 \in 1 .. Len(Top.imports)
<1>1. frames # <<>> /\ exc = "none" /\ ~exited /\ Top.pos < Len(Top.imports)
  BY DEF Importing, Running
<1>2. Top \in Frame
  BY <1>1, TopFrame
<1>3. Top.pos \in Nat /\ Top.imports \in Seq(Lib)
  BY <1>2 DEF Frame
<1>4. Top.pos + 1 \in 1 .. Len(Top.imports)
  BY <1>1, <1>3
<1>5. Top.imports[Top.pos + 1] \in Lib
  BY <1>3, <1>4, ElementOfSeq
<1>6. QED  BY <1>1, <1>2, <1>4, <1>5 DEF Wanted

LEMMA PushedType ==
    ASSUME frames \in Seq(Frame), Importing
    PROVE  /\ WithWantedPushed \in Seq(Frame)
           /\ Len(WithWantedPushed) = Len(frames)
<1>1. Top \in Frame /\ Wanted \in Lib /\ frames # <<>>
  BY WantedType
<1> DEFINE g == [Top EXCEPT !.loading = Append(@, Wanted)]
<1>2. Append(Top.loading, Wanted) \in Seq(Lib)
  BY <1>1 DEF Frame
<1>6. g \in Frame
  BY <1>1, <1>2, Zenon DEF Frame
<1>3. Len(frames) \in 1 .. Len(frames)
  BY <1>1, TopFrame
<1>4. WithWantedPushed = [frames EXCEPT ![Len(frames)] = g]
  BY <1>1, TopFrame DEF WithWantedPushed, Top
<1> HIDE DEF g
<1>5. QED  BY <1>6, <1>3, <1>4, ExceptSeq

(***************************************************************************)
(* Type correctness.                                                       *)
(***************************************************************************)

\* TypeOK with nfd's bounds left out (NextFileOpens needs them strengthened).
Types ==
    /\ files \in FileSystems
    /\ frames \in Seq(Frame)
    /\ Heap(ref)
    /\ serial \in Nat
    /\ exc \in Exceptions
    /\ exited \in BOOLEAN
    /\ argv \in CommandLines
    /\ dumpToken \in BOOLEAN
    /\ results \in Seq(Result)

LEMMA ProgramType ==
    ASSUME Types, MoreFiles
    PROVE  Current \in Program /\ frames = <<>>
<1>1. argv \in Seq(Program) /\ results \in Seq(Result)
  BY CommandLineAssumption DEF Types
<1>2. Len(results) + 1 \in 1 .. Len(argv)
  BY <1>1 DEF MoreFiles
<1>3. QED  BY <1>1, <1>2, ElementOfSeq DEF Current, MoreFiles, Idle

LEMMA RecordType ==
    ASSUME results \in Seq(Result),
           NEW status \in {"ok", "rejected", "threw", "dumped"},
           NEW libs \in SUBSET Lib, Record(status, libs)
    PROVE  results' \in Seq(Result)
<1>1. [status |-> status, libs |-> libs] \in Result
  BY DEF Result
<1>2. QED  BY <1>1, AppendProperties DEF Record

LEMMA LibFileType ==
    ASSUME Types, NEW l \in Lib
    PROVE  files[l] \in File /\ files[l].imports \in Seq(Lib) /\ files[l].body \in Body
BY FileAssumption DEF Types, File

\* Only the outermost activation parses a .cb file.
MainOutermost == \A i \in DOMAIN frames : frames[i].lib = Main <=> i = 1

\* NextFileOpens made inductive: a descriptor per activation, never too many.
Descriptors ==
    /\ nfd \in Nat /\ nfd <= MaxFd
    /\ ~exited => nfd >= Len(frames)
    /\ Idle => nfd < MaxFd

Inv == Types /\ MainOutermost /\ Descriptors

LEMMA InitInv == Init => Inv
<1> SUFFICES ASSUME Init PROVE Inv
  OBVIOUS
<1>1. frames = <<>> /\ ref = <<>> /\ results = <<>>
  BY DEF Init, LoaderInit
<1>2. Heap(ref)
  BY <1>1 DEF Heap
<1>3. Types
  <2>1. frames \in Seq(Frame) /\ results \in Seq(Result)
    BY <1>1
  <2>2. /\ files \in FileSystems /\ serial \in Nat /\ exc \in Exceptions
        /\ exited \in BOOLEAN /\ argv \in CommandLines /\ dumpToken \in BOOLEAN
    BY DEF Init, LoaderInit, Exceptions
  <2>3. QED  BY <1>2, <2>1, <2>2 DEF Types
<1>4. MainOutermost /\ Descriptors
  BY <1>1, BoundAssumption DEF Init, LoaderInit, MainOutermost, Descriptors, Idle
<1>5. QED  BY <1>3, <1>4 DEF Inv

\* The steps that leave the stack alone or change only its top frame's record of
\* the import in hand.
LEMMA RecursiveImportInv ==
    ASSUME Inv, RecursiveImport, UNCHANGED <<argv, dumpToken, results>>
    PROVE  Inv'
BY DEF Inv, Types, MainOutermost, Descriptors, Idle, Heap, RecursiveImport, Exceptions

LEMMA PushedLibs ==
    ASSUME Inv, Importing
    PROVE  /\ DOMAIN WithWantedPushed = DOMAIN frames
           /\ \A i \in DOMAIN frames : WithWantedPushed[i].lib = frames[i].lib
<1>1. frames \in Seq(Frame)
  BY DEF Inv, Types
<1>2. \A i \in DOMAIN frames : frames[i] \in Frame
  BY <1>1
<1>3. QED  BY <1>2 DEF WithWantedPushed, Frame

LEMMA SearchFailsInv ==
    ASSUME Inv, SearchFails, UNCHANGED <<argv, dumpToken, results>>
    PROVE  Inv'
<1>1. Importing /\ frames \in Seq(Frame)
  BY DEF SearchFails, NotOpened, SearchThrows, Searching, Inv, Types
<1>2. /\ frames' \in Seq(Frame) /\ Len(frames') = Len(frames)
      /\ frames # <<>> /\ ~exited
  BY <1>1, PushedType, WantedType DEF SearchFails, NotOpened, SearchThrows
<1>3. Types'
  BY <1>2 DEF Inv, Types, Heap, SearchFails, NotOpened, SearchThrows, Exceptions
<1>4. MainOutermost'
  BY <1>1, PushedLibs DEF Inv, MainOutermost, SearchFails, NotOpened, SearchThrows
<1>5. frames' # <<>>
  BY <1>1, <1>2
<1>6. Descriptors'
  BY <1>2, <1>5 DEF Inv, Descriptors, SearchFails, NotOpened, SearchThrows, Idle
<1>7. QED  BY <1>3, <1>4, <1>6 DEF Inv

LEMMA CachedImportInv ==
    ASSUME Inv, CachedImport, UNCHANGED <<argv, dumpToken, results>>
    PROVE  Inv'
<1> DEFINE g == [Top EXCEPT !.loading = @ \o <<Wanted>>]
           h == Merge(g, Top.cache[Wanted])
<1>1. Importing /\ frames \in Seq(Frame)
  BY DEF CachedImport, CachedWith, Inv, Types
<1>2. frames # <<>> /\ Top \in Frame /\ Wanted \in Lib
  BY <1>1, WantedType
<1>3. Top.loading \o <<Wanted>> \in Seq(Lib) /\ Top.cache[Wanted] \in SUBSET Entity
  BY <1>2 DEF Frame
<1>4. g \in Frame /\ g.lib = Top.lib
  BY <1>2, <1>3, Zenon DEF Frame
<1>5. h \in Frame
  BY <1>3, <1>4, MergeType
<1>6. h.lib = Top.lib
  BY <1>4 DEF Merge, Frame
<1>7. frames' = [frames EXCEPT ![Len(frames)] = h]
  BY DEF CachedImport, CachedWith
<1> HIDE DEF g, h
<1>8. Len(frames) \in 1 .. Len(frames)
  BY <1>1, <1>2, TopFrame
<1>9. /\ frames' \in Seq(Frame) /\ Len(frames') = Len(frames)
      /\ \A j \in 1 .. Len(frames) :
            frames'[j] = IF j = Len(frames) THEN h ELSE frames[j]
  BY <1>1, <1>5, <1>7, <1>8, ExceptSeq
<1>10. Heap(ref')
  BY HeapAdd DEF Inv, Types, CachedImport, CachedWith
<1>11. Types'
  BY <1>9, <1>10 DEF Inv, Types, Heap, CachedImport, CachedWith
<1>12. \A j \in 1 .. Len(frames) : frames'[j].lib = frames[j].lib
  BY <1>6, <1>9 DEF Top
<1>13. DOMAIN frames' = DOMAIN frames /\ DOMAIN frames = 1 .. Len(frames)
  BY <1>1, <1>9
<1>14. MainOutermost'
  BY <1>12, <1>13 DEF Inv, MainOutermost
<1>15. Descriptors'
  BY <1>1, <1>2, <1>9 DEF Inv, Descriptors, CachedImport, CachedWith, Idle
<1>16. QED  BY <1>11, <1>14, <1>15 DEF Inv

\* OpenLibrary pushes a frame on the stack whose top has the library pending.
LEMMA OpenLibraryInv ==
    ASSUME Inv, OpenLibrary, UNCHANGED <<argv, dumpToken, results>>
    PROVE  Inv'
<1> DEFINE n == NewFrame(Wanted, files[Wanted].imports, files[Wanted].body)
           s == WithWantedPushed
<1>1. Importing /\ frames \in Seq(Frame) /\ nfd < MaxFd /\ Types
  BY DEF OpenLibrary, Searching, Inv, Types
<1>2. frames # <<>> /\ Wanted \in Lib /\ ~exited
  BY <1>1, WantedType
<1>3. n \in Frame /\ n.lib = Wanted
  <2>1. files[Wanted].imports \in Seq(Lib) /\ files[Wanted].body \in Body
    BY <1>1, <1>2, LibFileType
  <2>2. n \in Frame
    BY <1>2, <2>1, NewFrameType
  <2>3. QED  BY <2>2 DEF NewFrame
<1>4. s \in Seq(Frame) /\ Len(s) = Len(frames)
  BY <1>1, PushedType
<1>5. frames' = Append(s, n)
  BY DEF OpenLibrary
<1>6. \A i \in 1 .. Len(frames) : s[i].lib = frames[i].lib
  BY <1>1, PushedLibs
<1> HIDE DEF n, s
<1>7. /\ frames' \in Seq(Frame) /\ Len(frames') = Len(frames) + 1 /\ frames' # <<>>
      /\ \A i \in 1 .. Len(frames) : frames'[i] = s[i]
      /\ frames'[Len(frames) + 1] = n
  BY <1>3, <1>4, <1>5, AppendProperties
<1>8. Types'
  BY <1>7 DEF Inv, Types, Heap, OpenLibrary
<1>9. MainOutermost'
  <2>1. Len(frames) \in Nat /\ Len(frames) >= 1
    BY <1>1, <1>2, TopFrame
  <2>2. \A i \in 1 .. Len(frames) : frames'[i].lib = Main <=> i = 1
    BY <1>1, <1>6, <1>7 DEF Inv, MainOutermost
  <2>3. frames'[Len(frames) + 1].lib # Main
    BY <1>2, <1>3, <1>7, LibAssumption
  <2>4. DOMAIN frames' = 1 .. Len(frames) + 1
    BY <1>7
  <2>5. QED  BY <2>1, <2>2, <2>3, <2>4 DEF MainOutermost
<1>10. Descriptors'
  BY <1>1, <1>2, <1>7, BoundAssumption DEF Inv, Descriptors, OpenLibrary, Idle
<1>11. QED  BY <1>8, <1>9, <1>10 DEF Inv

\* A nested parse is of a library: what it makes is an Entity.
LEMMA NestedType ==
    ASSUME Inv, Nested
    PROVE  /\ frames \in Seq(Frame) /\ frames # <<>> /\ Len(frames) \in Nat
           /\ Len(frames) - 1 \in 1 .. Len(frames)
           /\ Top \in Frame /\ Top.lib \in Lib
           /\ <<Top.lib, serial>> \in Entity
<1>1. frames \in Seq(Frame) /\ Len(frames) > 1 /\ serial \in Nat
  BY DEF Inv, Types, Nested
<1>2. frames # <<>> /\ Len(frames) \in Nat /\ Len(frames) \in DOMAIN frames
  BY <1>1
<1>3. Top \in Frame
  BY <1>1, <1>2, TopFrame
<1>4. Top.lib # Main
  BY <1>1, <1>2 DEF Inv, MainOutermost, Top
<1>5. Top.lib \in Lib
  BY <1>3, <1>4 DEF Frame
<1>6. QED  BY <1>1, <1>2, <1>3, <1>5 DEF Entity

LEMMA LibSyntaxErrorInv ==
    ASSUME Inv, LibSyntaxError, UNCHANGED <<argv, dumpToken, results>>
    PROVE  Inv'
<1>1. Nested /\ ~exited /\ nfd' = nfd - 1 /\ exited'
  BY DEF LibSyntaxError, AtEnd, Running
<1>2. nfd \in Nat /\ nfd >= Len(frames) /\ Len(frames) \in Nat /\ Len(frames) > 1
  BY <1>1, NestedType DEF Inv, Descriptors, Nested
<1>3. Types'
  BY DEF Inv, Types, Heap, LibSyntaxError
<1>4. MainOutermost'
  BY DEF Inv, MainOutermost, LibSyntaxError
<1>5. Descriptors'
  BY <1>1, <1>2, BoundAssumption DEF Inv, Descriptors, LibSyntaxError, Idle
<1>6. QED  BY <1>3, <1>4, <1>5 DEF Inv

LEMMA ScannerJamsInv ==
    ASSUME Inv, ScannerJams, UNCHANGED <<argv, dumpToken, results>>
    PROVE  Inv'
<1>1. Types' /\ MainOutermost'
  BY DEF Inv, Types, Heap, MainOutermost, ScannerJams
<1>2. Descriptors'
  BY DEF Inv, Descriptors, ScannerJams, Idle
<1>3. QED  BY <1>1, <1>2 DEF Inv

LEMMA BodyThrowsInv ==
    ASSUME Inv, BodyThrows, UNCHANGED <<argv, dumpToken, results>>
    PROVE  Inv'
<1>1. Heap(ref') /\ serial' \in Nat
  <2>1. CASE UNCHANGED <<ref, serial>>
    BY <2>1 DEF Inv, Types, Heap
  <2>2. CASE /\ Nested
             /\ ref' = Add(Create(ref, <<Top.lib, serial>>), Top.imp, {})
             /\ serial' = serial + 1
    <3>1. <<Top.lib, serial>> \in Entity \cup MainEntity
      BY <2>2, NestedType
    <3>2. Heap(Create(ref, <<Top.lib, serial>>))
      BY <3>1, HeapCreate DEF Inv, Types
    <3>3. QED  BY <2>2, <3>2, HeapAdd DEF Inv, Types
  <2>3. QED  BY <2>1, <2>2 DEF BodyThrows
<1>2. Types'
  BY <1>1 DEF Inv, Types, BodyThrows, Exceptions
<1>3. MainOutermost' /\ Descriptors'
  BY DEF Inv, MainOutermost, Descriptors, BodyThrows, Idle
<1>4. QED  BY <1>2, <1>3 DEF Inv

LEMMA UnwindInv ==
    ASSUME Inv, Unwind, UNCHANGED <<argv, dumpToken, results>>
    PROVE  Inv'
<1>1. Nested /\ ~exited /\ frames' = Front(frames)
  BY DEF Unwind
<1>2. /\ frames \in Seq(Frame) /\ frames # <<>> /\ Top \in Frame
      /\ Len(frames) \in Nat /\ Len(frames) > 1
  BY <1>1, NestedType DEF Nested
<1>3. /\ frames' \in Seq(Frame) /\ Len(frames') = Len(frames) - 1
      /\ \A i \in 1 .. Len(frames) - 1 : frames'[i] = frames[i]
  BY <1>1, <1>2, PopFrame
<1>4. Heap(ref')
  BY <1>2, DestroyCache DEF Inv, Types, Unwind
<1>5. Types'
  BY <1>3, <1>4 DEF Inv, Types, Unwind
<1>6. MainOutermost'
  BY <1>2, <1>3 DEF Inv, MainOutermost
<1>7. Descriptors'
  BY <1>1, <1>2, <1>3 DEF Inv, Descriptors, Unwind, Idle
<1>8. QED  BY <1>5, <1>6, <1>7 DEF Inv

\* Popping the innermost frame and replacing the one below it.
LEMMA ReplaceParent ==
    ASSUME Inv, Nested, NEW g \in Frame,
           g.lib = frames[Len(frames) - 1].lib,
           frames' = [Front(frames) EXCEPT ![Len(frames) - 1] = g]
    PROVE  /\ frames' \in Seq(Frame)
           /\ Len(frames') = Len(frames) - 1 /\ Len(frames) > 1
           /\ MainOutermost'
<1>1. /\ frames \in Seq(Frame) /\ frames # <<>>
      /\ Len(frames) \in Nat /\ Len(frames) > 1
  BY NestedType DEF Nested
<1>2. /\ Front(frames) \in Seq(Frame) /\ Len(Front(frames)) = Len(frames) - 1
      /\ \A i \in 1 .. Len(frames) - 1 : Front(frames)[i] = frames[i]
  BY <1>1, PopFrame
<1>3. Len(frames) - 1 \in 1 .. Len(Front(frames))
  BY <1>1, <1>2
<1>4. /\ frames' \in Seq(Frame) /\ Len(frames') = Len(frames) - 1
      /\ \A j \in 1 .. Len(frames) - 1 :
            frames'[j] = IF j = Len(frames) - 1 THEN g ELSE Front(frames)[j]
  BY <1>2, <1>3, ExceptSeq
<1>5. \A j \in 1 .. Len(frames) - 1 : frames'[j].lib = frames[j].lib
  BY <1>2, <1>4
<1>6. DOMAIN frames' = 1 .. Len(frames) - 1 /\ DOMAIN frames = 1 .. Len(frames)
  BY <1>1, <1>4
<1>7. \A j \in 1 .. Len(frames) - 1 : frames[j].lib = Main <=> j = 1
  BY <1>1, <1>6 DEF Inv, MainOutermost
<1>8. MainOutermost'
  BY <1>5, <1>6, <1>7, Zenon DEF MainOutermost
<1>9. QED  BY <1>1, <1>4, <1>8

\* The start rules leave a heap.
LEMMA AcceptType ==
    ASSUME Types, <<Top.lib, serial>> \in Entity \cup MainEntity
    PROVE  Heap(Accept(Top))
<1>1. Heap(Create(ref, <<Top.lib, serial>>))
  BY HeapCreate DEF Types
<1>2. Heap(Destroy(Add(Create(ref, <<Top.lib, serial>>), Top.imp, Own(Top)), <<Top.imp>>))
  BY <1>1, HeapAdd, DestroyOne
<1>3. QED  BY <1>2 DEF Accept, Types

LEMMA ReturnDeclsInv ==
    ASSUME Inv, ReturnDecls, UNCHANGED <<argv, dumpToken, results>>
    PROVE  Inv'
<1> DEFINE decls  == Declared(Top)
           parent == frames[Len(frames) - 1]
           left   == Destroy(Accept(Top), Top.cache)
           g      == [parent EXCEPT !.loading = Front(@),
                                    !.loaded = @ \cup {Top.lib},
                                    !.cache[Top.lib] = decls]
           h      == Merge(g, decls)
<1>1. Nested /\ ~exited /\ exc = "none"
  BY DEF ReturnDecls, ReturnWith, AtEnd, Running
<1>2. /\ frames \in Seq(Frame) /\ Len(frames) \in Nat /\ Len(frames) > 1
      /\ Top \in Frame /\ Top.lib \in Lib /\ <<Top.lib, serial>> \in Entity
      /\ parent \in Frame
  BY <1>1, NestedType DEF Nested
<1>3. decls \in SUBSET Entity
  BY <1>2 DEF Frame, Own, Declared
<1>4. Heap(left)
  BY <1>2, AcceptType, DestroyCache DEF Inv
<1>5. ref' = Add(left, decls, parent.imp) /\ nfd' = nfd - 1
  BY DEF ReturnDecls, ReturnWith
<1>6. frames' = [Front(frames) EXCEPT ![Len(frames) - 1] = h]
  BY DEF ReturnDecls, ReturnWith
<1>7. serial' \in Nat
  BY DEF ReturnDecls, ReturnWith, Inv, Types
<1> HIDE DEF decls, left
<1>8. g \in Frame /\ g.lib = parent.lib
  <2> DEFINE q == Front(parent.loading)
             c == [parent.cache EXCEPT ![Top.lib] = decls]
             d == parent.loaded \cup {Top.lib}
  <2>1. parent.loading \in Seq(Lib) /\ parent.cache \in [Lib -> SUBSET Entity]
        /\ parent.loaded \in SUBSET Lib
    BY <1>2 DEF Frame
  <2>2. q \in Seq(Lib)
    BY <2>1 DEF Front
  <2>3. c \in [Lib -> SUBSET Entity] /\ d \in SUBSET Lib
    BY <1>2, <1>3, <2>1
  <2>4. g = [parent EXCEPT !.loading = q, !.loaded = d, !.cache = c]
    BY <1>2, Zenon DEF Frame
  <2> HIDE DEF q, c, d
  <2>5. QED  BY <1>2, <2>2, <2>3, <2>4, Zenon DEF Frame
<1> HIDE DEF g
<1>9. h \in Frame
  BY <1>3, <1>8, MergeType
<1>10. h.lib = parent.lib
  BY <1>8 DEF Merge, Frame
<1> HIDE DEF h
<1>11. /\ frames' \in Seq(Frame) /\ Len(frames') = Len(frames) - 1
       /\ MainOutermost'
  BY <1>1, <1>6, <1>9, <1>10, ReplaceParent
<1>12. Heap(ref')
  BY <1>4, <1>5, HeapAdd
<1>13. Types'
  BY <1>7, <1>11, <1>12 DEF Inv, Types, ReturnDecls, ReturnWith
<1>14. frames' # <<>>
  BY <1>2, <1>11
<1>15. nfd \in Nat /\ nfd <= MaxFd /\ nfd >= Len(frames)
  BY <1>1 DEF Inv, Descriptors
<1>16. exited' = exited
  BY DEF ReturnDecls, ReturnWith
<1>17. Descriptors'
  BY <1>1, <1>2, <1>5, <1>11, <1>14, <1>15, <1>16, BoundAssumption
     DEF Descriptors, Idle
<1>18. QED  BY <1>11, <1>13, <1>17 DEF Inv

\* The steps of main's loop.
LEMMA OpenFileInv == ASSUME Inv, OpenFile PROVE Inv'
<1> DEFINE n == NewFrame(Main, Current.imports, Current.body)
<1>1. MoreFiles /\ nfd < MaxFd /\ frames' = <<n>>
  BY DEF OpenFile
<1>2. Current \in Program /\ frames = <<>> /\ Types
  BY <1>1, ProgramType DEF Inv
<1>3. n \in Frame
  BY <1>2, NewFrameType DEF Program
<1>4. n.lib = Main
  BY DEF NewFrame
<1> HIDE DEF n
<1>5. frames' \in Seq(Frame) /\ Len(frames') = 1 /\ frames' # <<>>
      /\ DOMAIN frames' = {1} /\ frames'[1] = n
  BY <1>1, <1>3
<1>6. Types'
  BY <1>5 DEF Inv, Types, Heap, OpenFile
<1>7. MainOutermost'
  BY <1>4, <1>5 DEF MainOutermost
<1>8. Descriptors'
  BY <1>1, <1>5, BoundAssumption DEF Inv, Descriptors, OpenFile, Idle
<1>9. QED  BY <1>6, <1>7, <1>8 DEF Inv

LEMMA CannotOpenInv == ASSUME Inv, CannotOpen PROVE Inv'
<1>1. Types'
  BY DEF Inv, Types, Heap, CannotOpen
<1>2. MainOutermost' /\ Descriptors'
  BY DEF Inv, MainOutermost, Descriptors, CannotOpen, Idle
<1>3. QED  BY <1>1, <1>2 DEF Inv

LEMMA DumpDiesInv == ASSUME Inv, DumpDies PROVE Inv'
<1>1. Types'
  BY DEF Inv, Types, Heap, DumpDies
<1>2. MainOutermost' /\ Descriptors'
  BY DEF Inv, MainOutermost, Descriptors, DumpDies, Dumping, Idle
<1>3. QED  BY <1>1, <1>2 DEF Inv

LEMMA DumpTokensInv == ASSUME Inv, DumpTokens PROVE Inv'
<1>1. results' \in Seq(Result)
  BY RecordType DEF Inv, Types, DumpTokens
<1>2. Types'
  BY <1>1 DEF Inv, Types, Heap, DumpTokens, loaderVars
<1>3. MainOutermost' /\ Descriptors'
  BY DEF Inv, MainOutermost, Descriptors, DumpTokens, Idle, loaderVars
<1>4. QED  BY <1>2, <1>3 DEF Inv

\* The three ways back to the loop close the one descriptor of the last frame.
LEMMA FileDone ==
    ASSUME Inv, Len(frames) = 1, frames' = <<>>, nfd' = nfd - 1, ~exited,
           exited' = exited
    PROVE  MainOutermost' /\ Descriptors'
<1>1. MainOutermost'
  BY DEF MainOutermost
<1>2. Descriptors'
  BY BoundAssumption DEF Inv, Descriptors, Idle
<1>3. QED  BY <1>1, <1>2

LEMMA LastFrame ==
    ASSUME Inv, frames # <<>>, ~Nested
    PROVE  Len(frames) = 1 /\ Top \in Frame /\ Top.lib = Main
<1>1. frames \in Seq(Frame)
  BY DEF Inv, Types
<1>2. Len(frames) = 1 /\ 1 \in DOMAIN frames
  BY <1>1 DEF Nested
<1>3. QED  BY <1>1, <1>2, TopFrame DEF Top, Inv, MainOutermost

LEMMA FinishCompileInv == ASSUME Inv, FinishCompile PROVE Inv'
<1> DEFINE freed == Destroy(Accept(Top), <<Declared(Top)>>)
<1>1. Len(frames) = 1 /\ Top \in Frame /\ Top.lib = Main /\ ~exited
  BY LastFrame DEF FinishCompile, AtEnd, Running
<1>2. <<Top.lib, serial>> \in MainEntity
  BY <1>1 DEF Inv, Types, MainEntity
<1>3. Heap(Accept(Top))
  BY <1>2, AcceptType DEF Inv
<1>4. Heap(freed)
  BY <1>3, DestroyOne
<1>5. ref' = Destroy(freed, Top.cache)
  BY DEF FinishCompile
<1>6. Heap(ref')
  BY <1>1, <1>4, <1>5, DestroyCache
<1>7. NamesOf(Top.imp) \in SUBSET Lib
  BY <1>1 DEF NamesOf, Frame, Entity
<1>8. results' \in Seq(Result)
  BY <1>7, RecordType DEF Inv, Types, FinishCompile
<1>9. Types'
  BY <1>6, <1>8 DEF Inv, Types, FinishCompile
<1>10. MainOutermost' /\ Descriptors'
  BY <1>1, FileDone DEF FinishCompile
<1>11. QED  BY <1>9, <1>10 DEF Inv

LEMMA MainSyntaxErrorInv == ASSUME Inv, MainSyntaxError PROVE Inv'
<1>1. Len(frames) = 1 /\ Top \in Frame /\ ~exited
  BY LastFrame DEF MainSyntaxError, AtEnd, Running
<1>2. Heap(ref') /\ results' \in Seq(Result)
  BY <1>1, DestroyCache, RecordType DEF Inv, Types, MainSyntaxError
<1>3. Types'
  BY <1>2 DEF Inv, Types, MainSyntaxError
<1>4. MainOutermost' /\ Descriptors'
  BY <1>1, FileDone DEF MainSyntaxError
<1>5. QED  BY <1>3, <1>4 DEF Inv

LEMMA CatchAllInv == ASSUME Inv, CatchAll PROVE Inv'
<1>1. Len(frames) = 1 /\ Top \in Frame /\ ~exited
  <2>1. Len(frames) = 1 /\ ~exited /\ frames \in Seq(Frame)
    BY DEF CatchAll, CatchWith, Inv, Types
  <2>2. frames # <<>>
    BY <2>1
  <2>3. QED  BY <2>1, <2>2, TopFrame
<1>2. Heap(ref') /\ results' \in Seq(Result)
  BY <1>1, DestroyCache, RecordType DEF Inv, Types, CatchAll, CatchWith
<1>3. Types'
  BY <1>2 DEF Inv, Types, CatchAll, CatchWith, Exceptions
<1>4. MainOutermost' /\ Descriptors'
  BY <1>1, FileDone DEF CatchAll, CatchWith
<1>5. QED  BY <1>3, <1>4 DEF Inv

LEMMA NextInv == Inv /\ [Next]_vars => Inv'
<1> SUFFICES ASSUME Inv, [Next]_vars PROVE Inv'
  OBVIOUS
<1>1. CASE LoaderStep
  BY <1>1, RecursiveImportInv, CachedImportInv, OpenLibraryInv, SearchFailsInv,
     ReturnDeclsInv, LibSyntaxErrorInv, ScannerJamsInv, BodyThrowsInv, UnwindInv
     DEF LoaderStep, LoaderNext
<1>2. CASE OpenFile
  BY <1>2, OpenFileInv
<1>3. CASE CannotOpen \/ DumpDies
  BY <1>3, CannotOpenInv, DumpDiesInv
<1>4. CASE DumpTokens
  BY <1>4, DumpTokensInv
<1>5. CASE FinishCompile
  BY <1>5, FinishCompileInv
<1>6. CASE MainSyntaxError
  BY <1>6, MainSyntaxErrorInv
<1>7. CASE CatchAll
  BY <1>7, CatchAllInv
<1>8. CASE UNCHANGED vars
  BY <1>8 DEF vars, loaderVars, Inv, Types, Heap, MainOutermost, Descriptors, Idle
<1>9. QED
  BY <1>1, <1>2, <1>3, <1>4, <1>5, <1>6, <1>7, <1>8 DEF Next, DumpGoesOn, Terminated

LEMMA InvImplies == Inv => TypeOK /\ NextFileOpens
<1>1. Inv => TypeOK
  BY BoundAssumption DEF Inv, Types, Heap, Descriptors, TypeOK
<1>2. Inv => NextFileOpens
  BY DEF Inv, Descriptors, NextFileOpens
<1>3. QED  BY <1>1, <1>2

\* Type correctness: in particular no reference count is ever brought to zero or
\* below for an entity that stays alive, and no descriptor is closed twice.
THEOREM TypeCorrect == Spec => []TypeOK
<1>1. Spec => []Inv
  BY InitInv, NextInv, PTL DEF Spec
<1>2. QED  BY <1>1, InvImplies, PTL

\* main always finds a free descriptor for the next file of the command line: the
\* descriptors that exceptions leak can exhaust those of the imports, never that.
THEOREM DriverKeepsADescriptor == Spec => []NextFileOpens
<1>1. Spec => []Inv
  BY InitInv, NextInv, PTL DEF Spec
<1>2. QED  BY <1>1, InvImplies, PTL

\* The loop's record of the files it is done with only grows.
LEMMA PastResults ==
    ASSUME Inv, [Next]_vars
    PROVE  \A i \in DOMAIN results : i \in DOMAIN results' /\ results'[i] = results[i]
<1>1. results \in Seq(Result)
  BY DEF Inv, Types
<1>2. ASSUME NEW status, NEW libs, Record(status, libs)
      PROVE  \A i \in DOMAIN results : i \in DOMAIN results' /\ results'[i] = results[i]
  BY <1>1, <1>2 DEF Record
<1>3. CASE UNCHANGED results
  BY <1>3
<1>4. CASE DumpTokens \/ FinishCompile \/ MainSyntaxError \/ CatchAll
  BY <1>2, <1>4 DEF DumpTokens, FinishCompile, MainSyntaxError, CatchAll, CatchWith
<1>5. QED
  BY <1>3, <1>4 DEF Next, LoaderStep, OpenFile, CannotOpen, DumpDies, DumpGoesOn,
     Terminated, vars

\* An exception is swallowed in one step only, and that step leaves its mark.
LEMMA CleanBefore ==
    ASSUME Inv, [Next]_vars, Clean'
    PROVE  Clean /\ ~CatchAll
<1>1. ~CatchAll
  <2> SUFFICES ASSUME CatchAll PROVE FALSE
    OBVIOUS
  <2>1. results \in Seq(Result)
    BY DEF Inv, Types
  <2>2. results'[Len(results) + 1].status = "threw" /\ Len(results) + 1 \in DOMAIN results'
    BY <2>1 DEF CatchAll, CatchWith, Record
  <2>3. QED  BY <2>2 DEF Clean
<1>2. exc = "none"
  BY <1>1 DEF Clean, Next, LoaderStep, LoaderNext, RecursiveImport, CachedImport,
     CachedWith, OpenLibrary, SearchFails, SearchThrows, ReturnDecls, ReturnWith,
     LibSyntaxError, ScannerJams, BodyThrows, Unwind, OpenFile, CannotOpen, DumpTokens,
     DumpDies, DumpGoesOn, FinishCompile, MainSyntaxError, Terminated, vars, loaderVars
<1>3. \A i \in DOMAIN results : results[i].status # "threw"
  BY PastResults DEF Clean
<1>4. QED  BY <1>1, <1>2, <1>3 DEF Clean

\* Without a swallowed exception the count of descriptors is that of the active
\* parses: every other way out of a parse closes its file, and what an exception
\* leaks can only make Clean false, for good.
LEMMA NextLeak == Inv /\ NoDescriptorLeak /\ [Next]_vars => NoDescriptorLeak'
<1> SUFFICES ASSUME Inv, NoDescriptorLeak, [Next]_vars, Clean', ~exited'
             PROVE  nfd' = Len(frames')
  BY DEF NoDescriptorLeak
<1>1. ~exited => nfd = Len(frames)
  BY CleanBefore DEF NoDescriptorLeak
<1>2. CASE LoaderStep
  <2>1. CASE \/ RecursiveImport \/ SearchFails \/ BodyThrows \/ Unwind
             \/ LibSyntaxError \/ ScannerJams
    BY <2>1 DEF Clean, RecursiveImport, SearchFails, SearchThrows, BodyThrows,
       Unwind, LibSyntaxError, ScannerJams
  <2>2. CASE CachedImport
    BY <1>1, <2>2 DEF CachedImport, CachedWith
  <2>3. CASE OpenLibrary
    <3>1. frames \in Seq(Frame) /\ Importing
      BY <2>3 DEF Inv, Types, OpenLibrary, Searching
    <3>2. WithWantedPushed \in Seq(Frame) /\ Len(WithWantedPushed) = Len(frames)
      BY <3>1, PushedType
    <3>3. Len(frames') = Len(frames) + 1 /\ nfd' = nfd + 1 /\ exited' = exited
      BY <2>3, <3>2 DEF OpenLibrary
    <3>4. QED  BY <1>1, <3>3
  <2>4. CASE ReturnDecls
    <3>1. ~exited /\ Nested
      BY <2>4 DEF ReturnDecls, ReturnWith, AtEnd, Running
    <3>2. frames \in Seq(Frame) /\ frames # <<>> /\ Len(frames) \in Nat
      BY <3>1, NestedType
    <3>3. Len(Front(frames)) = Len(frames) - 1 /\ Front(frames) \in Seq(Frame)
      BY <3>2, PopFrame
    <3>4. Len(frames') = Len(Front(frames)) /\ nfd' = nfd - 1
      BY <2>4, <3>3 DEF ReturnDecls, ReturnWith
    <3>5. QED  BY <1>1, <3>1, <3>3, <3>4
  <2>5. QED
    BY <1>2, <2>1, <2>2, <2>3, <2>4 DEF LoaderStep, LoaderNext
<1>3. CASE OpenFile
  <2>1. ~exited /\ frames = <<>> /\ nfd' = nfd + 1 /\ Len(frames') = 1
    BY <1>3 DEF OpenFile, MoreFiles, Idle
  <2>2. QED  BY <1>1, <2>1
<1>4. CASE FinishCompile \/ MainSyntaxError
  <2>1. ~exited /\ frames # <<>> /\ ~Nested
    BY <1>4 DEF FinishCompile, MainSyntaxError, AtEnd, Running
  <2>2. nfd' = nfd - 1 /\ frames' = <<>>
    BY <1>4 DEF FinishCompile, MainSyntaxError
  <2>3. Len(frames) = 1
    BY <2>1, LastFrame
  <2>4. QED  BY <1>1, <2>1, <2>2, <2>3
<1>5. CASE CannotOpen \/ DumpTokens \/ DumpDies \/ UNCHANGED vars
  BY <1>1, <1>5 DEF CannotOpen, DumpTokens, DumpDies, vars, loaderVars
<1>6. QED
  BY <1>2, <1>3, <1>4, <1>5, CleanBefore DEF Next, DumpGoesOn, Terminated

\* As long as no file ends in an exception, exactly the descriptors of the active
\* parses are open, whatever is imported and however many files there are.
THEOREM CleanRunsLeakNothing == Spec => []NoDescriptorLeak
<1>1. Init => NoDescriptorLeak
  BY DEF Init, LoaderInit, NoDescriptorLeak
<1>2. QED  BY <1>1, InitInv, NextInv, NextLeak, PTL DEF Spec
-----------------------------------------------------------------------------
(***************************************************************************)
(* What an import brings in: ImportClosure is an invariant of Driver, for  *)
(* every import tree.                                                      *)
(***************************************************************************)

(***************************************************************************)
(* The reach of a set of libraries in an import tree.                      *)
(***************************************************************************)

ImportsOf(fs, l) == {fs[l].imports[i] : i \in DOMAIN fs[l].imports}

\* Closure(fs, roots) is the least closed set of libraries containing roots.
LEMMA ClosureLeast ==
    ASSUME NEW fs, NEW roots, NEW C \in SUBSET Lib, Closed(fs, C), roots \subseteq C
    PROVE  Closure(fs, roots) \subseteq C
BY DEF Closure

LEMMA ClosureContains ==
    ASSUME NEW fs, NEW roots \in SUBSET Lib
    PROVE  roots \subseteq Closure(fs, roots) /\ Closure(fs, roots) \in SUBSET Lib
BY DEF Closure

LEMMA ClosureClosed ==
    ASSUME NEW fs \in FileSystems, NEW roots \in SUBSET Lib
    PROVE  Closed(fs, Closure(fs, roots))
<1> SUFFICES ASSUME NEW l \in Closure(fs, roots), NEW i \in DOMAIN fs[l].imports
             PROVE  fs[l].imports[i] \in Closure(fs, roots)
  BY DEF Closed
<1>1. l \in Lib
  BY DEF Closure
<1>2. fs[l].imports[i] \in Lib
  BY <1>1, FileAssumption DEF File
<1>3. ASSUME NEW C \in SUBSET Lib, Closed(fs, C), roots \subseteq C
      PROVE  fs[l].imports[i] \in C
  BY <1>3 DEF Closure, Closed
<1>4. QED  BY <1>2, <1>3 DEF Closure

\* Importing two sets of libraries reaches what importing each of them reaches.
LEMMA ClosureUnion ==
    ASSUME NEW fs \in FileSystems, NEW A \in SUBSET Lib, NEW B \in SUBSET Lib
    PROVE  Closure(fs, A \cup B) = Closure(fs, A) \cup Closure(fs, B)
<1>1. Closure(fs, A \cup B) \subseteq Closure(fs, A) \cup Closure(fs, B)
  <2> DEFINE C == Closure(fs, A) \cup Closure(fs, B)
  <2>1. Closed(fs, C)
    BY ClosureClosed DEF Closed
  <2>2. C \in SUBSET Lib /\ A \cup B \subseteq C
    BY ClosureContains
  <2>3. QED  BY <2>1, <2>2, ClosureLeast
<1>2. \A R \in SUBSET Lib : R \subseteq A \cup B =>
        Closure(fs, R) \subseteq Closure(fs, A \cup B)
  BY DEF Closure
<1>3. QED  BY <1>1, <1>2

\* Importing a library reaches it and what it imports.
LEMMA ClosureStep ==
    ASSUME NEW fs \in FileSystems, NEW l \in Lib
    PROVE  /\ ImportsOf(fs, l) \in SUBSET Lib
           /\ Closure(fs, {l}) = {l} \cup Closure(fs, ImportsOf(fs, l))
<1>1. fs[l].imports \in Seq(Lib)
  BY FileAssumption DEF File
<1>2. ImportsOf(fs, l) \in SUBSET Lib
  BY <1>1 DEF ImportsOf
<1>3. Closure(fs, {l}) \subseteq {l} \cup Closure(fs, ImportsOf(fs, l))
  <2> DEFINE R == Closure(fs, ImportsOf(fs, l))
             C == {l} \cup R
  <2>1. ImportsOf(fs, l) \subseteq R /\ R \in SUBSET Lib /\ Closed(fs, R)
    BY <1>2, ClosureContains, ClosureClosed
  <2>2. \A i \in DOMAIN fs[l].imports : fs[l].imports[i] \in C
    BY <2>1 DEF ImportsOf
  <2>3. Closed(fs, C)
    BY <2>1, <2>2 DEF Closed
  <2>4. C \in SUBSET Lib
    BY <2>1
  <2>5. QED  BY <2>3, <2>4, ClosureLeast
<1>4. {l} \cup Closure(fs, ImportsOf(fs, l)) \subseteq Closure(fs, {l})
  <2> DEFINE C == Closure(fs, {l})
  <2>1. l \in C /\ C \in SUBSET Lib /\ Closed(fs, C)
    BY ClosureContains, ClosureClosed
  <2>2. ImportsOf(fs, l) \subseteq C
    BY <2>1 DEF Closed, ImportsOf
  <2>3. Closure(fs, ImportsOf(fs, l)) \subseteq C
    BY <2>1, <2>2, ClosureLeast
  <2>4. QED  BY <2>1, <2>3
<1>5. QED  BY <1>2, <1>3, <1>4

\* Nothing is reached from nothing.
LEMMA ClosureEmpty ==
    ASSUME NEW fs \in FileSystems
    PROVE  Closure(fs, {}) = {}
<1>1. Closed(fs, {})
  BY DEF Closed
<1>2. QED  BY <1>1, ClosureLeast

(***************************************************************************)
(* The invariant of one activation, and of neighbours on the stack.        *)
(***************************************************************************)

\* Each activation has gathered, and each cached library stands for, what the
\* import tree says.
Gathered(fs, f) ==
    /\ f.pos <= Len(f.imports)
    /\ NamesOf(f.imp) = Declaring(fs, Closure(fs, Done(f)))
    /\ f.typename = NamesOf(f.imp)
    /\ \A l \in f.loaded : NamesOf(f.cache[l]) = Declaring(fs, Closure(fs, {l}))

\* f is the parse of the file that p is waiting to import.
Nests(fs, p, f) ==
    /\ f.imports = fs[f.lib].imports
    /\ f.body = fs[f.lib].body
    /\ p.pos < Len(p.imports)
    /\ p.imports[p.pos + 1] = f.lib

ImportInv ==
    /\ \A i \in DOMAIN frames : Gathered(files, frames[i])
    /\ \A i \in DOMAIN frames : i > 1 => Nests(files, frames[i - 1], frames[i])

LEMMA NamesUnion ==
    ASSUME NEW A, NEW B
    PROVE  NamesOf(A \cup B) = NamesOf(A) \cup NamesOf(B)
BY DEF NamesOf

\* One more import: Done grows by the library, and so does the closure.
LEMMA MergeGathers ==
    ASSUME NEW fs \in FileSystems, NEW f \in Frame, Gathered(fs, f),
           f.pos < Len(f.imports), NEW decls \in SUBSET Entity,
           NamesOf(decls) = Declaring(fs, Closure(fs, {f.imports[f.pos + 1]}))
    PROVE  Gathered(fs, Merge(f, decls))
<1> DEFINE h == Merge(f, decls)
           l == f.imports[f.pos + 1]
<1>1. f.pos \in Nat /\ f.imports \in Seq(Lib) /\ Len(f.imports) \in Nat
  BY DEF Frame
<1>2. \A i \in 1 .. f.pos + 1 : f.imports[i] \in Lib
  BY <1>1, ElementOfSeq
<1>3. /\ h.pos = f.pos + 1 /\ h.imports = f.imports
      /\ h.imp = f.imp \cup decls /\ h.typename = f.typename \cup NamesOf(decls)
      /\ h.loaded = f.loaded /\ h.cache = f.cache
  BY DEF Merge, Frame
<1> HIDE DEF h
<1>4. l \in Lib /\ Done(f) \in SUBSET Lib
  BY <1>1, <1>2 DEF Done
<1>5. Done(h) = Done(f) \cup {l}
  BY <1>1, <1>3 DEF Done
<1>6. Closure(fs, Done(h)) = Closure(fs, Done(f)) \cup Closure(fs, {l})
  BY <1>4, <1>5, ClosureUnion
<1>7. NamesOf(h.imp) = NamesOf(f.imp) \cup NamesOf(decls)
  BY <1>3, NamesUnion
<1>8. NamesOf(h.imp) = Declaring(fs, Closure(fs, Done(h)))
  BY <1>6, <1>7 DEF Gathered, Declaring
<1>9. h.typename = NamesOf(h.imp)
  BY <1>3, <1>7 DEF Gathered
<1>10. h.pos <= Len(h.imports)
  BY <1>1, <1>3
<1>11. \A k \in h.loaded : NamesOf(h.cache[k]) = Declaring(fs, Closure(fs, {k}))
  BY <1>3 DEF Gathered
<1>12. Gathered(fs, h)
  BY <1>8, <1>9, <1>10, <1>11 DEF Gathered
<1>13. QED  BY <1>12 DEF h

\* What a finished nested parse returns is what its library stands for.
LEMMA ReturnedNames ==
    ASSUME NEW fs \in FileSystems, NEW f \in Frame, Gathered(fs, f), f.lib \in Lib,
           f.pos = Len(f.imports), f.imports = fs[f.lib].imports,
           f.body = fs[f.lib].body, f.body \in {"decls", "none"},
           NEW n,
           NEW own, own = IF f.body = "decls" THEN {<<f.lib, n>>} ELSE {}
    PROVE  NamesOf(own \cup f.imp) = Declaring(fs, Closure(fs, {f.lib}))
<1>1. f.imports \in Seq(Lib) /\ DOMAIN f.imports = 1 .. Len(f.imports)
  BY DEF Frame
<1>2. Done(f) = ImportsOf(fs, f.lib)
  BY <1>1 DEF Done, ImportsOf
<1>3. Closure(fs, {f.lib}) = {f.lib} \cup Closure(fs, Done(f))
  BY <1>2, ClosureStep
<1>4. NamesOf(own \cup f.imp) = NamesOf(own) \cup NamesOf(f.imp)
  BY NamesUnion
<1>5. NamesOf(own) = Declaring(fs, {f.lib})
  <2>1. CASE f.body = "decls"
    <3>1. own = {<<f.lib, n>>} /\ fs[f.lib].body = "decls"
      BY <2>1
    <3>2. NamesOf(own) = {f.lib}
      BY <3>1 DEF NamesOf
    <3>3. Declaring(fs, {f.lib}) = {f.lib}
      BY <3>1 DEF Declaring
    <3>4. QED  BY <3>2, <3>3
  <2>2. CASE f.body = "none"
    BY <2>2 DEF NamesOf, Declaring
  <2>3. QED  BY <2>1, <2>2
<1>6. QED  BY <1>3, <1>4, <1>5 DEF Gathered, Declaring

(***************************************************************************)
(* Every step keeps it.                                                    *)
(***************************************************************************)

LEMMA InitImports == Init => ImportInv
BY DEF Init, LoaderInit, ImportInv

\* Steps that leave the tree and the stack as they are, or empty the stack.
LEMMA StackKept ==
    ASSUME ImportInv, UNCHANGED files, UNCHANGED frames \/ frames' = <<>>
    PROVE  ImportInv'
BY DEF ImportInv

\* The stack with the import in hand pushed on loading_ satisfies ImportInv.
LEMMA PushedImports ==
    ASSUME Inv, ImportInv, Importing
    PROVE  LET s == WithWantedPushed IN
           /\ s \in Seq(Frame) /\ Len(s) = Len(frames)
           /\ \A i \in 1 .. Len(s) : Gathered(files, s[i])
           /\ \A i \in 1 .. Len(s) : i > 1 => Nests(files, s[i - 1], s[i])
           /\ s[Len(s)].pos < Len(s[Len(s)].imports)
           /\ s[Len(s)].imports[s[Len(s)].pos + 1] = Wanted
<1> DEFINE s == WithWantedPushed
           g == [Top EXCEPT !.loading = Append(@, Wanted)]
<1>1. frames \in Seq(Frame) /\ frames # <<>> /\ Top \in Frame
  BY WantedType DEF Inv, Types
<1>2. s \in Seq(Frame) /\ Len(s) = Len(frames)
  BY <1>1, PushedType
<1>3. Len(frames) \in 1 .. Len(frames) /\ DOMAIN frames = 1 .. Len(frames)
  BY <1>1, TopFrame
<1>4. \A i \in 1 .. Len(frames) : s[i] = IF i = Len(frames) THEN g ELSE frames[i]
  BY <1>1, <1>3 DEF WithWantedPushed, Top
<1>5. Gathered(files, Top)
  BY <1>3 DEF ImportInv, Top
<1>6. g = [Top EXCEPT !.loading = Append(Top.loading, Wanted)]
  OBVIOUS
<1> HIDE DEF g, s
<1>7. /\ Gathered(files, g) /\ g.pos = Top.pos /\ g.imports = Top.imports
      /\ g.lib = Top.lib /\ g.body = Top.body
  <2>1. Top \in Frame
    BY <1>1
  <2>2. /\ g.pos = Top.pos /\ g.imports = Top.imports /\ g.imp = Top.imp
        /\ g.lib = Top.lib /\ g.body = Top.body /\ g.typename = Top.typename
        /\ g.loaded = Top.loaded /\ g.cache = Top.cache
    BY <1>6, <2>1 DEF Frame
  <2>3. QED  BY <1>5, <2>2 DEF Gathered, Done
<1>8. \A i \in 1 .. Len(s) : Gathered(files, s[i])
  BY <1>2, <1>3, <1>4, <1>7 DEF ImportInv
<1>9. \A i \in 1 .. Len(s) :
        /\ s[i].pos = frames[i].pos /\ s[i].imports = frames[i].imports
        /\ s[i].lib = frames[i].lib /\ s[i].body = frames[i].body
  BY <1>2, <1>3, <1>4, <1>7 DEF Top
<1>10. \A i \in 1 .. Len(s) : i > 1 => Nests(files, s[i - 1], s[i])
  <2> SUFFICES ASSUME NEW i \in 1 .. Len(s), i > 1
               PROVE  Nests(files, s[i - 1], s[i])
    OBVIOUS
  <2>1. i - 1 \in 1 .. Len(s) /\ i \in DOMAIN frames
    BY <1>2, <1>3
  <2>2. Nests(files, frames[i - 1], frames[i])
    BY <2>1 DEF ImportInv
  <2>3. QED  BY <1>9, <2>1, <2>2 DEF Nests
<1>11. s[Len(s)] = g
  BY <1>2, <1>3, <1>4
<1>12. g.pos < Len(g.imports) /\ g.imports[g.pos + 1] = Wanted
  BY <1>7 DEF Importing, Wanted
<1>13. QED  BY <1>2, <1>8, <1>10, <1>11, <1>12 DEF s

LEMMA OpenLibraryImports ==
    ASSUME Inv, ImportInv, OpenLibrary
    PROVE  ImportInv'
<1> DEFINE n == NewFrame(Wanted, files[Wanted].imports, files[Wanted].body)
           s == WithWantedPushed
<1>1. Importing /\ frames \in Seq(Frame) /\ Types
  BY DEF OpenLibrary, Searching, Inv, Types
<1>2. Wanted \in Lib
  BY <1>1, WantedType
<1>3. /\ s \in Seq(Frame) /\ Len(s) = Len(frames)
      /\ \A i \in 1 .. Len(s) : Gathered(files, s[i])
      /\ \A i \in 1 .. Len(s) : i > 1 => Nests(files, s[i - 1], s[i])
      /\ s[Len(s)].pos < Len(s[Len(s)].imports)
      /\ s[Len(s)].imports[s[Len(s)].pos + 1] = Wanted
  BY <1>1, PushedImports
<1>4. files[Wanted].imports \in Seq(Lib) /\ files[Wanted].body \in Body
  BY <1>1, <1>2, LibFileType
<1>5. /\ n \in Frame
      /\ n.lib = Wanted /\ n.imports = files[Wanted].imports
      /\ n.body = files[Wanted].body /\ n.pos = 0
      /\ n.imp = {} /\ n.typename = {} /\ n.loaded = {}
  BY <1>2, <1>4, NewFrameType DEF NewFrame
<1>6. frames' = Append(s, n) /\ files' = files
  BY DEF OpenLibrary
<1>7. files \in FileSystems
  BY <1>1 DEF Types
<1> HIDE DEF n, s
<1>8. Gathered(files, n)
  <2>1. Done(n) = {}
    BY <1>5 DEF Done
  <2>2. NamesOf(n.imp) = {} /\ Declaring(files, Closure(files, Done(n))) = {}
    BY <1>5, <1>7, <2>1, ClosureEmpty DEF NamesOf, Declaring
  <2>3. n.pos <= Len(n.imports)
    BY <1>4, <1>5
  <2>4. QED  BY <1>5, <2>2, <2>3 DEF Gathered
<1>9. /\ DOMAIN frames' = 1 .. Len(s) + 1 /\ Len(s) \in Nat
      /\ \A i \in 1 .. Len(s) : frames'[i] = s[i]
      /\ frames'[Len(s) + 1] = n
  BY <1>3, <1>5, <1>6, AppendProperties
<1>10. \A i \in DOMAIN frames' : Gathered(files, frames'[i])
  BY <1>3, <1>8, <1>9
<1>11. Len(s) >= 1 /\ Nests(files, s[Len(s)], n)
  <2>1. Len(frames) \in Nat \ {0}
    BY <1>1, TopFrame, WantedType
  <2>2. QED  BY <1>3, <1>5, <2>1 DEF Nests
<1>12. \A i \in DOMAIN frames' : i > 1 => Nests(files, frames'[i - 1], frames'[i])
  <2> SUFFICES ASSUME NEW i \in DOMAIN frames', i > 1
               PROVE  Nests(files, frames'[i - 1], frames'[i])
    OBVIOUS
  <2>1. CASE i = Len(s) + 1
    <3>1. i - 1 = Len(s) /\ frames'[i - 1] = s[Len(s)] /\ frames'[i] = n
      BY <1>9, <1>11, <2>1
    <3>2. QED  BY <1>11, <3>1
  <2>2. CASE i # Len(s) + 1
    <3>1. i \in 1 .. Len(s) /\ i - 1 \in 1 .. Len(s)
      BY <1>9, <2>2
    <3>2. QED  BY <1>3, <1>9, <3>1
  <2>3. QED  BY <2>1, <2>2
<1>13. QED  BY <1>6, <1>10, <1>12 DEF ImportInv

LEMMA SearchFailsImports ==
    ASSUME Inv, ImportInv, SearchFails
    PROVE  ImportInv'
<1>1. Importing /\ frames' = WithWantedPushed /\ files' = files
  BY DEF SearchFails, NotOpened, SearchThrows, Searching
<1>2. /\ frames' \in Seq(Frame)
      /\ \A i \in 1 .. Len(frames') : Gathered(files, frames'[i])
      /\ \A i \in 1 .. Len(frames') : i > 1 =>
            Nests(files, frames'[i - 1], frames'[i])
  BY <1>1, PushedImports
<1>3. DOMAIN frames' = 1 .. Len(frames')
  BY <1>2
<1>4. QED  BY <1>1, <1>2, <1>3 DEF ImportInv

\* Replacing the innermost frame by one that has gathered what it should.
LEMMA LastReplaced ==
    ASSUME NEW fs, NEW s \in Seq(Frame), s # <<>>, NEW g \in Frame, Gathered(fs, g),
           g.lib = s[Len(s)].lib, g.imports = s[Len(s)].imports,
           g.body = s[Len(s)].body,
           \A i \in 1 .. Len(s) : Gathered(fs, s[i]),
           \A i \in 1 .. Len(s) : i > 1 => Nests(fs, s[i - 1], s[i]),
           NEW t, t = [s EXCEPT ![Len(s)] = g]
    PROVE  /\ \A i \in DOMAIN t : Gathered(fs, t[i])
           /\ \A i \in DOMAIN t : i > 1 => Nests(fs, t[i - 1], t[i])
<1>1. Len(s) \in 1 .. Len(s)
  OBVIOUS
<1>2. /\ DOMAIN t = 1 .. Len(s)
      /\ \A i \in 1 .. Len(s) : t[i] = IF i = Len(s) THEN g ELSE s[i]
  BY <1>1
<1>3. \A i \in DOMAIN t : Gathered(fs, t[i])
  BY <1>2
<1>4. ASSUME NEW i \in DOMAIN t, i > 1
      PROVE  Nests(fs, t[i - 1], t[i])
  <2>1. i \in 1 .. Len(s) /\ i - 1 \in 1 .. Len(s) /\ i - 1 # Len(s)
    BY <1>2, <1>4
  <2>2. t[i - 1] = s[i - 1] /\ Nests(fs, s[i - 1], s[i])
    BY <1>2, <1>4, <2>1
  <2>3. t[i].lib = s[i].lib /\ t[i].imports = s[i].imports /\ t[i].body = s[i].body
    BY <1>2, <2>1
  <2>4. QED  BY <2>2, <2>3 DEF Nests
<1>5. QED  BY <1>3, <1>4

LEMMA CachedImportImports ==
    ASSUME Inv, ImportInv, CachedImport
    PROVE  ImportInv'
<1> DEFINE g == [Top EXCEPT !.loading = @ \o <<Wanted>>]
           decls == Top.cache[Wanted]
           h == Merge(g, decls)
<1>1. Importing /\ frames \in Seq(Frame) /\ files \in FileSystems
  BY DEF CachedImport, CachedWith, Inv, Types
<1>2. /\ frames # <<>> /\ Top \in Frame /\ Wanted \in Lib
      /\ Len(frames) \in DOMAIN frames /\ DOMAIN frames = 1 .. Len(frames)
  BY <1>1, WantedType, TopFrame
<1>3. Gathered(files, Top)
  BY <1>2 DEF ImportInv, Top
<1>4. g = [Top EXCEPT !.loading = Top.loading \o <<Wanted>>]
  OBVIOUS
<1>5. g \in Frame
  <2>1. Top.loading \o <<Wanted>> \in Seq(Lib)
    BY <1>2 DEF Frame
  <2>2. QED  BY <1>2, <2>1, Zenon DEF Frame
<1>6. decls \in SUBSET Entity
  BY <1>2 DEF Frame
<1>7. NamesOf(decls) = Declaring(files, Closure(files, {Wanted}))
  BY <1>3 DEF Gathered, CachedImport, CachedWith
<1>8. frames' = [frames EXCEPT ![Len(frames)] = h] /\ files' = files
  BY DEF CachedImport, CachedWith
<1> HIDE DEF g, decls
<1>9. /\ Gathered(files, g) /\ g.pos = Top.pos /\ g.imports = Top.imports
      /\ g.lib = Top.lib /\ g.body = Top.body
  <2>1. /\ g.pos = Top.pos /\ g.imports = Top.imports /\ g.imp = Top.imp
        /\ g.lib = Top.lib /\ g.body = Top.body /\ g.typename = Top.typename
        /\ g.loaded = Top.loaded /\ g.cache = Top.cache
    BY <1>2, <1>4 DEF Frame
  <2>2. QED  BY <1>3, <2>1 DEF Gathered, Done
<1>10. g.pos < Len(g.imports) /\ g.imports[g.pos + 1] = Wanted
  BY <1>1, <1>9 DEF Importing, Wanted
<1>11. Gathered(files, h)
  BY <1>1, <1>5, <1>6, <1>7, <1>9, <1>10, MergeGathers
<1>12. h \in Frame
  BY <1>5, <1>6, MergeType
<1>13. h.lib = Top.lib /\ h.imports = Top.imports /\ h.body = Top.body
  BY <1>5, <1>9 DEF Merge, Frame
<1> HIDE DEF h
<1>14. /\ h.lib = frames[Len(frames)].lib /\ h.imports = frames[Len(frames)].imports
       /\ h.body = frames[Len(frames)].body
  BY <1>13 DEF Top
<1>15. /\ \A i \in 1 .. Len(frames) : Gathered(files, frames[i])
       /\ \A i \in 1 .. Len(frames) : i > 1 => Nests(files, frames[i - 1], frames[i])
  BY <1>2 DEF ImportInv
<1>16. /\ \A i \in DOMAIN frames' : Gathered(files, frames'[i])
       /\ \A i \in DOMAIN frames' : i > 1 => Nests(files, frames'[i - 1], frames'[i])
  BY <1>1, <1>2, <1>8, <1>11, <1>12, <1>14, <1>15, LastReplaced
<1>17. QED  BY <1>8, <1>16 DEF ImportInv

LEMMA PoppedImports ==
    ASSUME Inv, ImportInv, Nested,
           NEW s, s = Front(frames)
    PROVE  /\ s \in Seq(Frame) /\ s # <<>> /\ Len(s) = Len(frames) - 1
           /\ s[Len(s)] = frames[Len(frames) - 1]
           /\ \A i \in 1 .. Len(s) : Gathered(files, s[i])
           /\ \A i \in 1 .. Len(s) : i > 1 => Nests(files, s[i - 1], s[i])
<1>1. /\ frames \in Seq(Frame) /\ frames # <<>> /\ DOMAIN frames = 1 .. Len(frames)
      /\ Len(frames) \in Nat /\ Len(frames) > 1
  BY NestedType DEF Nested
<1>2. /\ s \in Seq(Frame) /\ Len(s) = Len(frames) - 1
      /\ \A i \in 1 .. Len(frames) - 1 : s[i] = frames[i]
  BY <1>1, PopFrame
<1>3. s # <<>> /\ s[Len(s)] = frames[Len(frames) - 1]
  BY <1>1, <1>2
<1>4. \A i \in 1 .. Len(s) : Gathered(files, s[i])
  BY <1>1, <1>2 DEF ImportInv
<1>5. ASSUME NEW i \in 1 .. Len(s), i > 1
      PROVE  Nests(files, s[i - 1], s[i])
  <2>1. s[i - 1] = frames[i - 1] /\ s[i] = frames[i] /\ i \in DOMAIN frames
    BY <1>1, <1>2, <1>5
  <2>2. QED  BY <1>5, <2>1 DEF ImportInv
<1>6. QED  BY <1>2, <1>3, <1>4, <1>5

LEMMA UnwindImports ==
    ASSUME Inv, ImportInv, Unwind
    PROVE  ImportInv'
<1>1. Nested /\ frames' = Front(frames) /\ files' = files
  BY DEF Unwind
<1>2. /\ frames' \in Seq(Frame)
      /\ \A i \in 1 .. Len(frames') : Gathered(files, frames'[i])
      /\ \A i \in 1 .. Len(frames') : i > 1 =>
            Nests(files, frames'[i - 1], frames'[i])
  BY <1>1, PoppedImports
<1>3. DOMAIN frames' = 1 .. Len(frames')
  BY <1>2
<1>4. QED  BY <1>1, <1>2, <1>3 DEF ImportInv

LEMMA ReturnDeclsImports ==
    ASSUME Inv, ImportInv, ReturnDecls
    PROVE  ImportInv'
<1> DEFINE decls  == Declared(Top)
           parent == frames[Len(frames) - 1]
           g      == [parent EXCEPT !.loading = Front(@),
                                    !.loaded = @ \cup {Top.lib},
                                    !.cache[Top.lib] = decls]
           h      == Merge(g, decls)
           s      == Front(frames)
<1>1. /\ Nested /\ Top.pos = Len(Top.imports) /\ Top.body \in {"decls", "none"}
      /\ files' = files
  BY DEF ReturnDecls, ReturnWith, AtEnd
<1>2. /\ frames \in Seq(Frame) /\ Len(frames) \in Nat /\ Len(frames) > 1
      /\ Top \in Frame /\ Top.lib \in Lib /\ <<Top.lib, serial>> \in Entity
      /\ parent \in Frame /\ files \in FileSystems
      /\ DOMAIN frames = 1 .. Len(frames)
  BY <1>1, NestedType DEF Nested, Inv, Types
<1>3. /\ Gathered(files, Top) /\ Gathered(files, parent)
      /\ Nests(files, parent, Top)
  BY <1>2 DEF ImportInv, Top
<1>4. Own(Top) = IF Top.body = "decls" THEN {<<Top.lib, serial>>} ELSE {}
  BY <1>1 DEF Own
<1>5. decls \in SUBSET Entity
  BY <1>2 DEF Frame, Own, Declared
<1>6. frames' = [s EXCEPT ![Len(frames) - 1] = h]
  BY DEF ReturnDecls, ReturnWith
<1>7. NamesOf(decls) = Declaring(files, Closure(files, {Top.lib}))
  <2>1. Top.imports = files[Top.lib].imports /\ Top.body = files[Top.lib].body
    BY <1>3 DEF Nests
  <2>2. QED  BY <1>1, <1>2, <1>3, <1>4, <2>1, ReturnedNames DEF Declared
<1> HIDE DEF decls
<1>8. g \in Frame /\ Gathered(files, g) /\ g.pos = parent.pos
      /\ g.imports = parent.imports /\ g.lib = parent.lib /\ g.body = parent.body
  <2> DEFINE q == Front(parent.loading)
             c == [parent.cache EXCEPT ![Top.lib] = decls]
             d == parent.loaded \cup {Top.lib}
  <2>1. parent.loading \in Seq(Lib) /\ parent.cache \in [Lib -> SUBSET Entity]
        /\ parent.loaded \in SUBSET Lib
    BY <1>2 DEF Frame
  <2>2. q \in Seq(Lib)
    BY <2>1 DEF Front
  <2>3. c \in [Lib -> SUBSET Entity] /\ d \in SUBSET Lib
    BY <1>2, <1>5, <2>1
  <2>4. g = [parent EXCEPT !.loading = q, !.loaded = d, !.cache = c]
    BY <1>2, Zenon DEF Frame
  <2>5. \A l \in d : NamesOf(c[l]) = Declaring(files, Closure(files, {l}))
    BY <1>2, <1>3, <1>7, <2>1 DEF Gathered
  <2> HIDE DEF q, c, d
  <2>6. g \in Frame
    BY <1>2, <2>2, <2>3, <2>4, Zenon DEF Frame
  <2>7. /\ g.pos = parent.pos /\ g.imports = parent.imports /\ g.lib = parent.lib
        /\ g.body = parent.body
        /\ g.imp = parent.imp /\ g.typename = parent.typename
        /\ g.loaded = d /\ g.cache = c
    BY <1>2, <2>4 DEF Frame
  <2> HIDE DEF g
  <2>8. Done(g) = Done(parent)
    BY <2>7 DEF Done
  <2>9. Gathered(files, g)
    BY <1>3, <2>5, <2>7, <2>8 DEF Gathered
  <2>10. QED  BY <2>6, <2>7, <2>9
<1> HIDE DEF g
<1>9. g.pos < Len(g.imports) /\ g.imports[g.pos + 1] = Top.lib
  BY <1>3, <1>8 DEF Nests
<1>10. Gathered(files, h)
  BY <1>2, <1>5, <1>7, <1>8, <1>9, MergeGathers
<1>11. h \in Frame
  BY <1>5, <1>8, MergeType
<1>12. h.lib = parent.lib /\ h.imports = parent.imports /\ h.body = parent.body
  BY <1>8 DEF Merge, Frame
<1>13. s = Front(frames)
  OBVIOUS
<1> HIDE DEF h, s
<1>14. /\ s \in Seq(Frame) /\ s # <<>> /\ Len(s) = Len(frames) - 1
       /\ s[Len(s)] = parent
       /\ \A i \in 1 .. Len(s) : Gathered(files, s[i])
       /\ \A i \in 1 .. Len(s) : i > 1 => Nests(files, s[i - 1], s[i])
  BY <1>1, <1>13, PoppedImports
<1>15. /\ h.lib = s[Len(s)].lib /\ h.imports = s[Len(s)].imports
       /\ h.body = s[Len(s)].body /\ frames' = [s EXCEPT ![Len(s)] = h]
  BY <1>6, <1>12, <1>14
<1>16. /\ \A i \in DOMAIN frames' : Gathered(files, frames'[i])
       /\ \A i \in DOMAIN frames' : i > 1 => Nests(files, frames'[i - 1], frames'[i])
  BY <1>10, <1>11, <1>14, <1>15, LastReplaced
<1>17. QED  BY <1>1, <1>16 DEF ImportInv

LEMMA OpenFileImports ==
    ASSUME Inv, OpenFile
    PROVE  ImportInv'
<1> DEFINE n == NewFrame(Main, Current.imports, Current.body)
<1>1. MoreFiles /\ frames' = <<n>> /\ files' = files
  BY DEF OpenFile
<1>2. Current \in Program /\ files \in FileSystems
  BY <1>1, ProgramType DEF Inv, Types
<1>3. /\ n.imports = Current.imports /\ n.pos = 0
      /\ n.imp = {} /\ n.typename = {} /\ n.loaded = {}
  BY DEF NewFrame
<1> HIDE DEF n
<1>4. Gathered(files, n)
  <2>1. Done(n) = {}
    BY <1>3 DEF Done
  <2>2. NamesOf(n.imp) = {} /\ Declaring(files, Closure(files, Done(n))) = {}
    BY <1>2, <1>3, <2>1, ClosureEmpty DEF NamesOf, Declaring
  <2>3. n.pos <= Len(n.imports)
    BY <1>2, <1>3 DEF Program
  <2>4. QED  BY <1>3, <2>2, <2>3 DEF Gathered
<1>5. DOMAIN frames' = {1} /\ frames'[1] = n
  BY <1>1
<1>6. QED  BY <1>1, <1>4, <1>5 DEF ImportInv

LEMMA NextImports == Inv /\ ImportInv /\ [Next]_vars => ImportInv'
<1> SUFFICES ASSUME Inv, ImportInv, [Next]_vars PROVE ImportInv'
  OBVIOUS
<1>1. CASE LoaderStep
  <2>1. CASE RecursiveImport \/ LibSyntaxError \/ ScannerJams \/ BodyThrows
    BY <2>1, StackKept DEF RecursiveImport, LibSyntaxError, ScannerJams, BodyThrows
  <2>2. QED
    BY <1>1, <2>1, CachedImportImports, OpenLibraryImports, SearchFailsImports,
       ReturnDeclsImports, UnwindImports DEF LoaderStep, LoaderNext
<1>2. CASE OpenFile
  BY <1>2, OpenFileImports
<1>3. CASE CannotOpen \/ DumpTokens \/ DumpDies \/ UNCHANGED vars
  BY <1>3, StackKept DEF CannotOpen, DumpTokens, DumpDies, vars, loaderVars
<1>4. CASE FinishCompile \/ MainSyntaxError \/ CatchAll
  BY <1>4, StackKept DEF FinishCompile, MainSyntaxError, CatchAll, CatchWith
<1>5. QED  BY <1>1, <1>2, <1>3, <1>4 DEF Next, DumpGoesOn, Terminated

LEMMA ImportInvAlways == Spec => []ImportInv
<1>1. Init => Inv /\ ImportInv
  BY InitInv, InitImports
<1>2. Inv /\ ImportInv /\ [Next]_vars => Inv' /\ ImportInv'
  BY NextInv, NextImports
<1>3. QED  BY <1>1, <1>2, PTL DEF Spec

\* Whatever the import tree, what a file has gathered at any moment is exactly
\* what the libraries it has imported so far declare, directly or through others,
\* and the scanner's type names are those of exactly these declarations: the
\* caches of the nested Loaders neither hide nor invent a declaration.
THEOREM ImportsBringTheirClosure == Spec => []ImportClosure
<1>1. ImportInv => ImportClosure
  BY DEF ImportInv, ImportClosure, Gathered
<1>2. QED  BY <1>1, ImportInvAlways, PTL
-----------------------------------------------------------------------------
(***************************************************************************)
(* What load_library remembers: Loader::loading_ and loaded_, the refusal  *)
(* of recursive imports that rests on them, and what they keep out.        *)
(***************************************************************************)

(***************************************************************************)
(* What each step of the Loader does to the stack of activations.          *)
(***************************************************************************)

\* f and g are activations on the same file.
SameFile(f, g) == g.lib = f.lib /\ g.imports = f.imports /\ g.body = f.body

\* g is f with nothing changed but loading_.
OnlyLoading(f, g) ==
    /\ SameFile(f, g) /\ g.pos = f.pos /\ g.imp = f.imp
    /\ g.loaded = f.loaded /\ g.cache = f.cache

\* g is f after the import in hand has brought decls.
Imported(f, g, decls) == SameFile(f, g) /\ g.pos = f.pos + 1 /\ g.imp = f.imp \cup decls

LEMMA MergeImported ==
    ASSUME NEW f \in Frame, NEW decls \in SUBSET Entity
    PROVE  LET h == Merge(f, decls) IN
           /\ h \in Frame /\ Imported(f, h, decls)
           /\ h.loading = f.loading /\ h.loaded = f.loaded /\ h.cache = f.cache
<1>1. Merge(f, decls) \in Frame
  BY MergeType
<1>2. QED  BY <1>1 DEF Merge, Frame, Imported, SameFile

\* loading_ gains the library in hand and nothing else changes.
LEMMA PushStep ==
    ASSUME Inv, Importing, NEW s, s = WithWantedPushed
    PROVE  /\ frames \in Seq(Frame) /\ Len(frames) \in Nat \ {0} /\ Top \in Frame
           /\ s \in Seq(Frame) /\ Len(s) = Len(frames)
           /\ \A i \in 1 .. Len(frames) : i # Len(frames) => s[i] = frames[i]
           /\ OnlyLoading(Top, s[Len(frames)])
           /\ s[Len(frames)].loading = Append(Top.loading, Wanted)
<1> DEFINE q == Append(Top.loading, Wanted)
           g == [Top EXCEPT !.loading = q]
<1>1. frames \in Seq(Frame) /\ frames # <<>> /\ Top \in Frame
  BY WantedType DEF Inv, Types
<1>2. Len(frames) \in Nat \ {0} /\ Len(frames) \in 1 .. Len(frames)
  BY <1>1, TopFrame
<1>3. s \in Seq(Frame) /\ Len(s) = Len(frames)
  BY <1>1, PushedType
<1>4. \A i \in 1 .. Len(frames) : s[i] = IF i = Len(frames) THEN g ELSE frames[i]
  BY <1>1, <1>2 DEF WithWantedPushed, Top
<1> HIDE DEF q
<1>5. OnlyLoading(Top, g) /\ g.loading = q
  BY <1>1 DEF Frame, OnlyLoading, SameFile
<1> HIDE DEF g
<1>6. QED  BY <1>1, <1>2, <1>3, <1>4, <1>5 DEF q

LEMMA OpenStep ==
    ASSUME Inv, OpenLibrary
    PROVE  LET n == Len(frames)
               f == frames'[n + 1] IN
           /\ frames \in Seq(Frame) /\ n \in Nat \ {0} /\ Top \in Frame
           /\ Wanted \in Lib /\ exc = "none" /\ ~exited
           /\ frames' \in Seq(Frame) /\ Len(frames') = n + 1
           /\ \A i \in 1 .. n : i # n => frames'[i] = frames[i]
           /\ OnlyLoading(Top, frames'[n])
           /\ frames'[n].loading = Append(Top.loading, Wanted)
           /\ f = NewFrame(Wanted, files[Wanted].imports, files[Wanted].body)
<1> DEFINE s == WithWantedPushed
           f == NewFrame(Wanted, files[Wanted].imports, files[Wanted].body)
<1>1. Importing /\ Types /\ frames \in Seq(Frame)
  BY DEF OpenLibrary, Searching, Inv, Types
<1>2. Wanted \in Lib /\ exc = "none" /\ ~exited
  BY <1>1, WantedType
<1>3. /\ Len(frames) \in Nat \ {0} /\ Top \in Frame
      /\ s \in Seq(Frame) /\ Len(s) = Len(frames)
      /\ \A i \in 1 .. Len(frames) : i # Len(frames) => s[i] = frames[i]
      /\ OnlyLoading(Top, s[Len(frames)])
      /\ s[Len(frames)].loading = Append(Top.loading, Wanted)
  BY <1>1, PushStep
<1>4. f \in Frame
  BY <1>1, <1>2, LibFileType, NewFrameType
<1>5. frames' = Append(s, f)
  BY DEF OpenLibrary
<1> HIDE DEF s, f
<1>6. /\ frames' \in Seq(Frame) /\ Len(frames') = Len(frames) + 1
      /\ \A i \in 1 .. Len(frames) : frames'[i] = s[i]
      /\ frames'[Len(frames) + 1] = f
  BY <1>3, <1>4, <1>5, AppendProperties
<1>7. frames'[Len(frames)] = s[Len(frames)]
  BY <1>3, <1>6
<1>8. \A i \in 1 .. Len(frames) : i # Len(frames) => frames'[i] = frames[i]
  BY <1>3, <1>6
<1>9. QED  BY <1>1, <1>2, <1>3, <1>6, <1>7, <1>8 DEF f

LEMMA CachedStep ==
    ASSUME Inv, CachedImport
    PROVE  LET n == Len(frames)
               h == frames'[n] IN
           /\ frames \in Seq(Frame) /\ n \in Nat \ {0} /\ Top \in Frame
           /\ Wanted \in Lib /\ exc = "none" /\ ~exited
           /\ frames' \in Seq(Frame) /\ Len(frames') = n
           /\ \A i \in 1 .. n : i # n => frames'[i] = frames[i]
           /\ Imported(Top, h, Top.cache[Wanted])
           /\ h.loading = Append(Top.loading, Wanted)
           /\ h.loaded = Top.loaded /\ h.cache = Top.cache
<1> DEFINE q == Top.loading \o <<Wanted>>
           g == [Top EXCEPT !.loading = q]
           decls == Top.cache[Wanted]
           h == Merge(g, decls)
<1>1. Importing /\ frames \in Seq(Frame) /\ Types
  BY DEF CachedImport, CachedWith, Inv, Types
<1>2. /\ frames # <<>> /\ Top \in Frame /\ Wanted \in Lib
      /\ exc = "none" /\ ~exited
      /\ Len(frames) \in Nat \ {0} /\ Len(frames) \in 1 .. Len(frames)
  BY <1>1, WantedType, TopFrame
<1>3. q \in Seq(Lib) /\ q = Append(Top.loading, Wanted) /\ decls \in SUBSET Entity
  BY <1>2 DEF Frame
<1>4. frames' = [frames EXCEPT ![Len(frames)] = h]
  BY DEF CachedImport, CachedWith
<1> HIDE DEF q, decls
<1>5. g \in Frame
  BY <1>2, <1>3, Zenon DEF Frame
<1>6. /\ SameFile(Top, g) /\ g.pos = Top.pos /\ g.imp = Top.imp /\ g.loading = q
      /\ g.loaded = Top.loaded /\ g.cache = Top.cache
  BY <1>2 DEF Frame, SameFile
<1> HIDE DEF g
<1>7. /\ h \in Frame /\ Imported(g, h, decls)
      /\ h.loading = g.loading /\ h.loaded = g.loaded /\ h.cache = g.cache
  BY <1>3, <1>5, MergeImported
<1> HIDE DEF h
<1>8. /\ Imported(Top, h, decls) /\ h.loading = q
      /\ h.loaded = Top.loaded /\ h.cache = Top.cache
  BY <1>6, <1>7 DEF Imported, SameFile
<1>9. /\ frames' \in Seq(Frame) /\ Len(frames') = Len(frames)
      /\ \A i \in 1 .. Len(frames) :
            frames'[i] = IF i = Len(frames) THEN h ELSE frames[i]
  BY <1>1, <1>2, <1>4, <1>7, ExceptSeq
<1>10. /\ frames'[Len(frames)] = h
       /\ \A i \in 1 .. Len(frames) : i # Len(frames) => frames'[i] = frames[i]
  BY <1>2, <1>9
<1>11. QED  BY <1>1, <1>2, <1>3, <1>8, <1>9, <1>10 DEF decls

LEMMA PopStep ==
    ASSUME Inv, Nested
    PROVE  LET n == Len(frames) IN
           /\ frames \in Seq(Frame) /\ n \in Nat /\ n > 1
           /\ Top \in Frame /\ Top = frames[n] /\ frames[n - 1] \in Frame
           /\ Top.lib \in Lib /\ <<Top.lib, serial>> \in Entity
           /\ Front(frames) \in Seq(Frame) /\ Len(Front(frames)) = n - 1
           /\ \A i \in 1 .. n - 1 : Front(frames)[i] = frames[i]
<1>1. /\ frames \in Seq(Frame) /\ frames # <<>> /\ Len(frames) \in Nat
      /\ Len(frames) - 1 \in 1 .. Len(frames) /\ Len(frames) > 1
      /\ Top \in Frame /\ Top.lib \in Lib /\ <<Top.lib, serial>> \in Entity
  BY NestedType DEF Nested
<1>2. frames[Len(frames) - 1] \in Frame
  BY <1>1, ElementOfSeq
<1>3. QED  BY <1>1, <1>2, PopFrame DEF Top

LEMMA ReturnStep ==
    ASSUME Inv, ReturnDecls
    PROVE  LET n == Len(frames)
               p == frames[n - 1]
               h == frames'[n - 1]
               decls == Declared(Top) IN
           /\ Nested /\ exc = "none" /\ ~exited /\ decls \in SUBSET Entity
           /\ frames' \in Seq(Frame) /\ Len(frames') = n - 1
           /\ \A i \in 1 .. n - 1 : i # n - 1 => frames'[i] = frames[i]
           /\ Imported(p, h, decls) /\ h.loading = Front(p.loading)
           /\ h.loaded = p.loaded \cup {Top.lib}
           /\ h.cache = [p.cache EXCEPT ![Top.lib] = decls]
<1> DEFINE decls == Declared(Top)
           p == frames[Len(frames) - 1]
           s == Front(frames)
           q == Front(p.loading)
           c == [p.cache EXCEPT ![Top.lib] = decls]
           d == p.loaded \cup {Top.lib}
           g == [p EXCEPT !.loading = Front(@), !.loaded = @ \cup {Top.lib},
                          !.cache[Top.lib] = decls]
           h == Merge(g, decls)
<1>1. Nested /\ exc = "none" /\ ~exited
  BY DEF ReturnDecls, ReturnWith, AtEnd, Running
<1>2. /\ frames \in Seq(Frame) /\ Len(frames) \in Nat /\ Len(frames) > 1
      /\ Top \in Frame /\ p \in Frame
      /\ Top.lib \in Lib /\ <<Top.lib, serial>> \in Entity
      /\ s \in Seq(Frame) /\ Len(s) = Len(frames) - 1
      /\ \A i \in 1 .. Len(frames) - 1 : s[i] = frames[i]
  BY <1>1, PopStep
<1>3. decls \in SUBSET Entity
  BY <1>2 DEF Frame, Own, Declared
<1>4. frames' = [s EXCEPT ![Len(frames) - 1] = h]
  BY DEF ReturnDecls, ReturnWith
<1> HIDE DEF decls, s
<1>5. /\ p.loading \in Seq(Lib) /\ p.cache \in [Lib -> SUBSET Entity]
      /\ p.loaded \in SUBSET Lib
  BY <1>2 DEF Frame
<1>6. q \in Seq(Lib) /\ c \in [Lib -> SUBSET Entity] /\ d \in SUBSET Lib
  <2>1. q \in Seq(Lib)
    BY <1>5 DEF Front
  <2>2. QED  BY <1>2, <1>3, <1>5, <2>1
<1>7. g = [p EXCEPT !.loading = q, !.loaded = d, !.cache = c]
  BY <1>2, Zenon DEF Frame
<1> HIDE DEF q, c, d
<1>8. g \in Frame
  BY <1>2, <1>6, <1>7, Zenon DEF Frame
<1>9. /\ SameFile(p, g) /\ g.pos = p.pos /\ g.imp = p.imp
      /\ g.loading = q /\ g.loaded = d /\ g.cache = c
  BY <1>2, <1>7 DEF Frame, SameFile
<1> HIDE DEF g
<1>10. /\ h \in Frame /\ Imported(g, h, decls)
       /\ h.loading = g.loading /\ h.loaded = g.loaded /\ h.cache = g.cache
  BY <1>3, <1>8, MergeImported
<1> HIDE DEF h
<1>11. Imported(p, h, decls) /\ h.loading = q /\ h.loaded = d /\ h.cache = c
  BY <1>9, <1>10 DEF Imported, SameFile
<1>12. Len(frames) - 1 \in 1 .. Len(s)
  BY <1>2
<1>13. /\ frames' \in Seq(Frame) /\ Len(frames') = Len(s)
       /\ \A i \in 1 .. Len(s) : frames'[i] = IF i = Len(frames) - 1 THEN h ELSE s[i]
  BY <1>2, <1>4, <1>10, <1>12, ExceptSeq
<1>14. /\ frames'[Len(frames) - 1] = h /\ Len(frames') = Len(frames) - 1
       /\ \A i \in 1 .. Len(frames) - 1 :
            i # Len(frames) - 1 => frames'[i] = frames[i]
  BY <1>2, <1>12, <1>13
<1>15. QED  BY <1>1, <1>3, <1>11, <1>13, <1>14 DEF q, c, d, decls

(***************************************************************************)
(* Counting the imports of a file, and the entries of loading_.            *)
(***************************************************************************)

LEMMA EarlierType ==
    ASSUME NEW f \in Frame, NEW l
    PROVE  EarlierImports(f, l) \in Nat /\ (EarlierImports(f, l) = 0 <=> l \notin Done(f))
<1> DEFINE K == {k \in 1 .. f.pos : f.imports[k] = l}
<1>1. IsFiniteSet(1 .. f.pos)
  BY FS_Interval DEF Frame
<1>2. IsFiniteSet(K)
  BY <1>1, FS_Subset
<1>3. Cardinality(K) \in Nat /\ (Cardinality(K) = 0 <=> K = {})
  BY <1>2, FS_CardinalityType, FS_EmptySet
<1>4. K = {} <=> l \notin Done(f)
  BY DEF Done
<1>5. QED  BY <1>3, <1>4 DEF EarlierImports

\* One import more counts for its own library only.
LEMMA EarlierStep ==
    ASSUME NEW f \in Frame, NEW g, g.imports = f.imports, g.pos = f.pos + 1, NEW l
    PROVE  EarlierImports(g, l) =
             EarlierImports(f, l) + (IF f.imports[f.pos + 1] = l THEN 1 ELSE 0)
<1> DEFINE K == {k \in 1 .. f.pos : f.imports[k] = l}
           M == {k \in 1 .. g.pos : g.imports[k] = l}
<1>1. f.pos \in Nat /\ 1 .. g.pos = 1 .. f.pos \cup {f.pos + 1}
  BY DEF Frame
<1>2. IsFiniteSet(1 .. f.pos)
  BY <1>1, FS_Interval
<1>3. IsFiniteSet(K) /\ Cardinality(K) \in Nat
  BY <1>2, FS_Subset, FS_CardinalityType
<1>4. M = IF f.imports[f.pos + 1] = l THEN K \cup {f.pos + 1} ELSE K
  BY <1>1
<1>5. f.pos + 1 \notin K
  BY <1>1
<1>6. Cardinality(K \cup {f.pos + 1}) = Cardinality(K) + 1
  BY <1>3, <1>5, FS_AddElement
<1>7. QED  BY <1>3, <1>4, <1>6 DEF EarlierImports

LEMMA ContainsAppend ==
    ASSUME NEW q \in Seq(Lib), NEW m \in Lib, NEW l
    PROVE  /\ Contains(Append(q, m), l) <=> Contains(q, l) \/ l = m
           /\ Contains(Front(Append(q, m)), l) <=> Contains(q, l)
<1> DEFINE r == Append(q, m)
           t == Front(r)
<1>1. /\ r \in Seq(Lib) /\ Len(r) = Len(q) + 1 /\ Len(q) \in Nat
      /\ \A i \in 1 .. Len(q) : r[i] = q[i]
      /\ r[Len(q) + 1] = m
  BY AppendProperties
<1>2. Len(t) = Len(q) /\ \A i \in 1 .. Len(q) : t[i] = q[i]
  <2>1. t = SubSeq(r, 1, Len(q))
    BY <1>1 DEF Front
  <2>2. QED  BY <1>1, <2>1, SubSeqProperties
<1> HIDE DEF r, t
<1>3. Contains(r, l) <=> Contains(q, l) \/ l = m
  BY <1>1 DEF Contains
<1>4. Contains(t, l) <=> Contains(q, l)
  BY <1>2 DEF Contains
<1>5. QED  BY <1>3, <1>4 DEF r, t

(***************************************************************************)
(* What loading_ and loaded_ hold.                                         *)
(***************************************************************************)

\* loaded_ holds the libraries the file has imported, and nothing is cached for
\* any other; no library has been imported three times.
Recorded(f) ==
    /\ f.loaded = Done(f)
    /\ \A l \in Lib \ f.loaded : f.cache[l] = {}
    /\ \A l \in Lib : EarlierImports(f, l) <= 2

\* The libraries of q are those imported twice.
Listed(f, q) == \A l \in Lib : Contains(q, l) <=> EarlierImports(f, l) >= 2

\* loading_ less the library that the activation is waiting for, if it is.
Answered(s, i) == IF i = Len(s) THEN s[i].loading ELSE Front(s[i].loading)

\* A nested parse is of a library its parent has not loaded.  An exception may
\* leave an entry in loading_ behind, but nobody reads it any more.
LoadInv ==
    /\ \A i \in DOMAIN frames : Recorded(frames[i])
    /\ \A i \in DOMAIN frames : i > 1 => frames[i].lib \notin frames[i - 1].loaded
    /\ exc = "none" =>
         \A i \in DOMAIN frames : Listed(frames[i], Answered(frames, i))

\* loading_ plays no part in what Recorded says.
LEMMA RecordedKept ==
    ASSUME NEW f, NEW g, OnlyLoading(f, g), Recorded(f)
    PROVE  Recorded(g) /\ \A q : Listed(f, q) => Listed(g, q)
<1>1. Done(g) = Done(f) /\ \A l : EarlierImports(g, l) = EarlierImports(f, l)
  BY DEF OnlyLoading, SameFile, Done, EarlierImports
<1>2. QED  BY <1>1 DEF Recorded, Listed, OnlyLoading

\* An import of a library that is not in loading_ is at most the second, and the
\* second one enters the library in loading_ for good.
LEMMA ImportRecorded ==
    ASSUME NEW f \in Frame, Recorded(f), NEW l \in Lib, NEW q, Listed(f, q),
           ~Contains(q, l), f.pos < Len(f.imports), f.imports[f.pos + 1] = l,
           NEW g \in Frame, NEW decls, Imported(f, g, decls),
           g.loaded = f.loaded \cup {l},
           \A k \in Lib \ g.loaded : g.cache[k] = f.cache[k],
           NEW r,
           \A k \in Lib : Contains(r, k) <=> Contains(q, k) \/ (k = l /\ l \in f.loaded)
    PROVE  Recorded(g) /\ Listed(g, r)
<1>1. g.imports = f.imports /\ g.pos = f.pos + 1 /\ f.pos \in Nat
  BY DEF Imported, SameFile, Frame
<1>2. Done(g) = Done(f) \cup {l}
  BY <1>1 DEF Done
<1>3. \A k \in Lib : /\ EarlierImports(f, k) \in Nat
                     /\ EarlierImports(f, k) = 0 <=> k \notin f.loaded
  BY EarlierType DEF Recorded
<1>4. \A k \in Lib : EarlierImports(g, k) =
                       EarlierImports(f, k) + (IF k = l THEN 1 ELSE 0)
  BY <1>1, EarlierStep
<1>5. ~(EarlierImports(f, l) >= 2)
  BY DEF Listed
<1>6. \A k \in Lib : EarlierImports(g, k) <= 2
  BY <1>3, <1>4, <1>5 DEF Recorded
<1>7. Recorded(g)
  BY <1>2, <1>6 DEF Recorded
<1>8. ASSUME NEW k \in Lib
      PROVE  Contains(r, k) <=> EarlierImports(g, k) >= 2
  <2>1. CASE k = l
    BY <1>3, <1>4, <1>5, <2>1 DEF Listed
  <2>2. CASE k # l
    BY <1>3, <1>4, <2>2 DEF Listed
  <2>3. QED  BY <2>1, <2>2
<1>9. QED  BY <1>7, <1>8 DEF Listed

LEMMA InitLoad == Init => LoadInv
BY DEF Init, LoaderInit, LoadInv

\* Steps that leave the stack as it is or empty it, with or without an exception.
LEMMA LoadKept ==
    ASSUME LoadInv, UNCHANGED frames \/ frames' = <<>>, exc' # "none" \/ exc' = exc
    PROVE  LoadInv'
BY DEF LoadInv

LEMMA CachedImportLoad ==
    ASSUME Inv, ImportInv, LoadInv, CachedImport
    PROVE  LoadInv'
<1> DEFINE n == Len(frames)
           h == frames'[n]
<1>1. /\ frames \in Seq(Frame) /\ n \in Nat \ {0} /\ Top \in Frame
      /\ Wanted \in Lib /\ exc = "none"
      /\ frames' \in Seq(Frame) /\ Len(frames') = n
      /\ \A i \in 1 .. n : i # n => frames'[i] = frames[i]
      /\ Imported(Top, h, Top.cache[Wanted])
      /\ h.loading = Append(Top.loading, Wanted)
      /\ h.loaded = Top.loaded /\ h.cache = Top.cache
  BY CachedStep
<1>2. /\ Importing /\ ~Contains(Top.loading, Wanted) /\ Wanted \in Top.loaded
      /\ exc' = exc
  BY DEF CachedImport, CachedWith
<1>3. DOMAIN frames = 1 .. n /\ DOMAIN frames' = 1 .. n
      /\ n \in 1 .. n /\ Top = frames[n] /\ h \in Frame
  BY <1>1 DEF Top
<1>4. Recorded(Top) /\ Listed(Top, Top.loading)
  BY <1>1, <1>3 DEF LoadInv, Answered
<1>5. Top.pos < Len(Top.imports) /\ Top.imports[Top.pos + 1] = Wanted
  BY <1>2 DEF Importing, Wanted
<1>6. h.loaded = Top.loaded \cup {Wanted}
  BY <1>1, <1>2
<1>7. \A k \in Lib : Contains(h.loading, k) <=>
            Contains(Top.loading, k) \/ (k = Wanted /\ Wanted \in Top.loaded)
  BY <1>1, <1>2, ContainsAppend DEF Frame
<1> HIDE DEF h
<1>8. Recorded(h) /\ Listed(h, h.loading)
  <2>1. \A k \in Lib \ h.loaded : h.cache[k] = Top.cache[k]
    BY <1>1
  <2>2. /\ Top \in Frame /\ h \in Frame /\ Imported(Top, h, Top.cache[Wanted])
        /\ Wanted \in Lib /\ ~Contains(Top.loading, Wanted)
    BY <1>1, <1>2, <1>3
  <2>3. QED  BY <1>4, <1>5, <1>6, <1>7, <2>1, <2>2, ImportRecorded
<1>9. \A i \in 1 .. n : Recorded(frames'[i])
  BY <1>1, <1>3, <1>8 DEF LoadInv, h
<1>10. \A i \in 1 .. n : frames'[i].lib = frames[i].lib
                         /\ frames'[i].loaded = frames[i].loaded
  BY <1>1, <1>3 DEF h, Imported, SameFile
<1>11. \A i \in 1 .. n : i > 1 => frames'[i].lib \notin frames'[i - 1].loaded
  <2> SUFFICES ASSUME NEW i \in 1 .. n, i > 1
               PROVE  frames'[i].lib \notin frames'[i - 1].loaded
    OBVIOUS
  <2>1. i - 1 \in 1 .. n
    BY <1>1
  <2>2. QED  BY <1>3, <1>10, <2>1 DEF LoadInv
<1>12. \A i \in 1 .. n : Listed(frames'[i], Answered(frames', i))
  <2> SUFFICES ASSUME NEW i \in 1 .. n
               PROVE  Listed(frames'[i], Answered(frames', i))
    OBVIOUS
  <2>1. CASE i = n
    BY <1>1, <1>8, <2>1 DEF Answered, h
  <2>2. CASE i # n
    BY <1>1, <1>3, <2>2 DEF Answered, LoadInv
  <2>3. QED  BY <2>1, <2>2
<1>13. QED  BY <1>3, <1>9, <1>11, <1>12 DEF LoadInv

LEMMA OpenLibraryLoad ==
    ASSUME Inv, LoadInv, OpenLibrary
    PROVE  LoadInv'
<1> DEFINE n == Len(frames)
           f == frames'[n]
           g == frames'[n + 1]
<1>1. /\ frames \in Seq(Frame) /\ n \in Nat \ {0} /\ Top \in Frame
      /\ Wanted \in Lib /\ exc = "none"
      /\ frames' \in Seq(Frame) /\ Len(frames') = n + 1
      /\ \A i \in 1 .. n : i # n => frames'[i] = frames[i]
      /\ OnlyLoading(Top, f)
      /\ f.loading = Append(Top.loading, Wanted)
      /\ g = NewFrame(Wanted, files[Wanted].imports, files[Wanted].body)
  BY OpenStep
<1>2. Wanted \notin Top.loaded /\ exc' = exc
  BY DEF OpenLibrary, Searching
<1>3. DOMAIN frames = 1 .. n /\ DOMAIN frames' = 1 .. n + 1
      /\ n \in 1 .. n /\ Top = frames[n] /\ g \in Frame
  BY <1>1 DEF Top
<1>4. Recorded(Top) /\ Listed(Top, Top.loading)
  BY <1>1, <1>3 DEF LoadInv, Answered
<1>5. Recorded(f) /\ \A q : Listed(Top, q) => Listed(f, q)
  BY <1>1, <1>4, RecordedKept
<1>6. Listed(f, Front(f.loading))
  <2>1. \A k \in Lib : Contains(Front(f.loading), k) <=> Contains(Top.loading, k)
    BY <1>1, ContainsAppend DEF Frame
  <2>2. Listed(f, Top.loading)
    BY <1>4, <1>5
  <2>3. QED  BY <2>1, <2>2 DEF Listed
<1>7. Recorded(g) /\ Listed(g, g.loading)
  <2>1. /\ g.pos = 0 /\ g.loaded = {} /\ g.loading = <<>> /\ g.lib = Wanted
        /\ g.cache = [k \in Lib |-> {}]
    BY <1>1 DEF NewFrame
  <2>2. Done(g) = {}
    BY <2>1 DEF Done
  <2>3. \A k \in Lib : EarlierImports(g, k) = 0
    BY <1>3, <2>2, EarlierType
  <2>4. \A k \in Lib : ~Contains(g.loading, k)
    BY <2>1 DEF Contains
  <2>5. QED  BY <2>1, <2>2, <2>3, <2>4 DEF Recorded, Listed
<1>8. g.lib = Wanted /\ f.loaded = Top.loaded
  BY <1>1 DEF NewFrame, OnlyLoading
<1>9. \A i \in 1 .. n + 1 : Recorded(frames'[i])
  <2> SUFFICES ASSUME NEW i \in 1 .. n + 1 PROVE Recorded(frames'[i])
    OBVIOUS
  <2>1. CASE i = n + 1
    BY <1>7, <2>1
  <2>2. CASE i = n
    BY <1>5, <2>2
  <2>3. CASE i \in 1 .. n /\ i # n
    BY <1>1, <1>3, <2>3 DEF LoadInv
  <2>4. QED  BY <1>1, <2>1, <2>2, <2>3
<1>10. \A i \in 1 .. n : /\ frames'[i].lib = frames[i].lib
                         /\ frames'[i].loaded = frames[i].loaded
  BY <1>1, <1>3 DEF OnlyLoading, SameFile
<1>11. \A i \in 1 .. n + 1 : i > 1 => frames'[i].lib \notin frames'[i - 1].loaded
  <2> SUFFICES ASSUME NEW i \in 1 .. n + 1, i > 1
               PROVE  frames'[i].lib \notin frames'[i - 1].loaded
    OBVIOUS
  <2>1. CASE i = n + 1
    BY <1>1, <1>2, <1>8, <2>1
  <2>2. CASE i # n + 1
    <3>1. i \in 1 .. n /\ i - 1 \in 1 .. n
      BY <1>1, <2>2
    <3>2. QED  BY <1>3, <1>10, <3>1 DEF LoadInv
  <2>3. QED  BY <2>1, <2>2
<1>12. \A i \in 1 .. n + 1 : Listed(frames'[i], Answered(frames', i))
  <2> SUFFICES ASSUME NEW i \in 1 .. n + 1
               PROVE  Listed(frames'[i], Answered(frames', i))
    OBVIOUS
  <2>1. CASE i = n + 1
    BY <1>1, <1>7, <2>1 DEF Answered
  <2>2. CASE i = n
    <3>1. frames'[i] = f /\ i # Len(frames')
      BY <1>1, <2>2
    <3>2. Answered(frames', i) = Front(f.loading)
      BY <3>1 DEF Answered
    <3>3. QED  BY <1>6, <3>1, <3>2
  <2>3. CASE i \in 1 .. n /\ i # n
    <3>1. frames'[i] = frames[i] /\ i # Len(frames') /\ i # Len(frames)
      BY <1>1, <2>3
    <3>2. Answered(frames', i) = Answered(frames, i)
      BY <3>1 DEF Answered
    <3>3. QED  BY <1>1, <1>3, <2>3, <3>1, <3>2 DEF LoadInv
  <2>4. QED  BY <1>1, <2>1, <2>2, <2>3
<1>13. QED  BY <1>3, <1>9, <1>11, <1>12 DEF LoadInv

LEMMA SearchFailsLoad ==
    ASSUME Inv, LoadInv, SearchFails
    PROVE  LoadInv'
<1> DEFINE n == Len(frames)
<1>1. Importing /\ frames' = WithWantedPushed /\ exc' # "none"
  BY DEF SearchFails, NotOpened, SearchThrows, Searching
<1>2. /\ frames \in Seq(Frame) /\ n \in Nat \ {0} /\ Top \in Frame
      /\ frames' \in Seq(Frame) /\ Len(frames') = n
      /\ \A i \in 1 .. n : i # n => frames'[i] = frames[i]
      /\ OnlyLoading(Top, frames'[n])
  BY <1>1, PushStep
<1>3. DOMAIN frames = 1 .. n /\ DOMAIN frames' = 1 .. n
      /\ n \in 1 .. n /\ Top = frames[n]
  BY <1>2 DEF Top
<1>4. \A i \in 1 .. n : Recorded(frames'[i])
  <2>1. Recorded(frames'[n])
    BY <1>2, <1>3, RecordedKept DEF LoadInv
  <2>2. QED  BY <1>2, <1>3, <2>1 DEF LoadInv
<1>5. \A i \in 1 .. n : /\ frames'[i].lib = frames[i].lib
                        /\ frames'[i].loaded = frames[i].loaded
  BY <1>2, <1>3 DEF OnlyLoading, SameFile
<1>6. \A i \in 1 .. n : i > 1 => frames'[i].lib \notin frames'[i - 1].loaded
  <2> SUFFICES ASSUME NEW i \in 1 .. n, i > 1
               PROVE  frames'[i].lib \notin frames'[i - 1].loaded
    OBVIOUS
  <2>1. i - 1 \in 1 .. n
    BY <1>2
  <2>2. QED  BY <1>3, <1>5, <2>1 DEF LoadInv
<1>7. QED  BY <1>1, <1>3, <1>4, <1>6 DEF LoadInv

LEMMA ReturnDeclsLoad ==
    ASSUME Inv, ImportInv, LoadInv, ReturnDecls
    PROVE  LoadInv'
<1> DEFINE n == Len(frames)
           m == n - 1
           p == frames[m]
           h == frames'[m]
           l == Top.lib
<1>1. /\ Nested /\ exc = "none" /\ frames' \in Seq(Frame) /\ Len(frames') = m
      /\ \A i \in 1 .. m : i # m => frames'[i] = frames[i]
      /\ Imported(p, h, Declared(Top)) /\ h.loading = Front(p.loading)
      /\ h.loaded = p.loaded \cup {l}
      /\ h.cache = [p.cache EXCEPT ![l] = Declared(Top)]
  BY ReturnStep
<1>2. /\ frames \in Seq(Frame) /\ n \in Nat /\ n > 1 /\ Top \in Frame
      /\ Top = frames[n] /\ p \in Frame /\ l \in Lib
  BY <1>1, PopStep
<1>3. /\ DOMAIN frames = 1 .. n /\ DOMAIN frames' = 1 .. m
      /\ n \in 1 .. n /\ m \in 1 .. n /\ m \in 1 .. m /\ h \in Frame
  BY <1>1, <1>2
<1>4. Recorded(p) /\ Listed(p, Front(p.loading)) /\ l \notin p.loaded
  BY <1>1, <1>2, <1>3 DEF LoadInv, Answered
<1>5. p.pos < Len(p.imports) /\ p.imports[p.pos + 1] = l
  BY <1>2, <1>3 DEF ImportInv, Nests
<1>6. ~Contains(Front(p.loading), l)
  <2>1. l \notin Done(p)
    BY <1>4 DEF Recorded
  <2>2. EarlierImports(p, l) = 0
    BY <1>2, <2>1, EarlierType
  <2>3. QED  BY <1>2, <1>4, <2>2 DEF Listed
<1>7. \A k \in Lib : Contains(h.loading, k) <=>
            Contains(Front(p.loading), k) \/ (k = l /\ l \in p.loaded)
  BY <1>1, <1>4
<1>8. \A k \in Lib \ h.loaded : h.cache[k] = p.cache[k]
  BY <1>1, <1>2 DEF Frame
<1> HIDE DEF h, p, l, m
<1>9. Recorded(h) /\ Listed(h, h.loading)
  BY <1>1, <1>2, <1>3, <1>4, <1>5, <1>6, <1>7, <1>8, ImportRecorded
<1>10. m \in Nat /\ m < n /\ 1 <= m
  BY <1>2 DEF m
<1>11. \A i \in 1 .. m : i # m => frames'[i] = frames[i] /\ i \in DOMAIN frames
  BY <1>1, <1>2, <1>3, <1>10
<1>12. \A i \in 1 .. m : Recorded(frames'[i])
  <2> SUFFICES ASSUME NEW i \in 1 .. m PROVE Recorded(frames'[i])
    OBVIOUS
  <2>1. CASE i = m
    BY <1>9, <2>1 DEF h
  <2>2. CASE i # m
    BY <1>11, <2>2 DEF LoadInv
  <2>3. QED  BY <2>1, <2>2
<1>13. \A i \in 1 .. m : i > 1 => frames'[i].lib \notin frames'[i - 1].loaded
  <2> SUFFICES ASSUME NEW i \in 1 .. m, i > 1
               PROVE  frames'[i].lib \notin frames'[i - 1].loaded
    OBVIOUS
  <2>1. i - 1 \in 1 .. m /\ i - 1 # m /\ i \in DOMAIN frames
    BY <1>2, <1>3, <1>10
  <2>2. frames'[i - 1] = frames[i - 1]
    BY <1>11, <2>1
  <2>3. frames'[i].lib = frames[i].lib
    BY <1>1, <1>11 DEF h, p, Imported, SameFile
  <2>4. QED  BY <2>1, <2>2, <2>3 DEF LoadInv
<1>14. \A i \in 1 .. m : Listed(frames'[i], Answered(frames', i))
  <2> SUFFICES ASSUME NEW i \in 1 .. m
               PROVE  Listed(frames'[i], Answered(frames', i))
    OBVIOUS
  <2>1. CASE i = m
    BY <1>1, <1>9, <2>1 DEF Answered, h
  <2>2. CASE i # m
    <3>1. i # Len(frames) /\ i # Len(frames')
      BY <1>1, <1>10, <2>2
    <3>2. Answered(frames', i) = Answered(frames, i)
      BY <1>11, <2>2, <3>1 DEF Answered
    <3>3. QED  BY <1>1, <1>11, <2>2, <3>2 DEF LoadInv
  <2>3. QED  BY <2>1, <2>2
<1>15. QED  BY <1>3, <1>12, <1>13, <1>14 DEF LoadInv

LEMMA UnwindLoad ==
    ASSUME Inv, LoadInv, Unwind
    PROVE  LoadInv'
<1> DEFINE m == Len(frames) - 1
<1>1. Nested /\ frames' = Front(frames) /\ exc' # "none"
  BY DEF Unwind
<1>2. /\ frames \in Seq(Frame) /\ Len(frames) \in Nat
      /\ frames' \in Seq(Frame) /\ Len(frames') = m
      /\ \A i \in 1 .. m : frames'[i] = frames[i]
  BY <1>1, PopStep
<1>3. DOMAIN frames' = 1 .. m /\ \A i \in 1 .. m : i \in DOMAIN frames
  BY <1>2
<1>4. \A i \in 1 .. m : i > 1 => frames'[i].lib \notin frames'[i - 1].loaded
  <2> SUFFICES ASSUME NEW i \in 1 .. m, i > 1
               PROVE  frames'[i].lib \notin frames'[i - 1].loaded
    OBVIOUS
  <2>1. i - 1 \in 1 .. m
    BY <1>2
  <2>2. QED  BY <1>2, <1>3, <2>1 DEF LoadInv
<1>5. QED  BY <1>1, <1>2, <1>3, <1>4 DEF LoadInv

LEMMA OpenFileLoad ==
    ASSUME Inv, OpenFile
    PROVE  LoadInv'
<1> DEFINE g == NewFrame(Main, Current.imports, Current.body)
<1>1. MoreFiles /\ frames' = <<g>>
  BY DEF OpenFile
<1>2. Current \in Program
  BY <1>1, ProgramType DEF Inv
<1>3. g \in Frame
  BY <1>2, NewFrameType DEF Program
<1>4. /\ g.pos = 0 /\ g.loaded = {} /\ g.loading = <<>>
      /\ g.cache = [k \in Lib |-> {}]
  BY DEF NewFrame
<1> HIDE DEF g
<1>5. Recorded(g) /\ Listed(g, g.loading)
  <2>1. Done(g) = {}
    BY <1>4 DEF Done
  <2>2. \A k \in Lib : EarlierImports(g, k) = 0
    BY <1>3, <2>1, EarlierType
  <2>3. \A k \in Lib : ~Contains(g.loading, k)
    BY <1>4 DEF Contains
  <2>4. QED  BY <1>4, <2>1, <2>2, <2>3 DEF Recorded, Listed
<1>6. DOMAIN frames' = {1} /\ frames'[1] = g /\ Len(frames') = 1
  BY <1>1
<1>7. QED  BY <1>5, <1>6 DEF LoadInv, Answered

LEMMA NextLoad == Inv /\ ImportInv /\ LoadInv /\ [Next]_vars => LoadInv'
<1> SUFFICES ASSUME Inv, ImportInv, LoadInv, [Next]_vars PROVE LoadInv'
  OBVIOUS
<1>1. CASE LoaderStep
  <2>1. CASE RecursiveImport \/ LibSyntaxError \/ ScannerJams \/ BodyThrows
    BY <2>1, LoadKept DEF RecursiveImport, LibSyntaxError, ScannerJams, BodyThrows
  <2>2. QED
    BY <1>1, <2>1, CachedImportLoad, OpenLibraryLoad, SearchFailsLoad,
       ReturnDeclsLoad, UnwindLoad DEF LoaderStep, LoaderNext
<1>2. CASE OpenFile
  BY <1>2, OpenFileLoad
<1>3. CASE CannotOpen \/ DumpTokens \/ DumpDies \/ UNCHANGED vars
  BY <1>3, LoadKept DEF CannotOpen, DumpTokens, DumpDies, vars, loaderVars
<1>4. CASE FinishCompile \/ MainSyntaxError
  BY <1>4, LoadKept DEF FinishCompile, MainSyntaxError
<1>5. CASE CatchAll
  <2>1. frames' = <<>>
    BY <1>5 DEF CatchAll, CatchWith
  <2>2. QED  BY <2>1 DEF LoadInv
<1>6. QED  BY <1>1, <1>2, <1>3, <1>4, <1>5 DEF Next, DumpGoesOn, Terminated

\* The three invariants of the stack together.
LEMMA StackInvariants == Spec => [](Inv /\ ImportInv /\ LoadInv)
<1>1. Init => Inv /\ ImportInv /\ LoadInv
  BY InitInv, InitImports, InitLoad
<1>2. Inv /\ ImportInv /\ LoadInv /\ [Next]_vars => (Inv /\ ImportInv /\ LoadInv)'
  BY NextInv, NextImports, NextLoad
<1>3. QED  BY <1>1, <1>2, PTL DEF Spec

\* What refuses an import: only the library's entry in loading_.
LEMMA RefusalStep ==
    ASSUME Inv, LoadInv, [Next]_vars, ~UNCHANGED vars, Importing
    PROVE  exc' = "recursive" <=> EarlierImports(Top, Wanted) >= 2
<1>1. /\ frames \in Seq(Frame) /\ frames # <<>> /\ exc = "none" /\ ~exited
      /\ Top \in Frame /\ Wanted \in Lib
  BY WantedType DEF Inv, Types
<1>2. Len(frames) \in DOMAIN frames
  BY <1>1, TopFrame
<1>3. Contains(Top.loading, Wanted) <=> EarlierImports(Top, Wanted) >= 2
  BY <1>1, <1>2 DEF LoadInv, Listed, Answered, Top
<1>4. ~AtEnd
  BY <1>1 DEF Importing, AtEnd, Frame
<1>5. RecursiveImport \/ CachedImport \/ OpenLibrary \/ SearchFails
  BY <1>1, <1>4 DEF Next, LoaderStep, LoaderNext, ReturnDecls, ReturnWith,
     LibSyntaxError, ScannerJams, BodyThrows, Unwind, OpenFile, CannotOpen, DumpTokens,
     DumpDies, DumpGoesOn, Dumping, MoreFiles, Idle, FinishCompile, MainSyntaxError,
     CatchAll, CatchWith, Terminated
<1>6. CASE RecursiveImport
  BY <1>3, <1>6 DEF RecursiveImport
<1>7. CASE CachedImport \/ OpenLibrary \/ SearchFails
  <2>1. ~Contains(Top.loading, Wanted)
    BY <1>7 DEF CachedImport, CachedWith, OpenLibrary, SearchFails, NotOpened, Searching
  <2>2. exc' # "recursive"
    BY <1>1, <1>7 DEF CachedImport, CachedWith, OpenLibrary, SearchFails, SearchThrows
  <2>3. QED  BY <1>3, <2>1, <2>2
<1>8. QED  BY <1>5, <1>6, <1>7

\* An import is refused as recursive exactly when the same file has imported the
\* library twice before: never for a cycle of imports, and never on the second
\* import, whatever the tree and whatever was nested in between.
THEOREM RefusalIsTheThirdImport == Spec => RecursionIsThirdImport
<1>1. Inv /\ LoadInv /\ [Next]_vars =>
        [Importing => (exc' = "recursive" <=> EarlierImports(Top, Wanted) >= 2)]_vars
  BY RefusalStep
<1>2. QED  BY <1>1, StackInvariants, PTL DEF Spec, RecursionIsThirdImport

(***************************************************************************)
(* No declarations come out of a cycle.                                    *)
(***************************************************************************)

\* What several libraries reach, one of them reaches.
LEMMA ClosureFrom ==
    ASSUME NEW fs \in FileSystems, NEW R \in SUBSET Lib, NEW x \in Closure(fs, R)
    PROVE  \E y \in R : x \in Closure(fs, {y})
<1> DEFINE C == {l \in Lib : \E y \in R : l \in Closure(fs, {y})}
<1>1. \A y \in R : y \in Closure(fs, {y}) /\ Closed(fs, Closure(fs, {y}))
                   /\ Closure(fs, {y}) \subseteq Lib
  BY ClosureContains, ClosureClosed
<1>2. R \subseteq C
  BY <1>1
<1>3. Closed(fs, C)
  <2> SUFFICES ASSUME NEW l \in C, NEW i \in DOMAIN fs[l].imports
               PROVE  fs[l].imports[i] \in C
    BY DEF Closed
  <2>1. PICK y \in R : l \in Closure(fs, {y})
    OBVIOUS
  <2>2. fs[l].imports[i] \in Closure(fs, {y})
    BY <1>1, <2>1 DEF Closed
  <2>3. QED  BY <1>1, <2>2
<1>4. QED  BY <1>2, <1>3, ClosureLeast

\* A library on a cycle imports one that is on a cycle.
LEMMA CyclePasses ==
    ASSUME NEW fs \in FileSystems, NEW x \in Lib, Cyclic(fs, x)
    PROVE  \E y \in ImportsOf(fs, x) : Cyclic(fs, y)
<1>1. \A l : ToSet(fs[l].imports) = ImportsOf(fs, l)
  BY DEF ToSet, ImportsOf
<1>2. ImportsOf(fs, x) \in SUBSET Lib /\ x \in Closure(fs, ImportsOf(fs, x))
  BY <1>1, ClosureStep DEF Cyclic
<1>3. PICK y \in ImportsOf(fs, x) : x \in Closure(fs, {y})
  BY <1>2, ClosureFrom
<1>4. /\ ImportsOf(fs, y) \in SUBSET Lib
      /\ Closure(fs, {y}) = {y} \cup Closure(fs, ImportsOf(fs, y))
  BY <1>2, ClosureStep
<1>5. CASE x = y
  BY <1>2, <1>3, <1>5 DEF Cyclic
<1>6. CASE x \in Closure(fs, ImportsOf(fs, y))
  <2>1. ImportsOf(fs, x) \subseteq Closure(fs, ImportsOf(fs, y))
    BY <1>4, <1>6, ClosureClosed DEF Closed, ImportsOf
  <2>2. y \in Closure(fs, ImportsOf(fs, y))
    BY <2>1
  <2>3. QED  BY <1>1, <2>2 DEF Cyclic
<1>7. QED  BY <1>3, <1>4, <1>5, <1>6

\* A library is entered in loaded_ once its own file has loaded all it imports:
\* none of these is on a cycle, so the library is not either.
LEMMA NextNoCycle ==
    Inv /\ ImportInv /\ LoadInv /\ NoDeclsFromCycle /\ [Next]_vars => NoDeclsFromCycle'
<1> SUFFICES ASSUME Inv, ImportInv, LoadInv, NoDeclsFromCycle, [Next]_vars
             PROVE  NoDeclsFromCycle'
  OBVIOUS
<1>1. ASSUME UNCHANGED files, UNCHANGED frames \/ frames' = <<>>
      PROVE  NoDeclsFromCycle'
  BY <1>1 DEF NoDeclsFromCycle
<1>2. CASE OpenLibrary
  <2> DEFINE n == Len(frames)
  <2>1. /\ frames \in Seq(Frame) /\ n \in Nat \ {0}
        /\ frames' \in Seq(Frame) /\ Len(frames') = n + 1
        /\ \A i \in 1 .. n : i # n => frames'[i] = frames[i]
        /\ OnlyLoading(Top, frames'[n])
        /\ frames'[n + 1].loaded = {}
    BY <1>2, OpenStep DEF NewFrame
  <2>2. \A i \in 1 .. n : frames'[i].loaded = frames[i].loaded
    BY <2>1 DEF OnlyLoading, Top
  <2>3. DOMAIN frames = 1 .. n /\ DOMAIN frames' = 1 .. n + 1 /\ files' = files
    BY <1>2, <2>1 DEF OpenLibrary
  <2>4. \A i \in 1 .. n + 1 : i \in 1 .. n \/ i = n + 1
    BY <2>1
  <2>5. QED  BY <2>1, <2>2, <2>3, <2>4 DEF NoDeclsFromCycle
<1>3. CASE SearchFails
  <2> DEFINE n == Len(frames)
  <2>1. Importing /\ frames' = WithWantedPushed /\ files' = files
    BY <1>3 DEF SearchFails, NotOpened, SearchThrows, Searching
  <2>2. /\ frames \in Seq(Frame) /\ n \in Nat \ {0}
        /\ frames' \in Seq(Frame) /\ Len(frames') = n
        /\ \A i \in 1 .. n : i # n => frames'[i] = frames[i]
        /\ OnlyLoading(Top, frames'[n])
    BY <2>1, PushStep
  <2>3. \A i \in 1 .. n : frames'[i].loaded = frames[i].loaded
    BY <2>2 DEF OnlyLoading, Top
  <2>4. QED  BY <2>1, <2>2, <2>3 DEF NoDeclsFromCycle
<1>4. CASE CachedImport
  <2> DEFINE n == Len(frames)
  <2>1. /\ frames \in Seq(Frame) /\ n \in Nat \ {0}
        /\ frames' \in Seq(Frame) /\ Len(frames') = n
        /\ \A i \in 1 .. n : i # n => frames'[i] = frames[i]
        /\ frames'[n].loaded = Top.loaded /\ files' = files
    BY <1>4, CachedStep DEF CachedImport, CachedWith
  <2>2. \A i \in 1 .. n : frames'[i].loaded = frames[i].loaded
    BY <2>1 DEF Top
  <2>3. QED  BY <2>1, <2>2 DEF NoDeclsFromCycle
<1>5. CASE ReturnDecls
  <2> DEFINE n == Len(frames)
             l == Top.lib
  <2>1. /\ Nested /\ frames' \in Seq(Frame) /\ Len(frames') = n - 1
        /\ \A i \in 1 .. n - 1 : i # n - 1 => frames'[i] = frames[i]
        /\ frames'[n - 1].loaded = frames[n - 1].loaded \cup {l}
    BY <1>5, ReturnStep
  <2>2. /\ frames \in Seq(Frame) /\ n \in Nat /\ n > 1 /\ Top \in Frame
        /\ Top = frames[n] /\ l \in Lib
    BY <2>1, PopStep
  <2>3. /\ files' = files /\ files \in FileSystems /\ Top.pos = Len(Top.imports)
        /\ DOMAIN frames = 1 .. n /\ DOMAIN frames' = 1 .. n - 1
    BY <1>5, <2>1, <2>2 DEF ReturnDecls, ReturnWith, AtEnd, Inv, Types
  <2>4. Top.imports = files[l].imports /\ Top.loaded = Done(Top)
    BY <2>2, <2>3 DEF ImportInv, Nests, LoadInv, Recorded
  <2>5. DOMAIN Top.imports = 1 .. Len(Top.imports)
    BY <2>2 DEF Frame
  <2>6. Top.loaded = ImportsOf(files, l)
    BY <2>3, <2>4, <2>5 DEF Done, ImportsOf
  <2>7. \A y \in Top.loaded : ~Cyclic(files, y)
    BY <2>2, <2>3 DEF NoDeclsFromCycle
  <2>8. ~Cyclic(files, l)
    BY <2>2, <2>3, <2>6, <2>7, CyclePasses
  <2>9. \A i \in 1 .. n - 1 : i \in DOMAIN frames /\
            frames'[i].loaded \subseteq frames[i].loaded \cup {l}
    BY <2>1, <2>2, <2>3
  <2>10. QED  BY <2>3, <2>8, <2>9 DEF NoDeclsFromCycle
<1>6. CASE Unwind
  <2>1. Nested /\ frames' = Front(frames) /\ files' = files
    BY <1>6 DEF Unwind
  <2>2. /\ frames \in Seq(Frame) /\ Len(frames) \in Nat /\ frames' \in Seq(Frame)
        /\ Len(frames') = Len(frames) - 1
        /\ \A i \in 1 .. Len(frames) - 1 : frames'[i] = frames[i]
    BY <2>1, PopStep
  <2>3. \A i \in DOMAIN frames' : i \in DOMAIN frames /\ frames'[i] = frames[i]
    BY <2>2
  <2>4. QED  BY <2>1, <2>3 DEF NoDeclsFromCycle
<1>7. CASE OpenFile
  BY <1>7 DEF OpenFile, NewFrame, NoDeclsFromCycle
<1>8. QED
  BY <1>1, <1>2, <1>3, <1>4, <1>5, <1>6, <1>7 DEF Next, LoaderStep, LoaderNext,
     RecursiveImport, LibSyntaxError, ScannerJams, BodyThrows, CannotOpen, DumpTokens,
     DumpDies, DumpGoesOn, FinishCompile, MainSyntaxError, CatchAll, CatchWith,
     Terminated, vars, loaderVars

\* A library whose imports lead back to it is never returned to anyone, although
\* nothing in the Loader looks for cycles.
THEOREM CyclesDeclareNothing == Spec => []NoDeclsFromCycle
<1>1. Init => NoDeclsFromCycle
  BY DEF Init, LoaderInit, NoDeclsFromCycle
<1>2. QED  BY <1>1, StackInvariants, NextNoCycle, PTL DEF Spec
=============================================================================
