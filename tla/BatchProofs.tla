----------------------------- MODULE BatchProofs -----------------------------
(***************************************************************************)
(* Driver implements ImportBatch, step by step: what the nesting of parses *)
(* and Loaders comes to is decided by the import tree alone.               *)
(***************************************************************************)
EXTENDS DriverProofs

\* The state ImportBatch speaks of is part of Driver's, under the same names.
Batch == INSTANCE ImportBatch

(***************************************************************************)
(* The import tree, as ImportBatch and as Driver speak of it.              *)
(***************************************************************************)

LEMMA ReachIsClosure ==
    ASSUME NEW x
    PROVE  Batch!Reach(x) = Closure(files, ToSet(x.imports))
BY DEF Batch!Reach, Batch!Closed, Closure, Closed, ToSet

LEMMA AcyclicIs ==
    ASSUME NEW R
    PROVE  Batch!Acyclic(R) <=>
             \A C \in SUBSET R : C # {} => \E l \in C : ImportsOf(files, l) \cap C = {}
<1>1. \A C, l : (\A i \in DOMAIN files[l].imports : files[l].imports[i] \notin C)
                  <=> ImportsOf(files, l) \cap C = {}
  BY DEF ImportsOf
<1>2. QED  BY <1>1 DEF Batch!Acyclic

\* What a set of libraries imports is acyclic with what it imports.
LEMMA AcyclicUnion ==
    ASSUME NEW A, NEW B, Batch!Acyclic(A), Batch!Acyclic(B), Closed(files, A)
    PROVE  Batch!Acyclic(A \cup B)
<1> SUFFICES ASSUME NEW C \in SUBSET (A \cup B), C # {}
             PROVE  \E l \in C : ImportsOf(files, l) \cap C = {}
  BY AcyclicIs
<1>1. CASE C \cap A # {}
  <2>1. PICK l \in C \cap A : ImportsOf(files, l) \cap (C \cap A) = {}
    <3>1. C \cap A \in SUBSET A
      OBVIOUS
    <3>2. QED  BY <1>1, <3>1, AcyclicIs
  <2>2. ImportsOf(files, l) \subseteq A
    BY <2>1 DEF Closed, ImportsOf
  <2>3. QED  BY <2>1, <2>2
<1>2. CASE C \cap A = {}
  <2>1. C \in SUBSET B
    BY <1>2
  <2>2. QED  BY <2>1, AcyclicIs
<1>3. QED  BY <1>1, <1>2

LEMMA AcyclicOne ==
    ASSUME NEW l, l \notin ImportsOf(files, l)
    PROVE  Batch!Acyclic({l})
<1>1. \A C \in SUBSET {l} : C # {} => l \in C /\ ImportsOf(files, l) \cap C = {}
  OBVIOUS
<1>2. QED  BY <1>1, AcyclicIs

\* No library of a closed acyclic set leads back to itself.
LEMMA AcyclicNotCyclic ==
    ASSUME files \in FileSystems, NEW R \in SUBSET Lib, Closed(files, R),
           Batch!Acyclic(R), NEW l \in R
    PROVE  ~Cyclic(files, l)
<1> DEFINE C == {x \in R : Cyclic(files, x)}
<1> SUFFICES ASSUME l \in C PROVE FALSE
  OBVIOUS
<1>1. PICK x \in C : ImportsOf(files, x) \cap C = {}
  <2>1. C \in SUBSET R /\ C # {}
    OBVIOUS
  <2> HIDE DEF C
  <2>2. QED  BY <2>1, AcyclicIs
<1>2. PICK y \in ImportsOf(files, x) : Cyclic(files, y)
  BY CyclePasses
<1>3. y \in R
  BY <1>2 DEF Closed, ImportsOf
<1>4. QED  BY <1>1, <1>2, <1>3

(***************************************************************************)
(* The third import of a library.                                          *)
(***************************************************************************)

LEMMA Removed ==
    ASSUME NEW K, IsFiniteSet(K), NEW x \in K
    PROVE  IsFiniteSet(K \ {x}) /\ Cardinality(K) = Cardinality(K \ {x}) + 1
<1>1. IsFiniteSet(K \ {x}) /\ Cardinality(K \ {x}) = Cardinality(K) - 1
  BY FS_RemoveElement
<1>2. Cardinality(K) \in Nat
  BY FS_CardinalityType
<1>3. QED  BY <1>1, <1>2

LEMMA ThreeOf ==
    ASSUME NEW K, IsFiniteSet(K), NEW x \in K, NEW y \in K, NEW z \in K,
           x # y, y # z, x # z
    PROVE  Cardinality(K) > 2
<1> DEFINE A == K \ {x}
           B == A \ {y}
           C == B \ {z}
<1>1. IsFiniteSet(A) /\ Cardinality(K) = Cardinality(A) + 1 /\ y \in A
  BY Removed
<1>2. IsFiniteSet(B) /\ Cardinality(A) = Cardinality(B) + 1 /\ z \in B
  BY <1>1, Removed
<1>3. IsFiniteSet(C) /\ Cardinality(B) = Cardinality(C) + 1
  BY <1>2, Removed
<1>4. Cardinality(C) \in Nat
  BY <1>3, FS_CardinalityType
<1> HIDE DEF A, B, C
<1>5. QED  BY <1>1, <1>2, <1>3, <1>4

LEMMA TwoOf ==
    ASSUME NEW K, IsFiniteSet(K), Cardinality(K) >= 2
    PROVE  \E x, y \in K : x # y
<1>1. Cardinality({}) = 0
  BY FS_EmptySet
<1>2. PICK x \in K : TRUE
  BY <1>1
<1>3. IsFiniteSet(K \ {x}) /\ Cardinality(K) = Cardinality(K \ {x}) + 1
  BY <1>2, Removed
<1>4. K \ {x} # {}
  BY <1>1, <1>3
<1>5. QED  BY <1>2, <1>4

\* The earlier imports of one library, as positions in the file.
LEMMA EarlierIs ==
    ASSUME NEW f \in Frame, NEW l
    PROVE  LET K == {k \in 1 .. f.pos : f.imports[k] = l}
           IN  IsFiniteSet(K) /\ EarlierImports(f, l) = Cardinality(K)
<1>1. IsFiniteSet(1 .. f.pos)
  BY FS_Interval DEF Frame
<1>2. QED  BY <1>1, FS_Subset DEF EarlierImports

LEMMA TwiceIfRecorded ==
    ASSUME NEW f \in Frame, Recorded(f), f.pos = Len(f.imports)
    PROVE  Batch!TwiceAtMost(f.imports)
<1>1. /\ f.imports \in Seq(Lib) /\ f.pos \in Nat
      /\ DOMAIN f.imports = 1 .. f.pos
  BY DEF Frame
<1>2. ASSUME NEW a \in DOMAIN f.imports, NEW b \in DOMAIN f.imports,
             NEW c \in DOMAIN f.imports, a < b, b < c,
             f.imports[a] = f.imports[b], f.imports[b] = f.imports[c]
      PROVE  EarlierImports(f, f.imports[a]) > 2
  <2> DEFINE K == {k \in 1 .. f.pos : f.imports[k] = f.imports[a]}
  <2>1. a \in K /\ b \in K /\ c \in K /\ a # b /\ b # c /\ a # c
    BY <1>1, <1>2
  <2>2. IsFiniteSet(K) /\ EarlierImports(f, f.imports[a]) = Cardinality(K)
    BY EarlierIs
  <2> HIDE DEF K
  <2>3. QED  BY <2>1, <2>2, ThreeOf
<1>3. \A l \in Lib : EarlierImports(f, l) \in Nat /\ EarlierImports(f, l) <= 2
  BY EarlierType DEF Recorded
<1>4. \A a \in DOMAIN f.imports : f.imports[a] \in Lib
  BY <1>1
<1>5. QED  BY <1>2, <1>3, <1>4 DEF Batch!TwiceAtMost

LEMMA ThirdImport ==
    ASSUME NEW f \in Frame, NEW l, f.pos < Len(f.imports), f.imports[f.pos + 1] = l,
           EarlierImports(f, l) >= 2
    PROVE  ~Batch!TwiceAtMost(f.imports)
<1> DEFINE K == {k \in 1 .. f.pos : f.imports[k] = l}
<1>1. f.imports \in Seq(Lib) /\ f.pos \in Nat
  BY DEF Frame
<1>2. IsFiniteSet(K) /\ EarlierImports(f, l) = Cardinality(K)
  BY EarlierIs
<1>3. \E x, y \in K : x # y
  <2> HIDE DEF K
  <2>1. QED  BY <1>2, TwoOf
<1>4. PICK x \in K, y \in K : x < y
  BY <1>1, <1>3
<1>5. /\ x \in DOMAIN f.imports /\ y \in DOMAIN f.imports
      /\ f.pos + 1 \in DOMAIN f.imports /\ x < y /\ y < f.pos + 1
      /\ f.imports[x] = f.imports[y] /\ f.imports[y] = f.imports[f.pos + 1]
  BY <1>1, <1>4
<1>6. QED  BY <1>5 DEF Batch!TwiceAtMost

(***************************************************************************)
(* The invariant: what the stack owes to the program at its bottom.        *)
(***************************************************************************)

\* A library that loads once what it imports does.
Good(l) == /\ Batch!OnPath(l) /\ Batch!Parses(l)
           /\ Batch!TwiceAtMost(files[l].imports)

Solid(R) == Batch!Acyclic(R) /\ \A l \in R : Good(l)

\* The outermost parse is of the program to be answered next.
Serving == frames # <<>> =>
    /\ Current.opens /\ ~dumpToken /\ Len(results) < Len(argv)
    /\ frames[1].imports = Current.imports /\ frames[1].body = Current.body

\* Each nested parse is of a library that was found, and that every parse below
\* it reaches.
Chained ==
    /\ \A i \in DOMAIN frames : i > 1 => Batch!OnPath(frames[i].lib)
    /\ \A i, j \in DOMAIN frames :
            i < j => frames[j].lib \in Closure(files, ToSet(frames[i].imports))

\* All that has been imported so far can be.
AllSolid == \A i \in DOMAIN frames : Solid(Closure(files, Done(frames[i])))

\* An exception is in flight for a reason a user can be told.
Answerable == Batch!Compiles(Current) /\ Batch!NothingFailed /\ Batch!Roomy
Excused == exc # "none" => frames # <<>> /\ ~Answerable

BatchInv == Serving /\ Chained /\ AllSolid /\ Excused

LEMMA InitBatch == Init => BatchInv
BY DEF Init, LoaderInit, BatchInv, Serving, Chained, AllSolid, Excused

LEMMA SameAnswer ==
    ASSUME UNCHANGED <<files, argv, results>>
    PROVE  Answerable' <=> Answerable
BY DEF Answerable, Current, Batch!Compiles, Batch!Loadable, Batch!Acyclic, Batch!Reach,
       Batch!Closed, Batch!TwiceAtMost, Batch!OnPath, Batch!Parses, Batch!NothingFailed,
       Batch!Roomy

\* A step may pop the stack and update what is left, so long as the files being
\* parsed stay the same.
LEMMA ChainKept ==
    ASSUME Inv, Serving, Chained, UNCHANGED <<files, argv, dumpToken, results>>,
           frames' \in Seq(Frame), Len(frames') <= Len(frames),
           \A i \in 1 .. Len(frames') : SameFile(frames[i], frames'[i])
    PROVE  Serving' /\ Chained'
<1>1. /\ frames \in Seq(Frame) /\ DOMAIN frames = 1 .. Len(frames)
      /\ DOMAIN frames' = 1 .. Len(frames') /\ Len(frames') \in Nat /\ Len(frames) \in Nat
  BY DEF Inv, Types
<1>2. Serving'
  <2> SUFFICES ASSUME frames' # <<>>
               PROVE  /\ Current.opens /\ ~dumpToken /\ Len(results) < Len(argv)
                      /\ frames'[1].imports = Current.imports
                      /\ frames'[1].body = Current.body
    BY DEF Serving, Current
  <2>1. 1 \in 1 .. Len(frames') /\ frames # <<>>
    BY <1>1
  <2>2. QED  BY <2>1 DEF Serving, SameFile
<1>3. ASSUME NEW i \in DOMAIN frames', i > 1
      PROVE  Batch!OnPath(frames[i].lib)'
  <2>1. frames'[i].lib = frames[i].lib /\ i \in DOMAIN frames
    BY <1>1 DEF SameFile
  <2>2. Batch!OnPath(frames[i].lib)
    BY <1>3, <2>1 DEF Chained
  <2>3. QED  BY <2>1, <2>2 DEF Batch!OnPath
<1>4. ASSUME NEW i \in DOMAIN frames', NEW j \in DOMAIN frames', i < j
      PROVE  frames'[j].lib \in Closure(files', ToSet(frames'[i].imports))
  <2>1. /\ frames'[j].lib = frames[j].lib /\ frames'[i].imports = frames[i].imports
        /\ i \in DOMAIN frames /\ j \in DOMAIN frames
    BY <1>1 DEF SameFile
  <2>2. QED  BY <1>4, <2>1 DEF Chained
<1>5. QED  BY <1>2, <1>3, <1>4 DEF Chained

LEMMA SolidPrimed ==
    ASSUME UNCHANGED files, frames' \in Seq(Frame),
           \A i \in 1 .. Len(frames') : Solid(Closure(files, Done(frames'[i])))
    PROVE  AllSolid'
<1>1. DOMAIN frames' = 1 .. Len(frames')
  OBVIOUS
<1>2. ASSUME NEW i \in DOMAIN frames'
      PROVE  Solid(Closure(files, Done(frames[i])))'
  <2> DEFINE R == Closure(files, Done(frames'[i]))
  <2>1. Batch!Acyclic(R) /\ \A l \in R : Good(l)
    BY <1>1, <1>2 DEF Solid
  <2>2. R = Closure(files', Done(frames'[i])) /\ files' = files
    OBVIOUS
  <2> HIDE DEF R
  <2>3. Batch!Acyclic(Closure(files, Done(frames[i])))'
    BY <2>1, <2>2 DEF Batch!Acyclic
  <2>4. \A l \in R : Good(l)'
    BY <2>1, <2>2 DEF Good, Batch!OnPath, Batch!Parses, Batch!TwiceAtMost
  <2>5. QED  BY <2>2, <2>3, <2>4 DEF Solid
<1>3. QED  BY <1>2 DEF AllSolid

LEMMA SolidKept ==
    ASSUME Inv, AllSolid, UNCHANGED files, frames' \in Seq(Frame),
           Len(frames') <= Len(frames),
           \A i \in 1 .. Len(frames') :
                Done(frames'[i]) = Done(frames[i]) \/ Solid(Closure(files, Done(frames'[i])))
    PROVE  AllSolid'
<1>1. /\ DOMAIN frames = 1 .. Len(frames)
      /\ Len(frames') \in Nat /\ Len(frames) \in Nat
  BY DEF Inv, Types
<1>2. \A i \in 1 .. Len(frames') : Solid(Closure(files, Done(frames'[i])))
  BY <1>1 DEF AllSolid
<1>3. QED  BY <1>2, SolidPrimed

\* Popping to nothing, or leaving the stack alone.
LEMMA StackSame ==
    ASSUME Inv, BatchInv, UNCHANGED files,
           frames' = <<>> \/ UNCHANGED <<frames, argv, dumpToken, results>>
    PROVE  Serving' /\ Chained' /\ AllSolid'
<1>1. CASE frames' = <<>>
  BY <1>1 DEF Serving, Chained, AllSolid
<1>2. CASE UNCHANGED <<frames, argv, dumpToken, results>>
  <2>1. frames \in Seq(Frame) /\ Len(frames) \in Nat
    BY DEF Inv, Types
  <2>2. Serving' /\ Chained'
    BY <1>2, <2>1, ChainKept DEF BatchInv, SameFile
  <2>3. AllSolid'
    BY <1>2, <2>1, SolidKept DEF BatchInv
  <2>4. QED  BY <2>2, <2>3
<1>3. QED  BY <1>1, <1>2

(***************************************************************************)
(* Why an exception is thrown.                                             *)
(***************************************************************************)

\* What a file imports next is reached by every parse on the stack.
LEMMA WantedReached ==
    ASSUME Inv, ImportInv, Chained, Importing
    PROVE  \A i \in 1 .. Len(frames) :
                Wanted \in Closure(files, ToSet(frames[i].imports))
<1> DEFINE n == Len(frames)
<1>1. /\ frames \in Seq(Frame) /\ n \in Nat \ {0} /\ DOMAIN frames = 1 .. n
      /\ Top \in Frame /\ Wanted \in Lib /\ files \in FileSystems
      /\ Top.pos + 1 \in 1 .. Len(Top.imports) /\ Top = frames[n]
  BY WantedType, TopFrame DEF Inv, Types, Top
<1>2. /\ Wanted \in ToSet(Top.imports)
      /\ \A i \in 1 .. n : ToSet(frames[i].imports) \in SUBSET Lib
  <2>4. \A i \in 1 .. n : frames[i] \in Frame
    BY <1>1
  <2>1. \A i \in 1 .. n : frames[i].imports \in Seq(Lib)
    BY <2>4 DEF Frame
  <2>2. DOMAIN Top.imports = 1 .. Len(Top.imports)
    BY <1>1 DEF Frame
  <2>3. QED  BY <1>1, <2>1, <2>2 DEF ToSet, Wanted
<1>3. \A i \in 1 .. n : /\ ToSet(frames[i].imports) \subseteq Closure(files, ToSet(frames[i].imports))
                        /\ Closed(files, Closure(files, ToSet(frames[i].imports)))
  BY <1>1, <1>2, ClosureContains, ClosureClosed
<1>4. ASSUME NEW i \in 1 .. n, i # n
      PROVE  Wanted \in Closure(files, ToSet(frames[i].imports))
  <2>1. i < n /\ n > 1
    BY <1>1, <1>4
  <2>2. Top.lib \in Closure(files, ToSet(frames[i].imports))
    BY <1>1, <2>1 DEF Chained
  <2>3. Top.imports = files[Top.lib].imports
    BY <1>1, <2>1 DEF ImportInv, Nests
  <2>4. QED  BY <1>2, <1>3, <2>2, <2>3 DEF Closed, ToSet
<1>5. QED  BY <1>1, <1>2, <1>3, <1>4

LEMMA ProgramReach ==
    ASSUME Serving, frames # <<>>
    PROVE  Batch!Reach(Current) = Closure(files, ToSet(frames[1].imports))
BY ReachIsClosure DEF Serving

LEMMA ProgramIs == Batch!p = Current
BY DEF Batch!p, Current

\* Some library the program reaches cannot be loaded.
LEMMA NotGood ==
    ASSUME Serving, frames # <<>>,
           NEW l \in Closure(files, ToSet(frames[1].imports)), ~Good(l)
    PROVE  ~Answerable
BY ProgramReach DEF Answerable, Batch!Compiles, Batch!Loadable, Good

\* The innermost parse is of the program itself or of a library it reaches.
LEMMA TopReached ==
    ASSUME Inv, ImportInv, Serving, Chained, frames # <<>>
    PROVE  \/ ~Nested /\ Top.imports = Current.imports /\ Top.body = Current.body
           \/ /\ Nested /\ Top.lib \in Closure(files, ToSet(frames[1].imports))
              /\ Top.imports = files[Top.lib].imports /\ Top.body = files[Top.lib].body
<1> DEFINE n == Len(frames)
<1>1. frames \in Seq(Frame) /\ n \in Nat \ {0} /\ Top = frames[n] /\ DOMAIN frames = 1 .. n
  BY TopFrame DEF Inv, Types, Top
<1>2. CASE n = 1
  BY <1>1, <1>2 DEF Serving, Nested
<1>3. CASE n # 1
  BY <1>1, <1>3 DEF Chained, ImportInv, Nests, Nested
<1>4. QED  BY <1>2, <1>3

LEMMA FileTwice ==
    ASSUME Inv, ImportInv, Serving, Chained, frames # <<>>,
           ~Batch!TwiceAtMost(Top.imports)
    PROVE  ~Answerable
<1>1. CASE ~Nested
  BY <1>1, TopReached DEF Answerable, Batch!Compiles, Batch!Loadable
<1>2. CASE Nested
  BY <1>2, TopReached, NotGood DEF Good
<1>3. QED  BY <1>1, <1>2

\* The library whose import the i-th parse is waiting for.
InHand(i) == IF i = Len(frames) THEN Wanted ELSE frames[i + 1].lib

LEMMA InHandType ==
    ASSUME Inv, Importing, NEW i \in 1 .. Len(frames)
    PROVE  /\ InHand(i) \in Lib
           /\ i # Len(frames) => /\ i + 1 \in 1 .. Len(frames)
                                 /\ InHand(i) = frames[i + 1].lib
<1>1. /\ frames \in Seq(Frame) /\ DOMAIN frames = 1 .. Len(frames)
      /\ Wanted \in Lib
  BY WantedType DEF Inv, Types
<1>a. Len(frames) \in Nat
  BY <1>1
<1>2. CASE i = Len(frames)
  BY <1>1, <1>2 DEF InHand
<1>3. CASE i # Len(frames)
  <2>1. i + 1 \in 1 .. Len(frames) /\ i + 1 # 1
    BY <1>a, <1>3
  <2>2. frames[i + 1] \in Frame
    BY <1>1, <2>1
  <2>3. frames[i + 1].lib # Main
    BY <1>1, <2>1 DEF Inv, MainOutermost
  <2>4. QED  BY <1>3, <2>1, <2>2, <2>3 DEF Frame, InHand
<1>4. QED  BY <1>2, <1>3

\* What a parse is waiting for is reached by each parse up to it.
LEMMA InHandReached ==
    ASSUME Inv, ImportInv, Chained, Importing,
           NEW i \in 1 .. Len(frames), NEW j \in 1 .. Len(frames), i <= j
    PROVE  InHand(j) \in Closure(files, ToSet(frames[i].imports))
<1>1. DOMAIN frames = 1 .. Len(frames)
  BY DEF Inv, Types
<1>2. CASE j = Len(frames)
  BY <1>2, WantedReached DEF InHand
<1>3. CASE j # Len(frames)
  <2>1. j + 1 \in 1 .. Len(frames) /\ InHand(j) = frames[j + 1].lib
    BY <1>3, InHandType
  <2>2. i < j + 1
    OBVIOUS
  <2>3. QED  BY <1>1, <2>1, <2>2 DEF Chained
<1>4. QED  BY <1>2, <1>3

LEMMA Repetition ==
    ASSUME Inv, Importing
    PROVE  Len(frames) > Cardinality(Lib) =>
             \E x, y \in 1 .. Len(frames) : x < y /\ InHand(x) = InHand(y)
<1> DEFINE g == [i \in 1 .. Len(frames) |-> InHand(i)]
<1>1. Len(frames) \in Nat
  BY DEF Inv, Types
<1>2. g \in [1 .. Len(frames) -> Lib]
  BY InHandType
<1>3. IsFiniteSet(1 .. Len(frames)) /\ Cardinality(1 .. Len(frames)) = Len(frames)
  BY <1>1, FS_Interval
<1>4. IsFiniteSet(Lib) /\ Cardinality(Lib) \in Nat
  BY LibAssumption, FS_CardinalityType
<1>5. ASSUME Len(frames) > Cardinality(Lib)
      PROVE  \E x, y \in 1 .. Len(frames) : x # y /\ g[x] = g[y]
  <2> HIDE DEF g
  <2>1. Cardinality(Lib) < Cardinality(1 .. Len(frames))
    BY <1>1, <1>3, <1>4, <1>5
  <2>2. QED  BY <1>2, <1>3, <1>4, <2>1, FS_PigeonHole
<1>6. ASSUME NEW x \in 1 .. Len(frames), NEW y \in 1 .. Len(frames), x # y
      PROVE  x < y \/ y < x
  BY <1>1, <1>6
<1>7. QED  BY <1>5, <1>6

\* A library that is being loaded twice leads back to itself.
LEMMA RepetitionIsCycle ==
    ASSUME Inv, ImportInv, Chained, Importing,
           NEW x \in 1 .. Len(frames), NEW y \in 1 .. Len(frames), x < y,
           InHand(x) = InHand(y)
    PROVE  ~Batch!Acyclic(Closure(files, ToSet(frames[1].imports)))
<1> DEFINE R == Closure(files, ToSet(frames[1].imports))
           l == InHand(x)
<1>1. /\ frames \in Seq(Frame) /\ DOMAIN frames = 1 .. Len(frames)
      /\ files \in FileSystems
  BY DEF Inv, Types
<1>a. Len(frames) \in Nat
  BY <1>1
<1>2. x # Len(frames) /\ x + 1 <= y /\ x + 1 > 1 /\ 1 <= x /\ 1 \in 1 .. Len(frames)
  BY <1>a
<1>3. x + 1 \in 1 .. Len(frames) /\ l = frames[x + 1].lib /\ l \in Lib
  BY <1>2, InHandType
<1>4. frames[x + 1].imports = files[l].imports
  BY <1>1, <1>2, <1>3 DEF ImportInv, Nests
<1>5. l \in Closure(files, ToSet(frames[x + 1].imports))
  BY <1>2, <1>3, InHandReached
<1>6. Cyclic(files, l)
  BY <1>4, <1>5 DEF Cyclic
<1>7. l \in R
  BY <1>2, InHandReached
<1>8. R \in SUBSET Lib /\ Closed(files, R)
  <2>1. frames[1] \in Frame
    BY <1>1, <1>2, ElementOfSeq
  <2>2. frames[1].imports \in Seq(Lib)
    BY <2>1 DEF Frame
  <2>3. ToSet(frames[1].imports) \in SUBSET Lib
    BY <2>2 DEF ToSet
  <2>4. QED  BY <1>1, <2>3, ClosureContains, ClosureClosed
<1> HIDE DEF l, R
<1>9. QED  BY <1>1, <1>6, <1>7, <1>8, AcyclicNotCyclic DEF R

\* Without an earlier failure, only a cycle can exhaust the descriptors.
LEMMA NoDescriptorLeft ==
    ASSUME Inv, ImportInv, Serving, Chained, NoDescriptorLeak, Importing, nfd = MaxFd
    PROVE  ~Answerable
<1> SUFFICES ASSUME Answerable PROVE FALSE
  OBVIOUS
<1>1. frames # <<>> /\ exc = "none" /\ ~exited
  BY DEF Importing, Running
<1>2. Clean
  BY <1>1 DEF Answerable, Batch!NothingFailed, Clean
<1>3. Len(frames) = MaxFd
  BY <1>1, <1>2 DEF NoDescriptorLeak
<1>4. Len(frames) > Cardinality(Lib)
  <2>1. Batch!Cardinality(Lib) = Cardinality(Lib)
    BY DEF Batch!Cardinality, Cardinality
  <2>2. MaxFd > Batch!Cardinality(Lib)
    BY DEF Answerable, Batch!Roomy
  <2>3. QED  BY <1>3, <2>1, <2>2
<1>5. ~Batch!Acyclic(Batch!Reach(Current))
  BY <1>1, <1>4, Repetition, RepetitionIsCycle, ProgramReach
<1>6. QED  BY <1>5 DEF Answerable, Batch!Compiles, Batch!Loadable

(***************************************************************************)
(* Every step keeps it.                                                    *)
(***************************************************************************)

\* A step that throws, with a reason.
LEMMA Thrown ==
    ASSUME UNCHANGED <<files, argv, results>>, frames' # <<>>, ~Answerable
    PROVE  Excused'
BY SameAnswer DEF Excused

LEMMA RecursiveImportBatch ==
    ASSUME Inv, ImportInv, LoadInv, BatchInv, RecursiveImport,
           UNCHANGED <<argv, dumpToken, results>>
    PROVE  BatchInv'
<1>1. UNCHANGED <<files, frames>> /\ Importing /\ Contains(Top.loading, Wanted)
  BY DEF RecursiveImport
<1>2. /\ frames # <<>> /\ exc = "none" /\ Top \in Frame /\ Wanted \in Lib
      /\ Len(frames) \in DOMAIN frames
  BY <1>1, WantedType, TopFrame DEF Inv, Types
<1>3. EarlierImports(Top, Wanted) >= 2
  BY <1>1, <1>2 DEF LoadInv, Listed, Answered, Top
<1>4. ~Batch!TwiceAtMost(Top.imports)
  BY <1>1, <1>2, <1>3, ThirdImport DEF Importing, Wanted
<1>5. ~Answerable
  BY <1>2, <1>4, FileTwice DEF BatchInv
<1>6. Excused'
  BY <1>1, <1>2, <1>5, Thrown
<1>7. QED  BY <1>1, <1>6, StackSame DEF BatchInv

LEMMA BodyThrowsBatch ==
    ASSUME Inv, ImportInv, BatchInv, BodyThrows, UNCHANGED <<argv, dumpToken, results>>
    PROVE  BatchInv'
<1>1. /\ UNCHANGED <<files, frames>> /\ frames # <<>>
      /\ Top.body = "throws" \/ (Top.body = "defines" /\ Nested)
  BY DEF BodyThrows, AtEnd, Running
<1>2. ~Answerable
  <2>1. CASE ~Nested
    BY <1>1, <2>1, TopReached DEF BatchInv, Answerable, Batch!Compiles
  <2>2. CASE Nested
    <3>1. ~Batch!Parses(Top.lib) /\ Top.lib \in Closure(files, ToSet(frames[1].imports))
      BY <1>1, <2>2, TopReached DEF BatchInv, Batch!Parses
    <3>2. QED  BY <1>1, <3>1, NotGood DEF BatchInv, Good
  <2>3. QED  BY <2>1, <2>2
<1>3. Excused'
  BY <1>1, <1>2, Thrown
<1>4. QED  BY <1>1, <1>3, StackSame DEF BatchInv

\* The stack keeps its files and what they have imported.
LEMMA StackKeptBatch ==
    ASSUME Inv, BatchInv, UNCHANGED <<files, argv, dumpToken, results>>,
           frames' \in Seq(Frame), Len(frames') <= Len(frames),
           \A i \in 1 .. Len(frames') :
              SameFile(frames[i], frames'[i]) /\ Done(frames'[i]) = Done(frames[i])
    PROVE  Serving' /\ Chained' /\ AllSolid'
BY ChainKept, SolidKept DEF BatchInv

LEMMA SearchFailsBatch ==
    ASSUME Inv, ImportInv, NoDescriptorLeak, BatchInv, SearchFails,
           UNCHANGED <<argv, dumpToken, results>>
    PROVE  BatchInv'
<1> DEFINE n == Len(frames)
<1>1. /\ Importing /\ frames' = WithWantedPushed /\ UNCHANGED files
      /\ nfd = MaxFd \/ ~Found(files[Wanted])
  BY DEF SearchFails, NotOpened, SearchThrows, Searching
<1>2. /\ frames \in Seq(Frame) /\ n \in Nat \ {0} /\ Top \in Frame
      /\ frames' \in Seq(Frame) /\ Len(frames') = n
      /\ \A i \in 1 .. n : i # n => frames'[i] = frames[i]
      /\ OnlyLoading(Top, frames'[n])
  BY <1>1, PushStep
<1>3. n \in Nat /\ Len(frames') <= Len(frames) /\ frames' # <<>> /\ frames # <<>>
  BY <1>2
<1>4. \A i \in 1 .. n :
        SameFile(frames[i], frames'[i]) /\ Done(frames'[i]) = Done(frames[i])
  BY <1>2 DEF OnlyLoading, SameFile, Done, Top
<1>5. Serving' /\ Chained' /\ AllSolid'
  BY <1>1, <1>2, <1>3, <1>4, StackKeptBatch
<1>6. ~Answerable
  <2>1. CASE nfd = MaxFd
    BY <1>1, <2>1, NoDescriptorLeft DEF BatchInv
  <2>2. CASE ~Found(files[Wanted])
    <3>1. ~Batch!OnPath(Wanted)
      BY <2>2 DEF Found, Batch!OnPath
    <3>2. Wanted \in Closure(files, ToSet(frames[1].imports))
      <4>1. 1 \in 1 .. n
        BY <1>2
      <4>2. QED  BY <1>1, <4>1, WantedReached DEF BatchInv
    <3>3. QED  BY <1>3, <3>1, <3>2, NotGood DEF BatchInv, Good
  <2>3. QED  BY <1>1, <2>1, <2>2
<1>7. Excused'
  BY <1>1, <1>3, <1>6, Thrown
<1>8. QED  BY <1>5, <1>7 DEF BatchInv

LEMMA UnwindBatch ==
    ASSUME Inv, BatchInv, Unwind, UNCHANGED <<argv, dumpToken, results>>
    PROVE  BatchInv'
<1>1. Nested /\ frames' = Front(frames) /\ UNCHANGED <<files, exc>> /\ exc # "none"
  BY DEF Unwind
<1>2. /\ frames' \in Seq(Frame) /\ Len(frames) \in Nat /\ Len(frames) > 1
      /\ Len(frames') = Len(frames) - 1
      /\ \A i \in 1 .. Len(frames) - 1 : frames'[i] = frames[i]
  BY <1>1, PopStep
<1>3. Len(frames') <= Len(frames) /\ frames' # <<>>
  BY <1>2
<1>4. \A i \in 1 .. Len(frames') :
        SameFile(frames[i], frames'[i]) /\ Done(frames'[i]) = Done(frames[i])
  BY <1>2 DEF SameFile
<1>5. Serving' /\ Chained' /\ AllSolid'
  BY <1>1, <1>2, <1>3, <1>4, StackKeptBatch
<1>6. Excused'
  BY <1>1, <1>3, Thrown DEF BatchInv, Excused
<1>7. QED  BY <1>5, <1>6 DEF BatchInv

\* An import answered from the cache is of a library imported before.
LEMMA CachedImportBatch ==
    ASSUME Inv, LoadInv, BatchInv, CachedImport, UNCHANGED <<argv, dumpToken, results>>
    PROVE  BatchInv'
<1> DEFINE n == Len(frames)
           h == frames'[n]
<1>1. /\ frames \in Seq(Frame) /\ n \in Nat \ {0} /\ Top \in Frame /\ exc = "none"
      /\ frames' \in Seq(Frame) /\ Len(frames') = n
      /\ \A i \in 1 .. n : i # n => frames'[i] = frames[i]
      /\ Imported(Top, h, Top.cache[Wanted])
  BY CachedStep
<1>2. Wanted \in Top.loaded /\ UNCHANGED <<files, exc>>
  BY DEF CachedImport, CachedWith
<1>3. Top.loaded = Done(Top) /\ n \in DOMAIN frames /\ Top = frames[n]
  BY <1>1 DEF LoadInv, Recorded, Top
<1>4. SameFile(Top, h) /\ Done(h) = Done(Top)
  <2>1. SameFile(Top, h) /\ h.pos = Top.pos + 1 /\ h.imports = Top.imports /\ Top.pos \in Nat
    BY <1>1 DEF Imported, SameFile, Frame
  <2>2. Done(h) = Done(Top) \cup {Wanted}
    <3>1. 1 .. h.pos = 1 .. Top.pos \cup {Top.pos + 1}
      BY <2>1
    <3>2. QED  BY <2>1, <3>1 DEF Done, Wanted
  <2>3. QED  BY <1>2, <1>3, <2>1, <2>2
<1>5. \A i \in 1 .. n :
        SameFile(frames[i], frames'[i]) /\ Done(frames'[i]) = Done(frames[i])
  BY <1>1, <1>3, <1>4 DEF SameFile
<1>6. n <= n
  BY <1>1
<1>7. Serving' /\ Chained' /\ AllSolid'
  BY <1>1, <1>2, <1>5, <1>6, StackKeptBatch
<1>8. Excused'
  BY <1>1, <1>2 DEF Excused
<1>9. QED  BY <1>7, <1>8 DEF BatchInv

LEMMA NothingSolid ==
    ASSUME files \in FileSystems
    PROVE  Solid(Closure(files, {}))
<1>1. Closure(files, {}) = {}
  BY ClosureEmpty
<1>2. QED  BY <1>1 DEF Solid, Batch!Acyclic

\* The file that is opened for an import is on the load path, and reached by all
\* that wait for it; it has imported nothing yet.
LEMMA OpenLibraryBatch ==
    ASSUME Inv, ImportInv, BatchInv, OpenLibrary, UNCHANGED <<argv, dumpToken, results>>
    PROVE  BatchInv'
<1> DEFINE n == Len(frames)
           f == frames'[n + 1]
<1>1. /\ frames \in Seq(Frame) /\ n \in Nat \ {0} /\ Top \in Frame /\ exc = "none"
      /\ frames' \in Seq(Frame) /\ Len(frames') = n + 1
      /\ \A i \in 1 .. n : i # n => frames'[i] = frames[i]
      /\ OnlyLoading(Top, frames'[n])
      /\ f = NewFrame(Wanted, files[Wanted].imports, files[Wanted].body)
  BY OpenStep
<1>2. Importing /\ Found(files[Wanted]) /\ UNCHANGED <<files, exc>> /\ files \in FileSystems
  BY DEF OpenLibrary, Searching, Inv, Types
<1>3. f.lib = Wanted /\ Done(f) = {}
  BY <1>1 DEF NewFrame, Done
<1>4. \A i \in 1 .. n :
        SameFile(frames[i], frames'[i]) /\ Done(frames'[i]) = Done(frames[i])
  BY <1>1 DEF OnlyLoading, SameFile, Done, Top
<1>5. DOMAIN frames = 1 .. n /\ DOMAIN frames' = 1 .. n + 1
  BY <1>1
<1>a. n \in Nat /\ n # 0
  BY <1>1
<1>b. \A i \in 1 .. n + 1 : i \in 1 .. n \/ i = n + 1
  BY <1>a
<1>c. 1 \in 1 .. n
  BY <1>a
<1>6. Serving'
  <2>1. frames # <<>>
    BY <1>5, <1>c
  <2>2. SameFile(frames[1], frames'[1])
    BY <1>4, <1>c
  <2>3. QED  BY <1>2, <2>1, <2>2 DEF BatchInv, Serving, SameFile, Current
<1>7. ASSUME NEW i \in DOMAIN frames', i > 1
      PROVE  Batch!OnPath(frames[i].lib)'
  <2>1. CASE i \in 1 .. n
    <3>1. Batch!OnPath(frames[i].lib) /\ frames'[i].lib = frames[i].lib
      BY <1>4, <1>5, <1>7, <2>1 DEF BatchInv, Chained, SameFile
    <3>2. QED  BY <1>2, <3>1 DEF Batch!OnPath
  <2>2. CASE i = n + 1
    <3>1. frames'[i].lib = Wanted
      BY <1>3, <2>2
    <3>2. QED  BY <1>2, <3>1 DEF Batch!OnPath, Found
  <2>3. QED  BY <1>5, <1>7, <1>b, <2>1, <2>2
<1>8. ASSUME NEW i \in DOMAIN frames', NEW j \in DOMAIN frames', i < j
      PROVE  frames'[j].lib \in Closure(files', ToSet(frames'[i].imports))
  <2>1. i \in 1 .. n
    BY <1>5, <1>8, <1>a
  <2>2. frames'[i].imports = frames[i].imports /\ files' = files
    BY <1>2, <1>4, <2>1 DEF SameFile
  <2>3. CASE j \in 1 .. n
    BY <1>4, <1>5, <1>8, <2>1, <2>2, <2>3 DEF BatchInv, Chained, SameFile
  <2>4. CASE j = n + 1
    <3>1. Wanted \in Closure(files, ToSet(frames[i].imports))
      BY <1>2, <2>1, WantedReached DEF BatchInv
    <3>2. QED  BY <1>3, <2>2, <2>4, <3>1
  <2>5. QED  BY <1>5, <1>8, <1>b, <2>3, <2>4
<1>9. AllSolid'
  <2>1. \A i \in 1 .. n + 1 : Solid(Closure(files, Done(frames'[i])))
    BY <1>2, <1>3, <1>4, <1>5, <1>b, NothingSolid DEF BatchInv, AllSolid
  <2>2. QED  BY <1>1, <1>2, <2>1, SolidPrimed
<1>10. Excused'
  BY <1>1, <1>2 DEF Excused
<1>11. QED  BY <1>6, <1>7, <1>8, <1>9, <1>10 DEF BatchInv, Chained

\* One library more, off every cycle, on top of what it imports.
LEMMA SolidStep ==
    ASSUME files \in FileSystems, NEW D \in SUBSET Lib, NEW l \in Lib,
           Solid(Closure(files, D)), Solid(Closure(files, ImportsOf(files, l))),
           Good(l), ~Cyclic(files, l)
    PROVE  Solid(Closure(files, D \cup {l}))
<1> DEFINE A == Closure(files, D)
           B == Closure(files, ImportsOf(files, l))
           C == B \cup {l}
<1>1. ImportsOf(files, l) \in SUBSET Lib /\ Closure(files, {l}) = {l} \cup B
  BY ClosureStep
<1>2. Closure(files, D \cup {l}) = A \cup C
  BY <1>1, ClosureUnion
<1>3. Closed(files, A) /\ Closed(files, B) /\ ImportsOf(files, l) \subseteq B
  BY <1>1, ClosureClosed, ClosureContains
<1>4. l \notin ImportsOf(files, l)
  BY <1>3 DEF Cyclic, ToSet, ImportsOf
<1>5. Batch!Acyclic(A) /\ Batch!Acyclic(B) /\ \A k \in A \cup B : Good(k)
  BY DEF Solid
<1> HIDE DEF A, B
<1>6. Batch!Acyclic(C)
  BY <1>3, <1>4, <1>5, AcyclicOne, AcyclicUnion
<1>7. \A k \in A \cup C : Good(k)
  BY <1>5
<1> HIDE DEF C
<1>8. Batch!Acyclic(A \cup C)
  BY <1>3, <1>5, <1>6, AcyclicUnion
<1>9. QED  BY <1>2, <1>7, <1>8 DEF Solid

\* The library in hand has been parsed to its end and is now imported.
LEMMA ReturnedGood ==
    ASSUME Inv, ImportInv, LoadInv, BatchInv, ReturnDecls
    PROVE  /\ Good(Top.lib)
           /\ Solid(Closure(files, ImportsOf(files, Top.lib)))
<1> DEFINE n == Len(frames)
<1>1. /\ Nested /\ Top.pos = Len(Top.imports) /\ Top.body \in {"decls", "none"}
      /\ ~Ungrammatical(Top)
  BY DEF ReturnDecls, ReturnWith, AtEnd
<1>2. /\ frames \in Seq(Frame) /\ n \in Nat /\ n > 1 /\ Top \in Frame
      /\ Top = frames[n] /\ Top.lib \in Lib
  BY <1>1, PopStep
<1>3. n \in DOMAIN frames /\ Recorded(Top)
  BY <1>2 DEF LoadInv
<1>4. Top.imports = files[Top.lib].imports /\ Top.body = files[Top.lib].body
  BY <1>2, <1>3 DEF ImportInv, Nests
<1>5. Batch!OnPath(Top.lib)
  BY <1>2, <1>3 DEF BatchInv, Chained
<1>6. Batch!Parses(Top.lib)
  BY <1>1, <1>4 DEF Batch!Parses, Ungrammatical
<1>7. Batch!TwiceAtMost(files[Top.lib].imports)
  BY <1>1, <1>2, <1>3, <1>4, TwiceIfRecorded
<1>8. Done(Top) = ImportsOf(files, Top.lib)
  <2>1. DOMAIN Top.imports = 1 .. Top.pos
    BY <1>1, <1>2 DEF Frame
  <2>2. QED  BY <1>4, <2>1 DEF Done, ImportsOf
<1>9. Solid(Closure(files, Done(Top)))
  BY <1>2, <1>3 DEF BatchInv, AllSolid
<1>10. QED  BY <1>5, <1>6, <1>7, <1>8, <1>9 DEF Good

LEMMA ReturnDeclsBatch ==
    ASSUME Inv, ImportInv, LoadInv, BatchInv, NoDeclsFromCycle', ReturnDecls,
           UNCHANGED <<argv, dumpToken, results>>
    PROVE  BatchInv'
<1> DEFINE n == Len(frames)
           m == n - 1
           q == frames[m]
           h == frames'[m]
           l == Top.lib
<1>1. /\ Nested /\ exc = "none" /\ frames' \in Seq(Frame) /\ Len(frames') = m
      /\ \A i \in 1 .. m : i # m => frames'[i] = frames[i]
      /\ Imported(q, h, Declared(Top)) /\ h.loaded = q.loaded \cup {l}
  BY ReturnStep
<1>2. /\ frames \in Seq(Frame) /\ n \in Nat /\ n > 1 /\ q \in Frame
      /\ Top = frames[n] /\ l \in Lib
  BY <1>1, PopStep
<1>a. n \in Nat /\ n > 1
  BY <1>2
<1>3. m \in 1 .. n /\ n \in 1 .. n /\ m \in 1 .. m /\ m <= n /\ n > 1
  BY <1>a
<1>4. DOMAIN frames = 1 .. n /\ DOMAIN frames' = 1 .. m
  BY <1>1, <1>2
<1>5. UNCHANGED <<files, exc>> /\ files \in FileSystems
  BY DEF ReturnDecls, ReturnWith, Inv, Types
<1>6. q.imports[q.pos + 1] = l
  BY <1>2, <1>3, <1>4 DEF ImportInv, Nests
<1>7. ~Cyclic(files, l)
  <2>1. l \in frames'[m].loaded
    BY <1>1
  <2>2. \A x \in frames'[m].loaded : ~Cyclic(files', x)
    BY <1>3, <1>4 DEF NoDeclsFromCycle
  <2>3. QED  BY <1>5, <2>1, <2>2
<1>8. Done(q) \in SUBSET Lib /\ Solid(Closure(files, Done(q)))
  <2>1. Gathered(files, q)
    BY <1>3, <1>4 DEF ImportInv
  <2>2. q.pos <= Len(q.imports) /\ q.pos \in Nat /\ q.imports \in Seq(Lib)
    BY <1>2, <2>1 DEF Gathered, Frame
  <2>3. \A i \in 1 .. q.pos : q.imports[i] \in Lib
    BY <2>2
  <2>4. QED  BY <1>3, <1>4, <2>3 DEF Done, BatchInv, AllSolid
<1>9. Done(h) = Done(q) \cup {l}
  <2>1. h.pos = q.pos + 1 /\ h.imports = q.imports /\ q.pos \in Nat
    BY <1>1, <1>2 DEF Imported, SameFile, Frame
  <2>2. 1 .. h.pos = 1 .. q.pos \cup {q.pos + 1}
    BY <2>1
  <2>3. QED  BY <1>6, <2>1, <2>2 DEF Done
<1>10. Solid(Closure(files, Done(h)))
  BY <1>2, <1>5, <1>7, <1>8, <1>9, ReturnedGood, SolidStep
<1>11. \A i \in 1 .. m :
         /\ SameFile(frames[i], frames'[i])
         /\ Done(frames'[i]) = Done(frames[i]) \/ Solid(Closure(files, Done(frames'[i])))
  BY <1>1, <1>10 DEF Imported, SameFile
<1> HIDE DEF h, l, q, m
<1>12. Serving' /\ Chained'
  BY <1>1, <1>3, <1>5, <1>11, ChainKept DEF BatchInv
<1>13. AllSolid'
  BY <1>1, <1>3, <1>5, <1>11, SolidKept DEF BatchInv
<1>14. Excused'
  BY <1>1, <1>5 DEF Excused
<1>15. QED  BY <1>12, <1>13, <1>14 DEF BatchInv

LEMMA OpenFileBatch ==
    ASSUME Inv, BatchInv, OpenFile
    PROVE  BatchInv'
<1> DEFINE g == NewFrame(Main, Current.imports, Current.body)
<1>1. /\ MoreFiles /\ ~dumpToken /\ Current.opens /\ frames' = <<g>>
      /\ UNCHANGED <<files, exc, argv, dumpToken, results>>
  BY DEF OpenFile
<1>2. Current \in Program /\ frames = <<>> /\ files \in FileSystems
  BY <1>1, ProgramType DEF Inv, Types
<1>3. g \in Frame
  BY <1>2, NewFrameType DEF Program
<1>4. g.imports = Current.imports /\ g.body = Current.body /\ Done(g) = {}
  BY DEF NewFrame, Done
<1> HIDE DEF g
<1>5. /\ frames' \in Seq(Frame) /\ Len(frames') = 1 /\ DOMAIN frames' = {1}
      /\ frames'[1] = g
  BY <1>1, <1>3
<1>6. Serving'
  BY <1>1, <1>4, <1>5 DEF Serving, MoreFiles, Current
<1>7. Chained'
  BY <1>5 DEF Chained
<1>8. AllSolid'
  <2>1. Done(frames'[1]) = {} /\ 1 .. 1 = {1}
    BY <1>4, <1>5
  <2>2. Solid(Closure(files, Done(frames'[1])))
    BY <1>2, <2>1, NothingSolid
  <2>3. QED  BY <1>1, <1>5, <2>1, <2>2, SolidPrimed
<1>9. Excused'
  BY <1>1, <1>2 DEF BatchInv, Excused
<1>10. QED  BY <1>6, <1>7, <1>8, <1>9 DEF BatchInv

\* The steps that leave the stack alone or empty it, with no exception in flight.
LEMMA QuietBatch ==
    ASSUME Inv, BatchInv, UNCHANGED files, exc' = "none",
           frames' = <<>> \/ UNCHANGED <<frames, argv, dumpToken, results>>
    PROVE  BatchInv'
BY StackSame DEF BatchInv, Excused

\* main looks for the next file with nothing on the stack.
LEMMA IdleBatch ==
    ASSUME Inv, BatchInv, MoreFiles, UNCHANGED <<files, frames, exc>>
    PROVE  BatchInv'
<1>1. frames = <<>> /\ exc = "none"
  BY DEF MoreFiles, Idle, BatchInv, Excused
<1>2. QED  BY <1>1, QuietBatch

LEMMA NextBatch ==
    Inv /\ ImportInv /\ LoadInv /\ NoDescriptorLeak /\ NoDeclsFromCycle' /\ BatchInv
    /\ [Next]_vars => BatchInv'
<1> SUFFICES ASSUME Inv, ImportInv, LoadInv, NoDescriptorLeak, NoDeclsFromCycle',
                    BatchInv, [Next]_vars
             PROVE  BatchInv'
  OBVIOUS
<1>1. CASE LoaderStep
  <2>1. UNCHANGED <<argv, dumpToken, results>>
    BY <1>1 DEF LoaderStep
  <2>2. CASE LibSyntaxError \/ ScannerJams
    BY <2>1, <2>2, QuietBatch DEF LibSyntaxError, ScannerJams, AtEnd, Running
  <2>3. QED
    BY <1>1, <2>1, <2>2, RecursiveImportBatch, CachedImportBatch, OpenLibraryBatch,
       SearchFailsBatch, ReturnDeclsBatch, BodyThrowsBatch, UnwindBatch
    DEF LoaderStep, LoaderNext
<1>2. CASE OpenFile
  BY <1>2, OpenFileBatch
<1>3. CASE CannotOpen \/ DumpTokens \/ DumpDies
  BY <1>3, IdleBatch DEF CannotOpen, DumpTokens, DumpDies, Dumping, loaderVars
<1>4. CASE FinishCompile \/ MainSyntaxError \/ CatchAll
  BY <1>4, QuietBatch DEF FinishCompile, MainSyntaxError, CatchAll, CatchWith, AtEnd, Running
<1>5. CASE UNCHANGED vars
  <2>1. UNCHANGED <<files, frames, exc, argv, dumpToken, results>>
    BY <1>5 DEF vars, loaderVars
  <2>2. Serving' /\ Chained' /\ AllSolid'
    BY <2>1, StackSame
  <2>3. Excused'
    BY <2>1, SameAnswer DEF BatchInv, Excused
  <2>4. QED  BY <2>2, <2>3 DEF BatchInv
<1>6. QED  BY <1>1, <1>2, <1>3, <1>4, <1>5 DEF Next, DumpGoesOn, Terminated

LEMMA BatchInvariant ==
    Spec => [](Inv /\ ImportInv /\ LoadInv /\ NoDescriptorLeak /\ BatchInv)
<1>1. Init => BatchInv
  BY InitBatch
<1>2. QED
  BY <1>1, NextBatch, StackInvariants, CleanRunsLeakNothing, CyclesDeclareNothing, PTL
  DEF Spec

(***************************************************************************)
(* Every step of Driver is a step of ImportBatch, or one it does not see.  *)
(***************************************************************************)

\* A parse in progress is of a program ImportBatch has still to answer.
LEMMA ProgramPending ==
    ASSUME Serving, frames # <<>>, ~exited
    PROVE  /\ Batch!Pending /\ ~dumpToken /\ Batch!p.opens
           /\ Batch!p = Current
           /\ Batch!Reach(Batch!p) = Closure(files, ToSet(frames[1].imports))
BY ProgramIs, ProgramReach DEF Serving, Batch!Pending

\* When the outermost parse has come to its end, all its imports could be loaded,
\* and have been.
LEMMA MainLoadable ==
    ASSUME Inv, ImportInv, LoadInv, BatchInv, AtEnd, ~Nested
    PROVE  /\ Batch!Loadable(Batch!p) /\ Batch!p.body = Top.body /\ Top.lib = Main
           /\ NamesOf(Top.imp) = {l \in Batch!Reach(Batch!p) : files[l].body = "decls"}
<1>1. /\ frames \in Seq(Frame) /\ frames # <<>> /\ ~exited /\ Top.pos = Len(Top.imports)
      /\ Top \in Frame
  BY TopFrame DEF AtEnd, Running, Inv, Types
<1>a. Len(frames) \in Nat \ {0} /\ ~(Len(frames) > 1)
  BY <1>1, TopFrame DEF Nested
<1>2. Len(frames) = 1
  BY <1>a
<1>3. Top = frames[1] /\ 1 \in DOMAIN frames
  BY <1>1, <1>2 DEF Top
<1>4. /\ Batch!p = Current /\ Top.imports = Current.imports /\ Top.body = Current.body
      /\ Batch!Reach(Batch!p) = Closure(files, ToSet(Top.imports))
  BY <1>1, <1>3, ProgramPending DEF BatchInv, Serving
<1>5. Done(Top) = ToSet(Top.imports)
  <2>1. DOMAIN Top.imports = 1 .. Top.pos
    BY <1>1 DEF Frame
  <2>2. QED  BY <2>1 DEF Done, ToSet
<1>6. Solid(Batch!Reach(Batch!p))
  BY <1>3, <1>4, <1>5 DEF BatchInv, AllSolid
<1>7. Batch!TwiceAtMost(Top.imports)
  BY <1>1, <1>3, TwiceIfRecorded DEF LoadInv
<1>8. Batch!Loadable(Batch!p)
  BY <1>4, <1>6, <1>7 DEF Batch!Loadable, Solid, Good
<1>9. NamesOf(Top.imp) = Declaring(files, Closure(files, Done(Top)))
  BY <1>3 DEF ImportInv, Gathered
<1>10. Top.lib = Main
  BY <1>3 DEF Inv, MainOutermost
<1>11. QED  BY <1>4, <1>5, <1>8, <1>9, <1>10 DEF Declaring

LEMMA GivesUpInside ==
    ASSUME Inv, ImportInv, BatchInv, LibSyntaxError \/ ScannerJams, Nested,
           UNCHANGED <<argv, dumpToken, results>>
    PROVE  Batch!GiveUp
<1>1. /\ frames \in Seq(Frame) /\ frames # <<>> /\ ~exited
      /\ Ungrammatical(Top) \/ Top.body = "jams"
      /\ exited' = TRUE /\ UNCHANGED files
  BY DEF LibSyntaxError, ScannerJams, AtEnd, Running, Inv, Types
<1>2. /\ Len(frames) \in DOMAIN frames /\ Len(frames) > 1 /\ Top = frames[Len(frames)]
  BY <1>1, TopFrame DEF Nested, Top
<1>3. /\ Top.lib \in Closure(files, ToSet(frames[1].imports)) /\ Top.lib # Main
      /\ Top.imports = files[Top.lib].imports /\ Top.body = files[Top.lib].body
  BY <1>1, <1>2, TopReached, PopStep, LibAssumption DEF BatchInv
<1>4. Batch!OnPath(Top.lib)
  BY <1>2 DEF BatchInv, Chained
<1>5. Batch!BadText(Top.lib)
  BY <1>1, <1>3 DEF Ungrammatical, Batch!BadText
<1>6. QED
  BY <1>1, <1>3, <1>4, <1>5, ProgramPending DEF BatchInv, Batch!GiveUp

\* The text of the program itself cannot be scanned.
LEMMA GivesUpAtMain ==
    ASSUME Inv, ImportInv, LoadInv, BatchInv, ScannerJams, ~Nested,
           UNCHANGED <<argv, dumpToken, results>>
    PROVE  Batch!GiveUp
<1>1. AtEnd /\ Top.body = "jams" /\ exited' = TRUE /\ UNCHANGED files
  BY DEF ScannerJams
<1>2. frames # <<>> /\ ~exited /\ Serving
  BY <1>1 DEF AtEnd, Running, BatchInv
<1>3. Batch!Pending /\ ~dumpToken
  BY <1>2, ProgramPending
<1>4. Batch!Loadable(Batch!p) /\ Batch!p.body = "jams"
  BY <1>1, MainLoadable
<1>5. QED  BY <1>1, <1>3, <1>4 DEF Batch!GiveUp

LEMMA GivesUpOutside ==
    ASSUME Inv, CannotOpen
    PROVE  Batch!GiveUp
<1>1. MoreFiles /\ ~exited /\ Idle /\ (~Current.opens \/ nfd = MaxFd)
  BY DEF CannotOpen, MoreFiles, Idle
<1>2. nfd \in Nat /\ nfd < MaxFd
  BY <1>1 DEF Inv, Descriptors
<1>3. ~Current.opens
  BY <1>1, <1>2
<1>4. QED
  BY <1>1, <1>3, ProgramIs DEF MoreFiles, CannotOpen, Batch!GiveUp, Batch!Pending

LEMMA GivesUpDumping ==
    ASSUME DumpDies
    PROVE  Batch!GiveUp
BY ProgramIs DEF DumpDies, Dumping, MoreFiles, Idle, Batch!GiveUp, Batch!Pending

LEMMA PrintsTokens ==
    ASSUME DumpTokens
    PROVE  Batch!Tokens
BY ProgramIs DEF DumpTokens, Dumping, MoreFiles, Idle, Record, loaderVars, Batch!Tokens,
   Batch!Reply, Batch!Pending

LEMMA Accepts ==
    ASSUME Inv, ImportInv, LoadInv, BatchInv, FinishCompile
    PROVE  Batch!Accept
<1>1. /\ AtEnd /\ ~Nested /\ Top.body \in {"decls", "defines"}
      /\ Record("ok", NamesOf(Top.imp)) /\ UNCHANGED <<files, exited, argv, dumpToken>>
  BY DEF FinishCompile
<1>2. frames # <<>> /\ ~exited /\ Serving
  BY <1>1 DEF AtEnd, Running, BatchInv
<1>3. /\ Batch!Pending /\ ~dumpToken /\ Batch!p.opens
  BY <1>2, ProgramPending
<1>4. /\ Batch!Compiles(Batch!p)
      /\ NamesOf(Top.imp) = {l \in Batch!Reach(Batch!p) : files[l].body = "decls"}
  BY <1>1, MainLoadable DEF Batch!Compiles
<1>5. QED  BY <1>1, <1>3, <1>4 DEF Batch!Accept, Batch!Reply, Record

LEMMA Rejects ==
    ASSUME Inv, ImportInv, LoadInv, BatchInv, MainSyntaxError
    PROVE  Batch!Reject
<1>1. /\ AtEnd /\ ~Nested /\ Ungrammatical(Top)
      /\ Record("rejected", {}) /\ UNCHANGED <<files, exited, argv, dumpToken>>
  BY DEF MainSyntaxError
<1>2. frames # <<>> /\ ~exited /\ Serving
  BY <1>1 DEF AtEnd, Running, BatchInv
<1>3. /\ Batch!Pending /\ ~dumpToken /\ Batch!p.opens
  BY <1>2, ProgramPending
<1>4. Batch!Loadable(Batch!p) /\ Batch!p.body \in {"syntax", "none"}
  BY <1>1, MainLoadable DEF Ungrammatical
<1>5. QED  BY <1>1, <1>3, <1>4 DEF Batch!Reject, Batch!Reply, Record

LEMMA Throws ==
    ASSUME BatchInv, CatchAll
    PROVE  Batch!Throw
<1>1. /\ exc # "none" /\ ~exited
      /\ Record("threw", {}) /\ UNCHANGED <<files, exited, argv, dumpToken>>
  BY DEF CatchAll, CatchWith
<1>2. frames # <<>> /\ ~Answerable /\ Serving
  BY <1>1 DEF BatchInv, Excused
<1>3. /\ Batch!Pending /\ ~dumpToken /\ Batch!p.opens /\ Batch!p = Current
  BY <1>1, <1>2, ProgramPending
<1>4. QED  BY <1>1, <1>2, <1>3 DEF Answerable, Batch!Throw, Batch!Reply, Record

\* Loading a library is not seen from outside, unless it ends the process.
LEMMA BatchStep ==
    Inv /\ ImportInv /\ LoadInv /\ BatchInv /\ [Next]_vars
        => [Batch!BatchNext]_(Batch!bvars)
<1> SUFFICES ASSUME Inv, ImportInv, LoadInv, BatchInv, [Next]_vars
             PROVE  [Batch!BatchNext]_(Batch!bvars)
  OBVIOUS
<1>1. ASSUME UNCHANGED <<files, argv, dumpToken, results, exited>>
      PROVE  [Batch!BatchNext]_(Batch!bvars)
  BY <1>1 DEF Batch!bvars
<1>2. CASE LoaderStep
  <2>1. UNCHANGED <<argv, dumpToken, results>>
    BY <1>2 DEF LoaderStep
  <2>2. CASE LibSyntaxError \/ ScannerJams
    <3>1. LibSyntaxError => Nested
      BY DEF LibSyntaxError
    <3>2. QED  BY <2>1, <2>2, <3>1, GivesUpInside, GivesUpAtMain DEF Batch!BatchNext
  <2>3. CASE RecursiveImport \/ CachedImport \/ OpenLibrary
    BY <1>1, <2>1, <2>3 DEF RecursiveImport, CachedImport, CachedWith, OpenLibrary
  <2>4. CASE SearchFails \/ ReturnDecls \/ BodyThrows \/ Unwind
    BY <1>1, <2>1, <2>4 DEF SearchFails, SearchThrows, ReturnDecls, ReturnWith,
       BodyThrows, Unwind
  <2>5. QED  BY <1>2, <2>2, <2>3, <2>4 DEF LoaderStep, LoaderNext
<1>3. CASE OpenFile
  BY <1>1, <1>3 DEF OpenFile
<1>4. CASE CannotOpen
  BY <1>4, GivesUpOutside DEF Batch!BatchNext
<1>5. CASE DumpTokens \/ DumpDies
  BY <1>5, PrintsTokens, GivesUpDumping DEF Batch!BatchNext
<1>6. CASE FinishCompile
  BY <1>6, Accepts DEF Batch!BatchNext
<1>7. CASE MainSyntaxError
  BY <1>7, Rejects DEF Batch!BatchNext
<1>8. CASE CatchAll
  BY <1>8, Throws DEF Batch!BatchNext
<1>9. CASE UNCHANGED vars
  BY <1>1, <1>9 DEF vars, loaderVars
<1>10. QED
  BY <1>2, <1>3, <1>4, <1>5, <1>6, <1>7, <1>8, <1>9 DEF Next, DumpGoesOn, Terminated

\* What main shows of a run is what the import trees alone decide, one file at a
\* time: the nesting of parsers and Loaders, the caches, the exceptions and the
\* descriptors they leak make no difference to any answer.  (That every file gets
\* an answer is the liveness part of ImportBatch's specification, which a run
\* checks.)
THEOREM DriverImplementsBatch ==
    Spec => Batch!BatchInit /\ [][Batch!BatchNext]_(Batch!bvars)
<1>1. Init => Batch!BatchInit
  BY DEF Init, LoaderInit, Batch!BatchInit
<1>2. QED  BY <1>1, BatchStep, BatchInvariant, PTL DEF Spec
=============================================================================
