----------------------------- MODULE TypeTable -----------------------------
(***************************************************************************)
(* compiler/type_table.cc: the table from type references to types, under  *)
(* any sequence of the calls it offers.                                    *)
(*                                                                         *)
(* Nothing in the program calls it yet.  The client here is what           *)
(* include/object.h asks a client to be: it owns what is passed out to it, *)
(* and may give back, once, each reference that the table counted for it.  *)
(*                                                                         *)
(* The operations are written over a world, a record of the table, the     *)
(* heap and how the operation fares: "fine", an exception ("throws"), a    *)
(* failed assertion ("aborts"), or a deleted object that is used           *)
(* ("undefined"), after which nothing is known.                            *)
(***************************************************************************)
EXTENDS Types

CONSTANTS Asked,       \* the references that a client asks the table for
          Names,       \* the names of structs and typedefs, as references
          MaxCalls     \* bound: how many calls a client makes

VARIABLES
    table,     \* table_: <<reference, object>> pairs
    heap,      \* the Type objects; a deleted one has count 0
    status,    \* how the last call fared
    blame,     \* which of the known mistakes have been met
    order,     \* in which order arguments are evaluated: the build's choice
    held,      \* held[i]: how many references to i the client may give back
    given,     \* the fresh types whose only reference the client may give back
    answers,   \* what get returned: <<reference, object>> pairs
    phase,     \* "open" or "closed", with the destructor
    calls

vars == <<table, heap, status, blame, order, held, given, answers, phase, calls>>

-----------------------------------------------------------------------------
\* Counting references.  "spare" says how many of the references in an object's count
\* are on nobody's record: no member's, not the table's, not the client's.
Fine(w) == w.status = "fine"
Fail(w, how) == IF Fine(w) THEN [w EXCEPT !.status = how] ELSE w
Using(w, i, outcome) ==
    IF ~Fine(w) THEN w ELSE IF w.heap[i].count = 0 THEN Fail(w, "undefined") ELSE outcome

Adjust(w, i, count, spare) ==
    Using(w, i, [w EXCEPT !.heap[i].count = @ + count, !.heap[i].spare = @ + spare])

\* inc_ref by code that forgets it; by the constructor of an object that points to it;
\* and what becomes of a spare reference that somebody puts on record.
Inc(w, i)  == Adjust(w, i, 1, 1)
Keep(w, i) == Adjust(w, i, 1, 0)
Take(w, i) == Adjust(w, i, 0, -1)

\* dec_ref by n; the destructor releases the members.  (A slip: no assertion.)
RECURSIVE ReleaseUnchecked(_, _, _)
ReleaseUnchecked(w, i, n) ==
    Using(w, i, IF w.heap[i].count # n THEN [w EXCEPT !.heap[i].count = @ - n]
                ELSE FoldLeft(LAMBDA v, p : ReleaseUnchecked(v, p, 1),
                              [w EXCEPT !.heap[i].count = 0], w.heap[i].parts))
RECURSIVE Release(_, _, _)
Release(w, i, n) ==
    Using(w, i, IF w.heap[i].count < n THEN Fail(w, "aborts")
                ELSE IF w.heap[i].count > n THEN [w EXCEPT !.heap[i].count = @ - n]
                ELSE FoldLeft(LAMBDA v, p : Release(v, p, 1),
                              [w EXCEPT !.heap[i].count = 0], w.heap[i].parts))

\* dec_ref by code that got the reference somewhere, or should have.
Drop(w, i, mistake) ==
    Using(w, i, Release(IF w.heap[i].spare > 0 THEN [w EXCEPT !.heap[i].spare = @ - 1]
                        ELSE [w EXCEPT !.blame = @ \cup {mistake}], i, 1))

\* new: an object with one reference, the last of the heap.  (A slip: the constructors
\* leave the members alone.)
Object(class, ref, size, parts) ==
    [class |-> class, ref |-> ref, size |-> size, parts |-> parts, count |-> 1, spare |-> 1]
Allocate(w, object) ==
    IF Fine(w) THEN [w EXCEPT !.heap = Append(@, object), !.result = Len(w.heap) + 1] ELSE w
NewTypeNoCount(w, class, ref, size, parts) == Allocate(w, Object(class, ref, size, parts))
NewType(w, class, ref, size, parts) ==
    FoldLeft(Keep, Allocate(w, Object(class, ref, size, parts)), parts)

\* table_[ref] = type, where the table takes over the reference of new.
Store(w, ref) ==
    IF Fine(w) THEN Take([w EXCEPT !.table = @ \cup {<<ref, w.result>>}, !.fresh = TRUE], w.result)
    ELSE w
-----------------------------------------------------------------------------
\* The operations of the table.  The result of one is in w.result; w.fresh says that
\* it was made for the occasion, with no reference for the caller.
Entry(t, ref) == {e \in t : SameEntry(e[1], ref)}

\* Every is_... and base_type of a UserType gets the real type from real_type(), which
\* counts a reference, and forgets it.
RECURSIVE Query(_, _)
Query(w, i) ==
    Using(w, i, IF w.heap[i].class # "user" THEN w
                ELSE IF w.heap[i].parts = <<>> THEN Fail(w, "throws")
                ELSE Query(Inc(w, w.heap[i].parts[1]), w.heap[i].parts[1]))

RECURSIVE Get(_, _)

\* An array is a pointer on parameters.  For a fresh array the reference that is dropped
\* is the table's.
PointerTo(w, base) == NewType(w, "ptr", <<"ptr", w.heap[base].ref>>, PointerSize, <<base>>)
Decay(w, base) == IF Fine(w) THEN [PointerTo(w, base) EXCEPT !.fresh = FALSE] ELSE w
AsParameter(w) ==
    IF ~Fine(w) \/ ~IsArray(w.heap, w.result) THEN w
    ELSE Decay(Query(Drop(w, w.result, "array parameter"), w.result), Base(w.heap, w.result))
Asking(w) == Query(w, w.result)
GetParamType(w, ref) == AsParameter(Asking(Get(w, ref)))

\* ParamTypeRefs::intern_types: a list of parameters takes one reference of each.
Interned(w, types) ==
    [world |-> IF Fine(w) THEN Inc(w, w.result) ELSE w, types |-> Append(types, w.result)]
ListOf(w, types) == FoldLeft(Take, Allocate(w, Object("par", <<>>, 0, types)), types)
ListFrom(v) == ListOf(v.world, v.types)
InternTypes(w, refs) ==
    ListFrom(FoldLeft(LAMBDA v, ref : Interned(GetParamType(v.world, ref), v.types),
                      [world |-> w, types |-> <<>>], refs))

\* A new type for a reference that is not in the table, once its parts are there.
MakeDerived(base, ref) == Store(NewType(base, ref[1], ref, PointerSize, <<base.result>>), ref)
MakeFunction(w, ref, returns, params) ==
    Store(NewType(w, "fun", ref, 0, <<returns, params>>), ref)
ParamsLast(w, ref, returns) == MakeFunction(w, ref, returns, w.result)
ReturnLast(w, ref, params) == MakeFunction(w, ref, w.result, params)
ReturnDone(w, ref) == ParamsLast(InternTypes(w, ref[3]), ref, w.result)
ParamsDone(w, ref) == ReturnLast(Get(w, ref[2]), ref, w.result)

Found(w, i, count) == [Adjust(w, i, count, 1) EXCEPT !.result = i, !.fresh = FALSE]
Make(w, ref) ==
    CASE ref[1] \in {"ptr", "arr"} -> MakeDerived(Get(w, ref[2]), ref)
      [] ref[1] = "fun" /\ w.order = "left to right" -> ReturnDone(Get(w, ref[2]), ref)
      [] ref[1] = "fun" /\ w.order = "right to left" -> ParamsDone(InternTypes(w, ref[3]), ref)
      [] OTHER -> Fail(w, "throws")

\* (A slip: what is found is not counted.)
GetWith(w, ref, count) ==
    IF ~Fine(w) THEN w
    ELSE IF \E e \in w.table : SameEntry(e[1], ref)
         THEN Found(w, (CHOOSE e \in w.table : SameEntry(e[1], ref))[2], count)
    ELSE Make(w, ref)
GetUncounted(w, ref) == GetWith(w, ref, 0)
Get(w, ref) == GetWith(w, ref, 1)

\* put, of a type made by the caller, who then gives back its reference.  (A slip: an
\* entry for the reference is overwritten.)
Enter(w, ref) ==
    Drop([Keep(w, w.result) EXCEPT !.table = (@ \ Entry(@, ref)) \cup {<<ref, w.result>>}],
         w.result, "put")
PutOver(w, ref, class) == Enter(Allocate(w, Object(class, ref, 0, <<>>)), ref)
Put(w, ref, class) ==
    IF Entry(w.table, ref) # {} THEN Fail(w, "throws") ELSE PutOver(w, ref, class)

\* The accessors of the built-in types count twice what they return.
CountAgain(w) == Inc(w, w.result)
Accessor(w, ref) == CountAgain(Get(w, ref))

\* ptr_diff_type_name: the first of three whose size is that of a pointer.  What was
\* asked for on the way is given back, one of its two references.
DiffNames == <<"long", "int", "short">>
DropResult(w) == IF Fine(w) THEN Drop(w, w.result, "ptr_diff_type") ELSE w
Tried(w, n) ==
    FoldLeft(LAMBDA v, name : DropResult(Accessor(v, <<name>>)), w, SubSeq(DiffNames, 1, n))
Fits(n) == Sizes[DiffNames[n]] = PointerSize
PtrDiffType(w) ==
    IF \E n \in 1 .. 3 : Fits(n)
    THEN LET first == CHOOSE n \in 1 .. 3 : Fits(n) /\ \A k \in 1 .. (n - 1) : ~Fits(k)
         IN  Get(Tried(w, first), <<DiffNames[first]>>)
    ELSE Fail(Tried(w, 3), "throws")

\* The loop of semantic_check for one type of types(), which has counted it.  What
\* Slot::type and ArrayType::base_type return is not counted, but released.
CheckPart(w, i) ==
    IF w.heap[i].class \notin {"struct", "arr"} THEN w
    ELSE IF w.heap[i].parts = <<>> THEN Fail(w, "throws")
    ELSE Drop(Query(w, w.heap[i].parts[1]), w.heap[i].parts[1], "semantic_check")
CheckMembers(w, i) == Using(w, i, Drop(CheckPart(w, i), i, "semantic_check"))
-----------------------------------------------------------------------------
BuiltinObject(ref) ==
    [Object(IF ref = <<"void">> THEN "void" ELSE "int", ref,
            IF ref = <<"void">> THEN 1 ELSE Sizes[ref[1]], <<>>) EXCEPT !.count = 2, !.spare = 0]

\* new_table puts each built-in type and keeps the references of new.
Init ==
    \E refs \in {SetToSeq(BuiltinRefs)} :
        /\ table = {<<refs[i], i>> : i \in DOMAIN refs}
        /\ heap = [i \in DOMAIN refs |-> BuiltinObject(refs[i])]
        /\ held = [i \in DOMAIN refs |-> 0]
        /\ status = "fine" /\ blame = {}
        /\ order \in {"left to right", "right to left"}
        /\ given = {} /\ answers = {}
        /\ phase = "open" /\ calls = 0

\* Before and after an operation.
Before == [table |-> table, heap |-> heap, status |-> "fine", blame |-> blame, order |-> order,
           result |-> 0, fresh |-> FALSE]
After(w) ==
    /\ table' = w.table /\ heap' = w.heap /\ status' = w.status /\ blame' = w.blame
    /\ UNCHANGED order

\* The client gets the reference that the operation counted for it, if it did.
HeldAfter(w) == [i \in DOMAIN w.heap |-> IF i \in DOMAIN held THEN held[i] ELSE 0]
Hand(w) ==
    IF Fine(w) /\ ~w.fresh
    THEN After(Take(w, w.result)) /\ held' = [HeldAfter(w) EXCEPT ![w.result] = @ + 1] /\ UNCHANGED given
    ELSE After(w) /\ held' = HeldAfter(w) /\ given' = IF Fine(w) THEN given \cup {w.result} ELSE given

Intact == status \in {"fine", "throws"}
Call ==
    /\ phase = "open" /\ Intact /\ calls < MaxCalls
    /\ calls' = calls + 1
    /\ UNCHANGED phase

AskType(ref) ==
    /\ Call
    /\ LET w == Get(Before, ref)
       IN  /\ Hand(w)
           /\ answers' = IF Fine(w) THEN answers \cup {<<ref, w.result>>} ELSE answers

AskParamType(ref) == Call /\ Hand(GetParamType(Before, ref)) /\ UNCHANGED answers
AskBuiltin(ref) == Call /\ Hand(Accessor(Before, ref)) /\ UNCHANGED answers
AskPtrDiffType == Call /\ Hand(PtrDiffType(Before)) /\ UNCHANGED answers

\* pointer_to, of a type that the client has.
Has(i) == heap[i].count > 0 /\ (held[i] > 0 \/ i \in given)
AskPointerTo(i) ==
    /\ Call /\ Has(i)
    /\ Hand(PointerTo(Before, i))
    /\ UNCHANGED answers

\* A struct or a typedef becomes known, and later what it consists of (set_type).
Define(ref) ==
    /\ Call
    /\ LET w == Put(Before, ref, ref[1])
       IN  After(w) /\ held' = HeldAfter(w)
    /\ UNCHANGED <<given, answers>>

SetType(n, i) ==
    /\ phase = "open" /\ Intact /\ Has(i)
    /\ heap[n].class \in {"user", "struct"} /\ heap[n].count > 0
    /\ heap[n].class = "user" => Complete(heap, i)
    /\ IF heap[n].parts # <<>>
       THEN After(Fail(Before, "throws"))
       ELSE After([Keep(Before, i) EXCEPT !.heap[n].parts = <<i>>])
    /\ UNCHANGED <<held, given, answers, phase, calls>>

\* The client gives back what it was given (object.h:12).
GiveBack(i) ==
    /\ Intact /\ held[i] > 0
    /\ After(Release(Before, i, 1))
    /\ held' = [held EXCEPT ![i] = @ - 1]
    /\ UNCHANGED <<given, answers, phase, calls>>

GiveBackFresh(i) ==
    /\ phase = "open" /\ Intact /\ i \in given
    /\ After(Release([Before EXCEPT !.blame = @ \cup {"fresh type"}], i, 1))
    /\ given' = given \ {i}
    /\ UNCHANGED <<held, answers, phase, calls>>

\* The types of the table in the order in which a loop over it meets them: hash tables
\* promise none, the oldest first and the newest first stand for all.
Visits(newestFirst) ==
    SelectSeq([k \in DOMAIN heap |-> IF newestFirst THEN Len(heap) + 1 - k ELSE k],
              LAMBDA i : \E e \in table : e[2] = i)

\* semantic_check: types() counts every type, then each has its turn.  An exception
\* leaves the others counted.
SemanticCheck(newestFirst) ==
    /\ Call
    /\ LET counted == FoldLeft(Inc, Before, Visits(newestFirst))
       IN  After(FoldLeft(CheckMembers, counted, Visits(newestFirst)))
    /\ UNCHANGED <<held, given, answers>>

\* ~TypeTable releases every type once, those of new_table twice.
References(i) == IF heap[i].ref \in BuiltinRefs THEN 2 ELSE 1
Close(newestFirst) ==
    /\ phase = "open" /\ Intact
    /\ phase' = "closed"
    /\ After(FoldLeft(LAMBDA w, i : Release(w, i, References(i)), Before, Visits(newestFirst)))
    /\ UNCHANGED <<held, given, answers, calls>>

Done == (phase = "closed" \/ ~Intact) /\ UNCHANGED vars

Next ==
    \/ \E ref \in Asked : AskType(ref) \/ AskParamType(ref)
    \/ \E ref \in BuiltinRefs : AskBuiltin(ref)
    \/ AskPtrDiffType
    \/ \E i \in DOMAIN heap : AskPointerTo(i) \/ GiveBack(i)
    \/ \E i \in given : GiveBackFresh(i)
    \/ \E ref \in Names : Define(ref)
    \/ \E n, i \in DOMAIN heap : SetType(n, i)
    \/ \E newestFirst \in BOOLEAN : SemanticCheck(newestFirst) \/ Close(newestFirst)
    \/ Done

Spec == Init /\ [][Next]_vars
-----------------------------------------------------------------------------
Objects == DOMAIN heap
Live == {i \in Objects : heap[i].count > 0}

\* The types of the variables.
TypeOK ==
    /\ \A e \in table : e[2] \in Objects
    /\ \A i \in Objects : /\ heap[i].count \in Nat /\ heap[i].spare \in Nat
                          /\ heap[i].class \in {"void", "int", "ptr", "arr", "fun", "par", "struct", "user"}
                          /\ heap[i].parts \in Seq(Objects)
    /\ status \in {"fine", "throws", "aborts", "undefined"}
    /\ blame \subseteq {"fresh type", "array parameter", "semantic_check"}
    /\ held \in [Objects -> Nat] /\ given \subseteq Objects
    /\ phase \in {"open", "closed"}
    /\ calls \in 0 .. MaxCalls

\* The references that the members of live objects, and the table, hold to an object.
Members(i) == FoldFunctionOnSet(+, 0, [j \in Live |-> Cardinality({k \in DOMAIN heap[j].parts : heap[j].parts[k] = i})], Live)
Entries(i) ==
    IF phase = "open" /\ (\E e \in table : e[2] = i) THEN References(i) ELSE 0

\* As long as none of the three mistakes is met, the count of every type is made up of
\* its members, the table, what a client may give back, and the references that the
\* code forgets: get's on the base of a new type, real_type's, the accessors' second one.
\* Nothing is deleted early, and what is never deleted is forgotten or held by a cycle
\* (type_table.cc:43, type.cc:667, type.h:308, type_table.cc:30).
CountsExact ==
    Intact /\ blame = {} =>
        \A i \in Live : heap[i].count = Members(i) + Entries(i) + held[i] + heap[i].spare

\* No sequence of calls uses a deleted type, fails the assertion of dec_ref or leaves a
\* deleted type in the table, unless it meets one of three mistakes: the caller gave back
\* what get returned for a new type (type_table.cc:58); an array parameter of a type not
\* asked for before (type_table.cc:97); a semantic_check after the base of an array or
\* the member of a struct had no forgotten reference left (type_table.cc:249, 260).
OnlyKnownFaults ==
    \/ blame # {}
    \/ Intact /\ (phase = "open" => \A e \in table : heap[e[2]].count > 0)

\* Two answers of get are the same type exactly if the references say the same, however
\* many calls, failed ones too, lie between; but arrays whose base mentions functions are
\* taken for each other if they differ only in varargs (type.cc:633, type.cc:742).
AnswersAgree ==
    \A a, b \in answers :
        /\ a[1] = b[1] => a[2] = b[2]
        /\ a[2] = b[2] => a[1] = b[1] \/ (a[1][1] = "arr" /\ Spelling(a[1]) = Spelling(b[1]))

\* The table keeps its promise although get adds the types of its recursive calls even if
\* the outer one throws (type_table.cc:43).
Promise == INSTANCE Interner WITH types <- table, Builtin <- BuiltinRefs, Parts <- Components,
                                  Same <- SameEntry
ImplementsInterner == Promise!Spec
-----------------------------------------------------------------------------
\* The relations are asked of the types in the table that are complete.
Known == {e[2] : e \in {e \in table : heap[e[2]].count > 0 /\ Complete(heap, e[2])}}
KnownAliases == {i \in Known : heap[i].class = "user"}

\* What pointers and arrays lead to, and the same as far as C is concerned: names do not
\* count, and an array is a pointer.
RECURSIVE Bottom(_)
Bottom(i) == IF Class(heap, i) \in {"ptr", "arr"} THEN Bottom(Base(heap, i)) ELSE i
RECURSIVE Depth(_)
Depth(i) == IF Class(heap, i) \in {"ptr", "arr"} THEN 1 + Depth(Base(heap, i)) ELSE 0
SameInC(i, j) == Depth(i) = Depth(j) /\ Real(heap, Bottom(i)) = Real(heap, Bottom(j))

RECURSIVE PointerMeetsArray(_, _)
PointerMeetsArray(i, j) ==
    /\ Class(heap, i) \in {"ptr", "arr"} /\ Class(heap, j) \in {"ptr", "arr"}
    /\ \/ Class(heap, i) = "ptr" /\ Class(heap, j) = "arr"
       \/ PointerMeetsArray(Base(heap, i), Base(heap, j))

\* is_same_type answers yes only for types that are the same in C, and for all of them but
\* these: functions are never the same (type.cc:771), a pointer is not the same as an array
\* that is the same as it (type.cc:270), and a name for an integer or struct is not
\* recognised on the right (type.cc:193, type.cc:454).
SameTypeExact ==
    \A i, j \in Known :
        IsSameType(heap, i, j) = "yes" <=>
            /\ SameInC(i, j)
            /\ Class(heap, Bottom(i)) # "fun"
            /\ ~PointerMeetsArray(i, j)
            /\ ~(heap[Bottom(j)].class = "user" /\ Class(heap, Bottom(j)) \in {"int", "struct"})

\* A typedef's name stands for its type in the relations, with two exceptions: on the right
\* of is_same_type if it leads to an integer or struct, and on the left of is_castable_to,
\* where UserType spells the method otherwise (type.h:329).
AliasesTransparent ==
    \A n \in KnownAliases, i \in Known :
        LET r == Real(heap, n)
        IN  /\ IsSameType(heap, n, i) = IsSameType(heap, r, i)
            /\ IsCompatible(heap, n, i) = IsCompatible(heap, r, i)
            /\ IsCompatible(heap, i, n) = IsCompatible(heap, i, r)
            /\ IsCastableTo(heap, i, n) = IsCastableTo(heap, i, r)
            /\ IsCastableTo(heap, n, i) = "no"
            /\ IsSameType(heap, i, n) # IsSameType(heap, i, r) => Class(heap, n) \in {"int", "struct"}

\* The lengths of an array and its bases, from the outermost in.
RECURSIVE Lengths(_)
Lengths(i) == IF Class(heap, i) = "arr" THEN <<heap[Real(heap, i)].ref[3]>> \o Lengths(Base(heap, i)) ELSE <<>>

\* "int a[3] is complete, int a[] is complete, int a[][3] is complete, but int a[3][] is
\* not" (type.h:375): an array is incomplete if a length other than the first is missing;
\* a name for it never is.
IncompleteExact ==
    \A i \in Known : IsIncomplete(heap, i) <=>
        heap[i].class = "arr" /\ \E k \in 2 .. Len(Lengths(i)) : Lengths(i)[k] = -1
=============================================================================
