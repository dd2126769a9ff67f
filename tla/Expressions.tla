---------------------------- MODULE Expressions ----------------------------
(***************************************************************************)
(* Expression nodes in the hands of a semantic pass: the setters and the   *)
(* queries of include/node.h and ast/node.cc.                              *)
(*                                                                         *)
(* No pass is written yet.  The one here is external: it resolves names,   *)
(* attaches types, converts and folds operands, as include/object.h asks   *)
(* it to.  It gives back what it made once it has passed it on, and in the *)
(* end drops the tree.                                                     *)
(*                                                                         *)
(* Types, entities and nodes are objects on one heap.  The first two have  *)
(* one reference from the table of types or the scope; what else these do  *)
(* is the subject of TypeTable.  A type's name is its reference, as in     *)
(* Types.  Classes whose setters and queries agree are one: "unary" is     *)
(* prefix and suffix operators, "binary" logical ones too, "place" means   *)
(* the five that inherit LHSNode, "stmt" the statements with one operand.  *)
(***************************************************************************)
EXTENDS Integers, SequencesExt

CONSTANTS Programs,     \* trees: nodes by position, each after its operands
          TypeRefs,     \* the types the table knows, in a sequence
          Names,        \* the variables, in a sequence
          Declared,     \* the type of each
          Alias,        \* what typedefs' names stand for
          Members,      \* the types of the members, by struct and name
          Converted,    \* the types that operands are converted to
          MaxCalls      \* bound: how many calls the pass makes

\* No type is a pointer to what stands for a query that throws.
ASSUME TypeAssumption ==
    /\ TypeRefs \in Seq(Range(TypeRefs)) /\ <<"int">> \in Range(TypeRefs) /\ <<>> \notin Range(TypeRefs)
    /\ Converted \subseteq Range(TypeRefs)
    /\ Names \in Seq(STRING) /\ DOMAIN Declared = Range(Names)
    /\ \A r \in DOMAIN Alias : r[1] = "user" /\ Alias[r][1] # "user"
    /\ \A r \in Range(TypeRefs) : r[1] = "ptr" => r[2][1] \notin {"throws", "undefined"}

Places == {"variable", "aref", "member", "ptrmember", "dereference"}

\* Every node but the last is an operand of one other, which comes after it; a name has room
\* for its entity.
OperandOf(program, i) ==
    {u \in UNION {{j} \X DOMAIN program[j].parts : j \in DOMAIN program} : program[u[1]].parts[u[2]] = i}
ASSUME ProgramAssumption ==
    \A program \in Programs :
        /\ program \in Seq([class : STRING, name : STRING, parts : Seq(Nat),
                            type : Range(TypeRefs) \cup {<<>>}]) \ {<<>>}
        /\ \A i \in 1 .. Len(program) - 1 : Cardinality(OperandOf(program, i)) = 1
        /\ \A i \in DOMAIN program :
            /\ \A k \in DOMAIN program[i].parts :
                program[i].parts[k] \in IF program[i].class = "variable" THEN {0} ELSE 1 .. i - 1
            /\ program[i].class = "variable" => program[i].name \in Range(Names) /\ Len(program[i].parts) = 1
            /\ program[i].class \in Places \cup {"call", "address", "unary", "assign", "binary"} =>
                program[i].parts # <<>>
            /\ program[i].class = "conditional" => Len(program[i].parts) = 3

ASSUME CallAssumption == MaxCalls \in Nat

VARIABLES
    heap,       \* the objects; a deleted one has count 0
    root,       \* the tree, to which the pass has a reference
    lost,       \* how many references of each object nobody holds any more
    todo,       \* objects with a dec_ref to come, in order
    status,     \* "fine" or, after the use of a null or deleted object, "undefined"
    blame,      \* which of the known mistakes have been met
    phase,      \* "open" or "closed"
    calls

vars == <<heap, root, lost, todo, status, blame, phase, calls>>

-----------------------------------------------------------------------------
Object(class, name, parts, type, count) ==
    [class |-> class, name |-> name, parts |-> parts, type |-> type, count |-> count]

TypeId(ref) == IF Contains(TypeRefs, ref) THEN SelectInSeq(TypeRefs, LAMBDA r : r = ref) ELSE 0
EntityId(name) == Len(TypeRefs) + SelectInSeq(Names, LAMBDA n : n = name)
FirstNode == Len(TypeRefs) + Len(Names)

\* The tree as the parser leaves it: every node has its one reference, no name is resolved,
\* and no node has a type.  (One tree has a node of the pass's own, made with its type.)
Init ==
    \E program \in Programs :
        LET Uses(i) == Cardinality({k \in DOMAIN program : TypeId(program[k].type) = i})
        IN  /\ heap = [i \in DOMAIN TypeRefs |-> Object("type", TypeRefs[i], <<>>, 0, 1 + Uses(i))]
                   \o [i \in DOMAIN Names |-> Object("entity", Names[i], <<>>, 0, 1)]
                   \o [i \in DOMAIN program |->
                          Object(program[i].class, program[i].name,
                                 [k \in DOMAIN program[i].parts |->
                                     IF program[i].parts[k] = 0 THEN 0 ELSE FirstNode + program[i].parts[k]],
                                 TypeId(program[i].type), 1)]
            /\ root = FirstNode + Len(program)
            /\ lost = [i \in 1 .. FirstNode + Len(program) |-> 0]
            /\ todo = <<>> /\ status = "fine" /\ blame = {}
            /\ phase = "open" /\ calls = 0
-----------------------------------------------------------------------------
\* What setters do, over a world: the variables they change.
World == [heap |-> heap, lost |-> lost, todo |-> todo, blame |-> blame]
After(w) == heap' = w.heap /\ lost' = w.lost /\ todo' = w.todo /\ blame' = w.blame

Inc(w, i)         == [w EXCEPT !.heap[i].count = @ + 1]
Later(w, i)       == [w EXCEPT !.todo = Append(@, i)]
Lose(w, i)        == IF i = 0 THEN w ELSE [w EXCEPT !.lost[i] = @ + 1]
Blame(w, mistake) == [w EXCEPT !.blame = @ \cup {mistake}]

Operand(w, n, k)    == w.heap[n].parts[k]
Put(w, n, k, i)     == [w EXCEPT !.heap[n].parts[k] = i]
PutType(w, n, i)    == [w EXCEPT !.heap[n].type = i]

\* A setter of an operand counts the new one and releases the old one; or forgets the
\* second; or does neither.  (A slip: the first kind releases nothing.)
SetSwappingKeeps(w, n, k, i) == Put(Inc(w, i), n, k, i)
SetSwapping(w, n, k, i) == Put(Later(Inc(w, i), Operand(w, n, k)), n, k, i)
SetCounting(w, n, k, i) == Lose(Put(Inc(w, i), n, k, i), Operand(w, n, k))
SetStoring(w, n, k, i)  == Blame(Put(w, n, k, i), "set_left")

Swapping == {<<"dereference", 1>>, <<"sizeof", 1>>, <<"conditional", 2>>, <<"conditional", 3>>,
             <<"assign", 2>>, <<"stmt", 1>>}
Counting == {<<"unary", 1>>}
Storing  == {<<"binary", 1>>, <<"binary", 2>>}

SetOperand(w, n, k, i) ==
    LET setter == <<w.heap[n].class, k>>
    IN  CASE setter \in Swapping -> SetSwapping(w, n, k, i)
          [] setter \in Counting -> SetCounting(w, n, k, i)
          [] setter \in Storing  -> SetStoring(w, n, k, i)

\* A setter of a type counts the new one and forgets the old one; or refuses to be called
\* twice; or, in BinaryOpNode, to be called once, and then counts the old one.
SetTypeCounting(w, n, i) == Lose(PutType(Inc(w, i), n, i), w.heap[n].type)
SetTypeOnce(w, n, i) == IF w.heap[n].type # 0 THEN w ELSE PutType(Inc(w, i), n, i)
SetTypeTwice(w, n, i) ==
    IF w.heap[n].type = 0 THEN w
    ELSE Blame(PutType(Inc(w, w.heap[n].type), n, i), "BinaryOpNode::set_type")

SetType(w, n, i) ==
    CASE w.heap[n].class \in Places \cup {"unary"} -> SetTypeCounting(w, n, i)
      [] w.heap[n].class \in {"literal", "sizeof", "address"} -> SetTypeOnce(w, n, i)
      [] w.heap[n].class = "binary" -> SetTypeTwice(w, n, i)

\* The pass makes a node, which counts its operand and its type.  (A slip: it moves the
\* operand.)
Made(w) == Len(w.heap)
New(w, class, type) ==
    [w EXCEPT !.heap = Append(@, Object(class, "", <<>>, type, 1)), !.lost = Append(@, 0)]
NewLiteral(w, type) == Inc(New(w, "literal", type), type)
NewCastMoving(w, i, type) == [NewLiteral(w, type) EXCEPT !.heap[Len(w.heap) + 1] =
                                [@ EXCEPT !.class = "cast", !.parts = <<i>>]]
NewCast(w, i, type) == Inc(NewCastMoving(w, i, type), i)
-----------------------------------------------------------------------------
\* The queries.  Types are named by their references here; the references that real_type,
\* base_type and Entity::type count and nobody releases are left out, they only keep alive
\* what the table keeps alive.
Throws    == <<"throws">>
Undefined == <<"undefined">>

Real(r) == IF r \in DOMAIN Alias THEN Alias[r] ELSE r

\* base_type is virtual; get_composite_type, get_pointer_type and get_function_type, which
\* cast, are not.
Failed(r) == IF r = Undefined THEN Undefined ELSE Throws
BaseOf(r)     == IF Real(r)[1] \in {"ptr", "arr"} THEN Real(r)[2] ELSE Failed(r)
PointedBy(r)  == IF r[1] = "ptr" THEN r[2] ELSE Failed(r)
ResultOf(r)   == IF r[1] = "fun" THEN r[2] ELSE Failed(r)
MemberOf(r, name) ==
    IF r[1] # "struct" THEN Failed(r)
    ELSE IF name \in DOMAIN Members[r] THEN Members[r][name] ELSE Undefined

\* orig_type() and type(): the type that a node has from its operands, and the one that a
\* place has been given.  They are written over what they return for the operands.
Own(n) == IF n.type = 0 THEN Throws ELSE heap[n.type].name
OrigFrom(types, n) ==
    LET Of(k) == types[n.parts[k]].type
    IN  CASE n.class = "variable" ->
                IF n.parts[1] = 0 THEN Undefined ELSE Declared[heap[n.parts[1]].name]
          [] n.class = "aref"        -> BaseOf(types[n.parts[1]].orig)
          [] n.class = "dereference" -> BaseOf(Of(1))
          [] n.class = "member"      -> MemberOf(Of(1), n.name)
          [] n.class = "ptrmember"   -> MemberOf(PointedBy(Of(1)), n.name)
          [] n.class = "call"        -> ResultOf(PointedBy(Of(1)))
          [] n.class \in {"unary", "assign"} -> Of(1)
          [] n.class = "conditional" -> Of(2)
          [] n.class = "binary"      -> IF n.type = 0 THEN Of(1) ELSE Own(n)
          [] OTHER                   -> Own(n)
TypesFrom(types, n) ==
    LET orig == OrigFrom(types, n)
    IN  [orig |-> orig, type |-> IF n.class \in Places /\ n.type # 0 THEN Own(n) ELSE orig]
TypeOf ==
    LET types[i \in DOMAIN heap] == TypesFrom(types, heap[i])
    IN  types
OrigType(i) == TypeOf[i].orig
Type(i)     == TypeOf[i].type

\* ArefNode::is_multi_dimension.  (A slip: it asks for the type and not the original one.)
IsMultiDimensionByType(i) ==
    heap[heap[i].parts[1]].class = "aref" /\ Real(Type(heap[i].parts[1]))[1] # "ptr"
IsMultiDimension(i) ==
    heap[heap[i].parts[1]].class = "aref" /\ Real(OrigType(heap[i].parts[1]))[1] # "ptr"

Elements == {i \in DOMAIN heap : heap[i].class = "aref"}
BaseFrom(base, i) == IF IsMultiDimension(i) THEN base[heap[i].parts[1]] ELSE heap[i].parts[1]
BaseOfElement ==
    LET base[i \in Elements] == BaseFrom(base, i)
    IN  base
BaseExpr(i) == BaseOfElement[i]

\* is_assignable.  A place asks orig_type_, a member that nothing ever sets; a cast asks its
\* operand.
AsksOrigType(i) ==
    LET asks[j \in DOMAIN heap] ==
            heap[j].class \in Places \/ (heap[j].class = "cast" /\ asks[heap[j].parts[1]])
    IN  asks[i]
-----------------------------------------------------------------------------
\* The pass.  It finds nodes by walking down from the root, and a call is over when the
\* dec_refs it leads to are done.
Live == {i \in DOMAIN heap : heap[i].count > 0}
Held(i) == (ToSet(heap[i].parts) \cup {heap[i].type}) \ {0}
WithParts(S) == S \cup UNION {ToSet(heap[i].parts) : i \in S \cap Live}
Reached ==
    LET reached[k \in 0 .. Len(heap)] == IF k = 0 THEN {root} ELSE WithParts(reached[k - 1])
    IN  reached[Len(heap)] \ (0 .. FirstNode)

Call ==
    /\ phase = "open" /\ status = "fine" /\ todo = <<>> /\ calls < MaxCalls
    /\ calls' = calls + 1
    /\ UNCHANGED <<root, phase>>

\* A node that is found deleted.
Stale(n) ==
    /\ Call /\ n \in Reached \ Live
    /\ status' = "undefined"
    /\ UNCHANGED <<heap, lost, todo, blame>>

Visit(n) == Call /\ n \in Reached \cap Live /\ UNCHANGED status

\* set_entity.
Resolve(n) ==
    /\ Visit(n) /\ heap[n].class = "variable"
    /\ After(SetCounting(World, n, 1, EntityId(heap[n].name)))

\* What is not a value of its own is given the type of its address: arrays and functions,
\* as far as the table knows that type.  Operators and literals get the type they have.
PointerTo(r) == <<"ptr", r>>
Wanted(n) ==
    CASE heap[n].class \in Places ->
            IF Real(OrigType(n))[1] = "arr" THEN PointerTo(BaseOf(OrigType(n)))
            ELSE IF Real(OrigType(n))[1] = "fun" THEN PointerTo(OrigType(n))
            ELSE <<>>
      [] heap[n].class = "address" -> PointerTo(OrigType(heap[n].parts[1]))
      [] heap[n].class \in {"unary", "binary"} -> Type(heap[n].parts[1])
      [] heap[n].class \in {"literal", "sizeof"} -> <<"int">>
      [] OTHER -> <<>>
AttachType(n) ==
    /\ Visit(n) /\ TypeId(Wanted(n)) # 0
    /\ After(SetType(World, n, TypeId(Wanted(n))))

\* An operand is converted, or folded into a literal, and the setter called; then the pass
\* gives back what it made.
Settable(n) == {k \in DOMAIN heap[n].parts : <<heap[n].class, k>> \in Swapping \cup Counting \cup Storing}
HandOver(w, n, k) == After(Later(SetOperand(w, n, k, Made(w)), Made(w)))
Convert(n) ==
    /\ Visit(n)
    /\ \E k \in Settable(n), r \in Converted :
        HandOver(NewCast(World, heap[n].parts[k], TypeId(r)), n, k)
Fold(n) ==
    /\ Visit(n)
    /\ \E k \in Settable(n) : HandOver(NewLiteral(World, TypeId(<<"int">>)), n, k)

\* replaceArgs: the old arguments are released, but the new ones moved nowhere.
ReplaceArgs(n) ==
    /\ Visit(n) /\ heap[n].class = "call"
    /\ LET w == NewLiteral(World, TypeId(<<"int">>))
       IN  After(Blame(Lose([w EXCEPT !.todo = Tail(heap[n].parts)], Made(w)), "replaceArgs"))

AskAssignable(n) ==
    /\ Call /\ n \in Reached \cap Live /\ AsksOrigType(n)
    /\ status' = "undefined" /\ blame' = blame \cup {"is_loadable"}
    /\ UNCHANGED <<heap, lost, todo>>

\* One dec_ref; a destructor releases what the node holds.  (A slip: a deleted object is
\* released once more.)
Released(i) ==
    /\ heap' = [heap EXCEPT ![i].count = @ - 1]
    /\ todo' = (IF heap[i].count = 1 THEN Append(heap[i].parts, heap[i].type) ELSE <<>>) \o Tail(todo)
    /\ UNCHANGED status
OnNull == Head(todo) = 0 /\ todo' = Tail(todo) /\ UNCHANGED <<heap, status>>
DropNextUnchecked ==
    /\ status = "fine" /\ todo # <<>>
    /\ OnNull \/ (Head(todo) # 0 /\ Released(Head(todo)))
    /\ UNCHANGED <<root, lost, blame, phase, calls>>
DropNext ==
    /\ status = "fine" /\ todo # <<>>
    /\ \/ OnNull
       \/ Head(todo) \in Live /\ Released(Head(todo))
       \/ Head(todo) \notin Live \cup {0} /\ status' = "undefined" /\ UNCHANGED <<heap, todo>>
    /\ UNCHANGED <<root, lost, blame, phase, calls>>

Finish ==
    /\ phase = "open" /\ status = "fine" /\ todo = <<>>
    /\ phase' = "closed" /\ todo' = <<root>>
    /\ UNCHANGED <<heap, root, lost, status, blame, calls>>

Done == (status # "fine" \/ (phase = "closed" /\ todo = <<>>)) /\ UNCHANGED vars

Next ==
    \/ \E n \in DOMAIN heap : Stale(n)
    \/ \E n \in DOMAIN heap : Resolve(n)
    \/ \E n \in DOMAIN heap : AttachType(n)
    \/ \E n \in DOMAIN heap : Convert(n)
    \/ \E n \in DOMAIN heap : Fold(n)
    \/ \E n \in DOMAIN heap : ReplaceArgs(n)
    \/ \E n \in DOMAIN heap : AskAssignable(n)
    \/ DropNext \/ Finish \/ Done

Spec == Init /\ [][Next]_vars
-----------------------------------------------------------------------------
\* The types of the variables.
TypeOK ==
    /\ \A i \in DOMAIN heap : heap[i].count \in Nat /\ Held(i) \subseteq DOMAIN heap
    /\ root \in DOMAIN heap
    /\ lost \in [DOMAIN heap -> Nat]
    /\ todo \in Seq(DOMAIN heap \cup {0})
    /\ status \in {"fine", "undefined"}
    /\ blame \subseteq {"set_left", "BinaryOpNode::set_type", "replaceArgs", "is_loadable"}
    /\ phase \in {"open", "closed"} /\ calls \in 0 .. MaxCalls

Times(i, s) == Cardinality({k \in DOMAIN s : s[k] = i})
Slots == UNION {{j} \X (0 .. Len(heap[j].parts)) : j \in Live}
At(slot) == IF slot[2] = 0 THEN heap[slot[1]].type ELSE heap[slot[1]].parts[slot[2]]
Holders(i) ==
    Cardinality({slot \in Slots : At(slot) = i})
        + Times(i, todo)
        + (IF i <= FirstNode \/ (i = root /\ phase = "open") THEN 1 ELSE 0)

\* Whatever a pass replaces, converts and folds, between any two dec_refs the count of each
\* object is the number of its holders, and of the references that UnaryOpNode::set_expr and
\* a second set_type, set_op_type or set_entity forget (node.cc:126, 156, 206, 212); as long
\* as no set_left, set_right (node.h:438), replaceArgs (node.cc:386) or
\* BinaryOpNode::set_type (node.cc:577) is called.
CountsExact ==
    status = "fine" /\ blame = {} => \A i \in Live : heap[i].count = Holders(i) + lost[i]

\* However the calls follow each other, the pass finds no deleted node below the root and
\* releases no deleted object, and the program stays defined; unless one of those four has
\* been called, or a place has been asked whether it can be assigned to (node.cc:134).
OnlyKnownFaults == status = "undefined" => blame # {}

\* The types that C gives to the nodes, from the declarations alone.
Element(r) == IF Real(r)[1] = "fun" THEN r ELSE BaseOf(r)
Result(r)  == IF Real(r)[1] = "fun" THEN Real(r)[2] ELSE Failed(r)
Field(r, name) == IF Real(r)[1] = "struct" THEN MemberOf(Real(r), name) ELSE Failed(r)
CTypeFrom(type, n) ==
    LET Of(k) == type[n.parts[k]]
    IN  CASE n.class = "variable"    -> Declared[n.name]
          [] n.class = "aref"        -> BaseOf(Of(1))
          [] n.class = "dereference" -> Element(Of(1))
          [] n.class = "member"      -> Field(Of(1), n.name)
          [] n.class = "ptrmember"   -> Field(Element(Of(1)), n.name)
          [] n.class = "call"        -> Result(Element(Of(1)))
          [] n.class = "address"     -> PointerTo(Of(1))
          [] n.class \in {"unary", "assign"} -> Of(1)
          [] n.class = "conditional" -> Of(2)
          [] n.class = "binary"      -> IF n.type = 0 THEN Of(1) ELSE Own(n)
          [] OTHER                   -> Own(n)
CType ==
    LET type[i \in DOMAIN heap] == CTypeFrom(type, heap[i])
    IN  type

\* A node and all that it is made of.
UnderFrom(under, i) == {i} \cup UNION {under[j] : j \in ToSet(heap[i].parts) \ (0 .. FirstNode)}
Under ==
    LET under[i \in DOMAIN heap] == UnderFrom(under, i)
    IN  under

\* What C allows: only places have addresses, functions have no elements and, but for a
\* conditional, whose operands they are, only places are arrays or functions.
Lawful(i) ==
    \A j \in Under[i] :
        /\ heap[j].class = "address" => heap[heap[j].parts[1]].class \in Places
        /\ heap[j].class = "aref" => Real(CType[heap[j].parts[1]])[1] # "fun"
        /\ heap[j].class \notin Places \cup {"conditional"} => Real(CType[j])[1] \notin {"arr", "fun"}

\* The types attached to places and addresses are those of their operands as they are now:
\* none has been converted since.
Current(i) ==
    \A j \in Under[i] :
        heap[j].class \in Places \cup {"address"} /\ heap[j].type # 0 => heap[heap[j].type].name = Wanted(j)

\* Every place is resolved and, where the pass wants it to, has a type; and no name stands
\* where a cast needs a pointer, a struct or a function.
Annotated(i) ==
    \A j \in Under[i] :
        /\ heap[j].class = "variable" => heap[j].parts[1] # 0
        /\ heap[j].class \in Places \cup {"address"} /\ heap[j].type = 0 => Wanted(j) = <<>>
Transparent(i) ==
    \A j \in Under[i] : heap[j].class \in {"member", "ptrmember", "call"} =>
        /\ CType[heap[j].parts[1]] \notin DOMAIN Alias
        /\ heap[j].class # "member" => Element(CType[heap[j].parts[1]]) \notin DOMAIN Alias

\* What an element is taken of: the first operand and, if that is an element itself, what it
\* is taken of.
IndexedFrom(indexed, i) ==
    LET p == heap[i].parts[1]
    IN  IF p \in Elements THEN {p} \cup indexed[p] ELSE {p}
Indexed ==
    LET indexed[i \in Elements] == IndexedFrom(indexed, i)
    IN  indexed

\* A place of a lawful tree has the type that C gives it once the names are resolved and
\* arrays and functions have the types of their addresses, and no other type before: then a
\* query throws.  Names of structs, pointers and functions are not seen through (type.cc:12),
\* and a type that was attached before an operand was converted is out of date.  The base of
\* an element is the innermost array it is part of, or the pointer or function that leads
\* there, whatever types have been attached (node.cc:256).
PlacesExact ==
    status = "fine" /\ blame = {} =>
        \A i \in Reached \cap Live : heap[i].class \in Places /\ Lawful(i) /\ Current(i) =>
            /\ OrigType(i) \in {CType[i], Throws, Undefined}
            /\ Annotated(i) /\ Transparent(i) => OrigType(i) = CType[i]
            /\ i \in Elements /\ OrigType(i) \notin {Throws, Undefined} =>
                LET b == BaseExpr(i)
                IN  /\ b \in Indexed[i]
                    /\ b \in Elements => Real(CType[b])[1] # "arr"
                    /\ \A j \in Indexed[i] \cap Elements : b \in Indexed[j] => Real(CType[j])[1] = "arr"
=============================================================================
