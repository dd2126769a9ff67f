------------------------------ MODULE AstNodes ------------------------------
(***************************************************************************)
(* The objects of the syntax tree and their reference counts: the node     *)
(* classes of ast/node.cc, ast/type.cc, ast/decl.cc and entity/entity.cc   *)
(* over include/object.h.                                                  *)
(*                                                                         *)
(* An object is its class, its pointer members and oref_.  Every member is *)
(* a sequence of objects: <<>> for a null pointer or an empty vector, one  *)
(* entry for a pointer, as many as there are for a vector.                 *)
(***************************************************************************)
EXTENDS Naturals, SequencesExt

\* A null pointer that is an element of a vector.
Null == 0

\* Tables put together; no key is in two of them.
Together(tables) ==
    [c \in UNION {DOMAIN tables[i] : i \in DOMAIN tables} |->
        tables[CHOOSE i \in DOMAIN tables : c \in DOMAIN tables[i]][c]]

\* What a constructor does with the argument it stores in each member:
\*   "count"  calls inc_ref on it;
\*   "take"   moves a vector in, or keeps a node it has just made: the reference
\*            that came with it becomes the member's;
\*   "look"   stores the pointer and nothing else.

\* TypeNode(ref); the literals, whose LiteralNode base makes a TypeNode.
LeafNodes == [TypeNode |-> <<"count">>, IntegerLiteral |-> <<"take">>,
              StringLiteral |-> <<"take">>, Variable |-> <<>>]

\* Postfix expressions; Unary stands for every UnaryOpNode.  (A slip: FuncallNode
\* counts the arguments moved into it.)
PostfixNodes == [Unary |-> <<"count">>, Aref |-> <<"count", "count">>,
                 Slot |-> <<"count">>, Member |-> <<"count">>]
CallNodesCounting == [Funcall |-> <<"count", "count">>]
CallNodes == [Funcall |-> <<"count", "take">>]

\* sizeof and casts; Deref stands for AddressNode too.
PrefixNodes == [SizeofExpr |-> <<"count", "take">>, SizeofType |-> <<"count", "take">>,
                Deref |-> <<"count">>, Cast |-> <<"count", "count">>]

\* Binary stands for the logical operators too.
OperatorNodes == [Binary |-> <<"count", "count">>, Cond |-> <<"count", "count", "count">>,
                  Assign |-> <<"count", "count">>]

\* Break stands for ContinueNode and GotoNode too.
StmtNodes == [Break |-> <<>>, Return |-> <<"count">>, Block |-> <<"take", "take">>,
              ExprStmt |-> <<"count">>, Label |-> <<"count">>]
SwitchNodes == [Case |-> <<"take", "count">>, Switch |-> <<"count", "take">>]

\* For: init_ and incr_ are ExprStmtNodes the constructor makes; a missing
\* condition becomes a literal; body_ is stored as it comes.  (A slip: WhileNode
\* stores its body like that too.)
LoopNodesLooking ==
             [For |-> <<"take", "count", "take", "look">>,
              DoWhile |-> <<"count", "count">>, While |-> <<"count", "look">>,
              If |-> <<"count", "count", "count">>]
LoopNodes == [For |-> <<"take", "count", "take", "look">>,
              DoWhile |-> <<"count", "count">>, While |-> <<"count", "count">>,
              If |-> <<"count", "count", "count">>]

\* Struct and Union; Typedef makes both of its TypeNodes.
TypeDefNodes == [Composite |-> <<"take", "take">>, Typedef |-> <<"take", "take">>]

\* DefinedVariable stands for Parameter and UndefinedVariable too.
EntityNodes == [Constant |-> <<"count", "count">>, DefinedVariable |-> <<"count", "count">>,
                Params |-> <<"take">>, DefinedFunction |-> <<"count", "count", "count">>,
                UndefinedFunction |-> <<"count", "count">>]

\* NamedTypeRef: void, the integers, struct, union and user types.  WrapTypeRef:
\* PointerTypeRef and ArrayTypeRef.  ParamTypeRefs made by parameter_typerefs
\* come with an inc_ref of each type.
TypeRefNodes == [NamedTypeRef |-> <<>>, WrapTypeRef |-> <<"count">>,
                 ParamTypeRefs |-> <<"take">>, CopiedTypeRefs |-> <<"count">>,
                 FunctionTypeRef |-> <<"count", "count">>]

\* The members of Declarations are defvars_, defuncs_ and the other six sets.
UnitNodes == [AST |-> <<"count">>, Declarations |-> <<"take", "take", "take">>]

Modes == Together(<<LeafNodes, PostfixNodes, CallNodes, PrefixNodes, OperatorNodes,
    StmtNodes, SwitchNodes, LoopNodes, TypeDefNodes, EntityNodes, TypeRefNodes,
    UnitNodes>>)

\* The members the destructor of a class calls dec_ref on.  (A slip: ~TypedefNode
\* forgets real_.)
ReleasedButReal(class) == CASE class = "For" -> 1 .. 3
                            [] class = "Typedef" -> {1}
                            [] OTHER -> DOMAIN Modes[class]
Released(class) == IF class = "For" THEN 1 .. 3 ELSE DOMAIN Modes[class]

\* The members whose pointers the constructor counts.
Counted(class) == {k \in DOMAIN Modes[class] : Modes[class][k] = "count"}

\* The members that dumping an object goes on to read; of a Declarations only
\* the defined variables and functions.
Dumped(class) == CASE class = "StringLiteral" -> {}
                   [] class \in {"SizeofExpr", "SizeofType"} -> {1}
                   [] class = "Declarations" -> {1, 2}
                   [] OTHER -> DOMAIN Modes[class]
-----------------------------------------------------------------------------
Object == [class : DOMAIN Modes, members : Seq(Seq(Nat)), refs : Nat]

\* The pointers in the members K of an object, in order.
Pointers(obj, K) ==
    FlattenSeq([k \in DOMAIN obj.members |-> IF k \in K THEN obj.members[k] ELSE <<>>])

Times(x, s) == Cardinality({i \in DOMAIN s : s[i] = x})

\* inc_ref on every object of s; on a null pointer it does nothing.
IncRefs(heap, s) ==
    [x \in DOMAIN heap |-> [heap[x] EXCEPT !.refs = @ + Times(x, s)]]

\* A constructor: the object has one reference, its creator's.  (A slip: one
\* reference for the creator and one for $$.)
NewWith(class, members, refs) == [class |-> class, members |-> members, refs |-> refs]
NewShared(class, members) == NewWith(class, members, 2)
New(class, members) == NewWith(class, members, 1)

\* Where x is among the elements of the sequences s[k], k in K.
Spots(x, s, K) == UNION {{k} \X {j \in DOMAIN s[k] : s[k][j] = x} : k \in K}

\* The members K(class) of the objects of a heap, and where they point to x.
Members(heap, K(_)) == UNION {{y} \X K(heap[y].class) : y \in DOMAIN heap}
PointersTo(x, heap, K(_)) ==
    LET s == [p \in Members(heap, K) |-> heap[p[1]].members[p[2]]]
    IN  Spots(x, s, DOMAIN s)

\* Constructors called one after the other: what they count has one reference more
\* for every pointer stored.
NewAll(heap, new) ==
    LET all == [x \in DOMAIN heap \cup DOMAIN new |->
                    IF x \in DOMAIN new THEN new[x] ELSE heap[x]]
    IN  [x \in DOMAIN all |->
            [all[x] EXCEPT !.refs = @ + Cardinality(PointersTo(x, new, Counted))]]

\* An object added to the vector or set in member k of an object that is there.
Grow(heap, id, k, mode, s) ==
    IncRefs([heap EXCEPT ![id].members[k] = @ \o s], IF mode = "count" THEN s ELSE <<>>)

\* dec_ref on x: one reference fewer, and the object is deleted with the last.
\* (A slip: it is not.)
DecRefOnly(heap, x) == [heap EXCEPT ![x].refs = @ - 1]
DecRef(heap, x) ==
    IF heap[x].refs = 1 THEN [y \in DOMAIN heap \ {x} |-> heap[y]]
    ELSE DecRefOnly(heap, x)
=============================================================================
