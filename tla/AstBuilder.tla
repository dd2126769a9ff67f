----------------------------- MODULE AstBuilder -----------------------------
(***************************************************************************)
(* Building, dumping and dropping the syntax tree of one file: the         *)
(* semantic actions of parser/parser.y run on the parser's value stack,    *)
(* then main (or the Loader, for an import file) uses the result and drops *)
(* it.                                                                     *)
(*                                                                         *)
(* The text is not given in advance: when a symbol is expected it goes on  *)
(* as any production of it, and the reductions come in the order in which  *)
(* an LR parser makes them, with the values it has on its stack then.      *)
(* Every dec_ref is a step of its own, so the destructors it sets off are  *)
(* the steps that follow.                                                  *)
(***************************************************************************)
EXTENDS Grammar

\* A study is a part of the language: rows are the productions that its texts are
\* made of, length bounds a text, in reductions.
CONSTANT Studies

ASSUME StudiesAssumption == Studies \subseteq [rows : SUBSET DOMAIN Rows, length : Nat]

VARIABLES
    study,     \* the part of the language the text is written in
    todo,      \* what is still to come: symbols, and the rows to reduce by
    values,    \* the parser's value stack, one sequence of objects per entry
    heap,      \* the objects that exist
    made,      \* how many objects were made; their addresses are not used again
    read,      \* how many reductions the text was found to consist of so far
    drops,     \* dec_ref calls still to make, in order
    dumping,   \* objects the dump has still to visit, in order
    status     \* where the program is

vars == <<study, todo, values, heap, made, read, drops, dumping, status>>

\* "parsing"; "accepted": Parser::parse returned 0; "dumping"; "dropping": main
\* or ~Loader has given up the result; "dropped".  "rejected": a syntax error or
\* an exception.  "undefined": a null or deleted object was used, and nothing can
\* be said of what the program does from then on.
Statuses == {"parsing", "accepted", "dumping", "dropping", "dropped",
             "rejected", "undefined"}

Init ==
    /\ study \in Studies
    /\ \E s \in {"compile", "declare"} : todo = <<s>>
    /\ values = <<>>
    /\ heap = <<>>
    /\ made = 0
    /\ read = 0
    /\ drops = <<>>
    /\ dumping = <<>>
    /\ status = "parsing"
-----------------------------------------------------------------------------
Parsing == status = "parsing" /\ drops = <<>>

\* The text goes on as production p.
Expect(p) ==
    /\ Parsing /\ todo # <<>> /\ Head(todo) = Rows[p].lhs
    /\ read + Len(todo) + Len(Rows[p].rhs) <= study.length
    /\ todo' = Rows[p].rhs \o <<p>> \o Tail(todo)
    /\ UNCHANGED <<study, values, heap, made, read, drops, dumping, status>>

\* The items of a row: the values of its right-hand side, then the nodes it makes.
Named(row) ==
    SubSeq(values, Len(values) - Len(row.rhs) + 1, Len(values))
        \o [k \in DOMAIN row.makes |-> <<made + k>>]

\* What number i of a row stands for.
Value(named, i) ==
    IF i \in DOMAIN named THEN named[i]
    ELSE CASE i = None       -> <<>>
           [] i = NullItem   -> <<Null>>
           [] i = LastType   -> heap[Last(named[1])].members[1]
           [] i = TypeRefsOf -> FlattenSeq(
                [k \in DOMAIN heap[named[2][1]].members[1] |->
                    heap[heap[heap[named[2][1]].members[1][k]].members[1][1]].members[1]])

Joined(named, s) == FlattenSeq([k \in DOMAIN s |-> Value(named, s[k])])

\* The nodes a row makes.
Nodes(row, named) ==
    [x \in made + 1 .. made + Len(row.makes) |->
        LET mk == row.makes[x - made]
        IN  New(mk[1], [m \in DOMAIN mk[2] |-> Value(named, mk[2][m])])]

Grown(row, named, h) ==
    IF row.grow = <<>> THEN h
    ELSE Grow(h, named[row.grow[1]][1], row.grow[2], row.grow[3], named[row.grow[4]])

\* The semantic action of the production whose right-hand side is complete.
Reduce ==
    /\ Parsing /\ todo # <<>> /\ Head(todo) \in study.rows
    /\ LET row   == Rows[Head(todo)]
           named == Named(row)
       IN  /\ Head(todo) = "CaseBody" => named[1] # <<>>
           /\ heap' = Grown(row, named, NewAll(heap, Nodes(row, named)))
           /\ made' = made + Len(row.makes)
           /\ values' = Append(SubSeq(values, 1, Len(values) - Len(row.rhs)),
                               Joined(named, row.gives))
           /\ drops' = Joined(named, row.drops)
    /\ todo' = Tail(todo)
    /\ read' = read + 1
    /\ UNCHANGED <<study, dumping, status>>

\* case_body reads $1[0] of a vector that stmts left empty: every statement after
\* the case labels was a ';'.
EmptyCaseBody ==
    /\ Parsing /\ todo # <<>> /\ Head(todo) = "CaseBody" /\ Last(values) = <<>>
    /\ status' = "undefined"
    /\ UNCHANGED <<study, todo, values, heap, made, read, drops, dumping>>

\* A token that does not fit, or an exception in the scanner or an action: the
\* values on the stack are forgotten and the objects stay.
Reject ==
    /\ Parsing /\ todo # <<>>
    /\ status' = "rejected"
    /\ UNCHANGED <<study, todo, values, heap, made, read, drops, dumping>>

\* The DECLARE rules throw when the import file defines a variable or function.
Result == values[1][1]
Defining == /\ heap[Result].class = "Declarations"
            /\ heap[Result].members[1] # <<>> \/ heap[Result].members[2] # <<>>
Finish ==
    /\ Parsing /\ todo = <<>>
    /\ status' = IF Defining THEN "rejected" ELSE "accepted"
    /\ UNCHANGED <<study, todo, values, heap, made, read, drops, dumping>>
-----------------------------------------------------------------------------
\* dec_ref on the next object; if it was the last reference the destructor goes
\* on with the members.
DropNext ==
    /\ drops # <<>> /\ status # "undefined"
    /\ LET x == Head(drops)
       IN  IF x = Null THEN heap' = heap /\ drops' = Tail(drops) /\ UNCHANGED status
           ELSE IF x \notin DOMAIN heap
           THEN status' = "undefined" /\ UNCHANGED <<heap, drops>>
           ELSE /\ heap' = DecRef(heap, x)
                /\ drops' = (IF heap[x].refs = 1
                             THEN Pointers(heap[x], Released(heap[x].class))
                             ELSE <<>>) \o Tail(drops)
                /\ UNCHANGED status
    /\ UNCHANGED <<study, todo, values, made, read, dumping>>

\* main dumps the AST when asked to.
Dump ==
    /\ status = "accepted" /\ heap[Result].class = "AST"
    /\ dumping' = <<Result>>
    /\ status' = "dumping"
    /\ UNCHANGED <<study, todo, values, heap, made, read, drops>>

\* dump() of the next object; a null pointer in a vector is dumped like any other.
DumpNext ==
    /\ status = "dumping" /\ dumping # <<>>
    /\ LET x == Head(dumping)
       IN  IF x \in DOMAIN heap
           THEN /\ dumping' = Pointers(heap[x], Dumped(heap[x].class)) \o Tail(dumping)
                /\ UNCHANGED status
           ELSE status' = "undefined" /\ UNCHANGED dumping
    /\ UNCHANGED <<study, todo, values, heap, made, read, drops>>

\* main, after the dump if there was one, or ~Loader drops the result.
DropResult ==
    /\ status = "accepted" \/ (status = "dumping" /\ dumping = <<>>)
    /\ status' = "dropping"
    /\ drops' = values[1]
    /\ values' = <<>>
    /\ UNCHANGED <<study, todo, heap, made, read, dumping>>

Dropped ==
    /\ status = "dropping" /\ drops = <<>>
    /\ status' = "dropped"
    /\ UNCHANGED <<study, todo, values, heap, made, read, drops, dumping>>

\* The program is done with the file.
Ended == status \in {"dropped", "rejected", "undefined"} /\ UNCHANGED vars

Next ==
    \/ \E p \in study.rows : Expect(p)
    \/ Reduce \/ EmptyCaseBody \/ Reject \/ Finish
    \/ DropNext \/ Dump \/ DumpNext \/ DropResult \/ Dropped \/ Ended

Spec == Init /\ [][Next]_vars
-----------------------------------------------------------------------------
TypeOK ==
    /\ study \in Studies
    /\ todo \in Seq(DOMAIN Rows \cup Symbols)
    /\ \A i \in DOMAIN values : values[i] \in Seq(0 .. made)
    /\ DOMAIN heap \subseteq 1 .. made
    /\ \A x \in DOMAIN heap :
        /\ heap[x].class \in DOMAIN Modes
        /\ DOMAIN heap[x].members = DOMAIN Modes[heap[x].class]
        /\ heap[x].refs \in Nat \ {0}
    /\ read \in 0 .. study.length
    /\ drops \in Seq(0 .. made)
    /\ dumping \in Seq(0 .. made)
    /\ status \in Statuses

\* The pointers an object is answerable for: those its destructor gives back.
Owned(x) == Pointers(heap[x], Released(heap[x].class))

\* How often x is held: by members of other objects, on the parser's stack, and
\* by dec_ref calls that are still to come.
Holds(x) == Cardinality(PointersTo(x, heap, Released))
                + Cardinality(Spots(x, values, DOMAIN values)) + Times(x, drops)

\* Constructors, semantic actions and destructors agree: between any two dec_ref
\* calls, the count of every object is the number of its holders.
CountsExact == \A x \in DOMAIN heap : heap[x].refs = Holds(x)

\* No pointer that will be given back, by a destructor or by an action, points to
\* a deleted object.
Live(s) == \A i \in DOMAIN s : s[i] = Null \/ s[i] \in DOMAIN heap
OwnedPointersLive ==
    /\ \A x \in DOMAIN heap : Live(Owned(x))
    /\ \A i \in DOMAIN values : Live(values[i])
    /\ Live(drops)

\* Every object on the parser's stack has one reference, which is what the actions
\* rely on when they hand a value on without counting, and what the assertions of
\* expr, postfix, fixed_params and fixed_param_typerefs say.
StackUnshared ==
    Parsing => \A i \in DOMAIN values : \A k \in DOMAIN values[i] :
                    values[i][k] # Null => heap[values[i][k]].refs = 1

\* Dropping the result of a parse that was accepted deletes all that it made.
AllDeleted == status = "dropped" => DOMAIN heap = {}

\* No dec_ref uses a null or deleted object, and nothing else does but for a clause of
\* case labels with only ';' after them, whose first statement is read, and the dump,
\* where it comes to the body of a for statement, which is deleted, or to a default label
\* after a case label, which is null (node.cc:848, parser.y:750, parser.y:759).
OnlyKnownFaults ==
    status = "undefined" =>
        /\ drops = <<>>
        /\ \/ todo # <<>> /\ Head(todo) = "CaseBody" /\ Last(values) = <<>>
           \/ /\ dumping # <<>> /\ Head(dumping) \notin DOMAIN heap
              /\ \E x \in DOMAIN heap :
                    LET k == IF Head(dumping) = Null THEN 1 ELSE 4
                    IN  /\ heap[x].class = (IF Head(dumping) = Null THEN "Case" ELSE "For")
                        /\ Contains(heap[x].members[k], Head(dumping))

\* object.h:8 "when the object is passed as a parameter, inc_ref() should be
\* called": no member of any object points to a deleted one.
PointerMembersLive ==
    \A x \in DOMAIN heap : \A k \in DOMAIN heap[x].members : Live(heap[x].members[k])
=============================================================================
