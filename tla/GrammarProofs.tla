----------------------------- MODULE GrammarProofs -----------------------------
(***************************************************************************)
(* What every production of Grammar keeps to, whatever is parsed: each     *)
(* value it finds or makes is used up exactly once, and what it makes or   *)
(* grows has the shape that later actions read.                            *)
(***************************************************************************)
EXTENDS Grammar, SequenceTheorems, TLAPS

\* Tables none of whose keys is in two of them, as the number of its table shows.
Numbered(tables, number) ==
    \A i \in DOMAIN tables : \A c \in DOMAIN tables[i] : number[c] = i
LookedUp(f, tables) ==
    /\ DOMAIN f = UNION {DOMAIN tables[i] : i \in DOMAIN tables}
    /\ \A i \in DOMAIN tables : \A c \in DOMAIN tables[i] : f[c] = tables[i][c]

\* Tables whose keys are numbered apart are looked up by table.
LEMMA Lookup ==
    ASSUME NEW tables, NEW number, Numbered(tables, number)
    PROVE  LookedUp(Together(tables), tables)
<1>1. DOMAIN Together(tables) = UNION {DOMAIN tables[i] : i \in DOMAIN tables}
  BY DEF Together
<1>2. ASSUME NEW i \in DOMAIN tables, NEW c \in DOMAIN tables[i]
      PROVE  Together(tables)[c] = tables[i][c]
  <2> DEFINE j == CHOOSE j \in DOMAIN tables : c \in DOMAIN tables[j]
  <2>1. j \in DOMAIN tables /\ c \in DOMAIN tables[j]
    BY <1>2
  <2>2. j = i
    BY <1>2, <2>1 DEF Numbered
  <2>3. Together(tables)[c] = tables[j][c]
    BY <1>2 DEF Together
  <2>4. QED  BY <2>2, <2>3
<1>3. QED  BY <1>1, <1>2 DEF LookedUp

\* The members of every class, and what its constructor does with each.
LEMMA ModesAre ==
    /\ DOMAIN Modes = {"TypeNode", "IntegerLiteral", "StringLiteral", "Variable", "Unary", "Aref",
        "Slot", "Member", "Funcall", "SizeofExpr", "SizeofType", "Deref", "Cast", "Binary",
        "Cond", "Assign", "Break", "Return", "Block", "ExprStmt", "Label", "Case",
        "Switch", "For", "DoWhile", "While", "If", "Composite", "Typedef", "Constant",
        "DefinedVariable", "Params", "DefinedFunction", "UndefinedFunction",
        "NamedTypeRef", "WrapTypeRef", "ParamTypeRefs", "CopiedTypeRefs",
        "FunctionTypeRef", "AST", "Declarations"}
    /\ Modes["TypeNode"] = <<"count">>
    /\ Modes["IntegerLiteral"] = <<"take">>
    /\ Modes["StringLiteral"] = <<"take">>
    /\ Modes["Variable"] = <<>>
    /\ Modes["Unary"] = <<"count">>
    /\ Modes["Aref"] = <<"count", "count">>
    /\ Modes["Slot"] = <<"count">>
    /\ Modes["Member"] = <<"count">>
    /\ Modes["Funcall"] = <<"count", "take">>
    /\ Modes["SizeofExpr"] = <<"count", "take">>
    /\ Modes["SizeofType"] = <<"count", "take">>
    /\ Modes["Deref"] = <<"count">>
    /\ Modes["Cast"] = <<"count", "count">>
    /\ Modes["Binary"] = <<"count", "count">>
    /\ Modes["Cond"] = <<"count", "count", "count">>
    /\ Modes["Assign"] = <<"count", "count">>
    /\ Modes["Break"] = <<>>
    /\ Modes["Return"] = <<"count">>
    /\ Modes["Block"] = <<"take", "take">>
    /\ Modes["ExprStmt"] = <<"count">>
    /\ Modes["Label"] = <<"count">>
    /\ Modes["Case"] = <<"take", "count">>
    /\ Modes["Switch"] = <<"count", "take">>
    /\ Modes["For"] = <<"take", "count", "take", "look">>
    /\ Modes["DoWhile"] = <<"count", "count">>
    /\ Modes["While"] = <<"count", "count">>
    /\ Modes["If"] = <<"count", "count", "count">>
    /\ Modes["Composite"] = <<"take", "take">>
    /\ Modes["Typedef"] = <<"take", "take">>
    /\ Modes["Constant"] = <<"count", "count">>
    /\ Modes["DefinedVariable"] = <<"count", "count">>
    /\ Modes["Params"] = <<"take">>
    /\ Modes["DefinedFunction"] = <<"count", "count", "count">>
    /\ Modes["UndefinedFunction"] = <<"count", "count">>
    /\ Modes["NamedTypeRef"] = <<>>
    /\ Modes["WrapTypeRef"] = <<"count">>
    /\ Modes["ParamTypeRefs"] = <<"take">>
    /\ Modes["CopiedTypeRefs"] = <<"count">>
    /\ Modes["FunctionTypeRef"] = <<"count", "count">>
    /\ Modes["AST"] = <<"count">>
    /\ Modes["Declarations"] = <<"take", "take", "take">>
<1> DEFINE T == <<LeafNodes, PostfixNodes, CallNodes, PrefixNodes, OperatorNodes, StmtNodes,
              SwitchNodes, LoopNodes, TypeDefNodes, EntityNodes, TypeRefNodes, UnitNodes>>
           number == [TypeNode |-> 1, IntegerLiteral |-> 1, StringLiteral |-> 1, Variable |-> 1,
              Unary |-> 2, Aref |-> 2, Slot |-> 2, Member |-> 2, Funcall |-> 3, SizeofExpr
              |-> 4, SizeofType |-> 4, Deref |-> 4, Cast |-> 4, Binary |-> 5, Cond |-> 5,
              Assign |-> 5, Break |-> 6, Return |-> 6, Block |-> 6, ExprStmt |-> 6, Label
              |-> 6, Case |-> 7, Switch |-> 7, For |-> 8, DoWhile |-> 8, While |-> 8, If
              |-> 8, Composite |-> 9, Typedef |-> 9, Constant |-> 10, DefinedVariable |->
              10, Params |-> 10, DefinedFunction |-> 10, UndefinedFunction |-> 10,
              NamedTypeRef |-> 11, WrapTypeRef |-> 11, ParamTypeRefs |-> 11, CopiedTypeRefs
              |-> 11, FunctionTypeRef |-> 11, AST |-> 12, Declarations |-> 12]
<1>1. DOMAIN T = 1 .. 12 /\ T[1] = LeafNodes /\ T[2] = PostfixNodes /\ T[3] = CallNodes
          /\ T[4] = PrefixNodes
         /\ T[5] = OperatorNodes /\ T[6] = StmtNodes /\ T[7] = SwitchNodes /\ T[8] =
         LoopNodes /\ T[9] = TypeDefNodes /\ T[10] = EntityNodes /\ T[11] = TypeRefNodes /\
         T[12] = UnitNodes
  OBVIOUS
<1>2. Modes = Together(T)
  BY DEF Modes
<1> HIDE DEF T
<1>3. /\ DOMAIN LeafNodes = {"TypeNode", "IntegerLiteral", "StringLiteral", "Variable"}
      /\ \A c \in DOMAIN LeafNodes : number[c] = 1
  BY DEF LeafNodes
<1>4. /\ DOMAIN PostfixNodes = {"Unary", "Aref", "Slot", "Member"}
      /\ \A c \in DOMAIN PostfixNodes : number[c] = 2
  BY DEF PostfixNodes
<1>5. /\ DOMAIN CallNodes = {"Funcall"}
      /\ \A c \in DOMAIN CallNodes : number[c] = 3
  BY DEF CallNodes
<1>6. /\ DOMAIN PrefixNodes = {"SizeofExpr", "SizeofType", "Deref", "Cast"}
      /\ \A c \in DOMAIN PrefixNodes : number[c] = 4
  BY DEF PrefixNodes
<1>7. /\ DOMAIN OperatorNodes = {"Binary", "Cond", "Assign"}
      /\ \A c \in DOMAIN OperatorNodes : number[c] = 5
  BY DEF OperatorNodes
<1>8. /\ DOMAIN StmtNodes = {"Break", "Return", "Block", "ExprStmt", "Label"}
      /\ \A c \in DOMAIN StmtNodes : number[c] = 6
  BY DEF StmtNodes
<1>9. /\ DOMAIN SwitchNodes = {"Case", "Switch"}
      /\ \A c \in DOMAIN SwitchNodes : number[c] = 7
  BY DEF SwitchNodes
<1>10. /\ DOMAIN LoopNodes = {"For", "DoWhile", "While", "If"}
       /\ \A c \in DOMAIN LoopNodes : number[c] = 8
  BY DEF LoopNodes
<1>11. /\ DOMAIN TypeDefNodes = {"Composite", "Typedef"}
       /\ \A c \in DOMAIN TypeDefNodes : number[c] = 9
  BY DEF TypeDefNodes
<1>12. /\ DOMAIN EntityNodes = {"Constant", "DefinedVariable", "Params", "DefinedFunction",
              "UndefinedFunction"}
       /\ \A c \in DOMAIN EntityNodes : number[c] = 10
  BY DEF EntityNodes
<1>13. /\ DOMAIN TypeRefNodes = {"NamedTypeRef", "WrapTypeRef", "ParamTypeRefs", "CopiedTypeRefs",
        "FunctionTypeRef"}
       /\ \A c \in DOMAIN TypeRefNodes : number[c] = 11
  BY DEF TypeRefNodes
<1>14. /\ DOMAIN UnitNodes = {"AST", "Declarations"}
       /\ \A c \in DOMAIN UnitNodes : number[c] = 12
  BY DEF UnitNodes
<1> HIDE DEF number
<1>15. Numbered(T, number)
  BY <1>1, <1>3, <1>4, <1>5, <1>6, <1>7, <1>8, <1>9, <1>10, <1>11, <1>12, <1>13, <1>14 DEF Numbered
<1>16. /\ DOMAIN Modes = UNION {DOMAIN T[i] : i \in 1 .. 12}
       /\ \A i \in 1 .. 12 : \A c \in DOMAIN T[i] : Modes[c] = T[i][c]
  <2>1. LookedUp(Modes, T)
    BY <1>2, <1>15, Lookup
  <2>2. QED  BY <1>1, <2>1 DEF LookedUp
<1>17. DOMAIN Modes = {"TypeNode", "IntegerLiteral", "StringLiteral", "Variable", "Unary", "Aref",
        "Slot", "Member", "Funcall", "SizeofExpr", "SizeofType", "Deref", "Cast", "Binary",
        "Cond", "Assign", "Break", "Return", "Block", "ExprStmt", "Label", "Case",
        "Switch", "For", "DoWhile", "While", "If", "Composite", "Typedef", "Constant",
        "DefinedVariable", "Params", "DefinedFunction", "UndefinedFunction",
        "NamedTypeRef", "WrapTypeRef", "ParamTypeRefs", "CopiedTypeRefs",
        "FunctionTypeRef", "AST", "Declarations"}
  BY <1>1, <1>16, <1>3, <1>4, <1>5, <1>6, <1>7, <1>8, <1>9, <1>10, <1>11, <1>12, <1>13, <1>14
<1>18. \A c \in DOMAIN LeafNodes : Modes[c] = LeafNodes[c]
  BY <1>1, <1>16
<1>19. /\ Modes["TypeNode"] = <<"count">>
       /\ Modes["IntegerLiteral"] = <<"take">>
       /\ Modes["StringLiteral"] = <<"take">>
       /\ Modes["Variable"] = <<>>
  BY <1>18 DEF LeafNodes
<1>20. \A c \in DOMAIN PostfixNodes : Modes[c] = PostfixNodes[c]
  BY <1>1, <1>16
<1>21. /\ Modes["Unary"] = <<"count">>
       /\ Modes["Aref"] = <<"count", "count">>
       /\ Modes["Slot"] = <<"count">>
       /\ Modes["Member"] = <<"count">>
  BY <1>20 DEF PostfixNodes
<1>22. \A c \in DOMAIN CallNodes : Modes[c] = CallNodes[c]
  BY <1>1, <1>16
<1>23. Modes["Funcall"] = <<"count", "take">>
  BY <1>22 DEF CallNodes
<1>24. \A c \in DOMAIN PrefixNodes : Modes[c] = PrefixNodes[c]
  BY <1>1, <1>16
<1>25. /\ Modes["SizeofExpr"] = <<"count", "take">>
       /\ Modes["SizeofType"] = <<"count", "take">>
       /\ Modes["Deref"] = <<"count">>
       /\ Modes["Cast"] = <<"count", "count">>
  BY <1>24 DEF PrefixNodes
<1>26. \A c \in DOMAIN OperatorNodes : Modes[c] = OperatorNodes[c]
  BY <1>1, <1>16
<1>27. /\ Modes["Binary"] = <<"count", "count">>
       /\ Modes["Cond"] = <<"count", "count", "count">>
       /\ Modes["Assign"] = <<"count", "count">>
  BY <1>26 DEF OperatorNodes
<1>28. \A c \in DOMAIN StmtNodes : Modes[c] = StmtNodes[c]
  BY <1>1, <1>16
<1>29. /\ Modes["Break"] = <<>>
       /\ Modes["Return"] = <<"count">>
       /\ Modes["Block"] = <<"take", "take">>
       /\ Modes["ExprStmt"] = <<"count">>
       /\ Modes["Label"] = <<"count">>
  BY <1>28 DEF StmtNodes
<1>30. \A c \in DOMAIN SwitchNodes : Modes[c] = SwitchNodes[c]
  BY <1>1, <1>16
<1>31. /\ Modes["Case"] = <<"take", "count">>
       /\ Modes["Switch"] = <<"count", "take">>
  BY <1>30 DEF SwitchNodes
<1>32. \A c \in DOMAIN LoopNodes : Modes[c] = LoopNodes[c]
  BY <1>1, <1>16
<1>33. /\ Modes["For"] = <<"take", "count", "take", "look">>
       /\ Modes["DoWhile"] = <<"count", "count">>
       /\ Modes["While"] = <<"count", "count">>
       /\ Modes["If"] = <<"count", "count", "count">>
  BY <1>32 DEF LoopNodes
<1>34. \A c \in DOMAIN TypeDefNodes : Modes[c] = TypeDefNodes[c]
  BY <1>1, <1>16
<1>35. /\ Modes["Composite"] = <<"take", "take">>
       /\ Modes["Typedef"] = <<"take", "take">>
  BY <1>34 DEF TypeDefNodes
<1>36. \A c \in DOMAIN EntityNodes : Modes[c] = EntityNodes[c]
  BY <1>1, <1>16
<1>37. /\ Modes["Constant"] = <<"count", "count">>
       /\ Modes["DefinedVariable"] = <<"count", "count">>
       /\ Modes["Params"] = <<"take">>
       /\ Modes["DefinedFunction"] = <<"count", "count", "count">>
       /\ Modes["UndefinedFunction"] = <<"count", "count">>
  BY <1>36 DEF EntityNodes
<1>38. \A c \in DOMAIN TypeRefNodes : Modes[c] = TypeRefNodes[c]
  BY <1>1, <1>16
<1>39. /\ Modes["NamedTypeRef"] = <<>>
       /\ Modes["WrapTypeRef"] = <<"count">>
       /\ Modes["ParamTypeRefs"] = <<"take">>
       /\ Modes["CopiedTypeRefs"] = <<"count">>
       /\ Modes["FunctionTypeRef"] = <<"count", "count">>
  BY <1>38 DEF TypeRefNodes
<1>40. \A c \in DOMAIN UnitNodes : Modes[c] = UnitNodes[c]
  BY <1>1, <1>16
<1>41. /\ Modes["AST"] = <<"count">>
       /\ Modes["Declarations"] = <<"take", "take", "take">>
  BY <1>40 DEF UnitNodes
<1>42. QED  BY <1>17, <1>19, <1>21, <1>23, <1>25, <1>27, <1>29, <1>31, <1>33, <1>35, <1>37, <1>39, <1>41

\* The items of a row: the values of its right-hand side, then what it makes.
Items(row) == 1 .. Len(row.rhs) + Len(row.makes)

\* The ways w to use item i up: member b of the node made as number a takes it; the
\* object grown takes it; it is number a of what the row gives or drops.
Takes(row, a, b, i) ==
    /\ a \in DOMAIN row.makes /\ b \in DOMAIN row.makes[a][2] /\ row.makes[a][2][b] = i
    /\ Modes[row.makes[a][1]][b] = "take"
Grows(row, i) == row.grow # <<>> /\ row.grow[3] = "take" /\ row.grow[4] = i
Lists(s, a, i) == a \in DOMAIN s /\ s[a] = i
UsedUp(row, w, a, b, i) ==
    \/ w = 1 /\ Takes(row, a, b, i)
    \/ w = 2 /\ a = 0 /\ b = 0 /\ Grows(row, i)
    \/ w = 3 /\ b = 0 /\ Lists(row.gives, a, i)
    \/ w = 4 /\ b = 0 /\ Lists(row.drops, a, i)

\* Item i is used up in one way.
Once(row, i, w, a, b) ==
    /\ UsedUp(row, w, a, b, i)
    /\ \A w2, a2, b2 \in Nat : UsedUp(row, w2, a2, b2, i) => w2 = w /\ a2 = a /\ b2 = b
UsedOnce(row) == \A i \in Items(row) : \E w, a, b \in Nat : Once(row, i, w, a, b)

\* What is known of the class of an item: every value of some symbols is one object of
\* one class, every value of others is made of variables.
Single(symbol, class) ==
    \/ symbol \in {"top_defs", "declare"} /\ class = "Declarations"
    \/ symbol = "compile" /\ class = "AST"
    \/ symbol = "params" /\ class = "Params"
    \/ symbol = "param_typerefs" /\ class = "ParamTypeRefs"
Plural(symbol) == symbol \in {"def_vars", "param"}

Made(row, i, class) ==
    i \in Len(row.rhs) + 1 .. Len(row.rhs) + Len(row.makes)
        /\ row.makes[i - Len(row.rhs)][1] = class
Found(row, i, S) == i \in DOMAIN row.rhs /\ row.rhs[i] \in S
One(row, i, class) ==
    Made(row, i, class) \/ (i \in DOMAIN row.rhs /\ Single(row.rhs[i], class))

\* The parts of a row are of their kinds.
Formed(row) ==
    /\ row.lhs \in Symbols /\ row.rhs \in Seq(Symbols)
    /\ DOMAIN row.makes = 1 .. Len(row.makes) /\ Len(row.makes) \in Nat
    /\ Len(row.rhs) + Len(row.makes) < NullItem
    /\ row.gives \in Seq(Items(row) \cup {NullItem})
    /\ row.drops \in Seq(Items(row))

\* A node is made with an argument for every member, out of what is there before it;
\* what is not an item is counted, and is there to be read.
NodeMade(row, k) ==
    LET class == row.makes[k][1]
        args == row.makes[k][2]
    IN  /\ class \in DOMAIN Modes
        /\ DOMAIN args = DOMAIN Modes[class]
        /\ \A m \in DOMAIN args :
            \/ args[m] = None
            \/ /\ args[m] \in Items(row) /\ args[m] < Len(row.rhs) + k
               /\ Found(row, args[m], {"cases"}) => class = "Case" /\ m = 1
            \/ /\ args[m] = LastType /\ Modes[class][m] = "count"
               /\ Found(row, 1, {"def_vars"})
            \/ /\ args[m] = TypeRefsOf /\ Modes[class][m] = "count"
               /\ Found(row, 2, {"params"})
        /\ class = "Params" => args[1] = None \/ Found(row, args[1], {"param"})
        /\ class = "DefinedVariable" =>
            args[1] = LastType \/ Made(row, args[1], "TypeNode")
MakesSound(row) == \A k \in DOMAIN row.makes : NodeMade(row, k)

\* The object that is grown is given, and is not among those that are counted.
GrowSound(row) ==
    row.grow # <<>> =>
        /\ \E q \in DOMAIN row.gives : row.gives[q] = row.grow[1]
        /\ row.grow[3] \in {"take", "count"} /\ row.grow[4] \in DOMAIN row.rhs
        /\ row.rhs[row.grow[4]] # "cases"
        /\ \/ One(row, row.grow[1], "Declarations") /\ row.grow[2] \in 1 .. 3
           \/ /\ One(row, row.grow[1], "Params") /\ row.grow[2] = 1
              /\ row.rhs[row.grow[4]] = "param"
           \/ One(row, row.grow[1], "ParamTypeRefs") /\ row.grow[2] = 1

\* What is given is not counted.
GivesUncounted(row) ==
    \A q \in DOMAIN row.gives :
        /\ \A k \in DOMAIN row.makes : \A m \in DOMAIN row.makes[k][2] :
            row.makes[k][2][m] = row.gives[q] => Modes[row.makes[k][1]][m] # "count"
        /\ row.grow # <<>> /\ row.grow[3] = "count" => row.grow[4] # row.gives[q]

\* What is given is of the kind of the left-hand side.
GivesKind(row) ==
    /\ \A class \in DOMAIN Modes :
        Single(row.lhs, class) => Len(row.gives) = 1 /\ One(row, row.gives[1], class)
    /\ Plural(row.lhs) =>
        /\ row.gives # <<>>
        /\ \A q \in DOMAIN row.gives :
            \/ Found(row, row.gives[q], {"def_vars", "param"})
            \/ Made(row, row.gives[q], "DefinedVariable")
    /\ row.lhs # "cases" =>
        \A q \in DOMAIN row.gives :
            row.gives[q] # NullItem /\ ~Found(row, row.gives[q], {"cases"})

DropsSound(row) == \A q \in DOMAIN row.drops : ~Found(row, row.drops[q], {"cases"})

RowSound(row) ==
    /\ Formed(row)
    /\ UsedOnce(row)
    /\ MakesSound(row)
    /\ GrowSound(row)
    /\ GivesUncounted(row)
    /\ GivesKind(row)
    /\ DropsSound(row)

\* A production that hands its values on.
LEMMA PassSound ==
    ASSUME NEW lhs \in Symbols, NEW rhs \in Seq(Symbols), Len(rhs) < NullItem,
           \A class : Single(lhs, class) => Len(rhs) = 1 /\ Single(rhs[1], class),
           ~Plural(lhs), lhs # "cases" => \A i \in DOMAIN rhs : rhs[i] # "cases"
    PROVE  RowSound(Pass(lhs, rhs))
<1> DEFINE row == Pass(lhs, rhs)
           n == Len(rhs)
           id == [i \in 1 .. n |-> i]
<1>1. /\ row.lhs = lhs /\ row.rhs = rhs /\ row.makes = <<>> /\ row.grow = <<>>
      /\ row.gives = [i \in DOMAIN rhs |-> i] /\ row.drops = <<>>
  BY DEF Pass, Row
<1>2. n \in Nat /\ DOMAIN rhs = 1 .. n
  BY LenProperties
<1>3. row.gives = id
  BY <1>1, <1>2
<1>4. id \in Seq(1 .. n \cup {NullItem}) /\ Len(id) = n /\ DOMAIN id = 1 .. n
          /\ \A i \in 1 .. n : id[i] = i
  <2> HIDE DEF n
  <2>1. id \in [1 .. n -> 1 .. n \cup {NullItem}]
    OBVIOUS
  <2>2. QED  BY <1>2, <2>1
<1> DEFINE none == <<>>
<1>5. Len(none) = 0 /\ DOMAIN none = {} /\ none \in Seq(1 .. n)
  OBVIOUS
<1>6. row.makes = none /\ row.grow = none /\ row.drops = none
  BY <1>1
<1> HIDE DEF row, n, id, none
<1>7. Items(row) = 1 .. n /\ Len(row.rhs) = n /\ Len(row.makes) = 0
  BY <1>1, <1>2, <1>5, <1>6 DEF Items, n
<1>8. Formed(row)
  <2>1. DOMAIN row.makes = 1 .. Len(row.makes) /\ Len(row.makes) \in Nat
    BY <1>5, <1>6
  <2>2. Len(row.rhs) + Len(row.makes) < NullItem
    BY <1>2, <1>7 DEF n
  <2>3. QED  BY <1>1, <1>3, <1>4, <1>5, <1>6, <1>7, <2>1, <2>2 DEF Formed
<1>9. UsedOnce(row)
  <2>1. ASSUME NEW i \in 1 .. n PROVE Once(row, i, 3, i, 0)
    BY <1>3, <1>4, <1>5, <1>6 DEF Once, UsedUp, Lists, Takes, Grows, none
  <2>2. QED  BY <1>2, <1>7, <2>1 DEF UsedOnce
<1>10. MakesSound(row) /\ GivesUncounted(row) /\ DropsSound(row) /\ GrowSound(row)
  BY <1>5, <1>6 DEF MakesSound, NodeMade, GivesUncounted, DropsSound, GrowSound, none
<1>11. GivesKind(row)
  <2>1. ASSUME NEW class \in DOMAIN Modes, Single(lhs, class)
        PROVE  Len(row.gives) = 1 /\ One(row, row.gives[1], class)
    <3>1. n = 1 /\ Single(rhs[1], class)
      BY <2>1 DEF n
    <3>2. Len(row.gives) = 1 /\ row.gives[1] = 1
      BY <1>3, <1>4, <3>1
    <3>3. QED  BY <1>1, <1>2, <3>1, <3>2 DEF One
  <2>2. ASSUME lhs # "cases", NEW q \in DOMAIN row.gives
        PROVE  row.gives[q] # NullItem /\ ~Found(row, row.gives[q], {"cases"})
    <3>1. q \in 1 .. n /\ row.gives[q] = q /\ rhs[q] # "cases"
      BY <1>2, <1>3, <1>4, <2>2
    <3>2. q # NullItem
      BY <1>2, <3>1 DEF n, NullItem
    <3>3. QED  BY <1>1, <3>1, <3>2 DEF Found
  <2>3. QED  BY <1>1, <2>1, <2>2 DEF GivesKind
<1>12. RowSound(row)
  BY <1>8, <1>9, <1>10, <1>11 DEF RowSound
<1>13. QED  BY <1>12 DEF row

\* A production that makes a node of all its values, which the node counts.
LEMMA NodeSound ==
    ASSUME NEW lhs \in Symbols, NEW rhs \in Seq(Symbols), Len(rhs) < 100,
           NEW class \in DOMAIN Modes, DOMAIN Modes[class] = 1 .. Len(rhs),
           \A m \in 1 .. Len(rhs) : Modes[class][m] = "count",
           class \notin {"Params", "DefinedVariable"},
           \A c : Single(lhs, c) => c = class, ~Plural(lhs),
           \A i \in DOMAIN rhs : rhs[i] # "cases"
    PROVE  RowSound(Node(lhs, rhs, class))
<1> DEFINE row == Node(lhs, rhs, class)
           n == Len(rhs)
           id == [i \in 1 .. n |-> i]
           one == << <<class, id>> >>
           last == <<n + 1>>
           none == <<>>
<1>1. /\ row.lhs = lhs /\ row.rhs = rhs /\ row.makes = one /\ row.grow = none
      /\ row.gives = last /\ row.drops = id
  BY DEF Node, Row
<1>2. n \in Nat /\ DOMAIN rhs = 1 .. n /\ n < 100
  BY LenProperties
<1>3. id \in Seq(1 .. n + 1) /\ Len(id) = n /\ DOMAIN id = 1 .. n /\ \A i \in 1 .. n : id[i] = i
  <2> HIDE DEF n
  <2>1. id \in [1 .. n -> 1 .. n + 1]
    BY <1>2
  <2>2. QED  BY <1>2, <2>1
<1> HIDE DEF row, n, id
<1>4. Len(one) = 1 /\ DOMAIN one = {1} /\ one[1][1] = class /\ one[1][2] = id
  OBVIOUS
<1>5. Len(last) = 1 /\ DOMAIN last = {1} /\ last[1] = n + 1 /\ last \in Seq(1 .. n + 1 \cup {NullItem})
  BY <1>2
<1> HIDE DEF one, last, none
<1>6. Items(row) = 1 .. n + 1 /\ Len(row.rhs) = n /\ Len(row.makes) = 1
  BY <1>1, <1>4 DEF Items, n
<1>7. Formed(row)
  <2>1. DOMAIN row.makes = 1 .. Len(row.makes) /\ Len(row.makes) \in Nat
    BY <1>1, <1>4
  <2>2. Len(row.rhs) + Len(row.makes) < NullItem
    BY <1>2, <1>6 DEF NullItem
  <2>3. QED  BY <1>1, <1>3, <1>5, <1>6, <2>1, <2>2 DEF Formed
<1>8. \A a, b, i : ~Takes(row, a, b, i)
  <2>1. ASSUME NEW a, NEW b, NEW i PROVE ~Takes(row, a, b, i)
    <3> SUFFICES ASSUME Takes(row, a, b, i) PROVE FALSE
      OBVIOUS
    <3>1. /\ a \in DOMAIN row.makes /\ b \in DOMAIN row.makes[a][2]
          /\ Modes[row.makes[a][1]][b] = "take"
      BY Zenon DEF Takes
    <3>2. a = 1
      BY <1>1, <1>4, <3>1
    <3>3. row.makes[a][1] = class /\ row.makes[a][2] = id
      BY <1>1, <1>4, <3>2
    <3>4. b \in 1 .. n /\ Modes[class][b] = "take"
      BY <1>3, <3>1, <3>3
    <3>5. Modes[class][b] = "count"
      BY <3>4 DEF n
    <3>6. QED  BY <3>4, <3>5
  <2>2. QED  BY <2>1
<1>9. \A i : ~Grows(row, i)
  BY <1>1 DEF Grows, none
<1>10. UsedOnce(row)
  <2>1. ASSUME NEW i \in 1 .. n PROVE Once(row, i, 4, i, 0)
    BY <1>1, <1>2, <1>3, <1>5, <1>8, <1>9 DEF Once, UsedUp, Lists
  <2>2. Once(row, n + 1, 3, 1, 0)
    BY <1>1, <1>2, <1>3, <1>5, <1>8, <1>9 DEF Once, UsedUp, Lists
  <2>3. \A i \in 1 .. n + 1 : i \in 1 .. n \/ i = n + 1
    BY <1>2
  <2>4. QED  BY <1>2, <1>6, <2>1, <2>2, <2>3 DEF UsedOnce
<1>11. MakesSound(row)
  <2>1. ASSUME NEW m \in DOMAIN id
        PROVE  /\ id[m] \in Items(row) /\ id[m] < Len(row.rhs) + 1
               /\ ~Found(row, id[m], {"cases"})
    BY <1>1, <1>2, <1>3, <1>6 DEF Found
  <2>2. QED  BY <1>1, <1>3, <1>4, <2>1 DEF MakesSound, NodeMade, n
<1>12. GivesUncounted(row)
  <2>1. \A m \in DOMAIN id : id[m] # n + 1
    BY <1>2, <1>3
  <2>2. QED  BY <1>1, <1>4, <1>5, <2>1 DEF GivesUncounted, none
<1>13. GrowSound(row) /\ DropsSound(row)
  BY <1>1, <1>3 DEF GrowSound, DropsSound, Found, none
<1>14. GivesKind(row)
  <2>1. Made(row, n + 1, class)
    BY <1>1, <1>2, <1>4, <1>6 DEF Made
  <2>2. n + 1 # NullItem /\ ~Found(row, n + 1, {"cases"})
    BY <1>1, <1>2 DEF Found, NullItem
  <2>3. QED  BY <1>1, <1>5, <2>1, <2>2 DEF GivesKind, One
<1>15. RowSound(row)
  BY <1>7, <1>10, <1>11, <1>12, <1>13, <1>14 DEF RowSound
<1>16. QED  BY <1>15 DEF row

\* The first definition of a file, and what becomes of its value.
LEMMA FirstDefSound ==
    ASSUME NEW symbol \in Symbols \ {"cases"}, NEW member \in 1 .. 3, NEW mode, NEW drops,
           (mode = "take" /\ drops = <<>>) \/ (mode = "count" /\ drops = << 1 >>)
    PROVE  RowSound(FirstDef(symbol, member, mode, drops))
<1> DEFINE r == FirstDef(symbol, member, mode, drops)
<1>1. /\ r.lhs = "top_defs" /\ r.rhs = <<symbol>> /\ r.makes = << <<"Declarations", <<0, 0, 0>> >> >>
      /\ r.grow = <<2, member, mode, 1>> /\ r.gives = <<2>> /\ r.drops = drops
  BY DEF FirstDef, Growing, Row, None
<1> HIDE DEF r
<1>2. Modes["Declarations"] = <<"take", "take", "take">> /\ "Declarations" \in DOMAIN Modes
  BY ModesAre
<1>3. /\ DOMAIN r.makes = {1} /\ r.makes[1][1] = "Declarations" /\ r.makes[1][2] = <<0, 0, 0>>
      /\ Items(r) = 1 .. 2 /\ Len(r.rhs) = 1 /\ Len(r.makes) = 1 /\ DOMAIN r.rhs = {1}
  BY <1>1 DEF Items
<1>4. drops = <<>> \/ drops = <<1>>
  OBVIOUS
<1>5. Formed(r)
  <2>1. r.lhs \in Symbols /\ r.rhs \in Seq(Symbols)
    BY <1>1 DEF Symbols
  <2>2. r.gives \in Seq(1 .. 2 \cup {NullItem}) /\ r.drops \in Seq(1 .. 2) /\ 2 < NullItem
    <3>1. r.gives \in Seq(1 .. 2 \cup {NullItem}) /\ 2 < NullItem
      BY <1>1 DEF NullItem
    <3>2. CASE drops = <<>>
      BY <1>1, <3>1, <3>2
    <3>3. CASE drops = <<1>>
      BY <1>1, <3>1, <3>3
    <3>4. QED  BY <1>4, <3>2, <3>3
  <2>3. QED  BY <1>3, <2>1, <2>2 DEF Formed
<1>6. \A a, b, i : i # 0 => ~Takes(r, a, b, i)
  BY <1>3 DEF Takes
<1>7. UsedOnce(r)
  <2>1. CASE mode = "take" /\ drops = <<>>
    <3>1. Once(r, 1, 2, 0, 0) /\ Once(r, 2, 3, 1, 0)
      BY <1>1, <1>6, <2>1 DEF Once, UsedUp, Lists, Grows
    <3>2. QED  BY <1>3, <3>1 DEF UsedOnce
  <2>2. CASE mode = "count" /\ drops = <<1>>
    <3>1. Once(r, 1, 4, 1, 0) /\ Once(r, 2, 3, 1, 0)
      BY <1>1, <1>6, <2>2 DEF Once, UsedUp, Lists, Grows
    <3>2. QED  BY <1>3, <3>1 DEF UsedOnce
  <2>3. QED  BY <2>1, <2>2
<1>8. MakesSound(r)
  BY <1>2, <1>3 DEF MakesSound, NodeMade, None
<1>9. One(r, 2, "Declarations")
  BY <1>3 DEF One, Made
<1>10. GrowSound(r)
  BY <1>1, <1>3, <1>9 DEF GrowSound
<1>11. GivesUncounted(r)
  BY <1>1, <1>3 DEF GivesUncounted
<1>12. GivesKind(r)
  <2>1. ~Plural(r.lhs) /\ \A class : Single(r.lhs, class) => class = "Declarations"
    BY <1>1 DEF Plural, Single
  <2>2. Len(r.gives) = 1 /\ DOMAIN r.gives = {1} /\ r.gives[1] = 2
    BY <1>1
  <2>3. 2 # NullItem /\ ~Found(r, 2, {"cases"})
    BY <1>3 DEF Found, NullItem
  <2>4. QED  BY <1>9, <2>1, <2>2, <2>3 DEF GivesKind
<1>13. DropsSound(r)
  BY <1>1, <1>4 DEF DropsSound, Found
<1>14. QED  BY <1>5, <1>7, <1>8, <1>10, <1>11, <1>12, <1>13 DEF RowSound, r

\* The TopDefs row that adds a declaration to those before it is sound.
LEMMA NextDefSound ==
    ASSUME NEW symbol \in Symbols \ {"cases"}, NEW member \in 1 .. 3, NEW mode, NEW drops,
           (mode = "take" /\ drops = <<>>) \/ (mode = "count" /\ drops = << 2 >>)
    PROVE  RowSound(NextDef(symbol, member, mode, drops))
<1> DEFINE r == NextDef(symbol, member, mode, drops)
<1>1. /\ r.lhs = "top_defs" /\ r.rhs = <<"top_defs", symbol>> /\ r.makes = <<>>
      /\ r.grow = <<1, member, mode, 2>> /\ r.gives = <<1>> /\ r.drops = drops
  BY DEF NextDef, Growing, Row
<1> HIDE DEF r
<1>2. /\ DOMAIN r.makes = {} /\ Items(r) = 1 .. 2 /\ Len(r.rhs) = 2 /\ Len(r.makes) = 0
      /\ DOMAIN r.rhs = 1 .. 2 /\ r.rhs[1] = "top_defs" /\ r.rhs[2] = symbol
  BY <1>1 DEF Items
<1>3. drops = <<>> \/ drops = <<2>>
  OBVIOUS
<1>4. Formed(r)
  <2>1. r.lhs \in Symbols /\ r.rhs \in Seq(Symbols)
    BY <1>1 DEF Symbols
  <2>2. r.gives \in Seq(1 .. 2 \cup {NullItem}) /\ r.drops \in Seq(1 .. 2) /\ 2 < NullItem
    <3>1. r.gives \in Seq(1 .. 2 \cup {NullItem}) /\ 2 < NullItem
      BY <1>1 DEF NullItem
    <3>2. CASE drops = <<>>
      BY <1>1, <3>1, <3>2
    <3>3. CASE drops = <<2>>
      BY <1>1, <3>1, <3>3
    <3>4. QED  BY <1>3, <3>2, <3>3
  <2>3. DOMAIN r.makes = 1 .. 0 /\ 2 + 0 = 2
    BY <1>2
  <2>4. QED  BY <1>2, <2>1, <2>2, <2>3 DEF Formed
<1>5. \A a, b, i : ~Takes(r, a, b, i)
  BY <1>2 DEF Takes
<1>6. UsedOnce(r)
  <2>1. CASE mode = "take" /\ drops = <<>>
    <3>1. Once(r, 2, 2, 0, 0) /\ Once(r, 1, 3, 1, 0)
      BY <1>1, <1>5, <2>1 DEF Once, UsedUp, Lists, Grows
    <3>2. QED  BY <1>2, <3>1 DEF UsedOnce
  <2>2. CASE mode = "count" /\ drops = <<2>>
    <3>1. Once(r, 2, 4, 1, 0) /\ Once(r, 1, 3, 1, 0)
      BY <1>1, <1>5, <2>2 DEF Once, UsedUp, Lists, Grows
    <3>2. QED  BY <1>2, <3>1 DEF UsedOnce
  <2>3. QED  BY <2>1, <2>2
<1>7. MakesSound(r)
  BY <1>2 DEF MakesSound, NodeMade
<1>8. One(r, 1, "Declarations")
  BY <1>2 DEF One, Single
<1>9. GrowSound(r)
  BY <1>1, <1>2, <1>8 DEF GrowSound
<1>10. GivesUncounted(r)
  BY <1>1, <1>2 DEF GivesUncounted
<1>11. GivesKind(r)
  <2>1. ~Plural(r.lhs) /\ \A class : Single(r.lhs, class) => class = "Declarations"
    BY <1>1 DEF Plural, Single
  <2>2. Len(r.gives) = 1 /\ DOMAIN r.gives = {1} /\ r.gives[1] = 1
    BY <1>1
  <2>3. 1 # NullItem /\ ~Found(r, 1, {"cases"})
    BY <1>2 DEF Found, NullItem
  <2>4. QED  BY <1>8, <2>1, <2>2, <2>3 DEF GivesKind
<1>12. DropsSound(r)
  BY <1>1, <1>2, <1>3 DEF DropsSound, Found
<1>13. QED  BY <1>4, <1>6, <1>7, <1>9, <1>10, <1>11, <1>12 DEF RowSound, r

\* The symbols of which nothing is known but that they hold objects.
Plain == Symbols \ {"top_defs", "declare", "compile", "params", "param_typerefs",
                    "def_vars", "param"}

\* Passing on nothing is sound for a plain symbol.
LEMMA PlainPass0 == \A lhs \in Plain : RowSound(Pass(lhs, <<>>))
<1> TAKE lhs \in Plain
<1> DEFINE rhs == <<>>
<1>1. rhs \in Seq(Symbols) /\ Len(rhs) = 0 /\ DOMAIN rhs = {}
  OBVIOUS
<1>2. lhs \in Symbols /\ ~Plural(lhs) /\ \A class : ~Single(lhs, class)
  BY DEF Plain, Plural, Single
<1> HIDE DEF rhs
<1>3. /\ Len(rhs) < NullItem
      /\ \A class : Single(lhs, class) => Len(rhs) = 1 /\ Single(rhs[1], class)
      /\ lhs # "cases" => \A i \in DOMAIN rhs : rhs[i] # "cases"
  BY <1>1, <1>2 DEF NullItem
<1>4. RowSound(Pass(lhs, rhs))
  BY <1>1, <1>2, <1>3, PassSound
<1>5. QED  BY <1>4 DEF rhs

\* Passing on one value is sound for a plain symbol; only cases pass on cases.
LEMMA PlainPass1 ==
    \A lhs \in Plain, a \in Symbols :
        (a = "cases" => lhs = "cases") => RowSound(Pass(lhs, <<a>>))
<1> TAKE lhs \in Plain, a \in Symbols
<1> HAVE a = "cases" => lhs = "cases"
<1> DEFINE rhs == <<a>>
<1>1. rhs \in Seq(Symbols) /\ Len(rhs) = 1 /\ DOMAIN rhs = {1} /\ rhs[1] = a
  OBVIOUS
<1>2. lhs \in Symbols /\ ~Plural(lhs) /\ \A class : ~Single(lhs, class)
  BY DEF Plain, Plural, Single
<1> HIDE DEF rhs
<1>3. /\ Len(rhs) < NullItem
      /\ \A class : Single(lhs, class) => Len(rhs) = 1 /\ Single(rhs[1], class)
      /\ lhs # "cases" => \A i \in DOMAIN rhs : rhs[i] # "cases"
  BY <1>1, <1>2 DEF NullItem
<1>4. RowSound(Pass(lhs, rhs))
  BY <1>1, <1>2, <1>3, PassSound
<1>5. QED  BY <1>4 DEF rhs

\* Passing on two values is sound for a plain symbol; only cases pass on cases.
LEMMA PlainPass2 ==
    \A lhs \in Plain, a, b \in Symbols :
        ("cases" \in {a, b} => lhs = "cases") => RowSound(Pass(lhs, <<a, b>>))
<1> TAKE lhs \in Plain, a \in Symbols, b \in Symbols
<1> HAVE "cases" \in {a, b} => lhs = "cases"
<1> DEFINE rhs == <<a, b>>
<1>1. rhs \in Seq(Symbols) /\ Len(rhs) = 2 /\ DOMAIN rhs = {1, 2} /\ rhs[1] = a /\ rhs[2] = b
  OBVIOUS
<1>2. lhs \in Symbols /\ ~Plural(lhs) /\ \A class : ~Single(lhs, class)
  BY DEF Plain, Plural, Single
<1> HIDE DEF rhs
<1>3. /\ Len(rhs) < NullItem
      /\ \A class : Single(lhs, class) => Len(rhs) = 1 /\ Single(rhs[1], class)
      /\ lhs # "cases" => \A i \in DOMAIN rhs : rhs[i] # "cases"
  BY <1>1, <1>2 DEF NullItem
<1>4. RowSound(Pass(lhs, rhs))
  BY <1>1, <1>2, <1>3, PassSound
<1>5. QED  BY <1>4 DEF rhs

\* The classes of which nothing is known either.

Filled == DOMAIN Modes \ {"Params", "DefinedVariable"}

\* Making a node of no values is sound for a plain symbol.
LEMMA PlainNode0 ==
    \A lhs \in Plain, class \in Filled :
        Modes[class] = <<>> => RowSound(Node(lhs, <<>>, class))
<1> TAKE lhs \in Plain, class \in Filled
<1> HAVE Modes[class] = <<>>
<1> DEFINE rhs == <<>>
<1>1. rhs \in Seq(Symbols) /\ Len(rhs) = 0 /\ DOMAIN rhs = {}
  OBVIOUS
<1>2. lhs \in Symbols /\ ~Plural(lhs) /\ \A c : ~Single(lhs, c)
  BY DEF Plain, Plural, Single
<1>3. DOMAIN Modes[class] = {}
  OBVIOUS
<1> HIDE DEF rhs
<1>4. /\ Len(rhs) < 100 /\ class \in DOMAIN Modes /\ DOMAIN Modes[class] = 1 .. Len(rhs)
      /\ \A m \in 1 .. Len(rhs) : Modes[class][m] = "count"
      /\ class \notin {"Params", "DefinedVariable"} /\ \A d : Single(lhs, d) => d = class
      /\ \A i \in DOMAIN rhs : rhs[i] # "cases"
  BY <1>1, <1>2, <1>3 DEF Filled
<1>5. RowSound(Node(lhs, rhs, class))
  BY <1>1, <1>2, <1>4, NodeSound
<1>6. QED  BY <1>5 DEF rhs

\* Making a node of one value that it counts is sound for a plain symbol.
LEMMA PlainNode1 ==
    \A lhs \in Plain, a \in Symbols \ {"cases"}, class \in Filled :
        Modes[class] = <<"count">> => RowSound(Node(lhs, <<a>>, class))
<1> TAKE lhs \in Plain, a \in Symbols \ {"cases"}, class \in Filled
<1> HAVE Modes[class] = <<"count">>
<1> DEFINE rhs == <<a>>
<1>1. rhs \in Seq(Symbols) /\ Len(rhs) = 1 /\ DOMAIN rhs = {1} /\ rhs[1] = a
  OBVIOUS
<1>2. lhs \in Symbols /\ ~Plural(lhs) /\ \A c : ~Single(lhs, c)
  BY DEF Plain, Plural, Single
<1>3. DOMAIN Modes[class] = {1} /\ Modes[class][1] = "count"
  OBVIOUS
<1> HIDE DEF rhs
<1>4. /\ Len(rhs) < 100 /\ class \in DOMAIN Modes /\ DOMAIN Modes[class] = 1 .. Len(rhs)
      /\ \A m \in 1 .. Len(rhs) : Modes[class][m] = "count"
      /\ class \notin {"Params", "DefinedVariable"} /\ \A d : Single(lhs, d) => d = class
      /\ \A i \in DOMAIN rhs : rhs[i] # "cases"
  BY <1>1, <1>2, <1>3 DEF Filled
<1>5. RowSound(Node(lhs, rhs, class))
  BY <1>1, <1>2, <1>4, NodeSound
<1>6. QED  BY <1>5 DEF rhs

\* Making a node of two values that it counts is sound for a plain symbol.
LEMMA PlainNode2 ==
    \A lhs \in Plain, a, b \in Symbols \ {"cases"}, class \in Filled :
        Modes[class] = <<"count", "count">> => RowSound(Node(lhs, <<a, b>>, class))
<1> TAKE lhs \in Plain, a \in Symbols \ {"cases"}, b \in Symbols \ {"cases"},
         class \in Filled
<1> HAVE Modes[class] = <<"count", "count">>
<1> DEFINE rhs == <<a, b>>
<1>1. rhs \in Seq(Symbols) /\ Len(rhs) = 2 /\ DOMAIN rhs = {1, 2} /\ rhs[1] = a /\ rhs[2] = b
  OBVIOUS
<1>2. lhs \in Symbols /\ ~Plural(lhs) /\ \A c : ~Single(lhs, c)
  BY DEF Plain, Plural, Single
<1>3. DOMAIN Modes[class] = {1, 2} /\ Modes[class][1] = "count" /\ Modes[class][2] = "count"
  OBVIOUS
<1> HIDE DEF rhs
<1>4. /\ Len(rhs) < 100 /\ class \in DOMAIN Modes /\ DOMAIN Modes[class] = 1 .. Len(rhs)
      /\ \A m \in 1 .. Len(rhs) : Modes[class][m] = "count"
      /\ class \notin {"Params", "DefinedVariable"} /\ \A d : Single(lhs, d) => d = class
      /\ \A i \in DOMAIN rhs : rhs[i] # "cases"
  BY <1>1, <1>2, <1>3 DEF Filled
<1>5. RowSound(Node(lhs, rhs, class))
  BY <1>1, <1>2, <1>4, NodeSound
<1>6. QED  BY <1>5 DEF rhs

\* Making a node of three values that it counts is sound for a plain symbol.
LEMMA PlainNode3 ==
    \A lhs \in Plain, a, b, c \in Symbols \ {"cases"}, class \in Filled :
        Modes[class] = <<"count", "count", "count">> => RowSound(Node(lhs, <<a, b, c>>, class))
<1> TAKE lhs \in Plain, a \in Symbols \ {"cases"}, b \in Symbols \ {"cases"},
         c \in Symbols \ {"cases"}, class \in Filled
<1> HAVE Modes[class] = <<"count", "count", "count">>
<1> DEFINE rhs == <<a, b, c>>
<1>1. rhs \in Seq(Symbols) /\ Len(rhs) = 3 /\ DOMAIN rhs = {1, 2, 3} /\ rhs[1] = a /\ rhs[2] = b
      /\ rhs[3] = c
  OBVIOUS
<1>2. lhs \in Symbols /\ ~Plural(lhs) /\ \A d : ~Single(lhs, d)
  BY DEF Plain, Plural, Single
<1>3. DOMAIN Modes[class] = {1, 2, 3} /\ Modes[class][1] = "count" /\ Modes[class][2] = "count"
      /\ Modes[class][3] = "count"
  OBVIOUS
<1> HIDE DEF rhs
<1>4. /\ Len(rhs) < 100 /\ class \in DOMAIN Modes /\ DOMAIN Modes[class] = 1 .. Len(rhs)
      /\ \A m \in 1 .. Len(rhs) : Modes[class][m] = "count"
      /\ class \notin {"Params", "DefinedVariable"} /\ \A d : Single(lhs, d) => d = class
      /\ \A i \in DOMAIN rhs : rhs[i] # "cases"
  BY <1>1, <1>2, <1>3 DEF Filled
<1>5. RowSound(Node(lhs, rhs, class))
  BY <1>1, <1>2, <1>4, NodeSound
<1>6. QED  BY <1>5 DEF rhs

\* Row DefFunc of Functions, "def_func" from "typeref" "block", is sound.
LEMMA DefFuncSound == RowSound(Functions.DefFunc)
<1> DEFINE r == Functions.DefFunc
<1>1. /\ r.lhs = "def_func" /\ r.rhs = <<"typeref", "block">> /\ r.grow = <<>> /\ r.gives = <<7>>
      /\ r.drops = <<6, 5, 4, 3, 1, 2>>
      /\ r.makes = << <<"Params", <<0>>>>, <<"ParamTypeRefs", <<0>>>>,
                        <<"FunctionTypeRef", <<1, 4>>>>, <<"TypeNode", <<5>>>>,
                        <<"DefinedFunction", <<6, 3, 2>>>> >>
  BY DEF Functions, Row, None
<1> HIDE DEF r
<1>2. /\ DOMAIN r.rhs = 1 .. 2 /\ Len(r.rhs) = 2 /\ r.rhs[1] = "typeref" /\ r.rhs[2] = "block"
      /\ DOMAIN r.makes = 1 .. 5 /\ Len(r.makes) = 5 /\ Items(r) = 1 .. 7 /\ r.makes[1][1] = "Params"
      /\ r.makes[1][2] = <<0>> /\ r.makes[2][1] = "ParamTypeRefs" /\ r.makes[2][2] = <<0>>
      /\ r.makes[3][1] = "FunctionTypeRef" /\ r.makes[3][2] = <<1, 4>> /\ r.makes[4][1] = "TypeNode"
      /\ r.makes[4][2] = <<5>> /\ r.makes[5][1] = "DefinedFunction" /\ r.makes[5][2] = <<6, 3, 2>>
  BY <1>1 DEF Items
<1>3. /\ Modes["Params"] = <<"take">> /\ Modes["ParamTypeRefs"] = <<"take">>
      /\ Modes["FunctionTypeRef"] = <<"count", "count">> /\ Modes["TypeNode"] = <<"count">>
      /\ Modes["DefinedFunction"] = <<"count", "count", "count">>
      /\ {"Params", "ParamTypeRefs", "FunctionTypeRef", "TypeNode",
             "DefinedFunction"} \subseteq DOMAIN Modes
  BY ModesAre
<1>4. Formed(r)
  <2>1. r.lhs \in Symbols /\ r.rhs \in Seq(Symbols)
    BY <1>1 DEF Symbols
  <2>2. /\ r.gives \in Seq(1 .. 7 \cup {NullItem}) /\ r.drops \in Seq(1 .. 7)
        /\ 2 + 5 < NullItem
    BY <1>1 DEF NullItem
  <2>3. DOMAIN r.makes = 1 .. 5
    BY <1>2
  <2>4. QED  BY <1>2, <2>1, <2>2, <2>3 DEF Formed
<1>5. UsedOnce(r)
  <2>1. ASSUME NEW a, NEW b, NEW i, i # 0, Takes(r, a, b, i) PROVE FALSE
    <3>1. CASE a = 1
      BY <1>2, <1>3, <2>1, <3>1 DEF Takes
    <3>2. CASE a = 2
      BY <1>2, <1>3, <2>1, <3>2 DEF Takes
    <3>3. CASE a = 3
      BY <1>2, <1>3, <2>1, <3>3 DEF Takes
    <3>4. CASE a = 4
      BY <1>2, <1>3, <2>1, <3>4 DEF Takes
    <3>5. CASE a = 5
      BY <1>2, <1>3, <2>1, <3>5 DEF Takes
    <3>6. QED  BY <1>2, <2>1, <3>1, <3>2, <3>3, <3>4, <3>5 DEF Takes
  <2>2. Once(r, 1, 4, 5, 0)
    BY <1>1, <2>1 DEF Once, UsedUp, Lists, Grows, NullItem
  <2>3. Once(r, 2, 4, 6, 0)
    BY <1>1, <2>1 DEF Once, UsedUp, Lists, Grows, NullItem
  <2>4. Once(r, 3, 4, 4, 0)
    BY <1>1, <2>1 DEF Once, UsedUp, Lists, Grows, NullItem
  <2>5. Once(r, 4, 4, 3, 0)
    BY <1>1, <2>1 DEF Once, UsedUp, Lists, Grows, NullItem
  <2>6. Once(r, 5, 4, 2, 0)
    BY <1>1, <2>1 DEF Once, UsedUp, Lists, Grows, NullItem
  <2>7. Once(r, 6, 4, 1, 0)
    BY <1>1, <2>1 DEF Once, UsedUp, Lists, Grows, NullItem
  <2>8. Once(r, 7, 3, 1, 0)
    BY <1>1, <2>1 DEF Once, UsedUp, Lists, Grows, NullItem
  <2>9. QED  BY <1>2, <2>2, <2>3, <2>4, <2>5, <2>6, <2>7, <2>8 DEF UsedOnce
<1>6. MakesSound(r)
  <2>1. NodeMade(r, 1)
    BY <1>1, <1>2, <1>3 DEF NodeMade, Made, Found, None, LastType, TypeRefsOf
  <2>2. NodeMade(r, 2)
    BY <1>1, <1>2, <1>3 DEF NodeMade, Made, Found, None, LastType, TypeRefsOf
  <2>3. NodeMade(r, 3)
    BY <1>1, <1>2, <1>3 DEF NodeMade, Made, Found, None, LastType, TypeRefsOf
  <2>4. NodeMade(r, 4)
    BY <1>1, <1>2, <1>3 DEF NodeMade, Made, Found, None, LastType, TypeRefsOf
  <2>5. NodeMade(r, 5)
    BY <1>1, <1>2, <1>3 DEF NodeMade, Made, Found, None, LastType, TypeRefsOf
  <2>6. DOMAIN r.makes = 1 .. 5
    BY <1>2
  <2>7. QED  BY <2>1, <2>2, <2>3, <2>4, <2>5, <2>6 DEF MakesSound
<1>7. GrowSound(r)
  BY <1>1 DEF GrowSound
<1>8. GivesUncounted(r)
  <2>1. \A m \in DOMAIN r.makes[1][2] : r.makes[1][2][m] \notin {7}
    BY <1>2 DEF None, LastType, TypeRefsOf
  <2>2. \A m \in DOMAIN r.makes[2][2] : r.makes[2][2][m] \notin {7}
    BY <1>2 DEF None, LastType, TypeRefsOf
  <2>3. \A m \in DOMAIN r.makes[3][2] : r.makes[3][2][m] \notin {7}
    BY <1>2 DEF None, LastType, TypeRefsOf
  <2>4. \A m \in DOMAIN r.makes[4][2] : r.makes[4][2][m] \notin {7}
    BY <1>2 DEF None, LastType, TypeRefsOf
  <2>5. \A m \in DOMAIN r.makes[5][2] : r.makes[5][2][m] \notin {7}
    BY <1>2 DEF None, LastType, TypeRefsOf
  <2>6. DOMAIN r.gives = 1 .. 1 /\ r.gives[1] = 7
    BY <1>1
  <2>7. DOMAIN r.makes = 1 .. 5
    BY <1>2
  <2>8. \A k \in DOMAIN r.makes : \A m \in DOMAIN r.makes[k][2] : r.makes[k][2][m] \notin {7}
    BY <2>1, <2>2, <2>3, <2>4, <2>5, <2>7
  <2>9. r.grow = <<>>
    BY <1>1
  <2>10. QED  BY <2>6, <2>7, <2>8, <2>9 DEF GivesUncounted, NullItem
<1>9. GivesKind(r)
  <2>1. ~Plural(r.lhs)
    BY <1>1 DEF Plural
  <2>2. \A class : ~Single(r.lhs, class)
    BY <1>1 DEF Single
  <2>3. \A q \in DOMAIN r.gives : r.gives[q] # NullItem /\ ~Found(r, r.gives[q], {"cases"})
    BY <1>1, <1>2 DEF Found, NullItem
  <2>4. QED  BY <2>1, <2>2, <2>3 DEF GivesKind
<1>10. DropsSound(r)
  BY <1>1, <1>2 DEF DropsSound, Found
<1>11. QED  BY <1>4, <1>5, <1>6, <1>7, <1>8, <1>9, <1>10 DEF RowSound, r

\* Row DefFuncParams of Functions, "def_func" from "typeref" "params" "block", is sound.
LEMMA DefFuncParamsSound == RowSound(Functions.DefFuncParams)
<1> DEFINE r == Functions.DefFuncParams
<1>1. /\ r.lhs = "def_func" /\ r.rhs = <<"typeref", "params", "block">> /\ r.grow = <<>>
             /\ r.gives = <<7>>
      /\ r.drops = <<6, 5, 4, 1, 2, 3>>
      /\ r.makes = << <<"CopiedTypeRefs", <<TypeRefsOf>>>>, <<"FunctionTypeRef", <<1, 4>>>>,
                        <<"TypeNode", <<5>>>>, <<"DefinedFunction", <<6, 2, 3>>>> >>
  BY DEF Functions, Row, None
<1> HIDE DEF r
<1>2. /\ DOMAIN r.rhs = 1 .. 3 /\ Len(r.rhs) = 3 /\ r.rhs[1] = "typeref" /\ r.rhs[2] = "params"
      /\ r.rhs[3] = "block" /\ DOMAIN r.makes = 1 .. 4 /\ Len(r.makes) = 4 /\ Items(r) = 1 .. 7
      /\ r.makes[1][1] = "CopiedTypeRefs" /\ r.makes[1][2] = <<TypeRefsOf>>
      /\ r.makes[2][1] = "FunctionTypeRef" /\ r.makes[2][2] = <<1, 4>> /\ r.makes[3][1] = "TypeNode"
      /\ r.makes[3][2] = <<5>> /\ r.makes[4][1] = "DefinedFunction" /\ r.makes[4][2] = <<6, 2, 3>>
  BY <1>1 DEF Items
<1>3. /\ Modes["CopiedTypeRefs"] = <<"count">> /\ Modes["FunctionTypeRef"] = <<"count", "count">>
      /\ Modes["TypeNode"] = <<"count">> /\ Modes["DefinedFunction"] = <<"count", "count", "count">>
      /\ {"CopiedTypeRefs", "FunctionTypeRef", "TypeNode", "DefinedFunction"} \subseteq DOMAIN Modes
  BY ModesAre
<1>4. Formed(r)
  <2>1. r.lhs \in Symbols /\ r.rhs \in Seq(Symbols)
    BY <1>1 DEF Symbols
  <2>2. /\ r.gives \in Seq(1 .. 7 \cup {NullItem}) /\ r.drops \in Seq(1 .. 7)
        /\ 3 + 4 < NullItem
    BY <1>1 DEF NullItem
  <2>3. DOMAIN r.makes = 1 .. 4
    BY <1>2
  <2>4. QED  BY <1>2, <2>1, <2>2, <2>3 DEF Formed
<1>5. UsedOnce(r)
  <2>1. ASSUME NEW a, NEW b, NEW i, i # 0, Takes(r, a, b, i) PROVE FALSE
    <3>1. CASE a = 1
      BY <1>2, <1>3, <2>1, <3>1 DEF Takes
    <3>2. CASE a = 2
      BY <1>2, <1>3, <2>1, <3>2 DEF Takes
    <3>3. CASE a = 3
      BY <1>2, <1>3, <2>1, <3>3 DEF Takes
    <3>4. CASE a = 4
      BY <1>2, <1>3, <2>1, <3>4 DEF Takes
    <3>5. QED  BY <1>2, <2>1, <3>1, <3>2, <3>3, <3>4 DEF Takes
  <2>2. Once(r, 1, 4, 4, 0)
    BY <1>1, <2>1 DEF Once, UsedUp, Lists, Grows, NullItem
  <2>3. Once(r, 2, 4, 5, 0)
    BY <1>1, <2>1 DEF Once, UsedUp, Lists, Grows, NullItem
  <2>4. Once(r, 3, 4, 6, 0)
    BY <1>1, <2>1 DEF Once, UsedUp, Lists, Grows, NullItem
  <2>5. Once(r, 4, 4, 3, 0)
    BY <1>1, <2>1 DEF Once, UsedUp, Lists, Grows, NullItem
  <2>6. Once(r, 5, 4, 2, 0)
    BY <1>1, <2>1 DEF Once, UsedUp, Lists, Grows, NullItem
  <2>7. Once(r, 6, 4, 1, 0)
    BY <1>1, <2>1 DEF Once, UsedUp, Lists, Grows, NullItem
  <2>8. Once(r, 7, 3, 1, 0)
    BY <1>1, <2>1 DEF Once, UsedUp, Lists, Grows, NullItem
  <2>9. QED  BY <1>2, <2>2, <2>3, <2>4, <2>5, <2>6, <2>7, <2>8 DEF UsedOnce
<1>6. MakesSound(r)
  <2>1. NodeMade(r, 1)
    BY <1>1, <1>2, <1>3 DEF NodeMade, Made, Found, None, LastType, TypeRefsOf
  <2>2. NodeMade(r, 2)
    BY <1>1, <1>2, <1>3 DEF NodeMade, Made, Found, None, LastType, TypeRefsOf
  <2>3. NodeMade(r, 3)
    BY <1>1, <1>2, <1>3 DEF NodeMade, Made, Found, None, LastType, TypeRefsOf
  <2>4. NodeMade(r, 4)
    BY <1>1, <1>2, <1>3 DEF NodeMade, Made, Found, None, LastType, TypeRefsOf
  <2>5. DOMAIN r.makes = 1 .. 4
    BY <1>2
  <2>6. QED  BY <2>1, <2>2, <2>3, <2>4, <2>5 DEF MakesSound
<1>7. GrowSound(r)
  BY <1>1 DEF GrowSound
<1>8. GivesUncounted(r)
  <2>1. \A m \in DOMAIN r.makes[1][2] : r.makes[1][2][m] \notin {7}
    BY <1>2 DEF None, LastType, TypeRefsOf
  <2>2. \A m \in DOMAIN r.makes[2][2] : r.makes[2][2][m] \notin {7}
    BY <1>2 DEF None, LastType, TypeRefsOf
  <2>3. \A m \in DOMAIN r.makes[3][2] : r.makes[3][2][m] \notin {7}
    BY <1>2 DEF None, LastType, TypeRefsOf
  <2>4. \A m \in DOMAIN r.makes[4][2] : r.makes[4][2][m] \notin {7}
    BY <1>2 DEF None, LastType, TypeRefsOf
  <2>5. DOMAIN r.gives = 1 .. 1 /\ r.gives[1] = 7
    BY <1>1
  <2>6. DOMAIN r.makes = 1 .. 4
    BY <1>2
  <2>7. \A k \in DOMAIN r.makes : \A m \in DOMAIN r.makes[k][2] : r.makes[k][2][m] \notin {7}
    BY <2>1, <2>2, <2>3, <2>4, <2>6
  <2>8. r.grow = <<>>
    BY <1>1
  <2>9. QED  BY <2>5, <2>6, <2>7, <2>8 DEF GivesUncounted, NullItem
<1>9. GivesKind(r)
  <2>1. ~Plural(r.lhs)
    BY <1>1 DEF Plural
  <2>2. \A class : ~Single(r.lhs, class)
    BY <1>1 DEF Single
  <2>3. \A q \in DOMAIN r.gives : r.gives[q] # NullItem /\ ~Found(r, r.gives[q], {"cases"})
    BY <1>1, <1>2 DEF Found, NullItem
  <2>4. QED  BY <2>1, <2>2, <2>3 DEF GivesKind
<1>10. DropsSound(r)
  BY <1>1, <1>2 DEF DropsSound, Found
<1>11. QED  BY <1>4, <1>5, <1>6, <1>7, <1>8, <1>9, <1>10 DEF RowSound, r

\* Row DefStruct of TypeDefs, "declaration" from "member_list", is sound.
LEMMA DefStructSound == RowSound(TypeDefs.DefStruct)
<1> DEFINE r == TypeDefs.DefStruct
<1>1. /\ r.lhs = "declaration" /\ r.rhs = <<"member_list">> /\ r.grow = <<>> /\ r.gives = <<4>>
      /\ r.drops = <<2>>
      /\ r.makes = << <<"NamedTypeRef", <<>>>>, <<"TypeNode", <<2>>>>, <<"Composite", <<3, 1>>>> >>
  BY DEF TypeDefs, Row, None
<1> HIDE DEF r
<1>2. /\ DOMAIN r.rhs = 1 .. 1 /\ Len(r.rhs) = 1 /\ r.rhs[1] = "member_list"
      /\ DOMAIN r.makes = 1 .. 3 /\ Len(r.makes) = 3 /\ Items(r) = 1 .. 4
      /\ r.makes[1][1] = "NamedTypeRef" /\ r.makes[1][2] = <<>> /\ r.makes[2][1] = "TypeNode"
      /\ r.makes[2][2] = <<2>> /\ r.makes[3][1] = "Composite" /\ r.makes[3][2] = <<3, 1>>
  BY <1>1 DEF Items
<1>3. /\ Modes["NamedTypeRef"] = <<>> /\ Modes["TypeNode"] = <<"count">>
      /\ Modes["Composite"] = <<"take", "take">>
      /\ {"NamedTypeRef", "TypeNode", "Composite"} \subseteq DOMAIN Modes
  BY ModesAre
<1>4. Formed(r)
  <2>1. r.lhs \in Symbols /\ r.rhs \in Seq(Symbols)
    BY <1>1 DEF Symbols
  <2>2. /\ r.gives \in Seq(1 .. 4 \cup {NullItem}) /\ r.drops \in Seq(1 .. 4)
        /\ 1 + 3 < NullItem
    BY <1>1 DEF NullItem
  <2>3. DOMAIN r.makes = 1 .. 3
    BY <1>2
  <2>4. QED  BY <1>2, <2>1, <2>2, <2>3 DEF Formed
<1>5. UsedOnce(r)
  <2>1. Takes(r, 3, 1, 3) /\ Takes(r, 3, 2, 1)
    BY <1>2, <1>3 DEF Takes
  <2>2. ASSUME NEW a, NEW b, NEW i, i # 0, Takes(r, a, b, i)
        PROVE  (a = 3 /\ b = 1 /\ i = 3) \/ (a = 3 /\ b = 2 /\ i = 1)
    <3>1. CASE a = 1
      BY <1>2, <1>3, <2>2, <3>1 DEF Takes
    <3>2. CASE a = 2
      BY <1>2, <1>3, <2>2, <3>2 DEF Takes
    <3>3. CASE a = 3
      BY <1>2, <1>3, <2>2, <3>3 DEF Takes
    <3>4. QED  BY <1>2, <2>2, <3>1, <3>2, <3>3 DEF Takes
  <2>3. Once(r, 1, 1, 3, 2)
    BY <1>1, <2>1, <2>2 DEF Once, UsedUp, Lists, Grows, NullItem
  <2>4. Once(r, 2, 4, 1, 0)
    BY <1>1, <2>1, <2>2 DEF Once, UsedUp, Lists, Grows, NullItem
  <2>5. Once(r, 3, 1, 3, 1)
    BY <1>1, <2>1, <2>2 DEF Once, UsedUp, Lists, Grows, NullItem
  <2>6. Once(r, 4, 3, 1, 0)
    BY <1>1, <2>1, <2>2 DEF Once, UsedUp, Lists, Grows, NullItem
  <2>7. QED  BY <1>2, <2>3, <2>4, <2>5, <2>6 DEF UsedOnce
<1>6. MakesSound(r)
  <2>1. NodeMade(r, 1)
    BY <1>1, <1>2, <1>3 DEF NodeMade, Made, Found, None, LastType, TypeRefsOf
  <2>2. NodeMade(r, 2)
    BY <1>1, <1>2, <1>3 DEF NodeMade, Made, Found, None, LastType, TypeRefsOf
  <2>3. NodeMade(r, 3)
    BY <1>1, <1>2, <1>3 DEF NodeMade, Made, Found, None, LastType, TypeRefsOf
  <2>4. DOMAIN r.makes = 1 .. 3
    BY <1>2
  <2>5. QED  BY <2>1, <2>2, <2>3, <2>4 DEF MakesSound
<1>7. GrowSound(r)
  BY <1>1 DEF GrowSound
<1>8. GivesUncounted(r)
  <2>1. \A m \in DOMAIN r.makes[1][2] : r.makes[1][2][m] \notin {4}
    BY <1>2 DEF None, LastType, TypeRefsOf
  <2>2. \A m \in DOMAIN r.makes[2][2] : r.makes[2][2][m] \notin {4}
    BY <1>2 DEF None, LastType, TypeRefsOf
  <2>3. \A m \in DOMAIN r.makes[3][2] : r.makes[3][2][m] \notin {4}
    BY <1>2 DEF None, LastType, TypeRefsOf
  <2>4. DOMAIN r.gives = 1 .. 1 /\ r.gives[1] = 4
    BY <1>1
  <2>5. DOMAIN r.makes = 1 .. 3
    BY <1>2
  <2>6. \A k \in DOMAIN r.makes : \A m \in DOMAIN r.makes[k][2] : r.makes[k][2][m] \notin {4}
    BY <2>1, <2>2, <2>3, <2>5
  <2>7. r.grow = <<>>
    BY <1>1
  <2>8. QED  BY <2>4, <2>5, <2>6, <2>7 DEF GivesUncounted, NullItem
<1>9. GivesKind(r)
  <2>1. ~Plural(r.lhs)
    BY <1>1 DEF Plural
  <2>2. \A class : ~Single(r.lhs, class)
    BY <1>1 DEF Single
  <2>3. \A q \in DOMAIN r.gives : r.gives[q] # NullItem /\ ~Found(r, r.gives[q], {"cases"})
    BY <1>1, <1>2 DEF Found, NullItem
  <2>4. QED  BY <2>1, <2>2, <2>3 DEF GivesKind
<1>10. DropsSound(r)
  BY <1>1, <1>2 DEF DropsSound, Found
<1>11. QED  BY <1>4, <1>5, <1>6, <1>7, <1>8, <1>9, <1>10 DEF RowSound, r

\* Row DefTypedef of TypeDefs, "declaration" from "typeref", is sound.
LEMMA DefTypedefSound == RowSound(TypeDefs.DefTypedef)
<1> DEFINE r == TypeDefs.DefTypedef
<1>1. /\ r.lhs = "declaration" /\ r.rhs = <<"typeref">> /\ r.grow = <<>> /\ r.gives = <<5>>
      /\ r.drops = <<2, 1>>
      /\ r.makes = << <<"NamedTypeRef", <<>>>>, <<"TypeNode", <<2>>>>, <<"TypeNode", <<1>>>>,
                        <<"Typedef", <<3, 4>>>> >>
  BY DEF TypeDefs, Row, None
<1> HIDE DEF r
<1>2. /\ DOMAIN r.rhs = 1 .. 1 /\ Len(r.rhs) = 1 /\ r.rhs[1] = "typeref" /\ DOMAIN r.makes = 1 .. 4
      /\ Len(r.makes) = 4 /\ Items(r) = 1 .. 5 /\ r.makes[1][1] = "NamedTypeRef"
      /\ r.makes[1][2] = <<>> /\ r.makes[2][1] = "TypeNode" /\ r.makes[2][2] = <<2>>
      /\ r.makes[3][1] = "TypeNode" /\ r.makes[3][2] = <<1>> /\ r.makes[4][1] = "Typedef"
      /\ r.makes[4][2] = <<3, 4>>
  BY <1>1 DEF Items
<1>3. /\ Modes["NamedTypeRef"] = <<>> /\ Modes["TypeNode"] = <<"count">>
      /\ Modes["Typedef"] = <<"take", "take">>
      /\ {"NamedTypeRef", "TypeNode", "Typedef"} \subseteq DOMAIN Modes
  BY ModesAre
<1>4. Formed(r)
  <2>1. r.lhs \in Symbols /\ r.rhs \in Seq(Symbols)
    BY <1>1 DEF Symbols
  <2>2. /\ r.gives \in Seq(1 .. 5 \cup {NullItem}) /\ r.drops \in Seq(1 .. 5)
        /\ 1 + 4 < NullItem
    BY <1>1 DEF NullItem
  <2>3. DOMAIN r.makes = 1 .. 4
    BY <1>2
  <2>4. QED  BY <1>2, <2>1, <2>2, <2>3 DEF Formed
<1>5. UsedOnce(r)
  <2>1. Takes(r, 4, 1, 3) /\ Takes(r, 4, 2, 4)
    BY <1>2, <1>3 DEF Takes
  <2>2. ASSUME NEW a, NEW b, NEW i, i # 0, Takes(r, a, b, i)
        PROVE  (a = 4 /\ b = 1 /\ i = 3) \/ (a = 4 /\ b = 2 /\ i = 4)
    <3>1. CASE a = 1
      BY <1>2, <1>3, <2>2, <3>1 DEF Takes
    <3>2. CASE a = 2
      BY <1>2, <1>3, <2>2, <3>2 DEF Takes
    <3>3. CASE a = 3
      BY <1>2, <1>3, <2>2, <3>3 DEF Takes
    <3>4. CASE a = 4
      BY <1>2, <1>3, <2>2, <3>4 DEF Takes
    <3>5. QED  BY <1>2, <2>2, <3>1, <3>2, <3>3, <3>4 DEF Takes
  <2>3. Once(r, 1, 4, 2, 0)
    BY <1>1, <2>1, <2>2 DEF Once, UsedUp, Lists, Grows, NullItem
  <2>4. Once(r, 2, 4, 1, 0)
    BY <1>1, <2>1, <2>2 DEF Once, UsedUp, Lists, Grows, NullItem
  <2>5. Once(r, 3, 1, 4, 1)
    BY <1>1, <2>1, <2>2 DEF Once, UsedUp, Lists, Grows, NullItem
  <2>6. Once(r, 4, 1, 4, 2)
    BY <1>1, <2>1, <2>2 DEF Once, UsedUp, Lists, Grows, NullItem
  <2>7. Once(r, 5, 3, 1, 0)
    BY <1>1, <2>1, <2>2 DEF Once, UsedUp, Lists, Grows, NullItem
  <2>8. QED  BY <1>2, <2>3, <2>4, <2>5, <2>6, <2>7 DEF UsedOnce
<1>6. MakesSound(r)
  <2>1. NodeMade(r, 1)
    BY <1>1, <1>2, <1>3 DEF NodeMade, Made, Found, None, LastType, TypeRefsOf
  <2>2. NodeMade(r, 2)
    BY <1>1, <1>2, <1>3 DEF NodeMade, Made, Found, None, LastType, TypeRefsOf
  <2>3. NodeMade(r, 3)
    BY <1>1, <1>2, <1>3 DEF NodeMade, Made, Found, None, LastType, TypeRefsOf
  <2>4. NodeMade(r, 4)
    BY <1>1, <1>2, <1>3 DEF NodeMade, Made, Found, None, LastType, TypeRefsOf
  <2>5. DOMAIN r.makes = 1 .. 4
    BY <1>2
  <2>6. QED  BY <2>1, <2>2, <2>3, <2>4, <2>5 DEF MakesSound
<1>7. GrowSound(r)
  BY <1>1 DEF GrowSound
<1>8. GivesUncounted(r)
  <2>1. \A m \in DOMAIN r.makes[1][2] : r.makes[1][2][m] \notin {5}
    BY <1>2 DEF None, LastType, TypeRefsOf
  <2>2. \A m \in DOMAIN r.makes[2][2] : r.makes[2][2][m] \notin {5}
    BY <1>2 DEF None, LastType, TypeRefsOf
  <2>3. \A m \in DOMAIN r.makes[3][2] : r.makes[3][2][m] \notin {5}
    BY <1>2 DEF None, LastType, TypeRefsOf
  <2>4. \A m \in DOMAIN r.makes[4][2] : r.makes[4][2][m] \notin {5}
    BY <1>2 DEF None, LastType, TypeRefsOf
  <2>5. DOMAIN r.gives = 1 .. 1 /\ r.gives[1] = 5
    BY <1>1
  <2>6. DOMAIN r.makes = 1 .. 4
    BY <1>2
  <2>7. \A k \in DOMAIN r.makes : \A m \in DOMAIN r.makes[k][2] : r.makes[k][2][m] \notin {5}
    BY <2>1, <2>2, <2>3, <2>4, <2>6
  <2>8. r.grow = <<>>
    BY <1>1
  <2>9. QED  BY <2>5, <2>6, <2>7, <2>8 DEF GivesUncounted, NullItem
<1>9. GivesKind(r)
  <2>1. ~Plural(r.lhs)
    BY <1>1 DEF Plural
  <2>2. \A class : ~Single(r.lhs, class)
    BY <1>1 DEF Single
  <2>3. \A q \in DOMAIN r.gives : r.gives[q] # NullItem /\ ~Found(r, r.gives[q], {"cases"})
    BY <1>1, <1>2 DEF Found, NullItem
  <2>4. QED  BY <2>1, <2>2, <2>3 DEF GivesKind
<1>10. DropsSound(r)
  BY <1>1, <1>2 DEF DropsSound, Found
<1>11. QED  BY <1>4, <1>5, <1>6, <1>7, <1>8, <1>9, <1>10 DEF RowSound, r

\* Row FirstParam of TypeDefs, "params" from "param", is sound.
LEMMA FirstParamSound == RowSound(TypeDefs.FirstParam)
<1> DEFINE r == TypeDefs.FirstParam
<1>1. /\ r.lhs = "params" /\ r.rhs = <<"param">> /\ r.grow = <<>> /\ r.gives = <<2>>
      /\ r.drops = <<>>
      /\ r.makes = << <<"Params", <<1>>>> >>
  BY DEF TypeDefs, Row, None
<1> HIDE DEF r
<1>2. /\ DOMAIN r.rhs = 1 .. 1 /\ Len(r.rhs) = 1 /\ r.rhs[1] = "param" /\ DOMAIN r.makes = 1 .. 1
      /\ Len(r.makes) = 1 /\ Items(r) = 1 .. 2 /\ r.makes[1][1] = "Params" /\ r.makes[1][2] = <<1>>
  BY <1>1 DEF Items
<1>3. Modes["Params"] = <<"take">> /\ {"Params"} \subseteq DOMAIN Modes
  BY ModesAre
<1>4. Formed(r)
  <2>1. r.lhs \in Symbols /\ r.rhs \in Seq(Symbols)
    BY <1>1 DEF Symbols
  <2>2. /\ r.gives \in Seq(1 .. 2 \cup {NullItem}) /\ r.drops \in Seq(1 .. 2)
        /\ 1 + 1 < NullItem
    BY <1>1 DEF NullItem
  <2>3. DOMAIN r.makes = 1 .. 1
    BY <1>2
  <2>4. QED  BY <1>2, <2>1, <2>2, <2>3 DEF Formed
<1>5. UsedOnce(r)
  <2>1. Takes(r, 1, 1, 1)
    BY <1>2, <1>3 DEF Takes
  <2>2. ASSUME NEW a, NEW b, NEW i, i # 0, Takes(r, a, b, i)
        PROVE  (a = 1 /\ b = 1 /\ i = 1)
    BY <1>2, <1>3, <2>2 DEF Takes
  <2>3. Once(r, 1, 1, 1, 1)
    BY <1>1, <2>1, <2>2 DEF Once, UsedUp, Lists, Grows, NullItem
  <2>4. Once(r, 2, 3, 1, 0)
    BY <1>1, <2>1, <2>2 DEF Once, UsedUp, Lists, Grows, NullItem
  <2>5. QED  BY <1>2, <2>3, <2>4 DEF UsedOnce
<1>6. MakesSound(r)
  BY <1>1, <1>2, <1>3 DEF MakesSound, NodeMade, Made, Found, None, LastType, TypeRefsOf
<1>7. GrowSound(r)
  BY <1>1 DEF GrowSound
<1>8. GivesUncounted(r)
  <2>1. \A m \in DOMAIN r.makes[1][2] : r.makes[1][2][m] \notin {2}
    BY <1>2 DEF None, LastType, TypeRefsOf
  <2>2. DOMAIN r.gives = 1 .. 1 /\ r.gives[1] = 2
    BY <1>1
  <2>3. DOMAIN r.makes = 1 .. 1
    BY <1>2
  <2>4. \A k \in DOMAIN r.makes : \A m \in DOMAIN r.makes[k][2] : r.makes[k][2][m] \notin {2}
    BY <2>1, <2>3
  <2>5. r.grow = <<>>
    BY <1>1
  <2>6. QED  BY <2>2, <2>3, <2>4, <2>5 DEF GivesUncounted, NullItem
<1>9. GivesKind(r)
  <2>1. ~Plural(r.lhs) /\ \A class : Single(r.lhs, class) => class = "Params"
    BY <1>1 DEF Plural, Single
  <2>2. Len(r.gives) = 1 /\ One(r, r.gives[1], "Params")
    BY <1>1, <1>2 DEF One, Made, Single
  <2>3. \A q \in DOMAIN r.gives : r.gives[q] # NullItem /\ ~Found(r, r.gives[q], {"cases"})
    BY <1>1, <1>2 DEF Found, NullItem
  <2>4. QED  BY <2>1, <2>2, <2>3 DEF GivesKind
<1>10. DropsSound(r)
  BY <1>1, <1>2 DEF DropsSound, Found
<1>11. QED  BY <1>4, <1>5, <1>6, <1>7, <1>8, <1>9, <1>10 DEF RowSound, r

\* Row NextParam of TypeDefs, "params" from "params" "param", is sound.
LEMMA NextParamSound == RowSound(TypeDefs.NextParam)
<1> DEFINE r == TypeDefs.NextParam
<1>1. /\ r.lhs = "params" /\ r.rhs = <<"params", "param">> /\ r.grow = <<1, 1, "take", 2>>
             /\ r.gives = <<1>>
      /\ r.drops = <<>>
      /\ r.makes = <<>>
  BY DEF TypeDefs, Growing, Row, None
<1> HIDE DEF r
<1>2. /\ DOMAIN r.rhs = 1 .. 2 /\ Len(r.rhs) = 2 /\ r.rhs[1] = "params" /\ r.rhs[2] = "param"
      /\ DOMAIN r.makes = {} /\ Len(r.makes) = 0 /\ Items(r) = 1 .. 2
  BY <1>1 DEF Items
<1>3. Formed(r)
  <2>1. r.lhs \in Symbols /\ r.rhs \in Seq(Symbols)
    BY <1>1 DEF Symbols
  <2>2. /\ r.gives \in Seq(1 .. 2 \cup {NullItem}) /\ r.drops \in Seq(1 .. 2)
        /\ 2 + 0 < NullItem
    BY <1>1 DEF NullItem
  <2>3. DOMAIN r.makes = 1 .. 0
    BY <1>2
  <2>4. QED  BY <1>2, <2>1, <2>2, <2>3 DEF Formed
<1>4. UsedOnce(r)
  <2>1. \A a, b, i : ~Takes(r, a, b, i)
    BY <1>2 DEF Takes
  <2>2. Once(r, 1, 3, 1, 0)
    BY <1>1, <2>1 DEF Once, UsedUp, Lists, Grows, NullItem
  <2>3. Once(r, 2, 2, 0, 0)
    BY <1>1, <2>1 DEF Once, UsedUp, Lists, Grows, NullItem
  <2>4. QED  BY <1>2, <2>2, <2>3 DEF UsedOnce
<1>5. MakesSound(r)
  BY <1>1, <1>2 DEF MakesSound, NodeMade, Made, Found, None, LastType, TypeRefsOf
<1>6. GrowSound(r)
  <2>1. One(r, 1, "Params")
    BY <1>2 DEF One, Single
  <2>2. QED  BY <1>1, <1>2, <2>1 DEF GrowSound
<1>7. GivesUncounted(r)
  <2>1. r.grow[3] = "count" => \A j \in DOMAIN r.gives : r.gives[j] # r.grow[4]
    BY <1>1
  <2>2. DOMAIN r.gives = 1 .. 1 /\ r.gives[1] = 1
    BY <1>1
  <2>3. DOMAIN r.makes = {}
    BY <1>2
  <2>4. QED  BY <2>1, <2>2, <2>3 DEF GivesUncounted, NullItem
<1>8. GivesKind(r)
  <2>1. ~Plural(r.lhs) /\ \A class : Single(r.lhs, class) => class = "Params"
    BY <1>1 DEF Plural, Single
  <2>2. Len(r.gives) = 1 /\ One(r, r.gives[1], "Params")
    BY <1>1, <1>2 DEF One, Made, Single
  <2>3. \A q \in DOMAIN r.gives : r.gives[q] # NullItem /\ ~Found(r, r.gives[q], {"cases"})
    BY <1>1, <1>2 DEF Found, NullItem
  <2>4. QED  BY <2>1, <2>2, <2>3 DEF GivesKind
<1>9. DropsSound(r)
  BY <1>1, <1>2 DEF DropsSound, Found
<1>10. QED  BY <1>3, <1>4, <1>5, <1>6, <1>7, <1>8, <1>9 DEF RowSound, r

\* Row Param of TypeDefs, "param" from "typeref", is sound.
LEMMA ParamSound == RowSound(TypeDefs.Param)
<1> DEFINE r == TypeDefs.Param
<1>1. /\ r.lhs = "param" /\ r.rhs = <<"typeref">> /\ r.grow = <<>> /\ r.gives = <<3>>
      /\ r.drops = <<1, 2>>
      /\ r.makes = << <<"TypeNode", <<1>>>>, <<"DefinedVariable", <<2, 0>>>> >>
  BY DEF TypeDefs, Row, None
<1> HIDE DEF r
<1>2. /\ DOMAIN r.rhs = 1 .. 1 /\ Len(r.rhs) = 1 /\ r.rhs[1] = "typeref" /\ DOMAIN r.makes = 1 .. 2
      /\ Len(r.makes) = 2 /\ Items(r) = 1 .. 3 /\ r.makes[1][1] = "TypeNode" /\ r.makes[1][2] = <<1>>
      /\ r.makes[2][1] = "DefinedVariable" /\ r.makes[2][2] = <<2, 0>>
  BY <1>1 DEF Items
<1>3. /\ Modes["TypeNode"] = <<"count">> /\ Modes["DefinedVariable"] = <<"count", "count">>
      /\ {"TypeNode", "DefinedVariable"} \subseteq DOMAIN Modes
  BY ModesAre
<1>4. Formed(r)
  <2>1. r.lhs \in Symbols /\ r.rhs \in Seq(Symbols)
    BY <1>1 DEF Symbols
  <2>2. /\ r.gives \in Seq(1 .. 3 \cup {NullItem}) /\ r.drops \in Seq(1 .. 3)
        /\ 1 + 2 < NullItem
    BY <1>1 DEF NullItem
  <2>3. DOMAIN r.makes = 1 .. 2
    BY <1>2
  <2>4. QED  BY <1>2, <2>1, <2>2, <2>3 DEF Formed
<1>5. UsedOnce(r)
  <2>1. ASSUME NEW a, NEW b, NEW i, i # 0, Takes(r, a, b, i) PROVE FALSE
    <3>1. CASE a = 1
      BY <1>2, <1>3, <2>1, <3>1 DEF Takes
    <3>2. CASE a = 2
      BY <1>2, <1>3, <2>1, <3>2 DEF Takes
    <3>3. QED  BY <1>2, <2>1, <3>1, <3>2 DEF Takes
  <2>2. Once(r, 1, 4, 1, 0)
    BY <1>1, <2>1 DEF Once, UsedUp, Lists, Grows, NullItem
  <2>3. Once(r, 2, 4, 2, 0)
    BY <1>1, <2>1 DEF Once, UsedUp, Lists, Grows, NullItem
  <2>4. Once(r, 3, 3, 1, 0)
    BY <1>1, <2>1 DEF Once, UsedUp, Lists, Grows, NullItem
  <2>5. QED  BY <1>2, <2>2, <2>3, <2>4 DEF UsedOnce
<1>6. MakesSound(r)
  BY <1>1, <1>2, <1>3 DEF MakesSound, NodeMade, Made, Found, None, LastType, TypeRefsOf
<1>7. GrowSound(r)
  BY <1>1 DEF GrowSound
<1>8. GivesUncounted(r)
  <2>1. \A m \in DOMAIN r.makes[1][2] : r.makes[1][2][m] \notin {3}
    BY <1>2 DEF None, LastType, TypeRefsOf
  <2>2. \A m \in DOMAIN r.makes[2][2] : r.makes[2][2][m] \notin {3}
    BY <1>2 DEF None, LastType, TypeRefsOf
  <2>3. DOMAIN r.gives = 1 .. 1 /\ r.gives[1] = 3
    BY <1>1
  <2>4. DOMAIN r.makes = 1 .. 2
    BY <1>2
  <2>5. \A k \in DOMAIN r.makes : \A m \in DOMAIN r.makes[k][2] : r.makes[k][2][m] \notin {3}
    BY <2>1, <2>2, <2>4
  <2>6. r.grow = <<>>
    BY <1>1
  <2>7. QED  BY <2>3, <2>4, <2>5, <2>6 DEF GivesUncounted, NullItem
<1>9. GivesKind(r)
  <2>1. \A class : ~Single(r.lhs, class)
    BY <1>1 DEF Single
  <2>2. r.gives # <<>> /\ \A q \in DOMAIN r.gives :
            Found(r, r.gives[q], {"def_vars", "param"}) \/ Made(r, r.gives[q], "DefinedVariable")
    BY <1>1, <1>2 DEF Found, Made
  <2>3. \A q \in DOMAIN r.gives : r.gives[q] # NullItem /\ ~Found(r, r.gives[q], {"cases"})
    BY <1>1, <1>2 DEF Found, NullItem
  <2>4. QED  BY <2>1, <2>2, <2>3 DEF GivesKind
<1>10. DropsSound(r)
  BY <1>1, <1>2 DEF DropsSound, Found
<1>11. QED  BY <1>4, <1>5, <1>6, <1>7, <1>8, <1>9, <1>10 DEF RowSound, r

\* Row DeclFunc of VariableDecls, "declaration" from "typeref", is sound.
LEMMA DeclFuncSound == RowSound(VariableDecls.DeclFunc)
<1> DEFINE r == VariableDecls.DeclFunc
<1>1. /\ r.lhs = "declaration" /\ r.rhs = <<"typeref">> /\ r.grow = <<>> /\ r.gives = <<6>>
      /\ r.drops = <<5, 4, 3, 2, 1>>
      /\ r.makes = << <<"Params", <<0>>>>, <<"ParamTypeRefs", <<0>>>>,
                        <<"FunctionTypeRef", <<1, 3>>>>, <<"TypeNode", <<4>>>>,
                        <<"UndefinedFunction", <<5, 2>>>> >>
  BY DEF VariableDecls, Variables, Row, None
<1> HIDE DEF r
<1>2. /\ DOMAIN r.rhs = 1 .. 1 /\ Len(r.rhs) = 1 /\ r.rhs[1] = "typeref" /\ DOMAIN r.makes = 1 .. 5
      /\ Len(r.makes) = 5 /\ Items(r) = 1 .. 6 /\ r.makes[1][1] = "Params" /\ r.makes[1][2] = <<0>>
      /\ r.makes[2][1] = "ParamTypeRefs" /\ r.makes[2][2] = <<0>>
      /\ r.makes[3][1] = "FunctionTypeRef" /\ r.makes[3][2] = <<1, 3>> /\ r.makes[4][1] = "TypeNode"
      /\ r.makes[4][2] = <<4>> /\ r.makes[5][1] = "UndefinedFunction" /\ r.makes[5][2] = <<5, 2>>
  BY <1>1 DEF Items
<1>3. /\ Modes["Params"] = <<"take">> /\ Modes["ParamTypeRefs"] = <<"take">>
      /\ Modes["FunctionTypeRef"] = <<"count", "count">> /\ Modes["TypeNode"] = <<"count">>
      /\ Modes["UndefinedFunction"] = <<"count", "count">>
      /\ {"Params", "ParamTypeRefs", "FunctionTypeRef", "TypeNode",
             "UndefinedFunction"} \subseteq DOMAIN Modes
  BY ModesAre
<1>4. Formed(r)
  <2>1. r.lhs \in Symbols /\ r.rhs \in Seq(Symbols)
    BY <1>1 DEF Symbols
  <2>2. /\ r.gives \in Seq(1 .. 6 \cup {NullItem}) /\ r.drops \in Seq(1 .. 6)
        /\ 1 + 5 < NullItem
    BY <1>1 DEF NullItem
  <2>3. DOMAIN r.makes = 1 .. 5
    BY <1>2
  <2>4. QED  BY <1>2, <2>1, <2>2, <2>3 DEF Formed
<1>5. UsedOnce(r)
  <2>1. ASSUME NEW a, NEW b, NEW i, i # 0, Takes(r, a, b, i) PROVE FALSE
    <3>1. CASE a = 1
      BY <1>2, <1>3, <2>1, <3>1 DEF Takes
    <3>2. CASE a = 2
      BY <1>2, <1>3, <2>1, <3>2 DEF Takes
    <3>3. CASE a = 3
      BY <1>2, <1>3, <2>1, <3>3 DEF Takes
    <3>4. CASE a = 4
      BY <1>2, <1>3, <2>1, <3>4 DEF Takes
    <3>5. CASE a = 5
      BY <1>2, <1>3, <2>1, <3>5 DEF Takes
    <3>6. QED  BY <1>2, <2>1, <3>1, <3>2, <3>3, <3>4, <3>5 DEF Takes
  <2>2. Once(r, 1, 4, 5, 0)
    BY <1>1, <2>1 DEF Once, UsedUp, Lists, Grows, NullItem
  <2>3. Once(r, 2, 4, 4, 0)
    BY <1>1, <2>1 DEF Once, UsedUp, Lists, Grows, NullItem
  <2>4. Once(r, 3, 4, 3, 0)
    BY <1>1, <2>1 DEF Once, UsedUp, Lists, Grows, NullItem
  <2>5. Once(r, 4, 4, 2, 0)
    BY <1>1, <2>1 DEF Once, UsedUp, Lists, Grows, NullItem
  <2>6. Once(r, 5, 4, 1, 0)
    BY <1>1, <2>1 DEF Once, UsedUp, Lists, Grows, NullItem
  <2>7. Once(r, 6, 3, 1, 0)
    BY <1>1, <2>1 DEF Once, UsedUp, Lists, Grows, NullItem
  <2>8. QED  BY <1>2, <2>2, <2>3, <2>4, <2>5, <2>6, <2>7 DEF UsedOnce
<1>6. MakesSound(r)
  <2>1. NodeMade(r, 1)
    BY <1>1, <1>2, <1>3 DEF NodeMade, Made, Found, None, LastType, TypeRefsOf
  <2>2. NodeMade(r, 2)
    BY <1>1, <1>2, <1>3 DEF NodeMade, Made, Found, None, LastType, TypeRefsOf
  <2>3. NodeMade(r, 3)
    BY <1>1, <1>2, <1>3 DEF NodeMade, Made, Found, None, LastType, TypeRefsOf
  <2>4. NodeMade(r, 4)
    BY <1>1, <1>2, <1>3 DEF NodeMade, Made, Found, None, LastType, TypeRefsOf
  <2>5. NodeMade(r, 5)
    BY <1>1, <1>2, <1>3 DEF NodeMade, Made, Found, None, LastType, TypeRefsOf
  <2>6. DOMAIN r.makes = 1 .. 5
    BY <1>2
  <2>7. QED  BY <2>1, <2>2, <2>3, <2>4, <2>5, <2>6 DEF MakesSound
<1>7. GrowSound(r)
  BY <1>1 DEF GrowSound
<1>8. GivesUncounted(r)
  <2>1. \A m \in DOMAIN r.makes[1][2] : r.makes[1][2][m] \notin {6}
    BY <1>2 DEF None, LastType, TypeRefsOf
  <2>2. \A m \in DOMAIN r.makes[2][2] : r.makes[2][2][m] \notin {6}
    BY <1>2 DEF None, LastType, TypeRefsOf
  <2>3. \A m \in DOMAIN r.makes[3][2] : r.makes[3][2][m] \notin {6}
    BY <1>2 DEF None, LastType, TypeRefsOf
  <2>4. \A m \in DOMAIN r.makes[4][2] : r.makes[4][2][m] \notin {6}
    BY <1>2 DEF None, LastType, TypeRefsOf
  <2>5. \A m \in DOMAIN r.makes[5][2] : r.makes[5][2][m] \notin {6}
    BY <1>2 DEF None, LastType, TypeRefsOf
  <2>6. DOMAIN r.gives = 1 .. 1 /\ r.gives[1] = 6
    BY <1>1
  <2>7. DOMAIN r.makes = 1 .. 5
    BY <1>2
  <2>8. \A k \in DOMAIN r.makes : \A m \in DOMAIN r.makes[k][2] : r.makes[k][2][m] \notin {6}
    BY <2>1, <2>2, <2>3, <2>4, <2>5, <2>7
  <2>9. r.grow = <<>>
    BY <1>1
  <2>10. QED  BY <2>6, <2>7, <2>8, <2>9 DEF GivesUncounted, NullItem
<1>9. GivesKind(r)
  <2>1. ~Plural(r.lhs)
    BY <1>1 DEF Plural
  <2>2. \A class : ~Single(r.lhs, class)
    BY <1>1 DEF Single
  <2>3. \A q \in DOMAIN r.gives : r.gives[q] # NullItem /\ ~Found(r, r.gives[q], {"cases"})
    BY <1>1, <1>2 DEF Found, NullItem
  <2>4. QED  BY <2>1, <2>2, <2>3 DEF GivesKind
<1>10. DropsSound(r)
  BY <1>1, <1>2 DEF DropsSound, Found
<1>11. QED  BY <1>4, <1>5, <1>6, <1>7, <1>8, <1>9, <1>10 DEF RowSound, r

\* Row DeclFuncParams of VariableDecls, "declaration" from "typeref" "params", is sound.
LEMMA DeclFuncParamsSound == RowSound(VariableDecls.DeclFuncParams)
<1> DEFINE r == VariableDecls.DeclFuncParams
<1>1. /\ r.lhs = "declaration" /\ r.rhs = <<"typeref", "params">> /\ r.grow = <<>> /\ r.gives = <<6>>
      /\ r.drops = <<5, 4, 3, 1, 2>>
      /\ r.makes = << <<"CopiedTypeRefs", <<TypeRefsOf>>>>, <<"FunctionTypeRef", <<1, 3>>>>,
                        <<"TypeNode", <<4>>>>, <<"UndefinedFunction", <<5, 2>>>> >>
  BY DEF VariableDecls, Variables, Row, None
<1> HIDE DEF r
<1>2. /\ DOMAIN r.rhs = 1 .. 2 /\ Len(r.rhs) = 2 /\ r.rhs[1] = "typeref" /\ r.rhs[2] = "params"
      /\ DOMAIN r.makes = 1 .. 4 /\ Len(r.makes) = 4 /\ Items(r) = 1 .. 6
      /\ r.makes[1][1] = "CopiedTypeRefs" /\ r.makes[1][2] = <<TypeRefsOf>>
      /\ r.makes[2][1] = "FunctionTypeRef" /\ r.makes[2][2] = <<1, 3>> /\ r.makes[3][1] = "TypeNode"
      /\ r.makes[3][2] = <<4>> /\ r.makes[4][1] = "UndefinedFunction" /\ r.makes[4][2] = <<5, 2>>
  BY <1>1 DEF Items
<1>3. /\ Modes["CopiedTypeRefs"] = <<"count">> /\ Modes["FunctionTypeRef"] = <<"count", "count">>
      /\ Modes["TypeNode"] = <<"count">> /\ Modes["UndefinedFunction"] = <<"count", "count">>
      /\ {"CopiedTypeRefs", "FunctionTypeRef", "TypeNode", "UndefinedFunction"} \subseteq DOMAIN Modes
  BY ModesAre
<1>4. Formed(r)
  <2>1. r.lhs \in Symbols /\ r.rhs \in Seq(Symbols)
    BY <1>1 DEF Symbols
  <2>2. /\ r.gives \in Seq(1 .. 6 \cup {NullItem}) /\ r.drops \in Seq(1 .. 6)
        /\ 2 + 4 < NullItem
    BY <1>1 DEF NullItem
  <2>3. DOMAIN r.makes = 1 .. 4
    BY <1>2
  <2>4. QED  BY <1>2, <2>1, <2>2, <2>3 DEF Formed
<1>5. UsedOnce(r)
  <2>1. ASSUME NEW a, NEW b, NEW i, i # 0, Takes(r, a, b, i) PROVE FALSE
    <3>1. CASE a = 1
      BY <1>2, <1>3, <2>1, <3>1 DEF Takes
    <3>2. CASE a = 2
      BY <1>2, <1>3, <2>1, <3>2 DEF Takes
    <3>3. CASE a = 3
      BY <1>2, <1>3, <2>1, <3>3 DEF Takes
    <3>4. CASE a = 4
      BY <1>2, <1>3, <2>1, <3>4 DEF Takes
    <3>5. QED  BY <1>2, <2>1, <3>1, <3>2, <3>3, <3>4 DEF Takes
  <2>2. Once(r, 1, 4, 4, 0)
    BY <1>1, <2>1 DEF Once, UsedUp, Lists, Grows, NullItem
  <2>3. Once(r, 2, 4, 5, 0)
    BY <1>1, <2>1 DEF Once, UsedUp, Lists, Grows, NullItem
  <2>4. Once(r, 3, 4, 3, 0)
    BY <1>1, <2>1 DEF Once, UsedUp, Lists, Grows, NullItem
  <2>5. Once(r, 4, 4, 2, 0)
    BY <1>1, <2>1 DEF Once, UsedUp, Lists, Grows, NullItem
  <2>6. Once(r, 5, 4, 1, 0)
    BY <1>1, <2>1 DEF Once, UsedUp, Lists, Grows, NullItem
  <2>7. Once(r, 6, 3, 1, 0)
    BY <1>1, <2>1 DEF Once, UsedUp, Lists, Grows, NullItem
  <2>8. QED  BY <1>2, <2>2, <2>3, <2>4, <2>5, <2>6, <2>7 DEF UsedOnce
<1>6. MakesSound(r)
  <2>1. NodeMade(r, 1)
    BY <1>1, <1>2, <1>3 DEF NodeMade, Made, Found, None, LastType, TypeRefsOf
  <2>2. NodeMade(r, 2)
    BY <1>1, <1>2, <1>3 DEF NodeMade, Made, Found, None, LastType, TypeRefsOf
  <2>3. NodeMade(r, 3)
    BY <1>1, <1>2, <1>3 DEF NodeMade, Made, Found, None, LastType, TypeRefsOf
  <2>4. NodeMade(r, 4)
    BY <1>1, <1>2, <1>3 DEF NodeMade, Made, Found, None, LastType, TypeRefsOf
  <2>5. DOMAIN r.makes = 1 .. 4
    BY <1>2
  <2>6. QED  BY <2>1, <2>2, <2>3, <2>4, <2>5 DEF MakesSound
<1>7. GrowSound(r)
  BY <1>1 DEF GrowSound
<1>8. GivesUncounted(r)
  <2>1. \A m \in DOMAIN r.makes[1][2] : r.makes[1][2][m] \notin {6}
    BY <1>2 DEF None, LastType, TypeRefsOf
  <2>2. \A m \in DOMAIN r.makes[2][2] : r.makes[2][2][m] \notin {6}
    BY <1>2 DEF None, LastType, TypeRefsOf
  <2>3. \A m \in DOMAIN r.makes[3][2] : r.makes[3][2][m] \notin {6}
    BY <1>2 DEF None, LastType, TypeRefsOf
  <2>4. \A m \in DOMAIN r.makes[4][2] : r.makes[4][2][m] \notin {6}
    BY <1>2 DEF None, LastType, TypeRefsOf
  <2>5. DOMAIN r.gives = 1 .. 1 /\ r.gives[1] = 6
    BY <1>1
  <2>6. DOMAIN r.makes = 1 .. 4
    BY <1>2
  <2>7. \A k \in DOMAIN r.makes : \A m \in DOMAIN r.makes[k][2] : r.makes[k][2][m] \notin {6}
    BY <2>1, <2>2, <2>3, <2>4, <2>6
  <2>8. r.grow = <<>>
    BY <1>1
  <2>9. QED  BY <2>5, <2>6, <2>7, <2>8 DEF GivesUncounted, NullItem
<1>9. GivesKind(r)
  <2>1. ~Plural(r.lhs)
    BY <1>1 DEF Plural
  <2>2. \A class : ~Single(r.lhs, class)
    BY <1>1 DEF Single
  <2>3. \A q \in DOMAIN r.gives : r.gives[q] # NullItem /\ ~Found(r, r.gives[q], {"cases"})
    BY <1>1, <1>2 DEF Found, NullItem
  <2>4. QED  BY <2>1, <2>2, <2>3 DEF GivesKind
<1>10. DropsSound(r)
  BY <1>1, <1>2 DEF DropsSound, Found
<1>11. QED  BY <1>4, <1>5, <1>6, <1>7, <1>8, <1>9, <1>10 DEF RowSound, r

\* Row DeclVar of VariableDecls, "declaration" from "typeref", is sound.
LEMMA DeclVarSound == RowSound(VariableDecls.DeclVar)
<1> DEFINE r == VariableDecls.DeclVar
<1>1. /\ r.lhs = "declaration" /\ r.rhs = <<"typeref">> /\ r.grow = <<>> /\ r.gives = <<3>>
      /\ r.drops = <<2, 1>>
      /\ r.makes = << <<"TypeNode", <<1>>>>, <<"DefinedVariable", <<2, 0>>>> >>
  BY DEF VariableDecls, Variables, Row, None
<1> HIDE DEF r
<1>2. /\ DOMAIN r.rhs = 1 .. 1 /\ Len(r.rhs) = 1 /\ r.rhs[1] = "typeref" /\ DOMAIN r.makes = 1 .. 2
      /\ Len(r.makes) = 2 /\ Items(r) = 1 .. 3 /\ r.makes[1][1] = "TypeNode" /\ r.makes[1][2] = <<1>>
      /\ r.makes[2][1] = "DefinedVariable" /\ r.makes[2][2] = <<2, 0>>
  BY <1>1 DEF Items
<1>3. /\ Modes["TypeNode"] = <<"count">> /\ Modes["DefinedVariable"] = <<"count", "count">>
      /\ {"TypeNode", "DefinedVariable"} \subseteq DOMAIN Modes
  BY ModesAre
<1>4. Formed(r)
  <2>1. r.lhs \in Symbols /\ r.rhs \in Seq(Symbols)
    BY <1>1 DEF Symbols
  <2>2. /\ r.gives \in Seq(1 .. 3 \cup {NullItem}) /\ r.drops \in Seq(1 .. 3)
        /\ 1 + 2 < NullItem
    BY <1>1 DEF NullItem
  <2>3. DOMAIN r.makes = 1 .. 2
    BY <1>2
  <2>4. QED  BY <1>2, <2>1, <2>2, <2>3 DEF Formed
<1>5. UsedOnce(r)
  <2>1. ASSUME NEW a, NEW b, NEW i, i # 0, Takes(r, a, b, i) PROVE FALSE
    <3>1. CASE a = 1
      BY <1>2, <1>3, <2>1, <3>1 DEF Takes
    <3>2. CASE a = 2
      BY <1>2, <1>3, <2>1, <3>2 DEF Takes
    <3>3. QED  BY <1>2, <2>1, <3>1, <3>2 DEF Takes
  <2>2. Once(r, 1, 4, 2, 0)
    BY <1>1, <2>1 DEF Once, UsedUp, Lists, Grows, NullItem
  <2>3. Once(r, 2, 4, 1, 0)
    BY <1>1, <2>1 DEF Once, UsedUp, Lists, Grows, NullItem
  <2>4. Once(r, 3, 3, 1, 0)
    BY <1>1, <2>1 DEF Once, UsedUp, Lists, Grows, NullItem
  <2>5. QED  BY <1>2, <2>2, <2>3, <2>4 DEF UsedOnce
<1>6. MakesSound(r)
  BY <1>1, <1>2, <1>3 DEF MakesSound, NodeMade, Made, Found, None, LastType, TypeRefsOf
<1>7. GrowSound(r)
  BY <1>1 DEF GrowSound
<1>8. GivesUncounted(r)
  <2>1. \A m \in DOMAIN r.makes[1][2] : r.makes[1][2][m] \notin {3}
    BY <1>2 DEF None, LastType, TypeRefsOf
  <2>2. \A m \in DOMAIN r.makes[2][2] : r.makes[2][2][m] \notin {3}
    BY <1>2 DEF None, LastType, TypeRefsOf
  <2>3. DOMAIN r.gives = 1 .. 1 /\ r.gives[1] = 3
    BY <1>1
  <2>4. DOMAIN r.makes = 1 .. 2
    BY <1>2
  <2>5. \A k \in DOMAIN r.makes : \A m \in DOMAIN r.makes[k][2] : r.makes[k][2][m] \notin {3}
    BY <2>1, <2>2, <2>4
  <2>6. r.grow = <<>>
    BY <1>1
  <2>7. QED  BY <2>3, <2>4, <2>5, <2>6 DEF GivesUncounted, NullItem
<1>9. GivesKind(r)
  <2>1. ~Plural(r.lhs)
    BY <1>1 DEF Plural
  <2>2. \A class : ~Single(r.lhs, class)
    BY <1>1 DEF Single
  <2>3. \A q \in DOMAIN r.gives : r.gives[q] # NullItem /\ ~Found(r, r.gives[q], {"cases"})
    BY <1>1, <1>2 DEF Found, NullItem
  <2>4. QED  BY <2>1, <2>2, <2>3 DEF GivesKind
<1>10. DropsSound(r)
  BY <1>1, <1>2 DEF DropsSound, Found
<1>11. QED  BY <1>4, <1>5, <1>6, <1>7, <1>8, <1>9, <1>10 DEF RowSound, r

\* Row DefVar of VariableDecls, "def_vars" from "typeref", is sound.
LEMMA DefVarSound == RowSound(VariableDecls.DefVar)
<1> DEFINE r == VariableDecls.DefVar
<1>1. /\ r.lhs = "def_vars" /\ r.rhs = <<"typeref">> /\ r.grow = <<>> /\ r.gives = <<3>>
      /\ r.drops = <<1, 2>>
      /\ r.makes = << <<"TypeNode", <<1>>>>, <<"DefinedVariable", <<2, 0>>>> >>
  BY DEF VariableDecls, Variables, Row, None
<1> HIDE DEF r
<1>2. /\ DOMAIN r.rhs = 1 .. 1 /\ Len(r.rhs) = 1 /\ r.rhs[1] = "typeref" /\ DOMAIN r.makes = 1 .. 2
      /\ Len(r.makes) = 2 /\ Items(r) = 1 .. 3 /\ r.makes[1][1] = "TypeNode" /\ r.makes[1][2] = <<1>>
      /\ r.makes[2][1] = "DefinedVariable" /\ r.makes[2][2] = <<2, 0>>
  BY <1>1 DEF Items
<1>3. /\ Modes["TypeNode"] = <<"count">> /\ Modes["DefinedVariable"] = <<"count", "count">>
      /\ {"TypeNode", "DefinedVariable"} \subseteq DOMAIN Modes
  BY ModesAre
<1>4. Formed(r)
  <2>1. r.lhs \in Symbols /\ r.rhs \in Seq(Symbols)
    BY <1>1 DEF Symbols
  <2>2. /\ r.gives \in Seq(1 .. 3 \cup {NullItem}) /\ r.drops \in Seq(1 .. 3)
        /\ 1 + 2 < NullItem
    BY <1>1 DEF NullItem
  <2>3. DOMAIN r.makes = 1 .. 2
    BY <1>2
  <2>4. QED  BY <1>2, <2>1, <2>2, <2>3 DEF Formed
<1>5. UsedOnce(r)
  <2>1. ASSUME NEW a, NEW b, NEW i, i # 0, Takes(r, a, b, i) PROVE FALSE
    <3>1. CASE a = 1
      BY <1>2, <1>3, <2>1, <3>1 DEF Takes
    <3>2. CASE a = 2
      BY <1>2, <1>3, <2>1, <3>2 DEF Takes
    <3>3. QED  BY <1>2, <2>1, <3>1, <3>2 DEF Takes
  <2>2. Once(r, 1, 4, 1, 0)
    BY <1>1, <2>1 DEF Once, UsedUp, Lists, Grows, NullItem
  <2>3. Once(r, 2, 4, 2, 0)
    BY <1>1, <2>1 DEF Once, UsedUp, Lists, Grows, NullItem
  <2>4. Once(r, 3, 3, 1, 0)
    BY <1>1, <2>1 DEF Once, UsedUp, Lists, Grows, NullItem
  <2>5. QED  BY <1>2, <2>2, <2>3, <2>4 DEF UsedOnce
<1>6. MakesSound(r)
  BY <1>1, <1>2, <1>3 DEF MakesSound, NodeMade, Made, Found, None, LastType, TypeRefsOf
<1>7. GrowSound(r)
  BY <1>1 DEF GrowSound
<1>8. GivesUncounted(r)
  <2>1. \A m \in DOMAIN r.makes[1][2] : r.makes[1][2][m] \notin {3}
    BY <1>2 DEF None, LastType, TypeRefsOf
  <2>2. \A m \in DOMAIN r.makes[2][2] : r.makes[2][2][m] \notin {3}
    BY <1>2 DEF None, LastType, TypeRefsOf
  <2>3. DOMAIN r.gives = 1 .. 1 /\ r.gives[1] = 3
    BY <1>1
  <2>4. DOMAIN r.makes = 1 .. 2
    BY <1>2
  <2>5. \A k \in DOMAIN r.makes : \A m \in DOMAIN r.makes[k][2] : r.makes[k][2][m] \notin {3}
    BY <2>1, <2>2, <2>4
  <2>6. r.grow = <<>>
    BY <1>1
  <2>7. QED  BY <2>3, <2>4, <2>5, <2>6 DEF GivesUncounted, NullItem
<1>9. GivesKind(r)
  <2>1. \A class : ~Single(r.lhs, class)
    BY <1>1 DEF Single
  <2>2. r.gives # <<>> /\ \A q \in DOMAIN r.gives :
            Found(r, r.gives[q], {"def_vars", "param"}) \/ Made(r, r.gives[q], "DefinedVariable")
    BY <1>1, <1>2 DEF Found, Made
  <2>3. \A q \in DOMAIN r.gives : r.gives[q] # NullItem /\ ~Found(r, r.gives[q], {"cases"})
    BY <1>1, <1>2 DEF Found, NullItem
  <2>4. QED  BY <2>1, <2>2, <2>3 DEF GivesKind
<1>10. DropsSound(r)
  BY <1>1, <1>2 DEF DropsSound, Found
<1>11. QED  BY <1>4, <1>5, <1>6, <1>7, <1>8, <1>9, <1>10 DEF RowSound, r

\* Row DefVarInit of VariableDecls, "def_vars" from "typeref" "expr", is sound.
LEMMA DefVarInitSound == RowSound(VariableDecls.DefVarInit)
<1> DEFINE r == VariableDecls.DefVarInit
<1>1. /\ r.lhs = "def_vars" /\ r.rhs = <<"typeref", "expr">> /\ r.grow = <<>> /\ r.gives = <<4>>
      /\ r.drops = <<1, 2, 3>>
      /\ r.makes = << <<"TypeNode", <<1>>>>, <<"DefinedVariable", <<3, 2>>>> >>
  BY DEF VariableDecls, Variables, Row, None
<1> HIDE DEF r
<1>2. /\ DOMAIN r.rhs = 1 .. 2 /\ Len(r.rhs) = 2 /\ r.rhs[1] = "typeref" /\ r.rhs[2] = "expr"
      /\ DOMAIN r.makes = 1 .. 2 /\ Len(r.makes) = 2 /\ Items(r) = 1 .. 4
      /\ r.makes[1][1] = "TypeNode" /\ r.makes[1][2] = <<1>> /\ r.makes[2][1] = "DefinedVariable"
      /\ r.makes[2][2] = <<3, 2>>
  BY <1>1 DEF Items
<1>3. /\ Modes["TypeNode"] = <<"count">> /\ Modes["DefinedVariable"] = <<"count", "count">>
      /\ {"TypeNode", "DefinedVariable"} \subseteq DOMAIN Modes
  BY ModesAre
<1>4. Formed(r)
  <2>1. r.lhs \in Symbols /\ r.rhs \in Seq(Symbols)
    BY <1>1 DEF Symbols
  <2>2. /\ r.gives \in Seq(1 .. 4 \cup {NullItem}) /\ r.drops \in Seq(1 .. 4)
        /\ 2 + 2 < NullItem
    BY <1>1 DEF NullItem
  <2>3. DOMAIN r.makes = 1 .. 2
    BY <1>2
  <2>4. QED  BY <1>2, <2>1, <2>2, <2>3 DEF Formed
<1>5. UsedOnce(r)
  <2>1. ASSUME NEW a, NEW b, NEW i, i # 0, Takes(r, a, b, i) PROVE FALSE
    <3>1. CASE a = 1
      BY <1>2, <1>3, <2>1, <3>1 DEF Takes
    <3>2. CASE a = 2
      BY <1>2, <1>3, <2>1, <3>2 DEF Takes
    <3>3. QED  BY <1>2, <2>1, <3>1, <3>2 DEF Takes
  <2>2. Once(r, 1, 4, 1, 0)
    BY <1>1, <2>1 DEF Once, UsedUp, Lists, Grows, NullItem
  <2>3. Once(r, 2, 4, 2, 0)
    BY <1>1, <2>1 DEF Once, UsedUp, Lists, Grows, NullItem
  <2>4. Once(r, 3, 4, 3, 0)
    BY <1>1, <2>1 DEF Once, UsedUp, Lists, Grows, NullItem
  <2>5. Once(r, 4, 3, 1, 0)
    BY <1>1, <2>1 DEF Once, UsedUp, Lists, Grows, NullItem
  <2>6. QED  BY <1>2, <2>2, <2>3, <2>4, <2>5 DEF UsedOnce
<1>6. MakesSound(r)
  BY <1>1, <1>2, <1>3 DEF MakesSound, NodeMade, Made, Found, None, LastType, TypeRefsOf
<1>7. GrowSound(r)
  BY <1>1 DEF GrowSound
<1>8. GivesUncounted(r)
  <2>1. \A m \in DOMAIN r.makes[1][2] : r.makes[1][2][m] \notin {4}
    BY <1>2 DEF None, LastType, TypeRefsOf
  <2>2. \A m \in DOMAIN r.makes[2][2] : r.makes[2][2][m] \notin {4}
    BY <1>2 DEF None, LastType, TypeRefsOf
  <2>3. DOMAIN r.gives = 1 .. 1 /\ r.gives[1] = 4
    BY <1>1
  <2>4. DOMAIN r.makes = 1 .. 2
    BY <1>2
  <2>5. \A k \in DOMAIN r.makes : \A m \in DOMAIN r.makes[k][2] : r.makes[k][2][m] \notin {4}
    BY <2>1, <2>2, <2>4
  <2>6. r.grow = <<>>
    BY <1>1
  <2>7. QED  BY <2>3, <2>4, <2>5, <2>6 DEF GivesUncounted, NullItem
<1>9. GivesKind(r)
  <2>1. \A class : ~Single(r.lhs, class)
    BY <1>1 DEF Single
  <2>2. r.gives # <<>> /\ \A q \in DOMAIN r.gives :
            Found(r, r.gives[q], {"def_vars", "param"}) \/ Made(r, r.gives[q], "DefinedVariable")
    BY <1>1, <1>2 DEF Found, Made
  <2>3. \A q \in DOMAIN r.gives : r.gives[q] # NullItem /\ ~Found(r, r.gives[q], {"cases"})
    BY <1>1, <1>2 DEF Found, NullItem
  <2>4. QED  BY <2>1, <2>2, <2>3 DEF GivesKind
<1>10. DropsSound(r)
  BY <1>1, <1>2 DEF DropsSound, Found
<1>11. QED  BY <1>4, <1>5, <1>6, <1>7, <1>8, <1>9, <1>10 DEF RowSound, r

\* Row NextVar of VariableDecls, "def_vars" from "def_vars", is sound.
LEMMA NextVarSound == RowSound(VariableDecls.NextVar)
<1> DEFINE r == VariableDecls.NextVar
<1>1. /\ r.lhs = "def_vars" /\ r.rhs = <<"def_vars">> /\ r.grow = <<>> /\ r.gives = <<1, 2>>
      /\ r.drops = <<>>
      /\ r.makes = << <<"DefinedVariable", <<LastType, 0>>>> >>
  BY DEF VariableDecls, Variables, Row, None
<1> HIDE DEF r
<1>2. /\ DOMAIN r.rhs = 1 .. 1 /\ Len(r.rhs) = 1 /\ r.rhs[1] = "def_vars" /\ DOMAIN r.makes = 1 .. 1
      /\ Len(r.makes) = 1 /\ Items(r) = 1 .. 2 /\ r.makes[1][1] = "DefinedVariable"
      /\ r.makes[1][2] = <<LastType, 0>>
  BY <1>1 DEF Items
<1>3. /\ Modes["DefinedVariable"] = <<"count", "count">>
      /\ {"DefinedVariable"} \subseteq DOMAIN Modes
  BY ModesAre
<1>4. Formed(r)
  <2>1. r.lhs \in Symbols /\ r.rhs \in Seq(Symbols)
    BY <1>1 DEF Symbols
  <2>2. /\ r.gives \in Seq(1 .. 2 \cup {NullItem}) /\ r.drops \in Seq(1 .. 2)
        /\ 1 + 1 < NullItem
    BY <1>1 DEF NullItem
  <2>3. DOMAIN r.makes = 1 .. 1
    BY <1>2
  <2>4. QED  BY <1>2, <2>1, <2>2, <2>3 DEF Formed
<1>5. UsedOnce(r)
  <2>1. ASSUME NEW a, NEW b, NEW i, i # 0, Takes(r, a, b, i) PROVE FALSE
    BY <1>2, <1>3, <2>1 DEF Takes
  <2>2. Once(r, 1, 3, 1, 0)
    BY <1>1, <2>1 DEF Once, UsedUp, Lists, Grows, NullItem
  <2>3. Once(r, 2, 3, 2, 0)
    BY <1>1, <2>1 DEF Once, UsedUp, Lists, Grows, NullItem
  <2>4. QED  BY <1>2, <2>2, <2>3 DEF UsedOnce
<1>6. MakesSound(r)
  BY <1>1, <1>2, <1>3 DEF MakesSound, NodeMade, Made, Found, None, LastType, TypeRefsOf
<1>7. GrowSound(r)
  BY <1>1 DEF GrowSound
<1>8. GivesUncounted(r)
  <2>1. \A m \in DOMAIN r.makes[1][2] : r.makes[1][2][m] \notin {1, 2}
    BY <1>2 DEF None, LastType, TypeRefsOf
  <2>2. DOMAIN r.gives = 1 .. 2 /\ r.gives[1] = 1 /\ r.gives[2] = 2
    BY <1>1
  <2>3. DOMAIN r.makes = 1 .. 1
    BY <1>2
  <2>4. \A k \in DOMAIN r.makes : \A m \in DOMAIN r.makes[k][2] : r.makes[k][2][m] \notin {1, 2}
    BY <2>1, <2>3
  <2>5. r.grow = <<>>
    BY <1>1
  <2>6. QED  BY <2>2, <2>3, <2>4, <2>5 DEF GivesUncounted, NullItem
<1>9. GivesKind(r)
  <2>1. \A class : ~Single(r.lhs, class)
    BY <1>1 DEF Single
  <2>2. r.gives # <<>> /\ \A q \in DOMAIN r.gives :
            Found(r, r.gives[q], {"def_vars", "param"}) \/ Made(r, r.gives[q], "DefinedVariable")
    BY <1>1, <1>2 DEF Found, Made
  <2>3. \A q \in DOMAIN r.gives : r.gives[q] # NullItem /\ ~Found(r, r.gives[q], {"cases"})
    BY <1>1, <1>2 DEF Found, NullItem
  <2>4. QED  BY <2>1, <2>2, <2>3 DEF GivesKind
<1>10. DropsSound(r)
  BY <1>1, <1>2 DEF DropsSound, Found
<1>11. QED  BY <1>4, <1>5, <1>6, <1>7, <1>8, <1>9, <1>10 DEF RowSound, r

\* Row NextVarInit of VariableDecls, "def_vars" from "def_vars" "expr", is sound.
LEMMA NextVarInitSound == RowSound(VariableDecls.NextVarInit)
<1> DEFINE r == VariableDecls.NextVarInit
<1>1. /\ r.lhs = "def_vars" /\ r.rhs = <<"def_vars", "expr">> /\ r.grow = <<>> /\ r.gives = <<1, 3>>
      /\ r.drops = <<2>>
      /\ r.makes = << <<"DefinedVariable", <<LastType, 2>>>> >>
  BY DEF VariableDecls, Variables, Row, None
<1> HIDE DEF r
<1>2. /\ DOMAIN r.rhs = 1 .. 2 /\ Len(r.rhs) = 2 /\ r.rhs[1] = "def_vars" /\ r.rhs[2] = "expr"
      /\ DOMAIN r.makes = 1 .. 1 /\ Len(r.makes) = 1 /\ Items(r) = 1 .. 3
      /\ r.makes[1][1] = "DefinedVariable" /\ r.makes[1][2] = <<LastType, 2>>
  BY <1>1 DEF Items
<1>3. /\ Modes["DefinedVariable"] = <<"count", "count">>
      /\ {"DefinedVariable"} \subseteq DOMAIN Modes
  BY ModesAre
<1>4. Formed(r)
  <2>1. r.lhs \in Symbols /\ r.rhs \in Seq(Symbols)
    BY <1>1 DEF Symbols
  <2>2. /\ r.gives \in Seq(1 .. 3 \cup {NullItem}) /\ r.drops \in Seq(1 .. 3)
        /\ 2 + 1 < NullItem
    BY <1>1 DEF NullItem
  <2>3. DOMAIN r.makes = 1 .. 1
    BY <1>2
  <2>4. QED  BY <1>2, <2>1, <2>2, <2>3 DEF Formed
<1>5. UsedOnce(r)
  <2>1. ASSUME NEW a, NEW b, NEW i, i # 0, Takes(r, a, b, i) PROVE FALSE
    BY <1>2, <1>3, <2>1 DEF Takes
  <2>2. Once(r, 1, 3, 1, 0)
    BY <1>1, <2>1 DEF Once, UsedUp, Lists, Grows, NullItem
  <2>3. Once(r, 2, 4, 1, 0)
    BY <1>1, <2>1 DEF Once, UsedUp, Lists, Grows, NullItem
  <2>4. Once(r, 3, 3, 2, 0)
    BY <1>1, <2>1 DEF Once, UsedUp, Lists, Grows, NullItem
  <2>5. QED  BY <1>2, <2>2, <2>3, <2>4 DEF UsedOnce
<1>6. MakesSound(r)
  BY <1>1, <1>2, <1>3 DEF MakesSound, NodeMade, Made, Found, None, LastType, TypeRefsOf
<1>7. GrowSound(r)
  BY <1>1 DEF GrowSound
<1>8. GivesUncounted(r)
  <2>1. \A m \in DOMAIN r.makes[1][2] : r.makes[1][2][m] \notin {1, 3}
    BY <1>2 DEF None, LastType, TypeRefsOf
  <2>2. DOMAIN r.gives = 1 .. 2 /\ r.gives[1] = 1 /\ r.gives[2] = 3
    BY <1>1
  <2>3. DOMAIN r.makes = 1 .. 1
    BY <1>2
  <2>4. \A k \in DOMAIN r.makes : \A m \in DOMAIN r.makes[k][2] : r.makes[k][2][m] \notin {1, 3}
    BY <2>1, <2>3
  <2>5. r.grow = <<>>
    BY <1>1
  <2>6. QED  BY <2>2, <2>3, <2>4, <2>5 DEF GivesUncounted, NullItem
<1>9. GivesKind(r)
  <2>1. \A class : ~Single(r.lhs, class)
    BY <1>1 DEF Single
  <2>2. r.gives # <<>> /\ \A q \in DOMAIN r.gives :
            Found(r, r.gives[q], {"def_vars", "param"}) \/ Made(r, r.gives[q], "DefinedVariable")
    BY <1>1, <1>2 DEF Found, Made
  <2>3. \A q \in DOMAIN r.gives : r.gives[q] # NullItem /\ ~Found(r, r.gives[q], {"cases"})
    BY <1>1, <1>2 DEF Found, NullItem
  <2>4. QED  BY <2>1, <2>2, <2>3 DEF GivesKind
<1>10. DropsSound(r)
  BY <1>1, <1>2 DEF DropsSound, Found
<1>11. QED  BY <1>4, <1>5, <1>6, <1>7, <1>8, <1>9, <1>10 DEF RowSound, r

\* Row DefConst of VariableDecls, "declaration" from "typeref" "expr", is sound.
LEMMA DefConstSound == RowSound(VariableDecls.DefConst)
<1> DEFINE r == VariableDecls.DefConst
<1>1. /\ r.lhs = "declaration" /\ r.rhs = <<"typeref", "expr">> /\ r.grow = <<>> /\ r.gives = <<4>>
      /\ r.drops = <<1, 2, 3>>
      /\ r.makes = << <<"TypeNode", <<1>>>>, <<"Constant", <<3, 2>>>> >>
  BY DEF VariableDecls, Variables, Row, None
<1> HIDE DEF r
<1>2. /\ DOMAIN r.rhs = 1 .. 2 /\ Len(r.rhs) = 2 /\ r.rhs[1] = "typeref" /\ r.rhs[2] = "expr"
      /\ DOMAIN r.makes = 1 .. 2 /\ Len(r.makes) = 2 /\ Items(r) = 1 .. 4
      /\ r.makes[1][1] = "TypeNode" /\ r.makes[1][2] = <<1>> /\ r.makes[2][1] = "Constant"
      /\ r.makes[2][2] = <<3, 2>>
  BY <1>1 DEF Items
<1>3. /\ Modes["TypeNode"] = <<"count">> /\ Modes["Constant"] = <<"count", "count">>
      /\ {"TypeNode", "Constant"} \subseteq DOMAIN Modes
  BY ModesAre
<1>4. Formed(r)
  <2>1. r.lhs \in Symbols /\ r.rhs \in Seq(Symbols)
    BY <1>1 DEF Symbols
  <2>2. /\ r.gives \in Seq(1 .. 4 \cup {NullItem}) /\ r.drops \in Seq(1 .. 4)
        /\ 2 + 2 < NullItem
    BY <1>1 DEF NullItem
  <2>3. DOMAIN r.makes = 1 .. 2
    BY <1>2
  <2>4. QED  BY <1>2, <2>1, <2>2, <2>3 DEF Formed
<1>5. UsedOnce(r)
  <2>1. ASSUME NEW a, NEW b, NEW i, i # 0, Takes(r, a, b, i) PROVE FALSE
    <3>1. CASE a = 1
      BY <1>2, <1>3, <2>1, <3>1 DEF Takes
    <3>2. CASE a = 2
      BY <1>2, <1>3, <2>1, <3>2 DEF Takes
    <3>3. QED  BY <1>2, <2>1, <3>1, <3>2 DEF Takes
  <2>2. Once(r, 1, 4, 1, 0)
    BY <1>1, <2>1 DEF Once, UsedUp, Lists, Grows, NullItem
  <2>3. Once(r, 2, 4, 2, 0)
    BY <1>1, <2>1 DEF Once, UsedUp, Lists, Grows, NullItem
  <2>4. Once(r, 3, 4, 3, 0)
    BY <1>1, <2>1 DEF Once, UsedUp, Lists, Grows, NullItem
  <2>5. Once(r, 4, 3, 1, 0)
    BY <1>1, <2>1 DEF Once, UsedUp, Lists, Grows, NullItem
  <2>6. QED  BY <1>2, <2>2, <2>3, <2>4, <2>5 DEF UsedOnce
<1>6. MakesSound(r)
  BY <1>1, <1>2, <1>3 DEF MakesSound, NodeMade, Made, Found, None, LastType, TypeRefsOf
<1>7. GrowSound(r)
  BY <1>1 DEF GrowSound
<1>8. GivesUncounted(r)
  <2>1. \A m \in DOMAIN r.makes[1][2] : r.makes[1][2][m] \notin {4}
    BY <1>2 DEF None, LastType, TypeRefsOf
  <2>2. \A m \in DOMAIN r.makes[2][2] : r.makes[2][2][m] \notin {4}
    BY <1>2 DEF None, LastType, TypeRefsOf
  <2>3. DOMAIN r.gives = 1 .. 1 /\ r.gives[1] = 4
    BY <1>1
  <2>4. DOMAIN r.makes = 1 .. 2
    BY <1>2
  <2>5. \A k \in DOMAIN r.makes : \A m \in DOMAIN r.makes[k][2] : r.makes[k][2][m] \notin {4}
    BY <2>1, <2>2, <2>4
  <2>6. r.grow = <<>>
    BY <1>1
  <2>7. QED  BY <2>3, <2>4, <2>5, <2>6 DEF GivesUncounted, NullItem
<1>9. GivesKind(r)
  <2>1. ~Plural(r.lhs)
    BY <1>1 DEF Plural
  <2>2. \A class : ~Single(r.lhs, class)
    BY <1>1 DEF Single
  <2>3. \A q \in DOMAIN r.gives : r.gives[q] # NullItem /\ ~Found(r, r.gives[q], {"cases"})
    BY <1>1, <1>2 DEF Found, NullItem
  <2>4. QED  BY <2>1, <2>2, <2>3 DEF GivesKind
<1>10. DropsSound(r)
  BY <1>1, <1>2 DEF DropsSound, Found
<1>11. QED  BY <1>4, <1>5, <1>6, <1>7, <1>8, <1>9, <1>10 DEF RowSound, r

\* Row EmptyBlock of Types, "block" from nothing, is sound.
LEMMA EmptyBlockSound == RowSound(Types.EmptyBlock)
<1> DEFINE r == Types.EmptyBlock
<1>1. /\ r.lhs = "block" /\ r.rhs = <<>> /\ r.grow = <<>> /\ r.gives = <<1>>
      /\ r.drops = <<>>
      /\ r.makes = << <<"Block", <<0, 0>>>> >>
  BY DEF Types, Row, None
<1> HIDE DEF r
<1>2. /\ DOMAIN r.rhs = {} /\ Len(r.rhs) = 0 /\ DOMAIN r.makes = 1 .. 1 /\ Len(r.makes) = 1
      /\ Items(r) = 1 .. 1 /\ r.makes[1][1] = "Block" /\ r.makes[1][2] = <<0, 0>>
  BY <1>1 DEF Items
<1>3. Modes["Block"] = <<"take", "take">> /\ {"Block"} \subseteq DOMAIN Modes
  BY ModesAre
<1>4. Formed(r)
  <2>1. r.lhs \in Symbols /\ r.rhs \in Seq(Symbols)
    BY <1>1 DEF Symbols
  <2>2. /\ r.gives \in Seq(1 .. 1 \cup {NullItem}) /\ r.drops \in Seq(1 .. 1)
        /\ 0 + 1 < NullItem
    BY <1>1 DEF NullItem
  <2>3. DOMAIN r.makes = 1 .. 1
    BY <1>2
  <2>4. QED  BY <1>2, <2>1, <2>2, <2>3 DEF Formed
<1>5. UsedOnce(r)
  <2>1. ASSUME NEW a, NEW b, NEW i, i # 0, Takes(r, a, b, i) PROVE FALSE
    BY <1>2, <1>3, <2>1 DEF Takes
  <2>2. Once(r, 1, 3, 1, 0)
    BY <1>1, <2>1 DEF Once, UsedUp, Lists, Grows, NullItem
  <2>3. QED  BY <1>2, <2>2 DEF UsedOnce
<1>6. MakesSound(r)
  BY <1>1, <1>2, <1>3 DEF MakesSound, NodeMade, Made, Found, None, LastType, TypeRefsOf
<1>7. GrowSound(r)
  BY <1>1 DEF GrowSound
<1>8. GivesUncounted(r)
  <2>1. \A m \in DOMAIN r.makes[1][2] : r.makes[1][2][m] \notin {1}
    BY <1>2 DEF None, LastType, TypeRefsOf
  <2>2. DOMAIN r.gives = 1 .. 1 /\ r.gives[1] = 1
    BY <1>1
  <2>3. DOMAIN r.makes = 1 .. 1
    BY <1>2
  <2>4. \A k \in DOMAIN r.makes : \A m \in DOMAIN r.makes[k][2] : r.makes[k][2][m] \notin {1}
    BY <2>1, <2>3
  <2>5. r.grow = <<>>
    BY <1>1
  <2>6. QED  BY <2>2, <2>3, <2>4, <2>5 DEF GivesUncounted, NullItem
<1>9. GivesKind(r)
  <2>1. ~Plural(r.lhs)
    BY <1>1 DEF Plural
  <2>2. \A class : ~Single(r.lhs, class)
    BY <1>1 DEF Single
  <2>3. \A q \in DOMAIN r.gives : r.gives[q] # NullItem /\ ~Found(r, r.gives[q], {"cases"})
    BY <1>1, <1>2 DEF Found, NullItem
  <2>4. QED  BY <2>1, <2>2, <2>3 DEF GivesKind
<1>10. DropsSound(r)
  BY <1>1, <1>2 DEF DropsSound, Found
<1>11. QED  BY <1>4, <1>5, <1>6, <1>7, <1>8, <1>9, <1>10 DEF RowSound, r

\* Row StmtBlock of Types, "block" from "stmts", is sound.
LEMMA StmtBlockSound == RowSound(Types.StmtBlock)
<1> DEFINE r == Types.StmtBlock
<1>1. /\ r.lhs = "block" /\ r.rhs = <<"stmts">> /\ r.grow = <<>> /\ r.gives = <<2>>
      /\ r.drops = <<>>
      /\ r.makes = << <<"Block", <<0, 1>>>> >>
  BY DEF Types, Row, None
<1> HIDE DEF r
<1>2. /\ DOMAIN r.rhs = 1 .. 1 /\ Len(r.rhs) = 1 /\ r.rhs[1] = "stmts" /\ DOMAIN r.makes = 1 .. 1
      /\ Len(r.makes) = 1 /\ Items(r) = 1 .. 2 /\ r.makes[1][1] = "Block" /\ r.makes[1][2] = <<0, 1>>
  BY <1>1 DEF Items
<1>3. Modes["Block"] = <<"take", "take">> /\ {"Block"} \subseteq DOMAIN Modes
  BY ModesAre
<1>4. Formed(r)
  <2>1. r.lhs \in Symbols /\ r.rhs \in Seq(Symbols)
    BY <1>1 DEF Symbols
  <2>2. /\ r.gives \in Seq(1 .. 2 \cup {NullItem}) /\ r.drops \in Seq(1 .. 2)
        /\ 1 + 1 < NullItem
    BY <1>1 DEF NullItem
  <2>3. DOMAIN r.makes = 1 .. 1
    BY <1>2
  <2>4. QED  BY <1>2, <2>1, <2>2, <2>3 DEF Formed
<1>5. UsedOnce(r)
  <2>1. Takes(r, 1, 2, 1)
    BY <1>2, <1>3 DEF Takes
  <2>2. ASSUME NEW a, NEW b, NEW i, i # 0, Takes(r, a, b, i)
        PROVE  (a = 1 /\ b = 2 /\ i = 1)
    BY <1>2, <1>3, <2>2 DEF Takes
  <2>3. Once(r, 1, 1, 1, 2)
    BY <1>1, <2>1, <2>2 DEF Once, UsedUp, Lists, Grows, NullItem
  <2>4. Once(r, 2, 3, 1, 0)
    BY <1>1, <2>1, <2>2 DEF Once, UsedUp, Lists, Grows, NullItem
  <2>5. QED  BY <1>2, <2>3, <2>4 DEF UsedOnce
<1>6. MakesSound(r)
  BY <1>1, <1>2, <1>3 DEF MakesSound, NodeMade, Made, Found, None, LastType, TypeRefsOf
<1>7. GrowSound(r)
  BY <1>1 DEF GrowSound
<1>8. GivesUncounted(r)
  <2>1. \A m \in DOMAIN r.makes[1][2] : r.makes[1][2][m] \notin {2}
    BY <1>2 DEF None, LastType, TypeRefsOf
  <2>2. DOMAIN r.gives = 1 .. 1 /\ r.gives[1] = 2
    BY <1>1
  <2>3. DOMAIN r.makes = 1 .. 1
    BY <1>2
  <2>4. \A k \in DOMAIN r.makes : \A m \in DOMAIN r.makes[k][2] : r.makes[k][2][m] \notin {2}
    BY <2>1, <2>3
  <2>5. r.grow = <<>>
    BY <1>1
  <2>6. QED  BY <2>2, <2>3, <2>4, <2>5 DEF GivesUncounted, NullItem
<1>9. GivesKind(r)
  <2>1. ~Plural(r.lhs)
    BY <1>1 DEF Plural
  <2>2. \A class : ~Single(r.lhs, class)
    BY <1>1 DEF Single
  <2>3. \A q \in DOMAIN r.gives : r.gives[q] # NullItem /\ ~Found(r, r.gives[q], {"cases"})
    BY <1>1, <1>2 DEF Found, NullItem
  <2>4. QED  BY <2>1, <2>2, <2>3 DEF GivesKind
<1>10. DropsSound(r)
  BY <1>1, <1>2 DEF DropsSound, Found
<1>11. QED  BY <1>4, <1>5, <1>6, <1>7, <1>8, <1>9, <1>10 DEF RowSound, r

\* Row VarBlock of Types, "block" from "def_var_list", is sound.
LEMMA VarBlockSound == RowSound(Types.VarBlock)
<1> DEFINE r == Types.VarBlock
<1>1. /\ r.lhs = "block" /\ r.rhs = <<"def_var_list">> /\ r.grow = <<>> /\ r.gives = <<2>>
      /\ r.drops = <<>>
      /\ r.makes = << <<"Block", <<1, 0>>>> >>
  BY DEF Types, Row, None
<1> HIDE DEF r
<1>2. /\ DOMAIN r.rhs = 1 .. 1 /\ Len(r.rhs) = 1 /\ r.rhs[1] = "def_var_list"
      /\ DOMAIN r.makes = 1 .. 1 /\ Len(r.makes) = 1 /\ Items(r) = 1 .. 2 /\ r.makes[1][1] = "Block"
      /\ r.makes[1][2] = <<1, 0>>
  BY <1>1 DEF Items
<1>3. Modes["Block"] = <<"take", "take">> /\ {"Block"} \subseteq DOMAIN Modes
  BY ModesAre
<1>4. Formed(r)
  <2>1. r.lhs \in Symbols /\ r.rhs \in Seq(Symbols)
    BY <1>1 DEF Symbols
  <2>2. /\ r.gives \in Seq(1 .. 2 \cup {NullItem}) /\ r.drops \in Seq(1 .. 2)
        /\ 1 + 1 < NullItem
    BY <1>1 DEF NullItem
  <2>3. DOMAIN r.makes = 1 .. 1
    BY <1>2
  <2>4. QED  BY <1>2, <2>1, <2>2, <2>3 DEF Formed
<1>5. UsedOnce(r)
  <2>1. Takes(r, 1, 1, 1)
    BY <1>2, <1>3 DEF Takes
  <2>2. ASSUME NEW a, NEW b, NEW i, i # 0, Takes(r, a, b, i)
        PROVE  (a = 1 /\ b = 1 /\ i = 1)
    BY <1>2, <1>3, <2>2 DEF Takes
  <2>3. Once(r, 1, 1, 1, 1)
    BY <1>1, <2>1, <2>2 DEF Once, UsedUp, Lists, Grows, NullItem
  <2>4. Once(r, 2, 3, 1, 0)
    BY <1>1, <2>1, <2>2 DEF Once, UsedUp, Lists, Grows, NullItem
  <2>5. QED  BY <1>2, <2>3, <2>4 DEF UsedOnce
<1>6. MakesSound(r)
  BY <1>1, <1>2, <1>3 DEF MakesSound, NodeMade, Made, Found, None, LastType, TypeRefsOf
<1>7. GrowSound(r)
  BY <1>1 DEF GrowSound
<1>8. GivesUncounted(r)
  <2>1. \A m \in DOMAIN r.makes[1][2] : r.makes[1][2][m] \notin {2}
    BY <1>2 DEF None, LastType, TypeRefsOf
  <2>2. DOMAIN r.gives = 1 .. 1 /\ r.gives[1] = 2
    BY <1>1
  <2>3. DOMAIN r.makes = 1 .. 1
    BY <1>2
  <2>4. \A k \in DOMAIN r.makes : \A m \in DOMAIN r.makes[k][2] : r.makes[k][2][m] \notin {2}
    BY <2>1, <2>3
  <2>5. r.grow = <<>>
    BY <1>1
  <2>6. QED  BY <2>2, <2>3, <2>4, <2>5 DEF GivesUncounted, NullItem
<1>9. GivesKind(r)
  <2>1. ~Plural(r.lhs)
    BY <1>1 DEF Plural
  <2>2. \A class : ~Single(r.lhs, class)
    BY <1>1 DEF Single
  <2>3. \A q \in DOMAIN r.gives : r.gives[q] # NullItem /\ ~Found(r, r.gives[q], {"cases"})
    BY <1>1, <1>2 DEF Found, NullItem
  <2>4. QED  BY <2>1, <2>2, <2>3 DEF GivesKind
<1>10. DropsSound(r)
  BY <1>1, <1>2 DEF DropsSound, Found
<1>11. QED  BY <1>4, <1>5, <1>6, <1>7, <1>8, <1>9, <1>10 DEF RowSound, r

\* Row FullBlock of Types, "block" from "def_var_list" "stmts", is sound.
LEMMA FullBlockSound == RowSound(Types.FullBlock)
<1> DEFINE r == Types.FullBlock
<1>1. /\ r.lhs = "block" /\ r.rhs = <<"def_var_list", "stmts">> /\ r.grow = <<>> /\ r.gives = <<3>>
      /\ r.drops = <<>>
      /\ r.makes = << <<"Block", <<1, 2>>>> >>
  BY DEF Types, Row, None
<1> HIDE DEF r
<1>2. /\ DOMAIN r.rhs = 1 .. 2 /\ Len(r.rhs) = 2 /\ r.rhs[1] = "def_var_list" /\ r.rhs[2] = "stmts"
      /\ DOMAIN r.makes = 1 .. 1 /\ Len(r.makes) = 1 /\ Items(r) = 1 .. 3 /\ r.makes[1][1] = "Block"
      /\ r.makes[1][2] = <<1, 2>>
  BY <1>1 DEF Items
<1>3. Modes["Block"] = <<"take", "take">> /\ {"Block"} \subseteq DOMAIN Modes
  BY ModesAre
<1>4. Formed(r)
  <2>1. r.lhs \in Symbols /\ r.rhs \in Seq(Symbols)
    BY <1>1 DEF Symbols
  <2>2. /\ r.gives \in Seq(1 .. 3 \cup {NullItem}) /\ r.drops \in Seq(1 .. 3)
        /\ 2 + 1 < NullItem
    BY <1>1 DEF NullItem
  <2>3. DOMAIN r.makes = 1 .. 1
    BY <1>2
  <2>4. QED  BY <1>2, <2>1, <2>2, <2>3 DEF Formed
<1>5. UsedOnce(r)
  <2>1. Takes(r, 1, 1, 1) /\ Takes(r, 1, 2, 2)
    BY <1>2, <1>3 DEF Takes
  <2>2. ASSUME NEW a, NEW b, NEW i, i # 0, Takes(r, a, b, i)
        PROVE  (a = 1 /\ b = 1 /\ i = 1) \/ (a = 1 /\ b = 2 /\ i = 2)
    BY <1>2, <1>3, <2>2 DEF Takes
  <2>3. Once(r, 1, 1, 1, 1)
    BY <1>1, <2>1, <2>2 DEF Once, UsedUp, Lists, Grows, NullItem
  <2>4. Once(r, 2, 1, 1, 2)
    BY <1>1, <2>1, <2>2 DEF Once, UsedUp, Lists, Grows, NullItem
  <2>5. Once(r, 3, 3, 1, 0)
    BY <1>1, <2>1, <2>2 DEF Once, UsedUp, Lists, Grows, NullItem
  <2>6. QED  BY <1>2, <2>3, <2>4, <2>5 DEF UsedOnce
<1>6. MakesSound(r)
  BY <1>1, <1>2, <1>3 DEF MakesSound, NodeMade, Made, Found, None, LastType, TypeRefsOf
<1>7. GrowSound(r)
  BY <1>1 DEF GrowSound
<1>8. GivesUncounted(r)
  <2>1. \A m \in DOMAIN r.makes[1][2] : r.makes[1][2][m] \notin {3}
    BY <1>2 DEF None, LastType, TypeRefsOf
  <2>2. DOMAIN r.gives = 1 .. 1 /\ r.gives[1] = 3
    BY <1>1
  <2>3. DOMAIN r.makes = 1 .. 1
    BY <1>2
  <2>4. \A k \in DOMAIN r.makes : \A m \in DOMAIN r.makes[k][2] : r.makes[k][2][m] \notin {3}
    BY <2>1, <2>3
  <2>5. r.grow = <<>>
    BY <1>1
  <2>6. QED  BY <2>2, <2>3, <2>4, <2>5 DEF GivesUncounted, NullItem
<1>9. GivesKind(r)
  <2>1. ~Plural(r.lhs)
    BY <1>1 DEF Plural
  <2>2. \A class : ~Single(r.lhs, class)
    BY <1>1 DEF Single
  <2>3. \A q \in DOMAIN r.gives : r.gives[q] # NullItem /\ ~Found(r, r.gives[q], {"cases"})
    BY <1>1, <1>2 DEF Found, NullItem
  <2>4. QED  BY <2>1, <2>2, <2>3 DEF GivesKind
<1>10. DropsSound(r)
  BY <1>1, <1>2 DEF DropsSound, Found
<1>11. QED  BY <1>4, <1>5, <1>6, <1>7, <1>8, <1>9, <1>10 DEF RowSound, r

\* Row VoidFunctionType of Types, "typeref" from "typeref", is sound.
LEMMA VoidFunctionTypeSound == RowSound(Types.VoidFunctionType)
<1> DEFINE r == Types.VoidFunctionType
<1>1. /\ r.lhs = "typeref" /\ r.rhs = <<"typeref">> /\ r.grow = <<>> /\ r.gives = <<3>>
      /\ r.drops = <<2, 1>>
      /\ r.makes = << <<"ParamTypeRefs", <<0>>>>, <<"FunctionTypeRef", <<1, 2>>>> >>
  BY DEF Types, Row, None
<1> HIDE DEF r
<1>2. /\ DOMAIN r.rhs = 1 .. 1 /\ Len(r.rhs) = 1 /\ r.rhs[1] = "typeref" /\ DOMAIN r.makes = 1 .. 2
      /\ Len(r.makes) = 2 /\ Items(r) = 1 .. 3 /\ r.makes[1][1] = "ParamTypeRefs"
      /\ r.makes[1][2] = <<0>> /\ r.makes[2][1] = "FunctionTypeRef" /\ r.makes[2][2] = <<1, 2>>
  BY <1>1 DEF Items
<1>3. /\ Modes["ParamTypeRefs"] = <<"take">> /\ Modes["FunctionTypeRef"] = <<"count", "count">>
      /\ {"ParamTypeRefs", "FunctionTypeRef"} \subseteq DOMAIN Modes
  BY ModesAre
<1>4. Formed(r)
  <2>1. r.lhs \in Symbols /\ r.rhs \in Seq(Symbols)
    BY <1>1 DEF Symbols
  <2>2. /\ r.gives \in Seq(1 .. 3 \cup {NullItem}) /\ r.drops \in Seq(1 .. 3)
        /\ 1 + 2 < NullItem
    BY <1>1 DEF NullItem
  <2>3. DOMAIN r.makes = 1 .. 2
    BY <1>2
  <2>4. QED  BY <1>2, <2>1, <2>2, <2>3 DEF Formed
<1>5. UsedOnce(r)
  <2>1. ASSUME NEW a, NEW b, NEW i, i # 0, Takes(r, a, b, i) PROVE FALSE
    <3>1. CASE a = 1
      BY <1>2, <1>3, <2>1, <3>1 DEF Takes
    <3>2. CASE a = 2
      BY <1>2, <1>3, <2>1, <3>2 DEF Takes
    <3>3. QED  BY <1>2, <2>1, <3>1, <3>2 DEF Takes
  <2>2. Once(r, 1, 4, 2, 0)
    BY <1>1, <2>1 DEF Once, UsedUp, Lists, Grows, NullItem
  <2>3. Once(r, 2, 4, 1, 0)
    BY <1>1, <2>1 DEF Once, UsedUp, Lists, Grows, NullItem
  <2>4. Once(r, 3, 3, 1, 0)
    BY <1>1, <2>1 DEF Once, UsedUp, Lists, Grows, NullItem
  <2>5. QED  BY <1>2, <2>2, <2>3, <2>4 DEF UsedOnce
<1>6. MakesSound(r)
  BY <1>1, <1>2, <1>3 DEF MakesSound, NodeMade, Made, Found, None, LastType, TypeRefsOf
<1>7. GrowSound(r)
  BY <1>1 DEF GrowSound
<1>8. GivesUncounted(r)
  <2>1. \A m \in DOMAIN r.makes[1][2] : r.makes[1][2][m] \notin {3}
    BY <1>2 DEF None, LastType, TypeRefsOf
  <2>2. \A m \in DOMAIN r.makes[2][2] : r.makes[2][2][m] \notin {3}
    BY <1>2 DEF None, LastType, TypeRefsOf
  <2>3. DOMAIN r.gives = 1 .. 1 /\ r.gives[1] = 3
    BY <1>1
  <2>4. DOMAIN r.makes = 1 .. 2
    BY <1>2
  <2>5. \A k \in DOMAIN r.makes : \A m \in DOMAIN r.makes[k][2] : r.makes[k][2][m] \notin {3}
    BY <2>1, <2>2, <2>4
  <2>6. r.grow = <<>>
    BY <1>1
  <2>7. QED  BY <2>3, <2>4, <2>5, <2>6 DEF GivesUncounted, NullItem
<1>9. GivesKind(r)
  <2>1. ~Plural(r.lhs)
    BY <1>1 DEF Plural
  <2>2. \A class : ~Single(r.lhs, class)
    BY <1>1 DEF Single
  <2>3. \A q \in DOMAIN r.gives : r.gives[q] # NullItem /\ ~Found(r, r.gives[q], {"cases"})
    BY <1>1, <1>2 DEF Found, NullItem
  <2>4. QED  BY <2>1, <2>2, <2>3 DEF GivesKind
<1>10. DropsSound(r)
  BY <1>1, <1>2 DEF DropsSound, Found
<1>11. QED  BY <1>4, <1>5, <1>6, <1>7, <1>8, <1>9, <1>10 DEF RowSound, r

\* Row FirstTypeRef of Types, "param_typerefs" from "typeref", is sound.
LEMMA FirstTypeRefSound == RowSound(Types.FirstTypeRef)
<1> DEFINE r == Types.FirstTypeRef
<1>1. /\ r.lhs = "param_typerefs" /\ r.rhs = <<"typeref">> /\ r.grow = <<>> /\ r.gives = <<2>>
      /\ r.drops = <<>>
      /\ r.makes = << <<"ParamTypeRefs", <<1>>>> >>
  BY DEF Types, Row, None
<1> HIDE DEF r
<1>2. /\ DOMAIN r.rhs = 1 .. 1 /\ Len(r.rhs) = 1 /\ r.rhs[1] = "typeref" /\ DOMAIN r.makes = 1 .. 1
      /\ Len(r.makes) = 1 /\ Items(r) = 1 .. 2 /\ r.makes[1][1] = "ParamTypeRefs"
      /\ r.makes[1][2] = <<1>>
  BY <1>1 DEF Items
<1>3. Modes["ParamTypeRefs"] = <<"take">> /\ {"ParamTypeRefs"} \subseteq DOMAIN Modes
  BY ModesAre
<1>4. Formed(r)
  <2>1. r.lhs \in Symbols /\ r.rhs \in Seq(Symbols)
    BY <1>1 DEF Symbols
  <2>2. /\ r.gives \in Seq(1 .. 2 \cup {NullItem}) /\ r.drops \in Seq(1 .. 2)
        /\ 1 + 1 < NullItem
    BY <1>1 DEF NullItem
  <2>3. DOMAIN r.makes = 1 .. 1
    BY <1>2
  <2>4. QED  BY <1>2, <2>1, <2>2, <2>3 DEF Formed
<1>5. UsedOnce(r)
  <2>1. Takes(r, 1, 1, 1)
    BY <1>2, <1>3 DEF Takes
  <2>2. ASSUME NEW a, NEW b, NEW i, i # 0, Takes(r, a, b, i)
        PROVE  (a = 1 /\ b = 1 /\ i = 1)
    BY <1>2, <1>3, <2>2 DEF Takes
  <2>3. Once(r, 1, 1, 1, 1)
    BY <1>1, <2>1, <2>2 DEF Once, UsedUp, Lists, Grows, NullItem
  <2>4. Once(r, 2, 3, 1, 0)
    BY <1>1, <2>1, <2>2 DEF Once, UsedUp, Lists, Grows, NullItem
  <2>5. QED  BY <1>2, <2>3, <2>4 DEF UsedOnce
<1>6. MakesSound(r)
  BY <1>1, <1>2, <1>3 DEF MakesSound, NodeMade, Made, Found, None, LastType, TypeRefsOf
<1>7. GrowSound(r)
  BY <1>1 DEF GrowSound
<1>8. GivesUncounted(r)
  <2>1. \A m \in DOMAIN r.makes[1][2] : r.makes[1][2][m] \notin {2}
    BY <1>2 DEF None, LastType, TypeRefsOf
  <2>2. DOMAIN r.gives = 1 .. 1 /\ r.gives[1] = 2
    BY <1>1
  <2>3. DOMAIN r.makes = 1 .. 1
    BY <1>2
  <2>4. \A k \in DOMAIN r.makes : \A m \in DOMAIN r.makes[k][2] : r.makes[k][2][m] \notin {2}
    BY <2>1, <2>3
  <2>5. r.grow = <<>>
    BY <1>1
  <2>6. QED  BY <2>2, <2>3, <2>4, <2>5 DEF GivesUncounted, NullItem
<1>9. GivesKind(r)
  <2>1. ~Plural(r.lhs) /\ \A class : Single(r.lhs, class) => class = "ParamTypeRefs"
    BY <1>1 DEF Plural, Single
  <2>2. Len(r.gives) = 1 /\ One(r, r.gives[1], "ParamTypeRefs")
    BY <1>1, <1>2 DEF One, Made, Single
  <2>3. \A q \in DOMAIN r.gives : r.gives[q] # NullItem /\ ~Found(r, r.gives[q], {"cases"})
    BY <1>1, <1>2 DEF Found, NullItem
  <2>4. QED  BY <2>1, <2>2, <2>3 DEF GivesKind
<1>10. DropsSound(r)
  BY <1>1, <1>2 DEF DropsSound, Found
<1>11. QED  BY <1>4, <1>5, <1>6, <1>7, <1>8, <1>9, <1>10 DEF RowSound, r

\* Row NextTypeRef of Types, "param_typerefs" from "param_typerefs" "typeref", is sound.
LEMMA NextTypeRefSound == RowSound(Types.NextTypeRef)
<1> DEFINE r == Types.NextTypeRef
<1>1. /\ r.lhs = "param_typerefs" /\ r.rhs = <<"param_typerefs", "typeref">> /\ r.grow = <<1, 1,
             "take", 2>> /\ r.gives = <<1>>
      /\ r.drops = <<>>
      /\ r.makes = <<>>
  BY DEF Types, Growing, Row, None
<1> HIDE DEF r
<1>2. /\ DOMAIN r.rhs = 1 .. 2 /\ Len(r.rhs) = 2 /\ r.rhs[1] = "param_typerefs"
      /\ r.rhs[2] = "typeref" /\ DOMAIN r.makes = {} /\ Len(r.makes) = 0 /\ Items(r) = 1 .. 2
  BY <1>1 DEF Items
<1>3. Formed(r)
  <2>1. r.lhs \in Symbols /\ r.rhs \in Seq(Symbols)
    BY <1>1 DEF Symbols
  <2>2. /\ r.gives \in Seq(1 .. 2 \cup {NullItem}) /\ r.drops \in Seq(1 .. 2)
        /\ 2 + 0 < NullItem
    BY <1>1 DEF NullItem
  <2>3. DOMAIN r.makes = 1 .. 0
    BY <1>2
  <2>4. QED  BY <1>2, <2>1, <2>2, <2>3 DEF Formed
<1>4. UsedOnce(r)
  <2>1. \A a, b, i : ~Takes(r, a, b, i)
    BY <1>2 DEF Takes
  <2>2. Once(r, 1, 3, 1, 0)
    BY <1>1, <2>1 DEF Once, UsedUp, Lists, Grows, NullItem
  <2>3. Once(r, 2, 2, 0, 0)
    BY <1>1, <2>1 DEF Once, UsedUp, Lists, Grows, NullItem
  <2>4. QED  BY <1>2, <2>2, <2>3 DEF UsedOnce
<1>5. MakesSound(r)
  BY <1>1, <1>2 DEF MakesSound, NodeMade, Made, Found, None, LastType, TypeRefsOf
<1>6. GrowSound(r)
  <2>1. One(r, 1, "ParamTypeRefs")
    BY <1>2 DEF One, Single
  <2>2. QED  BY <1>1, <1>2, <2>1 DEF GrowSound
<1>7. GivesUncounted(r)
  <2>1. r.grow[3] = "count" => \A j \in DOMAIN r.gives : r.gives[j] # r.grow[4]
    BY <1>1
  <2>2. DOMAIN r.gives = 1 .. 1 /\ r.gives[1] = 1
    BY <1>1
  <2>3. DOMAIN r.makes = {}
    BY <1>2
  <2>4. QED  BY <2>1, <2>2, <2>3 DEF GivesUncounted, NullItem
<1>8. GivesKind(r)
  <2>1. ~Plural(r.lhs) /\ \A class : Single(r.lhs, class) => class = "ParamTypeRefs"
    BY <1>1 DEF Plural, Single
  <2>2. Len(r.gives) = 1 /\ One(r, r.gives[1], "ParamTypeRefs")
    BY <1>1, <1>2 DEF One, Made, Single
  <2>3. \A q \in DOMAIN r.gives : r.gives[q] # NullItem /\ ~Found(r, r.gives[q], {"cases"})
    BY <1>1, <1>2 DEF Found, NullItem
  <2>4. QED  BY <2>1, <2>2, <2>3 DEF GivesKind
<1>9. DropsSound(r)
  BY <1>1, <1>2 DEF DropsSound, Found
<1>10. QED  BY <1>3, <1>4, <1>5, <1>6, <1>7, <1>8, <1>9 DEF RowSound, r

\* Row If of Stmts, "stmt" from "expr" "stmt", is sound.
LEMMA IfSound == RowSound(Stmts.If)
<1> DEFINE r == Stmts.If
<1>1. /\ r.lhs = "stmt" /\ r.rhs = <<"expr", "stmt">> /\ r.grow = <<>> /\ r.gives = <<3>>
      /\ r.drops = <<1, 2>>
      /\ r.makes = << <<"If", <<1, 2, 0>>>> >>
  BY DEF Stmts, Row, None
<1> HIDE DEF r
<1>2. /\ DOMAIN r.rhs = 1 .. 2 /\ Len(r.rhs) = 2 /\ r.rhs[1] = "expr" /\ r.rhs[2] = "stmt"
      /\ DOMAIN r.makes = 1 .. 1 /\ Len(r.makes) = 1 /\ Items(r) = 1 .. 3 /\ r.makes[1][1] = "If"
      /\ r.makes[1][2] = <<1, 2, 0>>
  BY <1>1 DEF Items
<1>3. Modes["If"] = <<"count", "count", "count">> /\ {"If"} \subseteq DOMAIN Modes
  BY ModesAre
<1>4. Formed(r)
  <2>1. r.lhs \in Symbols /\ r.rhs \in Seq(Symbols)
    BY <1>1 DEF Symbols
  <2>2. /\ r.gives \in Seq(1 .. 3 \cup {NullItem}) /\ r.drops \in Seq(1 .. 3)
        /\ 2 + 1 < NullItem
    BY <1>1 DEF NullItem
  <2>3. DOMAIN r.makes = 1 .. 1
    BY <1>2
  <2>4. QED  BY <1>2, <2>1, <2>2, <2>3 DEF Formed
<1>5. UsedOnce(r)
  <2>1. ASSUME NEW a, NEW b, NEW i, i # 0, Takes(r, a, b, i) PROVE FALSE
    BY <1>2, <1>3, <2>1 DEF Takes
  <2>2. Once(r, 1, 4, 1, 0)
    BY <1>1, <2>1 DEF Once, UsedUp, Lists, Grows, NullItem
  <2>3. Once(r, 2, 4, 2, 0)
    BY <1>1, <2>1 DEF Once, UsedUp, Lists, Grows, NullItem
  <2>4. Once(r, 3, 3, 1, 0)
    BY <1>1, <2>1 DEF Once, UsedUp, Lists, Grows, NullItem
  <2>5. QED  BY <1>2, <2>2, <2>3, <2>4 DEF UsedOnce
<1>6. MakesSound(r)
  BY <1>1, <1>2, <1>3 DEF MakesSound, NodeMade, Made, Found, None, LastType, TypeRefsOf
<1>7. GrowSound(r)
  BY <1>1 DEF GrowSound
<1>8. GivesUncounted(r)
  <2>1. \A m \in DOMAIN r.makes[1][2] : r.makes[1][2][m] \notin {3}
    BY <1>2 DEF None, LastType, TypeRefsOf
  <2>2. DOMAIN r.gives = 1 .. 1 /\ r.gives[1] = 3
    BY <1>1
  <2>3. DOMAIN r.makes = 1 .. 1
    BY <1>2
  <2>4. \A k \in DOMAIN r.makes : \A m \in DOMAIN r.makes[k][2] : r.makes[k][2][m] \notin {3}
    BY <2>1, <2>3
  <2>5. r.grow = <<>>
    BY <1>1
  <2>6. QED  BY <2>2, <2>3, <2>4, <2>5 DEF GivesUncounted, NullItem
<1>9. GivesKind(r)
  <2>1. ~Plural(r.lhs)
    BY <1>1 DEF Plural
  <2>2. \A class : ~Single(r.lhs, class)
    BY <1>1 DEF Single
  <2>3. \A q \in DOMAIN r.gives : r.gives[q] # NullItem /\ ~Found(r, r.gives[q], {"cases"})
    BY <1>1, <1>2 DEF Found, NullItem
  <2>4. QED  BY <2>1, <2>2, <2>3 DEF GivesKind
<1>10. DropsSound(r)
  BY <1>1, <1>2 DEF DropsSound, Found
<1>11. QED  BY <1>4, <1>5, <1>6, <1>7, <1>8, <1>9, <1>10 DEF RowSound, r

\* Row For of Stmts, "stmt" from "expr" "expr" "expr" "stmt", is sound.
LEMMA ForSound == RowSound(Stmts.For)
<1> DEFINE r == Stmts.For
<1>1. /\ r.lhs = "stmt" /\ r.rhs = <<"expr", "expr", "expr", "stmt">> /\ r.grow = <<>>
             /\ r.gives = <<7>>
      /\ r.drops = <<1, 2, 3, 4>>
      /\ r.makes = << <<"ExprStmt", <<1>>>>, <<"ExprStmt", <<3>>>>, <<"For", <<5, 2, 6, 4>>>> >>
  <2>1. r.lhs = "stmt" /\ r.rhs = <<"expr", "expr", "expr", "stmt">> /\ r.grow = <<>>
    BY DEF Stmts, ForStmt, Row, None
  <2>2. r.gives = <<7>>
    BY DEF Stmts, ForStmt, Row, None
  <2>3. r.drops = <<1, 2, 3, 4>>
    <3>1. r.drops = [i \in 1 .. 4 |-> i]
      BY DEF Stmts, ForStmt, Row, None
    <3>2. [i \in 1 .. 4 |-> i] = <<1, 2, 3, 4>>
      OBVIOUS
    <3>3. QED  BY <3>1, <3>2
  <2>4. r.makes = << <<"ExprStmt", <<1>>>>, <<"ExprStmt", <<3>>>>, <<"For", <<5, 2, 6, 4>>>> >>
    BY DEF Stmts, ForStmt, Row, None
  <2>5. QED  BY <2>1, <2>2, <2>3, <2>4
<1> HIDE DEF r
<1>2. /\ DOMAIN r.rhs = 1 .. 4 /\ Len(r.rhs) = 4 /\ r.rhs[1] = "expr" /\ r.rhs[2] = "expr"
      /\ r.rhs[3] = "expr" /\ r.rhs[4] = "stmt" /\ DOMAIN r.makes = 1 .. 3 /\ Len(r.makes) = 3
      /\ Items(r) = 1 .. 7 /\ r.makes[1][1] = "ExprStmt" /\ r.makes[1][2] = <<1>>
      /\ r.makes[2][1] = "ExprStmt" /\ r.makes[2][2] = <<3>> /\ r.makes[3][1] = "For"
      /\ r.makes[3][2] = <<5, 2, 6, 4>>
  BY <1>1 DEF Items
<1>3. /\ Modes["ExprStmt"] = <<"count">> /\ Modes["For"] = <<"take", "count", "take", "look">>
      /\ {"ExprStmt", "For"} \subseteq DOMAIN Modes
  BY ModesAre
<1>4. Formed(r)
  <2>1. r.lhs \in Symbols /\ r.rhs \in Seq(Symbols)
    BY <1>1 DEF Symbols
  <2>2. /\ r.gives \in Seq(1 .. 7 \cup {NullItem}) /\ r.drops \in Seq(1 .. 7)
        /\ 4 + 3 < NullItem
    BY <1>1 DEF NullItem
  <2>3. DOMAIN r.makes = 1 .. 3
    BY <1>2
  <2>4. QED  BY <1>2, <2>1, <2>2, <2>3 DEF Formed
<1>5. UsedOnce(r)
  <2>1. Takes(r, 3, 1, 5) /\ Takes(r, 3, 3, 6)
    BY <1>2, <1>3 DEF Takes
  <2>2. ASSUME NEW a, NEW b, NEW i, i # 0, Takes(r, a, b, i)
        PROVE  (a = 3 /\ b = 1 /\ i = 5) \/ (a = 3 /\ b = 3 /\ i = 6)
    <3>1. CASE a = 1
      BY <1>2, <1>3, <2>2, <3>1 DEF Takes
    <3>2. CASE a = 2
      BY <1>2, <1>3, <2>2, <3>2 DEF Takes
    <3>3. CASE a = 3
      BY <1>2, <1>3, <2>2, <3>3 DEF Takes
    <3>4. QED  BY <1>2, <2>2, <3>1, <3>2, <3>3 DEF Takes
  <2>3. Once(r, 1, 4, 1, 0)
    BY <1>1, <2>1, <2>2 DEF Once, UsedUp, Lists, Grows, NullItem
  <2>4. Once(r, 2, 4, 2, 0)
    BY <1>1, <2>1, <2>2 DEF Once, UsedUp, Lists, Grows, NullItem
  <2>5. Once(r, 3, 4, 3, 0)
    BY <1>1, <2>1, <2>2 DEF Once, UsedUp, Lists, Grows, NullItem
  <2>6. Once(r, 4, 4, 4, 0)
    BY <1>1, <2>1, <2>2 DEF Once, UsedUp, Lists, Grows, NullItem
  <2>7. Once(r, 5, 1, 3, 1)
    BY <1>1, <2>1, <2>2 DEF Once, UsedUp, Lists, Grows, NullItem
  <2>8. Once(r, 6, 1, 3, 3)
    BY <1>1, <2>1, <2>2 DEF Once, UsedUp, Lists, Grows, NullItem
  <2>9. Once(r, 7, 3, 1, 0)
    BY <1>1, <2>1, <2>2 DEF Once, UsedUp, Lists, Grows, NullItem
  <2>10. QED  BY <1>2, <2>3, <2>4, <2>5, <2>6, <2>7, <2>8, <2>9 DEF UsedOnce
<1>6. MakesSound(r)
  <2>1. NodeMade(r, 1)
    BY <1>1, <1>2, <1>3 DEF NodeMade, Made, Found, None, LastType, TypeRefsOf
  <2>2. NodeMade(r, 2)
    BY <1>1, <1>2, <1>3 DEF NodeMade, Made, Found, None, LastType, TypeRefsOf
  <2>3. NodeMade(r, 3)
    BY <1>1, <1>2, <1>3 DEF NodeMade, Made, Found, None, LastType, TypeRefsOf
  <2>4. DOMAIN r.makes = 1 .. 3
    BY <1>2
  <2>5. QED  BY <2>1, <2>2, <2>3, <2>4 DEF MakesSound
<1>7. GrowSound(r)
  BY <1>1 DEF GrowSound
<1>8. GivesUncounted(r)
  <2>1. \A m \in DOMAIN r.makes[1][2] : r.makes[1][2][m] \notin {7}
    BY <1>2 DEF None, LastType, TypeRefsOf
  <2>2. \A m \in DOMAIN r.makes[2][2] : r.makes[2][2][m] \notin {7}
    BY <1>2 DEF None, LastType, TypeRefsOf
  <2>3. \A m \in DOMAIN r.makes[3][2] : r.makes[3][2][m] \notin {7}
    BY <1>2 DEF None, LastType, TypeRefsOf
  <2>4. DOMAIN r.gives = 1 .. 1 /\ r.gives[1] = 7
    BY <1>1
  <2>5. DOMAIN r.makes = 1 .. 3
    BY <1>2
  <2>6. \A k \in DOMAIN r.makes : \A m \in DOMAIN r.makes[k][2] : r.makes[k][2][m] \notin {7}
    BY <2>1, <2>2, <2>3, <2>5
  <2>7. r.grow = <<>>
    BY <1>1
  <2>8. QED  BY <2>4, <2>5, <2>6, <2>7 DEF GivesUncounted, NullItem
<1>9. GivesKind(r)
  <2>1. ~Plural(r.lhs)
    BY <1>1 DEF Plural
  <2>2. \A class : ~Single(r.lhs, class)
    BY <1>1 DEF Single
  <2>3. \A q \in DOMAIN r.gives : r.gives[q] # NullItem /\ ~Found(r, r.gives[q], {"cases"})
    BY <1>1, <1>2 DEF Found, NullItem
  <2>4. QED  BY <2>1, <2>2, <2>3 DEF GivesKind
<1>10. DropsSound(r)
  BY <1>1, <1>2 DEF DropsSound, Found
<1>11. QED  BY <1>4, <1>5, <1>6, <1>7, <1>8, <1>9, <1>10 DEF RowSound, r

\* Row ForEver of Stmts, "stmt" from "stmt", is sound.
LEMMA ForEverSound == RowSound(Stmts.ForEver)
<1> DEFINE r == Stmts.ForEver
<1>1. /\ r.lhs = "stmt" /\ r.rhs = <<"stmt">> /\ r.grow = <<>> /\ r.gives = <<5>>
      /\ r.drops = <<2, 4, 1>>
      /\ r.makes = << <<"NamedTypeRef", <<>>>>, <<"TypeNode", <<2>>>>, <<"IntegerLiteral", <<3>>>>,
                        <<"For", <<0, 4, 0, 1>>>> >>
  <2>1. r.lhs = "stmt" /\ r.rhs = <<"stmt">> /\ r.grow = <<>>
    BY DEF Stmts, ForStmt, Row, None
  <2>2. r.gives = <<5>>
    BY DEF Stmts, ForStmt, Row, None
  <2>3. r.drops = <<2, 4, 1>>
    <3>1. r.drops = <<2, 4>> \o [i \in 1 .. 1 |-> i]
      BY DEF Stmts, ForStmt, Row, None
    <3>2. [i \in 1 .. 1 |-> i] = <<1>>
      OBVIOUS
    <3> DEFINE a == <<2, 4>> \o <<1>>
    <3> DEFINE b == <<2, 4, 1>>
    <3>3. Len(a) = 3 /\ a \in Seq(Nat) /\ a[1] = 2 /\ a[2] = 4 /\ a[3] = 1
      OBVIOUS
    <3>4. Len(b) = 3 /\ b \in Seq(Nat) /\ b[1] = 2 /\ b[2] = 4 /\ b[3] = 1
      OBVIOUS
    <3> HIDE DEF a, b
    <3>5. \A i \in 1 .. Len(a) : a[i] = b[i]
      BY <3>3, <3>4
    <3>6. a = b
      BY <3>3, <3>4, <3>5, SeqEqual
    <3>7. QED  BY <3>1, <3>2, <3>6 DEF a, b
  <2>4. r.makes = << <<"NamedTypeRef", <<>>>>, <<"TypeNode", <<2>>>>, <<"IntegerLiteral", <<3>>>>,
                        <<"For", <<0, 4, 0, 1>>>> >>
    BY DEF Stmts, ForStmt, Row, None
  <2>5. QED  BY <2>1, <2>2, <2>3, <2>4
<1> HIDE DEF r
<1>2. /\ DOMAIN r.rhs = 1 .. 1 /\ Len(r.rhs) = 1 /\ r.rhs[1] = "stmt" /\ DOMAIN r.makes = 1 .. 4
      /\ Len(r.makes) = 4 /\ Items(r) = 1 .. 5 /\ r.makes[1][1] = "NamedTypeRef"
      /\ r.makes[1][2] = <<>> /\ r.makes[2][1] = "TypeNode" /\ r.makes[2][2] = <<2>>
      /\ r.makes[3][1] = "IntegerLiteral" /\ r.makes[3][2] = <<3>> /\ r.makes[4][1] = "For"
      /\ r.makes[4][2] = <<0, 4, 0, 1>>
  BY <1>1 DEF Items
<1>3. /\ Modes["NamedTypeRef"] = <<>> /\ Modes["TypeNode"] = <<"count">>
      /\ Modes["IntegerLiteral"] = <<"take">> /\ Modes["For"] = <<"take", "count", "take", "look">>
      /\ {"NamedTypeRef", "TypeNode", "IntegerLiteral", "For"} \subseteq DOMAIN Modes
  BY ModesAre
<1>4. Formed(r)
  <2>1. r.lhs \in Symbols /\ r.rhs \in Seq(Symbols)
    BY <1>1 DEF Symbols
  <2>2. /\ r.gives \in Seq(1 .. 5 \cup {NullItem}) /\ r.drops \in Seq(1 .. 5)
        /\ 1 + 4 < NullItem
    BY <1>1 DEF NullItem
  <2>3. DOMAIN r.makes = 1 .. 4
    BY <1>2
  <2>4. QED  BY <1>2, <2>1, <2>2, <2>3 DEF Formed
<1>5. UsedOnce(r)
  <2>1. Takes(r, 3, 1, 3)
    BY <1>2, <1>3 DEF Takes
  <2>2. ASSUME NEW a, NEW b, NEW i, i # 0, Takes(r, a, b, i)
        PROVE  (a = 3 /\ b = 1 /\ i = 3)
    <3>1. CASE a = 1
      BY <1>2, <1>3, <2>2, <3>1 DEF Takes
    <3>2. CASE a = 2
      BY <1>2, <1>3, <2>2, <3>2 DEF Takes
    <3>3. CASE a = 3
      BY <1>2, <1>3, <2>2, <3>3 DEF Takes
    <3>4. CASE a = 4
      BY <1>2, <1>3, <2>2, <3>4 DEF Takes
    <3>5. QED  BY <1>2, <2>2, <3>1, <3>2, <3>3, <3>4 DEF Takes
  <2>3. Once(r, 1, 4, 3, 0)
    BY <1>1, <2>1, <2>2 DEF Once, UsedUp, Lists, Grows, NullItem
  <2>4. Once(r, 2, 4, 1, 0)
    BY <1>1, <2>1, <2>2 DEF Once, UsedUp, Lists, Grows, NullItem
  <2>5. Once(r, 3, 1, 3, 1)
    BY <1>1, <2>1, <2>2 DEF Once, UsedUp, Lists, Grows, NullItem
  <2>6. Once(r, 4, 4, 2, 0)
    BY <1>1, <2>1, <2>2 DEF Once, UsedUp, Lists, Grows, NullItem
  <2>7. Once(r, 5, 3, 1, 0)
    BY <1>1, <2>1, <2>2 DEF Once, UsedUp, Lists, Grows, NullItem
  <2>8. QED  BY <1>2, <2>3, <2>4, <2>5, <2>6, <2>7 DEF UsedOnce
<1>6. MakesSound(r)
  <2>1. NodeMade(r, 1)
    BY <1>1, <1>2, <1>3 DEF NodeMade, Made, Found, None, LastType, TypeRefsOf
  <2>2. NodeMade(r, 2)
    BY <1>1, <1>2, <1>3 DEF NodeMade, Made, Found, None, LastType, TypeRefsOf
  <2>3. NodeMade(r, 3)
    BY <1>1, <1>2, <1>3 DEF NodeMade, Made, Found, None, LastType, TypeRefsOf
  <2>4. NodeMade(r, 4)
    BY <1>1, <1>2, <1>3 DEF NodeMade, Made, Found, None, LastType, TypeRefsOf
  <2>5. DOMAIN r.makes = 1 .. 4
    BY <1>2
  <2>6. QED  BY <2>1, <2>2, <2>3, <2>4, <2>5 DEF MakesSound
<1>7. GrowSound(r)
  BY <1>1 DEF GrowSound
<1>8. GivesUncounted(r)
  <2>1. \A m \in DOMAIN r.makes[1][2] : r.makes[1][2][m] \notin {5}
    BY <1>2 DEF None, LastType, TypeRefsOf
  <2>2. \A m \in DOMAIN r.makes[2][2] : r.makes[2][2][m] \notin {5}
    BY <1>2 DEF None, LastType, TypeRefsOf
  <2>3. \A m \in DOMAIN r.makes[3][2] : r.makes[3][2][m] \notin {5}
    BY <1>2 DEF None, LastType, TypeRefsOf
  <2>4. \A m \in DOMAIN r.makes[4][2] : r.makes[4][2][m] \notin {5}
    BY <1>2 DEF None, LastType, TypeRefsOf
  <2>5. DOMAIN r.gives = 1 .. 1 /\ r.gives[1] = 5
    BY <1>1
  <2>6. DOMAIN r.makes = 1 .. 4
    BY <1>2
  <2>7. \A k \in DOMAIN r.makes : \A m \in DOMAIN r.makes[k][2] : r.makes[k][2][m] \notin {5}
    BY <2>1, <2>2, <2>3, <2>4, <2>6
  <2>8. r.grow = <<>>
    BY <1>1
  <2>9. QED  BY <2>5, <2>6, <2>7, <2>8 DEF GivesUncounted, NullItem
<1>9. GivesKind(r)
  <2>1. ~Plural(r.lhs)
    BY <1>1 DEF Plural
  <2>2. \A class : ~Single(r.lhs, class)
    BY <1>1 DEF Single
  <2>3. \A q \in DOMAIN r.gives : r.gives[q] # NullItem /\ ~Found(r, r.gives[q], {"cases"})
    BY <1>1, <1>2 DEF Found, NullItem
  <2>4. QED  BY <2>1, <2>2, <2>3 DEF GivesKind
<1>10. DropsSound(r)
  BY <1>1, <1>2 DEF DropsSound, Found
<1>11. QED  BY <1>4, <1>5, <1>6, <1>7, <1>8, <1>9, <1>10 DEF RowSound, r

\* Row ForFrom of Stmts, "stmt" from "expr" "stmt", is sound.
LEMMA ForFromSound == RowSound(Stmts.ForFrom)
<1> DEFINE r == Stmts.ForFrom
<1>1. /\ r.lhs = "stmt" /\ r.rhs = <<"expr", "stmt">> /\ r.grow = <<>> /\ r.gives = <<7>>
      /\ r.drops = <<4, 6, 1, 2>>
      /\ r.makes = << <<"ExprStmt", <<1>>>>, <<"NamedTypeRef", <<>>>>, <<"TypeNode", <<4>>>>,
                        <<"IntegerLiteral", <<5>>>>, <<"For", <<3, 6, 0, 2>>>> >>
  <2>1. r.lhs = "stmt" /\ r.rhs = <<"expr", "stmt">> /\ r.grow = <<>>
    BY DEF Stmts, ForStmt, Row, None
  <2>2. r.gives = <<7>>
    BY DEF Stmts, ForStmt, Row, None
  <2>3. r.drops = <<4, 6, 1, 2>>
    <3>1. r.drops = <<4, 6>> \o [i \in 1 .. 2 |-> i]
      BY DEF Stmts, ForStmt, Row, None
    <3>2. [i \in 1 .. 2 |-> i] = <<1, 2>>
      OBVIOUS
    <3> DEFINE a == <<4, 6>> \o <<1, 2>>
    <3> DEFINE b == <<4, 6, 1, 2>>
    <3>3. Len(a) = 4 /\ a \in Seq(Nat) /\ a[1] = 4 /\ a[2] = 6 /\ a[3] = 1 /\ a[4] = 2
      OBVIOUS
    <3>4. Len(b) = 4 /\ b \in Seq(Nat) /\ b[1] = 4 /\ b[2] = 6 /\ b[3] = 1 /\ b[4] = 2
      OBVIOUS
    <3> HIDE DEF a, b
    <3>5. \A i \in 1 .. Len(a) : a[i] = b[i]
      BY <3>3, <3>4
    <3>6. a = b
      BY <3>3, <3>4, <3>5, SeqEqual
    <3>7. QED  BY <3>1, <3>2, <3>6 DEF a, b
  <2>4. r.makes = << <<"ExprStmt", <<1>>>>, <<"NamedTypeRef", <<>>>>, <<"TypeNode", <<4>>>>,
                        <<"IntegerLiteral", <<5>>>>, <<"For", <<3, 6, 0, 2>>>> >>
    BY DEF Stmts, ForStmt, Row, None
  <2>5. QED  BY <2>1, <2>2, <2>3, <2>4
<1> HIDE DEF r
<1>2. /\ DOMAIN r.rhs = 1 .. 2 /\ Len(r.rhs) = 2 /\ r.rhs[1] = "expr" /\ r.rhs[2] = "stmt"
      /\ DOMAIN r.makes = 1 .. 5 /\ Len(r.makes) = 5 /\ Items(r) = 1 .. 7
      /\ r.makes[1][1] = "ExprStmt" /\ r.makes[1][2] = <<1>> /\ r.makes[2][1] = "NamedTypeRef"
      /\ r.makes[2][2] = <<>> /\ r.makes[3][1] = "TypeNode" /\ r.makes[3][2] = <<4>>
      /\ r.makes[4][1] = "IntegerLiteral" /\ r.makes[4][2] = <<5>> /\ r.makes[5][1] = "For"
      /\ r.makes[5][2] = <<3, 6, 0, 2>>
  BY <1>1 DEF Items
<1>3. /\ Modes["ExprStmt"] = <<"count">> /\ Modes["NamedTypeRef"] = <<>>
      /\ Modes["TypeNode"] = <<"count">> /\ Modes["IntegerLiteral"] = <<"take">>
      /\ Modes["For"] = <<"take", "count", "take", "look">>
      /\ {"ExprStmt", "NamedTypeRef", "TypeNode", "IntegerLiteral", "For"} \subseteq DOMAIN Modes
  BY ModesAre
<1>4. Formed(r)
  <2>1. r.lhs \in Symbols /\ r.rhs \in Seq(Symbols)
    BY <1>1 DEF Symbols
  <2>2. /\ r.gives \in Seq(1 .. 7 \cup {NullItem}) /\ r.drops \in Seq(1 .. 7)
        /\ 2 + 5 < NullItem
    BY <1>1 DEF NullItem
  <2>3. DOMAIN r.makes = 1 .. 5
    BY <1>2
  <2>4. QED  BY <1>2, <2>1, <2>2, <2>3 DEF Formed
<1>5. UsedOnce(r)
  <2>1. Takes(r, 4, 1, 5) /\ Takes(r, 5, 1, 3)
    BY <1>2, <1>3 DEF Takes
  <2>2. ASSUME NEW a, NEW b, NEW i, i # 0, Takes(r, a, b, i)
        PROVE  (a = 4 /\ b = 1 /\ i = 5) \/ (a = 5 /\ b = 1 /\ i = 3)
    <3>1. CASE a = 1
      BY <1>2, <1>3, <2>2, <3>1 DEF Takes
    <3>2. CASE a = 2
      BY <1>2, <1>3, <2>2, <3>2 DEF Takes
    <3>3. CASE a = 3
      BY <1>2, <1>3, <2>2, <3>3 DEF Takes
    <3>4. CASE a = 4
      BY <1>2, <1>3, <2>2, <3>4 DEF Takes
    <3>5. CASE a = 5
      BY <1>2, <1>3, <2>2, <3>5 DEF Takes
    <3>6. QED  BY <1>2, <2>2, <3>1, <3>2, <3>3, <3>4, <3>5 DEF Takes
  <2>3. Once(r, 1, 4, 3, 0)
    BY <1>1, <2>1, <2>2 DEF Once, UsedUp, Lists, Grows, NullItem
  <2>4. Once(r, 2, 4, 4, 0)
    BY <1>1, <2>1, <2>2 DEF Once, UsedUp, Lists, Grows, NullItem
  <2>5. Once(r, 3, 1, 5, 1)
    BY <1>1, <2>1, <2>2 DEF Once, UsedUp, Lists, Grows, NullItem
  <2>6. Once(r, 4, 4, 1, 0)
    BY <1>1, <2>1, <2>2 DEF Once, UsedUp, Lists, Grows, NullItem
  <2>7. Once(r, 5, 1, 4, 1)
    BY <1>1, <2>1, <2>2 DEF Once, UsedUp, Lists, Grows, NullItem
  <2>8. Once(r, 6, 4, 2, 0)
    BY <1>1, <2>1, <2>2 DEF Once, UsedUp, Lists, Grows, NullItem
  <2>9. Once(r, 7, 3, 1, 0)
    BY <1>1, <2>1, <2>2 DEF Once, UsedUp, Lists, Grows, NullItem
  <2>10. QED  BY <1>2, <2>3, <2>4, <2>5, <2>6, <2>7, <2>8, <2>9 DEF UsedOnce
<1>6. MakesSound(r)
  <2>1. NodeMade(r, 1)
    BY <1>1, <1>2, <1>3 DEF NodeMade, Made, Found, None, LastType, TypeRefsOf
  <2>2. NodeMade(r, 2)
    BY <1>1, <1>2, <1>3 DEF NodeMade, Made, Found, None, LastType, TypeRefsOf
  <2>3. NodeMade(r, 3)
    BY <1>1, <1>2, <1>3 DEF NodeMade, Made, Found, None, LastType, TypeRefsOf
  <2>4. NodeMade(r, 4)
    BY <1>1, <1>2, <1>3 DEF NodeMade, Made, Found, None, LastType, TypeRefsOf
  <2>5. NodeMade(r, 5)
    BY <1>1, <1>2, <1>3 DEF NodeMade, Made, Found, None, LastType, TypeRefsOf
  <2>6. DOMAIN r.makes = 1 .. 5
    BY <1>2
  <2>7. QED  BY <2>1, <2>2, <2>3, <2>4, <2>5, <2>6 DEF MakesSound
<1>7. GrowSound(r)
  BY <1>1 DEF GrowSound
<1>8. GivesUncounted(r)
  <2>1. \A m \in DOMAIN r.makes[1][2] : r.makes[1][2][m] \notin {7}
    BY <1>2 DEF None, LastType, TypeRefsOf
  <2>2. \A m \in DOMAIN r.makes[2][2] : r.makes[2][2][m] \notin {7}
    BY <1>2 DEF None, LastType, TypeRefsOf
  <2>3. \A m \in DOMAIN r.makes[3][2] : r.makes[3][2][m] \notin {7}
    BY <1>2 DEF None, LastType, TypeRefsOf
  <2>4. \A m \in DOMAIN r.makes[4][2] : r.makes[4][2][m] \notin {7}
    BY <1>2 DEF None, LastType, TypeRefsOf
  <2>5. \A m \in DOMAIN r.makes[5][2] : r.makes[5][2][m] \notin {7}
    BY <1>2 DEF None, LastType, TypeRefsOf
  <2>6. DOMAIN r.gives = 1 .. 1 /\ r.gives[1] = 7
    BY <1>1
  <2>7. DOMAIN r.makes = 1 .. 5
    BY <1>2
  <2>8. \A k \in DOMAIN r.makes : \A m \in DOMAIN r.makes[k][2] : r.makes[k][2][m] \notin {7}
    BY <2>1, <2>2, <2>3, <2>4, <2>5, <2>7
  <2>9. r.grow = <<>>
    BY <1>1
  <2>10. QED  BY <2>6, <2>7, <2>8, <2>9 DEF GivesUncounted, NullItem
<1>9. GivesKind(r)
  <2>1. ~Plural(r.lhs)
    BY <1>1 DEF Plural
  <2>2. \A class : ~Single(r.lhs, class)
    BY <1>1 DEF Single
  <2>3. \A q \in DOMAIN r.gives : r.gives[q] # NullItem /\ ~Found(r, r.gives[q], {"cases"})
    BY <1>1, <1>2 DEF Found, NullItem
  <2>4. QED  BY <2>1, <2>2, <2>3 DEF GivesKind
<1>10. DropsSound(r)
  BY <1>1, <1>2 DEF DropsSound, Found
<1>11. QED  BY <1>4, <1>5, <1>6, <1>7, <1>8, <1>9, <1>10 DEF RowSound, r

\* Row ForWhile of Stmts, "stmt" from "expr" "stmt", is sound.
LEMMA ForWhileSound == RowSound(Stmts.ForWhile)
<1> DEFINE r == Stmts.ForWhile
<1>1. /\ r.lhs = "stmt" /\ r.rhs = <<"expr", "stmt">> /\ r.grow = <<>> /\ r.gives = <<3>>
      /\ r.drops = <<1, 2>>
      /\ r.makes = << <<"For", <<0, 1, 0, 2>>>> >>
  <2>1. r.lhs = "stmt" /\ r.rhs = <<"expr", "stmt">> /\ r.grow = <<>>
    BY DEF Stmts, ForStmt, Row, None
  <2>2. r.gives = <<3>>
    BY DEF Stmts, ForStmt, Row, None
  <2>3. r.drops = <<1, 2>>
    <3>1. r.drops = [i \in 1 .. 2 |-> i]
      BY DEF Stmts, ForStmt, Row, None
    <3>2. [i \in 1 .. 2 |-> i] = <<1, 2>>
      OBVIOUS
    <3>3. QED  BY <3>1, <3>2
  <2>4. r.makes = << <<"For", <<0, 1, 0, 2>>>> >>
    BY DEF Stmts, ForStmt, Row, None
  <2>5. QED  BY <2>1, <2>2, <2>3, <2>4
<1> HIDE DEF r
<1>2. /\ DOMAIN r.rhs = 1 .. 2 /\ Len(r.rhs) = 2 /\ r.rhs[1] = "expr" /\ r.rhs[2] = "stmt"
      /\ DOMAIN r.makes = 1 .. 1 /\ Len(r.makes) = 1 /\ Items(r) = 1 .. 3 /\ r.makes[1][1] = "For"
      /\ r.makes[1][2] = <<0, 1, 0, 2>>
  BY <1>1 DEF Items
<1>3. Modes["For"] = <<"take", "count", "take", "look">> /\ {"For"} \subseteq DOMAIN Modes
  BY ModesAre
<1>4. Formed(r)
  <2>1. r.lhs \in Symbols /\ r.rhs \in Seq(Symbols)
    BY <1>1 DEF Symbols
  <2>2. /\ r.gives \in Seq(1 .. 3 \cup {NullItem}) /\ r.drops \in Seq(1 .. 3)
        /\ 2 + 1 < NullItem
    BY <1>1 DEF NullItem
  <2>3. DOMAIN r.makes = 1 .. 1
    BY <1>2
  <2>4. QED  BY <1>2, <2>1, <2>2, <2>3 DEF Formed
<1>5. UsedOnce(r)
  <2>1. ASSUME NEW a, NEW b, NEW i, i # 0, Takes(r, a, b, i) PROVE FALSE
    BY <1>2, <1>3, <2>1 DEF Takes
  <2>2. Once(r, 1, 4, 1, 0)
    BY <1>1, <2>1 DEF Once, UsedUp, Lists, Grows, NullItem
  <2>3. Once(r, 2, 4, 2, 0)
    BY <1>1, <2>1 DEF Once, UsedUp, Lists, Grows, NullItem
  <2>4. Once(r, 3, 3, 1, 0)
    BY <1>1, <2>1 DEF Once, UsedUp, Lists, Grows, NullItem
  <2>5. QED  BY <1>2, <2>2, <2>3, <2>4 DEF UsedOnce
<1>6. MakesSound(r)
  BY <1>1, <1>2, <1>3 DEF MakesSound, NodeMade, Made, Found, None, LastType, TypeRefsOf
<1>7. GrowSound(r)
  BY <1>1 DEF GrowSound
<1>8. GivesUncounted(r)
  <2>1. \A m \in DOMAIN r.makes[1][2] : r.makes[1][2][m] \notin {3}
    BY <1>2 DEF None, LastType, TypeRefsOf
  <2>2. DOMAIN r.gives = 1 .. 1 /\ r.gives[1] = 3
    BY <1>1
  <2>3. DOMAIN r.makes = 1 .. 1
    BY <1>2
  <2>4. \A k \in DOMAIN r.makes : \A m \in DOMAIN r.makes[k][2] : r.makes[k][2][m] \notin {3}
    BY <2>1, <2>3
  <2>5. r.grow = <<>>
    BY <1>1
  <2>6. QED  BY <2>2, <2>3, <2>4, <2>5 DEF GivesUncounted, NullItem
<1>9. GivesKind(r)
  <2>1. ~Plural(r.lhs)
    BY <1>1 DEF Plural
  <2>2. \A class : ~Single(r.lhs, class)
    BY <1>1 DEF Single
  <2>3. \A q \in DOMAIN r.gives : r.gives[q] # NullItem /\ ~Found(r, r.gives[q], {"cases"})
    BY <1>1, <1>2 DEF Found, NullItem
  <2>4. QED  BY <2>1, <2>2, <2>3 DEF GivesKind
<1>10. DropsSound(r)
  BY <1>1, <1>2 DEF DropsSound, Found
<1>11. QED  BY <1>4, <1>5, <1>6, <1>7, <1>8, <1>9, <1>10 DEF RowSound, r

\* Row ForStep of Stmts, "stmt" from "expr" "stmt", is sound.
LEMMA ForStepSound == RowSound(Stmts.ForStep)
<1> DEFINE r == Stmts.ForStep
<1>1. /\ r.lhs = "stmt" /\ r.rhs = <<"expr", "stmt">> /\ r.grow = <<>> /\ r.gives = <<7>>
      /\ r.drops = <<4, 6, 1, 2>>
      /\ r.makes = << <<"ExprStmt", <<1>>>>, <<"NamedTypeRef", <<>>>>, <<"TypeNode", <<4>>>>,
                        <<"IntegerLiteral", <<5>>>>, <<"For", <<0, 6, 3, 2>>>> >>
  <2>1. r.lhs = "stmt" /\ r.rhs = <<"expr", "stmt">> /\ r.grow = <<>>
    BY DEF Stmts, ForStmt, Row, None
  <2>2. r.gives = <<7>>
    BY DEF Stmts, ForStmt, Row, None
  <2>3. r.drops = <<4, 6, 1, 2>>
    <3>1. r.drops = <<4, 6>> \o [i \in 1 .. 2 |-> i]
      BY DEF Stmts, ForStmt, Row, None
    <3>2. [i \in 1 .. 2 |-> i] = <<1, 2>>
      OBVIOUS
    <3> DEFINE a == <<4, 6>> \o <<1, 2>>
    <3> DEFINE b == <<4, 6, 1, 2>>
    <3>3. Len(a) = 4 /\ a \in Seq(Nat) /\ a[1] = 4 /\ a[2] = 6 /\ a[3] = 1 /\ a[4] = 2
      OBVIOUS
    <3>4. Len(b) = 4 /\ b \in Seq(Nat) /\ b[1] = 4 /\ b[2] = 6 /\ b[3] = 1 /\ b[4] = 2
      OBVIOUS
    <3> HIDE DEF a, b
    <3>5. \A i \in 1 .. Len(a) : a[i] = b[i]
      BY <3>3, <3>4
    <3>6. a = b
      BY <3>3, <3>4, <3>5, SeqEqual
    <3>7. QED  BY <3>1, <3>2, <3>6 DEF a, b
  <2>4. r.makes = << <<"ExprStmt", <<1>>>>, <<"NamedTypeRef", <<>>>>, <<"TypeNode", <<4>>>>,
                        <<"IntegerLiteral", <<5>>>>, <<"For", <<0, 6, 3, 2>>>> >>
    BY DEF Stmts, ForStmt, Row, None
  <2>5. QED  BY <2>1, <2>2, <2>3, <2>4
<1> HIDE DEF r
<1>2. /\ DOMAIN r.rhs = 1 .. 2 /\ Len(r.rhs) = 2 /\ r.rhs[1] = "expr" /\ r.rhs[2] = "stmt"
      /\ DOMAIN r.makes = 1 .. 5 /\ Len(r.makes) = 5 /\ Items(r) = 1 .. 7
      /\ r.makes[1][1] = "ExprStmt" /\ r.makes[1][2] = <<1>> /\ r.makes[2][1] = "NamedTypeRef"
      /\ r.makes[2][2] = <<>> /\ r.makes[3][1] = "TypeNode" /\ r.makes[3][2] = <<4>>
      /\ r.makes[4][1] = "IntegerLiteral" /\ r.makes[4][2] = <<5>> /\ r.makes[5][1] = "For"
      /\ r.makes[5][2] = <<0, 6, 3, 2>>
  BY <1>1 DEF Items
<1>3. /\ Modes["ExprStmt"] = <<"count">> /\ Modes["NamedTypeRef"] = <<>>
      /\ Modes["TypeNode"] = <<"count">> /\ Modes["IntegerLiteral"] = <<"take">>
      /\ Modes["For"] = <<"take", "count", "take", "look">>
      /\ {"ExprStmt", "NamedTypeRef", "TypeNode", "IntegerLiteral", "For"} \subseteq DOMAIN Modes
  BY ModesAre
<1>4. Formed(r)
  <2>1. r.lhs \in Symbols /\ r.rhs \in Seq(Symbols)
    BY <1>1 DEF Symbols
  <2>2. /\ r.gives \in Seq(1 .. 7 \cup {NullItem}) /\ r.drops \in Seq(1 .. 7)
        /\ 2 + 5 < NullItem
    BY <1>1 DEF NullItem
  <2>3. DOMAIN r.makes = 1 .. 5
    BY <1>2
  <2>4. QED  BY <1>2, <2>1, <2>2, <2>3 DEF Formed
<1>5. UsedOnce(r)
  <2>1. Takes(r, 4, 1, 5) /\ Takes(r, 5, 3, 3)
    BY <1>2, <1>3 DEF Takes
  <2>2. ASSUME NEW a, NEW b, NEW i, i # 0, Takes(r, a, b, i)
        PROVE  (a = 4 /\ b = 1 /\ i = 5) \/ (a = 5 /\ b = 3 /\ i = 3)
    <3>1. CASE a = 1
      BY <1>2, <1>3, <2>2, <3>1 DEF Takes
    <3>2. CASE a = 2
      BY <1>2, <1>3, <2>2, <3>2 DEF Takes
    <3>3. CASE a = 3
      BY <1>2, <1>3, <2>2, <3>3 DEF Takes
    <3>4. CASE a = 4
      BY <1>2, <1>3, <2>2, <3>4 DEF Takes
    <3>5. CASE a = 5
      BY <1>2, <1>3, <2>2, <3>5 DEF Takes
    <3>6. QED  BY <1>2, <2>2, <3>1, <3>2, <3>3, <3>4, <3>5 DEF Takes
  <2>3. Once(r, 1, 4, 3, 0)
    BY <1>1, <2>1, <2>2 DEF Once, UsedUp, Lists, Grows, NullItem
  <2>4. Once(r, 2, 4, 4, 0)
    BY <1>1, <2>1, <2>2 DEF Once, UsedUp, Lists, Grows, NullItem
  <2>5. Once(r, 3, 1, 5, 3)
    BY <1>1, <2>1, <2>2 DEF Once, UsedUp, Lists, Grows, NullItem
  <2>6. Once(r, 4, 4, 1, 0)
    BY <1>1, <2>1, <2>2 DEF Once, UsedUp, Lists, Grows, NullItem
  <2>7. Once(r, 5, 1, 4, 1)
    BY <1>1, <2>1, <2>2 DEF Once, UsedUp, Lists, Grows, NullItem
  <2>8. Once(r, 6, 4, 2, 0)
    BY <1>1, <2>1, <2>2 DEF Once, UsedUp, Lists, Grows, NullItem
  <2>9. Once(r, 7, 3, 1, 0)
    BY <1>1, <2>1, <2>2 DEF Once, UsedUp, Lists, Grows, NullItem
  <2>10. QED  BY <1>2, <2>3, <2>4, <2>5, <2>6, <2>7, <2>8, <2>9 DEF UsedOnce
<1>6. MakesSound(r)
  <2>1. NodeMade(r, 1)
    BY <1>1, <1>2, <1>3 DEF NodeMade, Made, Found, None, LastType, TypeRefsOf
  <2>2. NodeMade(r, 2)
    BY <1>1, <1>2, <1>3 DEF NodeMade, Made, Found, None, LastType, TypeRefsOf
  <2>3. NodeMade(r, 3)
    BY <1>1, <1>2, <1>3 DEF NodeMade, Made, Found, None, LastType, TypeRefsOf
  <2>4. NodeMade(r, 4)
    BY <1>1, <1>2, <1>3 DEF NodeMade, Made, Found, None, LastType, TypeRefsOf
  <2>5. NodeMade(r, 5)
    BY <1>1, <1>2, <1>3 DEF NodeMade, Made, Found, None, LastType, TypeRefsOf
  <2>6. DOMAIN r.makes = 1 .. 5
    BY <1>2
  <2>7. QED  BY <2>1, <2>2, <2>3, <2>4, <2>5, <2>6 DEF MakesSound
<1>7. GrowSound(r)
  BY <1>1 DEF GrowSound
<1>8. GivesUncounted(r)
  <2>1. \A m \in DOMAIN r.makes[1][2] : r.makes[1][2][m] \notin {7}
    BY <1>2 DEF None, LastType, TypeRefsOf
  <2>2. \A m \in DOMAIN r.makes[2][2] : r.makes[2][2][m] \notin {7}
    BY <1>2 DEF None, LastType, TypeRefsOf
  <2>3. \A m \in DOMAIN r.makes[3][2] : r.makes[3][2][m] \notin {7}
    BY <1>2 DEF None, LastType, TypeRefsOf
  <2>4. \A m \in DOMAIN r.makes[4][2] : r.makes[4][2][m] \notin {7}
    BY <1>2 DEF None, LastType, TypeRefsOf
  <2>5. \A m \in DOMAIN r.makes[5][2] : r.makes[5][2][m] \notin {7}
    BY <1>2 DEF None, LastType, TypeRefsOf
  <2>6. DOMAIN r.gives = 1 .. 1 /\ r.gives[1] = 7
    BY <1>1
  <2>7. DOMAIN r.makes = 1 .. 5
    BY <1>2
  <2>8. \A k \in DOMAIN r.makes : \A m \in DOMAIN r.makes[k][2] : r.makes[k][2][m] \notin {7}
    BY <2>1, <2>2, <2>3, <2>4, <2>5, <2>7
  <2>9. r.grow = <<>>
    BY <1>1
  <2>10. QED  BY <2>6, <2>7, <2>8, <2>9 DEF GivesUncounted, NullItem
<1>9. GivesKind(r)
  <2>1. ~Plural(r.lhs)
    BY <1>1 DEF Plural
  <2>2. \A class : ~Single(r.lhs, class)
    BY <1>1 DEF Single
  <2>3. \A q \in DOMAIN r.gives : r.gives[q] # NullItem /\ ~Found(r, r.gives[q], {"cases"})
    BY <1>1, <1>2 DEF Found, NullItem
  <2>4. QED  BY <2>1, <2>2, <2>3 DEF GivesKind
<1>10. DropsSound(r)
  BY <1>1, <1>2 DEF DropsSound, Found
<1>11. QED  BY <1>4, <1>5, <1>6, <1>7, <1>8, <1>9, <1>10 DEF RowSound, r

\* Row Switch of Clauses, "stmt" from "expr" "case_clauses", is sound.
LEMMA SwitchSound == RowSound(Clauses.Switch)
<1> DEFINE r == Clauses.Switch
<1>1. /\ r.lhs = "stmt" /\ r.rhs = <<"expr", "case_clauses">> /\ r.grow = <<>> /\ r.gives = <<3>>
      /\ r.drops = <<1>>
      /\ r.makes = << <<"Switch", <<1, 2>>>> >>
  BY DEF Clauses, Row, None
<1> HIDE DEF r
<1>2. /\ DOMAIN r.rhs = 1 .. 2 /\ Len(r.rhs) = 2 /\ r.rhs[1] = "expr" /\ r.rhs[2] = "case_clauses"
      /\ DOMAIN r.makes = 1 .. 1 /\ Len(r.makes) = 1 /\ Items(r) = 1 .. 3 /\ r.makes[1][1] = "Switch"
      /\ r.makes[1][2] = <<1, 2>>
  BY <1>1 DEF Items
<1>3. Modes["Switch"] = <<"count", "take">> /\ {"Switch"} \subseteq DOMAIN Modes
  BY ModesAre
<1>4. Formed(r)
  <2>1. r.lhs \in Symbols /\ r.rhs \in Seq(Symbols)
    BY <1>1 DEF Symbols
  <2>2. /\ r.gives \in Seq(1 .. 3 \cup {NullItem}) /\ r.drops \in Seq(1 .. 3)
        /\ 2 + 1 < NullItem
    BY <1>1 DEF NullItem
  <2>3. DOMAIN r.makes = 1 .. 1
    BY <1>2
  <2>4. QED  BY <1>2, <2>1, <2>2, <2>3 DEF Formed
<1>5. UsedOnce(r)
  <2>1. Takes(r, 1, 2, 2)
    BY <1>2, <1>3 DEF Takes
  <2>2. ASSUME NEW a, NEW b, NEW i, i # 0, Takes(r, a, b, i)
        PROVE  (a = 1 /\ b = 2 /\ i = 2)
    BY <1>2, <1>3, <2>2 DEF Takes
  <2>3. Once(r, 1, 4, 1, 0)
    BY <1>1, <2>1, <2>2 DEF Once, UsedUp, Lists, Grows, NullItem
  <2>4. Once(r, 2, 1, 1, 2)
    BY <1>1, <2>1, <2>2 DEF Once, UsedUp, Lists, Grows, NullItem
  <2>5. Once(r, 3, 3, 1, 0)
    BY <1>1, <2>1, <2>2 DEF Once, UsedUp, Lists, Grows, NullItem
  <2>6. QED  BY <1>2, <2>3, <2>4, <2>5 DEF UsedOnce
<1>6. MakesSound(r)
  BY <1>1, <1>2, <1>3 DEF MakesSound, NodeMade, Made, Found, None, LastType, TypeRefsOf
<1>7. GrowSound(r)
  BY <1>1 DEF GrowSound
<1>8. GivesUncounted(r)
  <2>1. \A m \in DOMAIN r.makes[1][2] : r.makes[1][2][m] \notin {3}
    BY <1>2 DEF None, LastType, TypeRefsOf
  <2>2. DOMAIN r.gives = 1 .. 1 /\ r.gives[1] = 3
    BY <1>1
  <2>3. DOMAIN r.makes = 1 .. 1
    BY <1>2
  <2>4. \A k \in DOMAIN r.makes : \A m \in DOMAIN r.makes[k][2] : r.makes[k][2][m] \notin {3}
    BY <2>1, <2>3
  <2>5. r.grow = <<>>
    BY <1>1
  <2>6. QED  BY <2>2, <2>3, <2>4, <2>5 DEF GivesUncounted, NullItem
<1>9. GivesKind(r)
  <2>1. ~Plural(r.lhs)
    BY <1>1 DEF Plural
  <2>2. \A class : ~Single(r.lhs, class)
    BY <1>1 DEF Single
  <2>3. \A q \in DOMAIN r.gives : r.gives[q] # NullItem /\ ~Found(r, r.gives[q], {"cases"})
    BY <1>1, <1>2 DEF Found, NullItem
  <2>4. QED  BY <2>1, <2>2, <2>3 DEF GivesKind
<1>10. DropsSound(r)
  BY <1>1, <1>2 DEF DropsSound, Found
<1>11. QED  BY <1>4, <1>5, <1>6, <1>7, <1>8, <1>9, <1>10 DEF RowSound, r

\* Row Clause of Clauses, "case_clause" from "cases" "case_body", is sound.
LEMMA ClauseSound == RowSound(Clauses.Clause)
<1> DEFINE r == Clauses.Clause
<1>1. /\ r.lhs = "case_clause" /\ r.rhs = <<"cases", "case_body">> /\ r.grow = <<>> /\ r.gives = <<3>>
      /\ r.drops = <<2>>
      /\ r.makes = << <<"Case", <<1, 2>>>> >>
  BY DEF Clauses, Row, None
<1> HIDE DEF r
<1>2. /\ DOMAIN r.rhs = 1 .. 2 /\ Len(r.rhs) = 2 /\ r.rhs[1] = "cases" /\ r.rhs[2] = "case_body"
      /\ DOMAIN r.makes = 1 .. 1 /\ Len(r.makes) = 1 /\ Items(r) = 1 .. 3 /\ r.makes[1][1] = "Case"
      /\ r.makes[1][2] = <<1, 2>>
  BY <1>1 DEF Items
<1>3. Modes["Case"] = <<"take", "count">> /\ {"Case"} \subseteq DOMAIN Modes
  BY ModesAre
<1>4. Formed(r)
  <2>1. r.lhs \in Symbols /\ r.rhs \in Seq(Symbols)
    BY <1>1 DEF Symbols
  <2>2. /\ r.gives \in Seq(1 .. 3 \cup {NullItem}) /\ r.drops \in Seq(1 .. 3)
        /\ 2 + 1 < NullItem
    BY <1>1 DEF NullItem
  <2>3. DOMAIN r.makes = 1 .. 1
    BY <1>2
  <2>4. QED  BY <1>2, <2>1, <2>2, <2>3 DEF Formed
<1>5. UsedOnce(r)
  <2>1. Takes(r, 1, 1, 1)
    BY <1>2, <1>3 DEF Takes
  <2>2. ASSUME NEW a, NEW b, NEW i, i # 0, Takes(r, a, b, i)
        PROVE  (a = 1 /\ b = 1 /\ i = 1)
    BY <1>2, <1>3, <2>2 DEF Takes
  <2>3. Once(r, 1, 1, 1, 1)
    BY <1>1, <2>1, <2>2 DEF Once, UsedUp, Lists, Grows, NullItem
  <2>4. Once(r, 2, 4, 1, 0)
    BY <1>1, <2>1, <2>2 DEF Once, UsedUp, Lists, Grows, NullItem
  <2>5. Once(r, 3, 3, 1, 0)
    BY <1>1, <2>1, <2>2 DEF Once, UsedUp, Lists, Grows, NullItem
  <2>6. QED  BY <1>2, <2>3, <2>4, <2>5 DEF UsedOnce
<1>6. MakesSound(r)
  BY <1>1, <1>2, <1>3 DEF MakesSound, NodeMade, Made, Found, None, LastType, TypeRefsOf
<1>7. GrowSound(r)
  BY <1>1 DEF GrowSound
<1>8. GivesUncounted(r)
  <2>1. \A m \in DOMAIN r.makes[1][2] : r.makes[1][2][m] \notin {3}
    BY <1>2 DEF None, LastType, TypeRefsOf
  <2>2. DOMAIN r.gives = 1 .. 1 /\ r.gives[1] = 3
    BY <1>1
  <2>3. DOMAIN r.makes = 1 .. 1
    BY <1>2
  <2>4. \A k \in DOMAIN r.makes : \A m \in DOMAIN r.makes[k][2] : r.makes[k][2][m] \notin {3}
    BY <2>1, <2>3
  <2>5. r.grow = <<>>
    BY <1>1
  <2>6. QED  BY <2>2, <2>3, <2>4, <2>5 DEF GivesUncounted, NullItem
<1>9. GivesKind(r)
  <2>1. ~Plural(r.lhs)
    BY <1>1 DEF Plural
  <2>2. \A class : ~Single(r.lhs, class)
    BY <1>1 DEF Single
  <2>3. \A q \in DOMAIN r.gives : r.gives[q] # NullItem /\ ~Found(r, r.gives[q], {"cases"})
    BY <1>1, <1>2 DEF Found, NullItem
  <2>4. QED  BY <2>1, <2>2, <2>3 DEF GivesKind
<1>10. DropsSound(r)
  BY <1>1, <1>2 DEF DropsSound, Found
<1>11. QED  BY <1>4, <1>5, <1>6, <1>7, <1>8, <1>9, <1>10 DEF RowSound, r

\* Row NextDefault of Clauses, "cases" from "cases", is sound.
LEMMA NextDefaultSound == RowSound(Clauses.NextDefault)
<1> DEFINE r == Clauses.NextDefault
<1>1. /\ r.lhs = "cases" /\ r.rhs = <<"cases">> /\ r.grow = <<>> /\ r.gives = <<1, NullItem>>
      /\ r.drops = <<>>
      /\ r.makes = <<>>
  BY DEF Clauses, Row, None
<1> HIDE DEF r
<1>2. /\ DOMAIN r.rhs = 1 .. 1 /\ Len(r.rhs) = 1 /\ r.rhs[1] = "cases" /\ DOMAIN r.makes = {}
      /\ Len(r.makes) = 0 /\ Items(r) = 1 .. 1
  BY <1>1 DEF Items
<1>3. Formed(r)
  <2>1. r.lhs \in Symbols /\ r.rhs \in Seq(Symbols)
    BY <1>1 DEF Symbols
  <2>2. /\ r.gives \in Seq(1 .. 1 \cup {NullItem}) /\ r.drops \in Seq(1 .. 1)
        /\ 1 + 0 < NullItem
    BY <1>1 DEF NullItem
  <2>3. DOMAIN r.makes = 1 .. 0
    BY <1>2
  <2>4. QED  BY <1>2, <2>1, <2>2, <2>3 DEF Formed
<1>4. UsedOnce(r)
  <2>1. \A a, b, i : ~Takes(r, a, b, i)
    BY <1>2 DEF Takes
  <2>2. Once(r, 1, 3, 1, 0)
    BY <1>1, <2>1 DEF Once, UsedUp, Lists, Grows, NullItem
  <2>3. QED  BY <1>2, <2>2 DEF UsedOnce
<1>5. MakesSound(r)
  BY <1>1, <1>2 DEF MakesSound, NodeMade, Made, Found, None, LastType, TypeRefsOf
<1>6. GrowSound(r)
  BY <1>1 DEF GrowSound
<1>7. GivesUncounted(r)
  <2>1. DOMAIN r.gives = 1 .. 2 /\ r.gives[1] = 1 /\ r.gives[2] = NullItem
    BY <1>1
  <2>2. r.grow = <<>>
    BY <1>1
  <2>3. DOMAIN r.makes = {}
    BY <1>2
  <2>4. QED  BY <2>1, <2>2, <2>3 DEF GivesUncounted, NullItem
<1>8. GivesKind(r)
  <2>1. ~Plural(r.lhs)
    BY <1>1 DEF Plural
  <2>2. \A class : ~Single(r.lhs, class)
    BY <1>1 DEF Single
  <2>3. QED  BY <1>1, <2>1, <2>2 DEF GivesKind
<1>9. DropsSound(r)
  BY <1>1, <1>2 DEF DropsSound, Found
<1>10. QED  BY <1>3, <1>4, <1>5, <1>6, <1>7, <1>8, <1>9 DEF RowSound, r

\* Row CaseBody of Clauses, "case_body" from "stmts", is sound.
LEMMA CaseBodySound == RowSound(Clauses.CaseBody)
<1> DEFINE r == Clauses.CaseBody
<1>1. /\ r.lhs = "case_body" /\ r.rhs = <<"stmts">> /\ r.grow = <<>> /\ r.gives = <<2>>
      /\ r.drops = <<>>
      /\ r.makes = << <<"Block", <<0, 1>>>> >>
  BY DEF Clauses, Row, None
<1> HIDE DEF r
<1>2. /\ DOMAIN r.rhs = 1 .. 1 /\ Len(r.rhs) = 1 /\ r.rhs[1] = "stmts" /\ DOMAIN r.makes = 1 .. 1
      /\ Len(r.makes) = 1 /\ Items(r) = 1 .. 2 /\ r.makes[1][1] = "Block" /\ r.makes[1][2] = <<0, 1>>
  BY <1>1 DEF Items
<1>3. Modes["Block"] = <<"take", "take">> /\ {"Block"} \subseteq DOMAIN Modes
  BY ModesAre
<1>4. Formed(r)
  <2>1. r.lhs \in Symbols /\ r.rhs \in Seq(Symbols)
    BY <1>1 DEF Symbols
  <2>2. /\ r.gives \in Seq(1 .. 2 \cup {NullItem}) /\ r.drops \in Seq(1 .. 2)
        /\ 1 + 1 < NullItem
    BY <1>1 DEF NullItem
  <2>3. DOMAIN r.makes = 1 .. 1
    BY <1>2
  <2>4. QED  BY <1>2, <2>1, <2>2, <2>3 DEF Formed
<1>5. UsedOnce(r)
  <2>1. Takes(r, 1, 2, 1)
    BY <1>2, <1>3 DEF Takes
  <2>2. ASSUME NEW a, NEW b, NEW i, i # 0, Takes(r, a, b, i)
        PROVE  (a = 1 /\ b = 2 /\ i = 1)
    BY <1>2, <1>3, <2>2 DEF Takes
  <2>3. Once(r, 1, 1, 1, 2)
    BY <1>1, <2>1, <2>2 DEF Once, UsedUp, Lists, Grows, NullItem
  <2>4. Once(r, 2, 3, 1, 0)
    BY <1>1, <2>1, <2>2 DEF Once, UsedUp, Lists, Grows, NullItem
  <2>5. QED  BY <1>2, <2>3, <2>4 DEF UsedOnce
<1>6. MakesSound(r)
  BY <1>1, <1>2, <1>3 DEF MakesSound, NodeMade, Made, Found, None, LastType, TypeRefsOf
<1>7. GrowSound(r)
  BY <1>1 DEF GrowSound
<1>8. GivesUncounted(r)
  <2>1. \A m \in DOMAIN r.makes[1][2] : r.makes[1][2][m] \notin {2}
    BY <1>2 DEF None, LastType, TypeRefsOf
  <2>2. DOMAIN r.gives = 1 .. 1 /\ r.gives[1] = 2
    BY <1>1
  <2>3. DOMAIN r.makes = 1 .. 1
    BY <1>2
  <2>4. \A k \in DOMAIN r.makes : \A m \in DOMAIN r.makes[k][2] : r.makes[k][2][m] \notin {2}
    BY <2>1, <2>3
  <2>5. r.grow = <<>>
    BY <1>1
  <2>6. QED  BY <2>2, <2>3, <2>4, <2>5 DEF GivesUncounted, NullItem
<1>9. GivesKind(r)
  <2>1. ~Plural(r.lhs)
    BY <1>1 DEF Plural
  <2>2. \A class : ~Single(r.lhs, class)
    BY <1>1 DEF Single
  <2>3. \A q \in DOMAIN r.gives : r.gives[q] # NullItem /\ ~Found(r, r.gives[q], {"cases"})
    BY <1>1, <1>2 DEF Found, NullItem
  <2>4. QED  BY <2>1, <2>2, <2>3 DEF GivesKind
<1>10. DropsSound(r)
  BY <1>1, <1>2 DEF DropsSound, Found
<1>11. QED  BY <1>4, <1>5, <1>6, <1>7, <1>8, <1>9, <1>10 DEF RowSound, r

\* Row ReturnVoid of Clauses, "stmt" from nothing, is sound.
LEMMA ReturnVoidSound == RowSound(Clauses.ReturnVoid)
<1> DEFINE r == Clauses.ReturnVoid
<1>1. /\ r.lhs = "stmt" /\ r.rhs = <<>> /\ r.grow = <<>> /\ r.gives = <<1>>
      /\ r.drops = <<>>
      /\ r.makes = << <<"Return", <<0>>>> >>
  BY DEF Clauses, Row, None
<1> HIDE DEF r
<1>2. /\ DOMAIN r.rhs = {} /\ Len(r.rhs) = 0 /\ DOMAIN r.makes = 1 .. 1 /\ Len(r.makes) = 1
      /\ Items(r) = 1 .. 1 /\ r.makes[1][1] = "Return" /\ r.makes[1][2] = <<0>>
  BY <1>1 DEF Items
<1>3. Modes["Return"] = <<"count">> /\ {"Return"} \subseteq DOMAIN Modes
  BY ModesAre
<1>4. Formed(r)
  <2>1. r.lhs \in Symbols /\ r.rhs \in Seq(Symbols)
    BY <1>1 DEF Symbols
  <2>2. /\ r.gives \in Seq(1 .. 1 \cup {NullItem}) /\ r.drops \in Seq(1 .. 1)
        /\ 0 + 1 < NullItem
    BY <1>1 DEF NullItem
  <2>3. DOMAIN r.makes = 1 .. 1
    BY <1>2
  <2>4. QED  BY <1>2, <2>1, <2>2, <2>3 DEF Formed
<1>5. UsedOnce(r)
  <2>1. ASSUME NEW a, NEW b, NEW i, i # 0, Takes(r, a, b, i) PROVE FALSE
    BY <1>2, <1>3, <2>1 DEF Takes
  <2>2. Once(r, 1, 3, 1, 0)
    BY <1>1, <2>1 DEF Once, UsedUp, Lists, Grows, NullItem
  <2>3. QED  BY <1>2, <2>2 DEF UsedOnce
<1>6. MakesSound(r)
  BY <1>1, <1>2, <1>3 DEF MakesSound, NodeMade, Made, Found, None, LastType, TypeRefsOf
<1>7. GrowSound(r)
  BY <1>1 DEF GrowSound
<1>8. GivesUncounted(r)
  <2>1. \A m \in DOMAIN r.makes[1][2] : r.makes[1][2][m] \notin {1}
    BY <1>2 DEF None, LastType, TypeRefsOf
  <2>2. DOMAIN r.gives = 1 .. 1 /\ r.gives[1] = 1
    BY <1>1
  <2>3. DOMAIN r.makes = 1 .. 1
    BY <1>2
  <2>4. \A k \in DOMAIN r.makes : \A m \in DOMAIN r.makes[k][2] : r.makes[k][2][m] \notin {1}
    BY <2>1, <2>3
  <2>5. r.grow = <<>>
    BY <1>1
  <2>6. QED  BY <2>2, <2>3, <2>4, <2>5 DEF GivesUncounted, NullItem
<1>9. GivesKind(r)
  <2>1. ~Plural(r.lhs)
    BY <1>1 DEF Plural
  <2>2. \A class : ~Single(r.lhs, class)
    BY <1>1 DEF Single
  <2>3. \A q \in DOMAIN r.gives : r.gives[q] # NullItem /\ ~Found(r, r.gives[q], {"cases"})
    BY <1>1, <1>2 DEF Found, NullItem
  <2>4. QED  BY <2>1, <2>2, <2>3 DEF GivesKind
<1>10. DropsSound(r)
  BY <1>1, <1>2 DEF DropsSound, Found
<1>11. QED  BY <1>4, <1>5, <1>6, <1>7, <1>8, <1>9, <1>10 DEF RowSound, r

\* Row NextSlot of Clauses, "slots" from "slots" "type", is sound.
LEMMA NextSlotSound == RowSound(Clauses.NextSlot)
<1> DEFINE r == Clauses.NextSlot
<1>1. /\ r.lhs = "slots" /\ r.rhs = <<"slots", "type">> /\ r.grow = <<>> /\ r.gives = <<1, 3>>
      /\ r.drops = <<2>>
      /\ r.makes = << <<"Slot", <<2>>>> >>
  BY DEF Clauses, Row, None
<1> HIDE DEF r
<1>2. /\ DOMAIN r.rhs = 1 .. 2 /\ Len(r.rhs) = 2 /\ r.rhs[1] = "slots" /\ r.rhs[2] = "type"
      /\ DOMAIN r.makes = 1 .. 1 /\ Len(r.makes) = 1 /\ Items(r) = 1 .. 3 /\ r.makes[1][1] = "Slot"
      /\ r.makes[1][2] = <<2>>
  BY <1>1 DEF Items
<1>3. Modes["Slot"] = <<"count">> /\ {"Slot"} \subseteq DOMAIN Modes
  BY ModesAre
<1>4. Formed(r)
  <2>1. r.lhs \in Symbols /\ r.rhs \in Seq(Symbols)
    BY <1>1 DEF Symbols
  <2>2. /\ r.gives \in Seq(1 .. 3 \cup {NullItem}) /\ r.drops \in Seq(1 .. 3)
        /\ 2 + 1 < NullItem
    BY <1>1 DEF NullItem
  <2>3. DOMAIN r.makes = 1 .. 1
    BY <1>2
  <2>4. QED  BY <1>2, <2>1, <2>2, <2>3 DEF Formed
<1>5. UsedOnce(r)
  <2>1. ASSUME NEW a, NEW b, NEW i, i # 0, Takes(r, a, b, i) PROVE FALSE
    BY <1>2, <1>3, <2>1 DEF Takes
  <2>2. Once(r, 1, 3, 1, 0)
    BY <1>1, <2>1 DEF Once, UsedUp, Lists, Grows, NullItem
  <2>3. Once(r, 2, 4, 1, 0)
    BY <1>1, <2>1 DEF Once, UsedUp, Lists, Grows, NullItem
  <2>4. Once(r, 3, 3, 2, 0)
    BY <1>1, <2>1 DEF Once, UsedUp, Lists, Grows, NullItem
  <2>5. QED  BY <1>2, <2>2, <2>3, <2>4 DEF UsedOnce
<1>6. MakesSound(r)
  BY <1>1, <1>2, <1>3 DEF MakesSound, NodeMade, Made, Found, None, LastType, TypeRefsOf
<1>7. GrowSound(r)
  BY <1>1 DEF GrowSound
<1>8. GivesUncounted(r)
  <2>1. \A m \in DOMAIN r.makes[1][2] : r.makes[1][2][m] \notin {1, 3}
    BY <1>2 DEF None, LastType, TypeRefsOf
  <2>2. DOMAIN r.gives = 1 .. 2 /\ r.gives[1] = 1 /\ r.gives[2] = 3
    BY <1>1
  <2>3. DOMAIN r.makes = 1 .. 1
    BY <1>2
  <2>4. \A k \in DOMAIN r.makes : \A m \in DOMAIN r.makes[k][2] : r.makes[k][2][m] \notin {1, 3}
    BY <2>1, <2>3
  <2>5. r.grow = <<>>
    BY <1>1
  <2>6. QED  BY <2>2, <2>3, <2>4, <2>5 DEF GivesUncounted, NullItem
<1>9. GivesKind(r)
  <2>1. ~Plural(r.lhs)
    BY <1>1 DEF Plural
  <2>2. \A class : ~Single(r.lhs, class)
    BY <1>1 DEF Single
  <2>3. \A q \in DOMAIN r.gives : r.gives[q] # NullItem /\ ~Found(r, r.gives[q], {"cases"})
    BY <1>1, <1>2 DEF Found, NullItem
  <2>4. QED  BY <2>1, <2>2, <2>3 DEF GivesKind
<1>10. DropsSound(r)
  BY <1>1, <1>2 DEF DropsSound, Found
<1>11. QED  BY <1>4, <1>5, <1>6, <1>7, <1>8, <1>9, <1>10 DEF RowSound, r

\* Row SizeofType of Operands, "expr" from "type", is sound.
LEMMA SizeofTypeSound == RowSound(Operands.SizeofType)
<1> DEFINE r == Operands.SizeofType
<1>1. /\ r.lhs = "expr" /\ r.rhs = <<"type">> /\ r.grow = <<>> /\ r.gives = <<4>>
      /\ r.drops = <<2, 1>>
      /\ r.makes = << <<"NamedTypeRef", <<>>>>, <<"TypeNode", <<2>>>>, <<"SizeofType", <<1, 3>>>> >>
  BY DEF Operands, SizeofRow, Row, None
<1> HIDE DEF r
<1>2. /\ DOMAIN r.rhs = 1 .. 1 /\ Len(r.rhs) = 1 /\ r.rhs[1] = "type" /\ DOMAIN r.makes = 1 .. 3
      /\ Len(r.makes) = 3 /\ Items(r) = 1 .. 4 /\ r.makes[1][1] = "NamedTypeRef"
      /\ r.makes[1][2] = <<>> /\ r.makes[2][1] = "TypeNode" /\ r.makes[2][2] = <<2>>
      /\ r.makes[3][1] = "SizeofType" /\ r.makes[3][2] = <<1, 3>>
  BY <1>1 DEF Items
<1>3. /\ Modes["NamedTypeRef"] = <<>> /\ Modes["TypeNode"] = <<"count">>
      /\ Modes["SizeofType"] = <<"count", "take">>
      /\ {"NamedTypeRef", "TypeNode", "SizeofType"} \subseteq DOMAIN Modes
  BY ModesAre
<1>4. Formed(r)
  <2>1. r.lhs \in Symbols /\ r.rhs \in Seq(Symbols)
    BY <1>1 DEF Symbols
  <2>2. /\ r.gives \in Seq(1 .. 4 \cup {NullItem}) /\ r.drops \in Seq(1 .. 4)
        /\ 1 + 3 < NullItem
    BY <1>1 DEF NullItem
  <2>3. DOMAIN r.makes = 1 .. 3
    BY <1>2
  <2>4. QED  BY <1>2, <2>1, <2>2, <2>3 DEF Formed
<1>5. UsedOnce(r)
  <2>1. Takes(r, 3, 2, 3)
    BY <1>2, <1>3 DEF Takes
  <2>2. ASSUME NEW a, NEW b, NEW i, i # 0, Takes(r, a, b, i)
        PROVE  (a = 3 /\ b = 2 /\ i = 3)
    <3>1. CASE a = 1
      BY <1>2, <1>3, <2>2, <3>1 DEF Takes
    <3>2. CASE a = 2
      BY <1>2, <1>3, <2>2, <3>2 DEF Takes
    <3>3. CASE a = 3
      BY <1>2, <1>3, <2>2, <3>3 DEF Takes
    <3>4. QED  BY <1>2, <2>2, <3>1, <3>2, <3>3 DEF Takes
  <2>3. Once(r, 1, 4, 2, 0)
    BY <1>1, <2>1, <2>2 DEF Once, UsedUp, Lists, Grows, NullItem
  <2>4. Once(r, 2, 4, 1, 0)
    BY <1>1, <2>1, <2>2 DEF Once, UsedUp, Lists, Grows, NullItem
  <2>5. Once(r, 3, 1, 3, 2)
    BY <1>1, <2>1, <2>2 DEF Once, UsedUp, Lists, Grows, NullItem
  <2>6. Once(r, 4, 3, 1, 0)
    BY <1>1, <2>1, <2>2 DEF Once, UsedUp, Lists, Grows, NullItem
  <2>7. QED  BY <1>2, <2>3, <2>4, <2>5, <2>6 DEF UsedOnce
<1>6. MakesSound(r)
  <2>1. NodeMade(r, 1)
    BY <1>1, <1>2, <1>3 DEF NodeMade, Made, Found, None, LastType, TypeRefsOf
  <2>2. NodeMade(r, 2)
    BY <1>1, <1>2, <1>3 DEF NodeMade, Made, Found, None, LastType, TypeRefsOf
  <2>3. NodeMade(r, 3)
    BY <1>1, <1>2, <1>3 DEF NodeMade, Made, Found, None, LastType, TypeRefsOf
  <2>4. DOMAIN r.makes = 1 .. 3
    BY <1>2
  <2>5. QED  BY <2>1, <2>2, <2>3, <2>4 DEF MakesSound
<1>7. GrowSound(r)
  BY <1>1 DEF GrowSound
<1>8. GivesUncounted(r)
  <2>1. \A m \in DOMAIN r.makes[1][2] : r.makes[1][2][m] \notin {4}
    BY <1>2 DEF None, LastType, TypeRefsOf
  <2>2. \A m \in DOMAIN r.makes[2][2] : r.makes[2][2][m] \notin {4}
    BY <1>2 DEF None, LastType, TypeRefsOf
  <2>3. \A m \in DOMAIN r.makes[3][2] : r.makes[3][2][m] \notin {4}
    BY <1>2 DEF None, LastType, TypeRefsOf
  <2>4. DOMAIN r.gives = 1 .. 1 /\ r.gives[1] = 4
    BY <1>1
  <2>5. DOMAIN r.makes = 1 .. 3
    BY <1>2
  <2>6. \A k \in DOMAIN r.makes : \A m \in DOMAIN r.makes[k][2] : r.makes[k][2][m] \notin {4}
    BY <2>1, <2>2, <2>3, <2>5
  <2>7. r.grow = <<>>
    BY <1>1
  <2>8. QED  BY <2>4, <2>5, <2>6, <2>7 DEF GivesUncounted, NullItem
<1>9. GivesKind(r)
  <2>1. ~Plural(r.lhs)
    BY <1>1 DEF Plural
  <2>2. \A class : ~Single(r.lhs, class)
    BY <1>1 DEF Single
  <2>3. \A q \in DOMAIN r.gives : r.gives[q] # NullItem /\ ~Found(r, r.gives[q], {"cases"})
    BY <1>1, <1>2 DEF Found, NullItem
  <2>4. QED  BY <2>1, <2>2, <2>3 DEF GivesKind
<1>10. DropsSound(r)
  BY <1>1, <1>2 DEF DropsSound, Found
<1>11. QED  BY <1>4, <1>5, <1>6, <1>7, <1>8, <1>9, <1>10 DEF RowSound, r

\* Row SizeofExpr of Operands, "expr" from "expr", is sound.
LEMMA SizeofExprSound == RowSound(Operands.SizeofExpr)
<1> DEFINE r == Operands.SizeofExpr
<1>1. /\ r.lhs = "expr" /\ r.rhs = <<"expr">> /\ r.grow = <<>> /\ r.gives = <<4>>
      /\ r.drops = <<2, 1>>
      /\ r.makes = << <<"NamedTypeRef", <<>>>>, <<"TypeNode", <<2>>>>, <<"SizeofExpr", <<1, 3>>>> >>
  BY DEF Operands, SizeofRow, Row, None
<1> HIDE DEF r
<1>2. /\ DOMAIN r.rhs = 1 .. 1 /\ Len(r.rhs) = 1 /\ r.rhs[1] = "expr" /\ DOMAIN r.makes = 1 .. 3
      /\ Len(r.makes) = 3 /\ Items(r) = 1 .. 4 /\ r.makes[1][1] = "NamedTypeRef"
      /\ r.makes[1][2] = <<>> /\ r.makes[2][1] = "TypeNode" /\ r.makes[2][2] = <<2>>
      /\ r.makes[3][1] = "SizeofExpr" /\ r.makes[3][2] = <<1, 3>>
  BY <1>1 DEF Items
<1>3. /\ Modes["NamedTypeRef"] = <<>> /\ Modes["TypeNode"] = <<"count">>
      /\ Modes["SizeofExpr"] = <<"count", "take">>
      /\ {"NamedTypeRef", "TypeNode", "SizeofExpr"} \subseteq DOMAIN Modes
  BY ModesAre
<1>4. Formed(r)
  <2>1. r.lhs \in Symbols /\ r.rhs \in Seq(Symbols)
    BY <1>1 DEF Symbols
  <2>2. /\ r.gives \in Seq(1 .. 4 \cup {NullItem}) /\ r.drops \in Seq(1 .. 4)
        /\ 1 + 3 < NullItem
    BY <1>1 DEF NullItem
  <2>3. DOMAIN r.makes = 1 .. 3
    BY <1>2
  <2>4. QED  BY <1>2, <2>1, <2>2, <2>3 DEF Formed
<1>5. UsedOnce(r)
  <2>1. Takes(r, 3, 2, 3)
    BY <1>2, <1>3 DEF Takes
  <2>2. ASSUME NEW a, NEW b, NEW i, i # 0, Takes(r, a, b, i)
        PROVE  (a = 3 /\ b = 2 /\ i = 3)
    <3>1. CASE a = 1
      BY <1>2, <1>3, <2>2, <3>1 DEF Takes
    <3>2. CASE a = 2
      BY <1>2, <1>3, <2>2, <3>2 DEF Takes
    <3>3. CASE a = 3
      BY <1>2, <1>3, <2>2, <3>3 DEF Takes
    <3>4. QED  BY <1>2, <2>2, <3>1, <3>2, <3>3 DEF Takes
  <2>3. Once(r, 1, 4, 2, 0)
    BY <1>1, <2>1, <2>2 DEF Once, UsedUp, Lists, Grows, NullItem
  <2>4. Once(r, 2, 4, 1, 0)
    BY <1>1, <2>1, <2>2 DEF Once, UsedUp, Lists, Grows, NullItem
  <2>5. Once(r, 3, 1, 3, 2)
    BY <1>1, <2>1, <2>2 DEF Once, UsedUp, Lists, Grows, NullItem
  <2>6. Once(r, 4, 3, 1, 0)
    BY <1>1, <2>1, <2>2 DEF Once, UsedUp, Lists, Grows, NullItem
  <2>7. QED  BY <1>2, <2>3, <2>4, <2>5, <2>6 DEF UsedOnce
<1>6. MakesSound(r)
  <2>1. NodeMade(r, 1)
    BY <1>1, <1>2, <1>3 DEF NodeMade, Made, Found, None, LastType, TypeRefsOf
  <2>2. NodeMade(r, 2)
    BY <1>1, <1>2, <1>3 DEF NodeMade, Made, Found, None, LastType, TypeRefsOf
  <2>3. NodeMade(r, 3)
    BY <1>1, <1>2, <1>3 DEF NodeMade, Made, Found, None, LastType, TypeRefsOf
  <2>4. DOMAIN r.makes = 1 .. 3
    BY <1>2
  <2>5. QED  BY <2>1, <2>2, <2>3, <2>4 DEF MakesSound
<1>7. GrowSound(r)
  BY <1>1 DEF GrowSound
<1>8. GivesUncounted(r)
  <2>1. \A m \in DOMAIN r.makes[1][2] : r.makes[1][2][m] \notin {4}
    BY <1>2 DEF None, LastType, TypeRefsOf
  <2>2. \A m \in DOMAIN r.makes[2][2] : r.makes[2][2][m] \notin {4}
    BY <1>2 DEF None, LastType, TypeRefsOf
  <2>3. \A m \in DOMAIN r.makes[3][2] : r.makes[3][2][m] \notin {4}
    BY <1>2 DEF None, LastType, TypeRefsOf
  <2>4. DOMAIN r.gives = 1 .. 1 /\ r.gives[1] = 4
    BY <1>1
  <2>5. DOMAIN r.makes = 1 .. 3
    BY <1>2
  <2>6. \A k \in DOMAIN r.makes : \A m \in DOMAIN r.makes[k][2] : r.makes[k][2][m] \notin {4}
    BY <2>1, <2>2, <2>3, <2>5
  <2>7. r.grow = <<>>
    BY <1>1
  <2>8. QED  BY <2>4, <2>5, <2>6, <2>7 DEF GivesUncounted, NullItem
<1>9. GivesKind(r)
  <2>1. ~Plural(r.lhs)
    BY <1>1 DEF Plural
  <2>2. \A class : ~Single(r.lhs, class)
    BY <1>1 DEF Single
  <2>3. \A q \in DOMAIN r.gives : r.gives[q] # NullItem /\ ~Found(r, r.gives[q], {"cases"})
    BY <1>1, <1>2 DEF Found, NullItem
  <2>4. QED  BY <2>1, <2>2, <2>3 DEF GivesKind
<1>10. DropsSound(r)
  BY <1>1, <1>2 DEF DropsSound, Found
<1>11. QED  BY <1>4, <1>5, <1>6, <1>7, <1>8, <1>9, <1>10 DEF RowSound, r

\* Row CallNone of Operands, "expr" from "expr", is sound.
LEMMA CallNoneSound == RowSound(Operands.CallNone)
<1> DEFINE r == Operands.CallNone
<1>1. /\ r.lhs = "expr" /\ r.rhs = <<"expr">> /\ r.grow = <<>> /\ r.gives = <<2>>
      /\ r.drops = <<1>>
      /\ r.makes = << <<"Funcall", <<1, 0>>>> >>
  BY DEF Operands, Row, None
<1> HIDE DEF r
<1>2. /\ DOMAIN r.rhs = 1 .. 1 /\ Len(r.rhs) = 1 /\ r.rhs[1] = "expr" /\ DOMAIN r.makes = 1 .. 1
      /\ Len(r.makes) = 1 /\ Items(r) = 1 .. 2 /\ r.makes[1][1] = "Funcall"
      /\ r.makes[1][2] = <<1, 0>>
  BY <1>1 DEF Items
<1>3. Modes["Funcall"] = <<"count", "take">> /\ {"Funcall"} \subseteq DOMAIN Modes
  BY ModesAre
<1>4. Formed(r)
  <2>1. r.lhs \in Symbols /\ r.rhs \in Seq(Symbols)
    BY <1>1 DEF Symbols
  <2>2. /\ r.gives \in Seq(1 .. 2 \cup {NullItem}) /\ r.drops \in Seq(1 .. 2)
        /\ 1 + 1 < NullItem
    BY <1>1 DEF NullItem
  <2>3. DOMAIN r.makes = 1 .. 1
    BY <1>2
  <2>4. QED  BY <1>2, <2>1, <2>2, <2>3 DEF Formed
<1>5. UsedOnce(r)
  <2>1. ASSUME NEW a, NEW b, NEW i, i # 0, Takes(r, a, b, i) PROVE FALSE
    BY <1>2, <1>3, <2>1 DEF Takes
  <2>2. Once(r, 1, 4, 1, 0)
    BY <1>1, <2>1 DEF Once, UsedUp, Lists, Grows, NullItem
  <2>3. Once(r, 2, 3, 1, 0)
    BY <1>1, <2>1 DEF Once, UsedUp, Lists, Grows, NullItem
  <2>4. QED  BY <1>2, <2>2, <2>3 DEF UsedOnce
<1>6. MakesSound(r)
  BY <1>1, <1>2, <1>3 DEF MakesSound, NodeMade, Made, Found, None, LastType, TypeRefsOf
<1>7. GrowSound(r)
  BY <1>1 DEF GrowSound
<1>8. GivesUncounted(r)
  <2>1. \A m \in DOMAIN r.makes[1][2] : r.makes[1][2][m] \notin {2}
    BY <1>2 DEF None, LastType, TypeRefsOf
  <2>2. DOMAIN r.gives = 1 .. 1 /\ r.gives[1] = 2
    BY <1>1
  <2>3. DOMAIN r.makes = 1 .. 1
    BY <1>2
  <2>4. \A k \in DOMAIN r.makes : \A m \in DOMAIN r.makes[k][2] : r.makes[k][2][m] \notin {2}
    BY <2>1, <2>3
  <2>5. r.grow = <<>>
    BY <1>1
  <2>6. QED  BY <2>2, <2>3, <2>4, <2>5 DEF GivesUncounted, NullItem
<1>9. GivesKind(r)
  <2>1. ~Plural(r.lhs)
    BY <1>1 DEF Plural
  <2>2. \A class : ~Single(r.lhs, class)
    BY <1>1 DEF Single
  <2>3. \A q \in DOMAIN r.gives : r.gives[q] # NullItem /\ ~Found(r, r.gives[q], {"cases"})
    BY <1>1, <1>2 DEF Found, NullItem
  <2>4. QED  BY <2>1, <2>2, <2>3 DEF GivesKind
<1>10. DropsSound(r)
  BY <1>1, <1>2 DEF DropsSound, Found
<1>11. QED  BY <1>4, <1>5, <1>6, <1>7, <1>8, <1>9, <1>10 DEF RowSound, r

\* Row Call of Operands, "expr" from "expr" "args", is sound.
LEMMA CallSound == RowSound(Operands.Call)
<1> DEFINE r == Operands.Call
<1>1. /\ r.lhs = "expr" /\ r.rhs = <<"expr", "args">> /\ r.grow = <<>> /\ r.gives = <<3>>
      /\ r.drops = <<1>>
      /\ r.makes = << <<"Funcall", <<1, 2>>>> >>
  BY DEF Operands, Row, None
<1> HIDE DEF r
<1>2. /\ DOMAIN r.rhs = 1 .. 2 /\ Len(r.rhs) = 2 /\ r.rhs[1] = "expr" /\ r.rhs[2] = "args"
      /\ DOMAIN r.makes = 1 .. 1 /\ Len(r.makes) = 1 /\ Items(r) = 1 .. 3
      /\ r.makes[1][1] = "Funcall" /\ r.makes[1][2] = <<1, 2>>
  BY <1>1 DEF Items
<1>3. Modes["Funcall"] = <<"count", "take">> /\ {"Funcall"} \subseteq DOMAIN Modes
  BY ModesAre
<1>4. Formed(r)
  <2>1. r.lhs \in Symbols /\ r.rhs \in Seq(Symbols)
    BY <1>1 DEF Symbols
  <2>2. /\ r.gives \in Seq(1 .. 3 \cup {NullItem}) /\ r.drops \in Seq(1 .. 3)
        /\ 2 + 1 < NullItem
    BY <1>1 DEF NullItem
  <2>3. DOMAIN r.makes = 1 .. 1
    BY <1>2
  <2>4. QED  BY <1>2, <2>1, <2>2, <2>3 DEF Formed
<1>5. UsedOnce(r)
  <2>1. Takes(r, 1, 2, 2)
    BY <1>2, <1>3 DEF Takes
  <2>2. ASSUME NEW a, NEW b, NEW i, i # 0, Takes(r, a, b, i)
        PROVE  (a = 1 /\ b = 2 /\ i = 2)
    BY <1>2, <1>3, <2>2 DEF Takes
  <2>3. Once(r, 1, 4, 1, 0)
    BY <1>1, <2>1, <2>2 DEF Once, UsedUp, Lists, Grows, NullItem
  <2>4. Once(r, 2, 1, 1, 2)
    BY <1>1, <2>1, <2>2 DEF Once, UsedUp, Lists, Grows, NullItem
  <2>5. Once(r, 3, 3, 1, 0)
    BY <1>1, <2>1, <2>2 DEF Once, UsedUp, Lists, Grows, NullItem
  <2>6. QED  BY <1>2, <2>3, <2>4, <2>5 DEF UsedOnce
<1>6. MakesSound(r)
  BY <1>1, <1>2, <1>3 DEF MakesSound, NodeMade, Made, Found, None, LastType, TypeRefsOf
<1>7. GrowSound(r)
  BY <1>1 DEF GrowSound
<1>8. GivesUncounted(r)
  <2>1. \A m \in DOMAIN r.makes[1][2] : r.makes[1][2][m] \notin {3}
    BY <1>2 DEF None, LastType, TypeRefsOf
  <2>2. DOMAIN r.gives = 1 .. 1 /\ r.gives[1] = 3
    BY <1>1
  <2>3. DOMAIN r.makes = 1 .. 1
    BY <1>2
  <2>4. \A k \in DOMAIN r.makes : \A m \in DOMAIN r.makes[k][2] : r.makes[k][2][m] \notin {3}
    BY <2>1, <2>3
  <2>5. r.grow = <<>>
    BY <1>1
  <2>6. QED  BY <2>2, <2>3, <2>4, <2>5 DEF GivesUncounted, NullItem
<1>9. GivesKind(r)
  <2>1. ~Plural(r.lhs)
    BY <1>1 DEF Plural
  <2>2. \A class : ~Single(r.lhs, class)
    BY <1>1 DEF Single
  <2>3. \A q \in DOMAIN r.gives : r.gives[q] # NullItem /\ ~Found(r, r.gives[q], {"cases"})
    BY <1>1, <1>2 DEF Found, NullItem
  <2>4. QED  BY <2>1, <2>2, <2>3 DEF GivesKind
<1>10. DropsSound(r)
  BY <1>1, <1>2 DEF DropsSound, Found
<1>11. QED  BY <1>4, <1>5, <1>6, <1>7, <1>8, <1>9, <1>10 DEF RowSound, r

\* Row Integer of Operands, "primary" from nothing, is sound.
LEMMA IntegerSound == RowSound(Operands.Integer)
<1> DEFINE r == Operands.Integer
<1>1. /\ r.lhs = "primary" /\ r.rhs = <<>> /\ r.grow = <<>> /\ r.gives = <<3>>
      /\ r.drops = <<1>>
      /\ r.makes = << <<"NamedTypeRef", <<>>>>, <<"TypeNode", <<1>>>>, <<"IntegerLiteral", <<2>>>> >>
  BY DEF Operands, Row, None
<1> HIDE DEF r
<1>2. /\ DOMAIN r.rhs = {} /\ Len(r.rhs) = 0 /\ DOMAIN r.makes = 1 .. 3 /\ Len(r.makes) = 3
      /\ Items(r) = 1 .. 3 /\ r.makes[1][1] = "NamedTypeRef" /\ r.makes[1][2] = <<>>
      /\ r.makes[2][1] = "TypeNode" /\ r.makes[2][2] = <<1>> /\ r.makes[3][1] = "IntegerLiteral"
      /\ r.makes[3][2] = <<2>>
  BY <1>1 DEF Items
<1>3. /\ Modes["NamedTypeRef"] = <<>> /\ Modes["TypeNode"] = <<"count">>
      /\ Modes["IntegerLiteral"] = <<"take">>
      /\ {"NamedTypeRef", "TypeNode", "IntegerLiteral"} \subseteq DOMAIN Modes
  BY ModesAre
<1>4. Formed(r)
  <2>1. r.lhs \in Symbols /\ r.rhs \in Seq(Symbols)
    BY <1>1 DEF Symbols
  <2>2. /\ r.gives \in Seq(1 .. 3 \cup {NullItem}) /\ r.drops \in Seq(1 .. 3)
        /\ 0 + 3 < NullItem
    BY <1>1 DEF NullItem
  <2>3. DOMAIN r.makes = 1 .. 3
    BY <1>2
  <2>4. QED  BY <1>2, <2>1, <2>2, <2>3 DEF Formed
<1>5. UsedOnce(r)
  <2>1. Takes(r, 3, 1, 2)
    BY <1>2, <1>3 DEF Takes
  <2>2. ASSUME NEW a, NEW b, NEW i, i # 0, Takes(r, a, b, i)
        PROVE  (a = 3 /\ b = 1 /\ i = 2)
    <3>1. CASE a = 1
      BY <1>2, <1>3, <2>2, <3>1 DEF Takes
    <3>2. CASE a = 2
      BY <1>2, <1>3, <2>2, <3>2 DEF Takes
    <3>3. CASE a = 3
      BY <1>2, <1>3, <2>2, <3>3 DEF Takes
    <3>4. QED  BY <1>2, <2>2, <3>1, <3>2, <3>3 DEF Takes
  <2>3. Once(r, 1, 4, 1, 0)
    BY <1>1, <2>1, <2>2 DEF Once, UsedUp, Lists, Grows, NullItem
  <2>4. Once(r, 2, 1, 3, 1)
    BY <1>1, <2>1, <2>2 DEF Once, UsedUp, Lists, Grows, NullItem
  <2>5. Once(r, 3, 3, 1, 0)
    BY <1>1, <2>1, <2>2 DEF Once, UsedUp, Lists, Grows, NullItem
  <2>6. QED  BY <1>2, <2>3, <2>4, <2>5 DEF UsedOnce
<1>6. MakesSound(r)
  <2>1. NodeMade(r, 1)
    BY <1>1, <1>2, <1>3 DEF NodeMade, Made, Found, None, LastType, TypeRefsOf
  <2>2. NodeMade(r, 2)
    BY <1>1, <1>2, <1>3 DEF NodeMade, Made, Found, None, LastType, TypeRefsOf
  <2>3. NodeMade(r, 3)
    BY <1>1, <1>2, <1>3 DEF NodeMade, Made, Found, None, LastType, TypeRefsOf
  <2>4. DOMAIN r.makes = 1 .. 3
    BY <1>2
  <2>5. QED  BY <2>1, <2>2, <2>3, <2>4 DEF MakesSound
<1>7. GrowSound(r)
  BY <1>1 DEF GrowSound
<1>8. GivesUncounted(r)
  <2>1. \A m \in DOMAIN r.makes[1][2] : r.makes[1][2][m] \notin {3}
    BY <1>2 DEF None, LastType, TypeRefsOf
  <2>2. \A m \in DOMAIN r.makes[2][2] : r.makes[2][2][m] \notin {3}
    BY <1>2 DEF None, LastType, TypeRefsOf
  <2>3. \A m \in DOMAIN r.makes[3][2] : r.makes[3][2][m] \notin {3}
    BY <1>2 DEF None, LastType, TypeRefsOf
  <2>4. DOMAIN r.gives = 1 .. 1 /\ r.gives[1] = 3
    BY <1>1
  <2>5. DOMAIN r.makes = 1 .. 3
    BY <1>2
  <2>6. \A k \in DOMAIN r.makes : \A m \in DOMAIN r.makes[k][2] : r.makes[k][2][m] \notin {3}
    BY <2>1, <2>2, <2>3, <2>5
  <2>7. r.grow = <<>>
    BY <1>1
  <2>8. QED  BY <2>4, <2>5, <2>6, <2>7 DEF GivesUncounted, NullItem
<1>9. GivesKind(r)
  <2>1. ~Plural(r.lhs)
    BY <1>1 DEF Plural
  <2>2. \A class : ~Single(r.lhs, class)
    BY <1>1 DEF Single
  <2>3. \A q \in DOMAIN r.gives : r.gives[q] # NullItem /\ ~Found(r, r.gives[q], {"cases"})
    BY <1>1, <1>2 DEF Found, NullItem
  <2>4. QED  BY <2>1, <2>2, <2>3 DEF GivesKind
<1>10. DropsSound(r)
  BY <1>1, <1>2 DEF DropsSound, Found
<1>11. QED  BY <1>4, <1>5, <1>6, <1>7, <1>8, <1>9, <1>10 DEF RowSound, r

\* Row String of Operands, "primary" from nothing, is sound.
LEMMA StringSound == RowSound(Operands.String)
<1> DEFINE r == Operands.String
<1>1. /\ r.lhs = "primary" /\ r.rhs = <<>> /\ r.grow = <<>> /\ r.gives = <<4>>
      /\ r.drops = <<2, 1>>
      /\ r.makes = << <<"NamedTypeRef", <<>>>>, <<"WrapTypeRef", <<1>>>>, <<"TypeNode", <<2>>>>,
                        <<"StringLiteral", <<3>>>> >>
  BY DEF Operands, Row, None
<1> HIDE DEF r
<1>2. /\ DOMAIN r.rhs = {} /\ Len(r.rhs) = 0 /\ DOMAIN r.makes = 1 .. 4 /\ Len(r.makes) = 4
      /\ Items(r) = 1 .. 4 /\ r.makes[1][1] = "NamedTypeRef" /\ r.makes[1][2] = <<>>
      /\ r.makes[2][1] = "WrapTypeRef" /\ r.makes[2][2] = <<1>> /\ r.makes[3][1] = "TypeNode"
      /\ r.makes[3][2] = <<2>> /\ r.makes[4][1] = "StringLiteral" /\ r.makes[4][2] = <<3>>
  BY <1>1 DEF Items
<1>3. /\ Modes["NamedTypeRef"] = <<>> /\ Modes["WrapTypeRef"] = <<"count">>
      /\ Modes["TypeNode"] = <<"count">> /\ Modes["StringLiteral"] = <<"take">>
      /\ {"NamedTypeRef", "WrapTypeRef", "TypeNode", "StringLiteral"} \subseteq DOMAIN Modes
  BY ModesAre
<1>4. Formed(r)
  <2>1. r.lhs \in Symbols /\ r.rhs \in Seq(Symbols)
    BY <1>1 DEF Symbols
  <2>2. /\ r.gives \in Seq(1 .. 4 \cup {NullItem}) /\ r.drops \in Seq(1 .. 4)
        /\ 0 + 4 < NullItem
    BY <1>1 DEF NullItem
  <2>3. DOMAIN r.makes = 1 .. 4
    BY <1>2
  <2>4. QED  BY <1>2, <2>1, <2>2, <2>3 DEF Formed
<1>5. UsedOnce(r)
  <2>1. Takes(r, 4, 1, 3)
    BY <1>2, <1>3 DEF Takes
  <2>2. ASSUME NEW a, NEW b, NEW i, i # 0, Takes(r, a, b, i)
        PROVE  (a = 4 /\ b = 1 /\ i = 3)
    <3>1. CASE a = 1
      BY <1>2, <1>3, <2>2, <3>1 DEF Takes
    <3>2. CASE a = 2
      BY <1>2, <1>3, <2>2, <3>2 DEF Takes
    <3>3. CASE a = 3
      BY <1>2, <1>3, <2>2, <3>3 DEF Takes
    <3>4. CASE a = 4
      BY <1>2, <1>3, <2>2, <3>4 DEF Takes
    <3>5. QED  BY <1>2, <2>2, <3>1, <3>2, <3>3, <3>4 DEF Takes
  <2>3. Once(r, 1, 4, 2, 0)
    BY <1>1, <2>1, <2>2 DEF Once, UsedUp, Lists, Grows, NullItem
  <2>4. Once(r, 2, 4, 1, 0)
    BY <1>1, <2>1, <2>2 DEF Once, UsedUp, Lists, Grows, NullItem
  <2>5. Once(r, 3, 1, 4, 1)
    BY <1>1, <2>1, <2>2 DEF Once, UsedUp, Lists, Grows, NullItem
  <2>6. Once(r, 4, 3, 1, 0)
    BY <1>1, <2>1, <2>2 DEF Once, UsedUp, Lists, Grows, NullItem
  <2>7. QED  BY <1>2, <2>3, <2>4, <2>5, <2>6 DEF UsedOnce
<1>6. MakesSound(r)
  <2>1. NodeMade(r, 1)
    BY <1>1, <1>2, <1>3 DEF NodeMade, Made, Found, None, LastType, TypeRefsOf
  <2>2. NodeMade(r, 2)
    BY <1>1, <1>2, <1>3 DEF NodeMade, Made, Found, None, LastType, TypeRefsOf
  <2>3. NodeMade(r, 3)
    BY <1>1, <1>2, <1>3 DEF NodeMade, Made, Found, None, LastType, TypeRefsOf
  <2>4. NodeMade(r, 4)
    BY <1>1, <1>2, <1>3 DEF NodeMade, Made, Found, None, LastType, TypeRefsOf
  <2>5. DOMAIN r.makes = 1 .. 4
    BY <1>2
  <2>6. QED  BY <2>1, <2>2, <2>3, <2>4, <2>5 DEF MakesSound
<1>7. GrowSound(r)
  BY <1>1 DEF GrowSound
<1>8. GivesUncounted(r)
  <2>1. \A m \in DOMAIN r.makes[1][2] : r.makes[1][2][m] \notin {4}
    BY <1>2 DEF None, LastType, TypeRefsOf
  <2>2. \A m \in DOMAIN r.makes[2][2] : r.makes[2][2][m] \notin {4}
    BY <1>2 DEF None, LastType, TypeRefsOf
  <2>3. \A m \in DOMAIN r.makes[3][2] : r.makes[3][2][m] \notin {4}
    BY <1>2 DEF None, LastType, TypeRefsOf
  <2>4. \A m \in DOMAIN r.makes[4][2] : r.makes[4][2][m] \notin {4}
    BY <1>2 DEF None, LastType, TypeRefsOf
  <2>5. DOMAIN r.gives = 1 .. 1 /\ r.gives[1] = 4
    BY <1>1
  <2>6. DOMAIN r.makes = 1 .. 4
    BY <1>2
  <2>7. \A k \in DOMAIN r.makes : \A m \in DOMAIN r.makes[k][2] : r.makes[k][2][m] \notin {4}
    BY <2>1, <2>2, <2>3, <2>4, <2>6
  <2>8. r.grow = <<>>
    BY <1>1
  <2>9. QED  BY <2>5, <2>6, <2>7, <2>8 DEF GivesUncounted, NullItem
<1>9. GivesKind(r)
  <2>1. ~Plural(r.lhs)
    BY <1>1 DEF Plural
  <2>2. \A class : ~Single(r.lhs, class)
    BY <1>1 DEF Single
  <2>3. \A q \in DOMAIN r.gives : r.gives[q] # NullItem /\ ~Found(r, r.gives[q], {"cases"})
    BY <1>1, <1>2 DEF Found, NullItem
  <2>4. QED  BY <2>1, <2>2, <2>3 DEF GivesKind
<1>10. DropsSound(r)
  BY <1>1, <1>2 DEF DropsSound, Found
<1>11. QED  BY <1>4, <1>5, <1>6, <1>7, <1>8, <1>9, <1>10 DEF RowSound, r

\* The rows of Start are sound.
LEMMA StartSound == \A p \in DOMAIN Start : RowSound(Start[p])
<1>1. DOMAIN Start = {"Compile", "Declare"}
  BY DEF Start
<1>2. Modes["AST"] = <<"count">> /\ {"AST"} \subseteq DOMAIN Modes
  BY ModesAre
<1>3. {"AST"} \subseteq Filled
  BY <1>2 DEF Filled
<1>4. RowSound(Start.Compile)
  <2> DEFINE rhs == <<"top_defs">>
  <2>1. rhs \in Seq(Symbols) /\ Len(rhs) = 1 /\ DOMAIN rhs = {1} /\ rhs[1] = "top_defs"
    BY DEF Symbols
  <2>2. ~Plural("compile") /\ "compile" \in Symbols
    BY DEF Plural, Symbols
  <2> HIDE DEF rhs
  <2>3. /\ Len(rhs) < 100 /\ "AST" \in DOMAIN Modes /\ DOMAIN Modes["AST"] = 1 .. Len(rhs)
        /\ \A m \in 1 .. Len(rhs) : Modes["AST"][m] = "count"
        /\ \A d : Single("compile", d) => d = "AST"
        /\ "AST" \notin {"Params", "DefinedVariable"} /\ \A i \in DOMAIN rhs : rhs[i] # "cases"
    BY <1>2, <2>1 DEF Single
  <2>4. RowSound(Node("compile", rhs, "AST"))
    BY <2>1, <2>2, <2>3, NodeSound
  <2>5. QED  BY <2>4 DEF Start, rhs
<1>5. RowSound(Start.Declare)
  <2> DEFINE rhs == <<"top_defs">>
  <2>1. rhs \in Seq(Symbols) /\ Len(rhs) = 1 /\ DOMAIN rhs = {1} /\ rhs[1] = "top_defs"
    BY DEF Symbols
  <2>2. ~Plural("declare") /\ "declare" \in Symbols
    BY DEF Plural, Symbols
  <2> HIDE DEF rhs
  <2>3. /\ Len(rhs) < NullItem
        /\ \A class : Single("declare", class) => Len(rhs) = 1 /\ Single(rhs[1], class)
        /\ \A i \in DOMAIN rhs : rhs[i] # "cases"
    BY <2>1 DEF NullItem, Single
  <2>4. RowSound(Pass("declare", rhs))
    BY <2>1, <2>2, <2>3, PassSound
  <2>5. QED  BY <2>4 DEF Start, rhs
<1>6. QED  BY <1>1, <1>4, <1>5

\* The rows of TopDefs are sound.
LEMMA TopDefsSound == \A p \in DOMAIN TopDefs : RowSound(TopDefs[p])
<1>1. DOMAIN TopDefs = {"FirstVars", "FirstFunc", "FirstDecl", "NextVars", "NextFunc",
                         "NextDecl"}
  BY DEF TopDefs
<1>2. RowSound(TopDefs.FirstVars)
  <2>1. TopDefs.FirstVars = FirstDef("def_vars", 1, "take", <<>>)
    BY DEF TopDefs
  <2>2. "def_vars" \in Symbols \ {"cases"}
    BY DEF Symbols
  <2>3. QED  BY <2>1, <2>2, FirstDefSound
<1>3. RowSound(TopDefs.FirstFunc)
  <2>1. TopDefs.FirstFunc = FirstDef("def_func", 2, "count", <<1>>)
    BY DEF TopDefs
  <2>2. "def_func" \in Symbols \ {"cases"}
    BY DEF Symbols
  <2>3. QED  BY <2>1, <2>2, FirstDefSound
<1>4. RowSound(TopDefs.FirstDecl)
  <2>1. TopDefs.FirstDecl = FirstDef("declaration", 3, "count", <<1>>)
    BY DEF TopDefs
  <2>2. "declaration" \in Symbols \ {"cases"}
    BY DEF Symbols
  <2>3. QED  BY <2>1, <2>2, FirstDefSound
<1>5. RowSound(TopDefs.NextVars)
  <2>1. TopDefs.NextVars = NextDef("def_vars", 1, "take", <<>>)
    BY DEF TopDefs
  <2>2. "def_vars" \in Symbols \ {"cases"}
    BY DEF Symbols
  <2>3. QED  BY <2>1, <2>2, NextDefSound
<1>6. RowSound(TopDefs.NextFunc)
  <2>1. TopDefs.NextFunc = NextDef("def_func", 2, "count", <<2>>)
    BY DEF TopDefs
  <2>2. "def_func" \in Symbols \ {"cases"}
    BY DEF Symbols
  <2>3. QED  BY <2>1, <2>2, NextDefSound
<1>7. RowSound(TopDefs.NextDecl)
  <2>1. TopDefs.NextDecl = NextDef("declaration", 3, "count", <<2>>)
    BY DEF TopDefs
  <2>2. "declaration" \in Symbols \ {"cases"}
    BY DEF Symbols
  <2>3. QED  BY <2>1, <2>2, NextDefSound
<1>8. QED  BY <1>1, <1>2, <1>3, <1>4, <1>5, <1>6, <1>7

\* The rows of Functions are sound.
LEMMA FunctionsSound == \A p \in DOMAIN Functions : RowSound(Functions[p])
<1>1. DOMAIN Functions = {"DefFunc", "DefFuncParams"}
  BY DEF Functions
<1>2. QED  BY <1>1, DefFuncSound, DefFuncParamsSound

\* The rows of VariableDecls are sound.
LEMMA VariableDeclsSound == \A p \in DOMAIN VariableDecls : RowSound(VariableDecls[p])
<1>1. DOMAIN VariableDecls = {"DeclFunc", "DeclFuncParams", "DeclVar", "DefVar", "DefVarInit",
                               "NextVar", "NextVarInit", "FirstVarList", "NextVarList",
                               "DefConst"}
  BY DEF VariableDecls, Variables
<1>2. {"def_var_list"} \subseteq Plain /\ {"def_var_list", "def_vars"} \subseteq Symbols \ {"cases"}
  BY DEF Plain, Symbols
<1>3. RowSound(VariableDecls.FirstVarList)
  <2>1. VariableDecls.FirstVarList = Pass("def_var_list", <<"def_vars">>)
    BY DEF VariableDecls, Variables
  <2>2. QED  BY <1>2, <2>1, PlainPass1
<1>4. RowSound(VariableDecls.NextVarList)
  <2>1. VariableDecls.NextVarList = Pass("def_var_list", <<"def_var_list", "def_vars">>)
    BY DEF VariableDecls, Variables
  <2>2. QED  BY <1>2, <2>1, PlainPass2
<1>5. QED  BY <1>1, DeclFuncSound, DeclFuncParamsSound, DeclVarSound, DefVarSound,
              DefVarInitSound, NextVarSound, NextVarInitSound, <1>3, <1>4, DefConstSound

\* The rows of TypeDefs are sound.
LEMMA TypeDefsSound == \A p \in DOMAIN TypeDefs : RowSound(TypeDefs[p])
<1>1. DOMAIN TypeDefs = {"DefStruct", "DefTypedef", "FirstParam", "NextParam", "Param"}
  BY DEF TypeDefs
<1>2. QED  BY <1>1, DefStructSound, DefTypedefSound, FirstParamSound, NextParamSound, ParamSound

\* The rows of Types are sound.
LEMMA TypesSound == \A p \in DOMAIN Types : RowSound(Types[p])
<1>1. DOMAIN Types = {"EmptyBlock", "StmtBlock", "VarBlock", "FullBlock", "Type", "WrapType",
                       "VoidFunctionType", "FunctionType", "FirstTypeRef", "NextTypeRef"}
  BY DEF Types
<1>2. /\ Modes["TypeNode"] = <<"count">> /\ Modes["WrapTypeRef"] = <<"count">>
      /\ Modes["FunctionTypeRef"] = <<"count", "count">>
      /\ {"TypeNode", "WrapTypeRef", "FunctionTypeRef"} \subseteq DOMAIN Modes
  BY ModesAre
<1>3. {"type", "typeref"} \subseteq Plain /\ {"param_typerefs", "typeref"} \subseteq Symbols \ {"cases"}
  BY DEF Plain, Symbols
<1>4. {"TypeNode", "WrapTypeRef", "FunctionTypeRef"} \subseteq Filled
  BY <1>2 DEF Filled
<1>5. RowSound(Types.Type)
  <2>1. Types.Type = Node("type", <<"typeref">>, "TypeNode")
    BY DEF Types
  <2>2. QED  BY <1>2, <1>3, <1>4, <2>1, PlainNode1
<1>6. RowSound(Types.WrapType)
  <2>1. Types.WrapType = Node("typeref", <<"typeref">>, "WrapTypeRef")
    BY DEF Types
  <2>2. QED  BY <1>2, <1>3, <1>4, <2>1, PlainNode1
<1>7. RowSound(Types.FunctionType)
  <2>1. Types.FunctionType = Node("typeref", <<"typeref", "param_typerefs">>, "FunctionTypeRef")
    BY DEF Types
  <2>2. QED  BY <1>2, <1>3, <1>4, <2>1, PlainNode2
<1>8. QED  BY <1>1, EmptyBlockSound, StmtBlockSound, VarBlockSound, FullBlockSound, <1>5, <1>6,
              VoidFunctionTypeSound, <1>7, FirstTypeRefSound, NextTypeRefSound

\* The rows of Stmts are sound.
LEMMA StmtsSound == \A p \in DOMAIN Stmts : RowSound(Stmts[p])
<1>1. DOMAIN Stmts = {"NoStmt", "ExprStmt", "BlockStmt", "Label", "IfElse", "If", "While",
                       "DoWhile", "For", "ForEver", "ForFrom", "ForWhile", "ForStep"}
  BY DEF Stmts
<1>2. /\ Modes["ExprStmt"] = <<"count">> /\ Modes["Label"] = <<"count">>
      /\ Modes["If"] = <<"count", "count", "count">> /\ Modes["While"] = <<"count", "count">>
      /\ Modes["DoWhile"] = <<"count", "count">>
      /\ {"ExprStmt", "Label", "If", "While", "DoWhile"} \subseteq DOMAIN Modes
  BY ModesAre
<1>3. {"stmt"} \subseteq Plain /\ {"block", "expr", "stmt"} \subseteq Symbols \ {"cases"}
  BY DEF Plain, Symbols
<1>4. {"ExprStmt", "Label", "If", "While", "DoWhile"} \subseteq Filled
  BY <1>2 DEF Filled
<1>5. RowSound(Stmts.NoStmt)
  <2>1. Stmts.NoStmt = Pass("stmt", <<>>)
    BY DEF Stmts
  <2>2. QED  BY <1>3, <2>1, PlainPass0
<1>6. RowSound(Stmts.ExprStmt)
  <2>1. Stmts.ExprStmt = Node("stmt", <<"expr">>, "ExprStmt")
    BY DEF Stmts
  <2>2. QED  BY <1>2, <1>3, <1>4, <2>1, PlainNode1
<1>7. RowSound(Stmts.BlockStmt)
  <2>1. Stmts.BlockStmt = Pass("stmt", <<"block">>)
    BY DEF Stmts
  <2>2. QED  BY <1>3, <2>1, PlainPass1
<1>8. RowSound(Stmts.Label)
  <2>1. Stmts.Label = Node("stmt", <<"stmt">>, "Label")
    BY DEF Stmts
  <2>2. QED  BY <1>2, <1>3, <1>4, <2>1, PlainNode1
<1>9. RowSound(Stmts.IfElse)
  <2>1. Stmts.IfElse = Node("stmt", <<"expr", "stmt", "stmt">>, "If")
    BY DEF Stmts
  <2>2. QED  BY <1>2, <1>3, <1>4, <2>1, PlainNode3
<1>10. RowSound(Stmts.While)
  <2>1. Stmts.While = Node("stmt", <<"expr", "stmt">>, "While")
    BY DEF Stmts
  <2>2. QED  BY <1>2, <1>3, <1>4, <2>1, PlainNode2
<1>11. RowSound(Stmts.DoWhile)
  <2>1. Stmts.DoWhile = Node("stmt", <<"stmt", "expr">>, "DoWhile")
    BY DEF Stmts
  <2>2. QED  BY <1>2, <1>3, <1>4, <2>1, PlainNode2
<1>12. QED  BY <1>1, <1>5, <1>6, <1>7, <1>8, <1>9, IfSound, <1>10, <1>11, ForSound, ForEverSound,
              ForFromSound, ForWhileSound, ForStepSound

\* The rows of Clauses are sound.
LEMMA ClausesSound == \A p \in DOMAIN Clauses : RowSound(Clauses[p])
<1>1. DOMAIN Clauses = {"Break", "Switch", "FirstClause", "NextClause", "Clause", "FirstCase",
                         "FirstDefault", "NextCase", "NextDefault", "CaseBody", "ReturnVoid",
                         "Return", "FirstStmt", "NextStmt", "NoMembers", "Members", "FirstSlot",
                         "NextSlot"}
  BY DEF Clauses
<1>2. /\ Modes["Break"] = <<>> /\ Modes["Return"] = <<"count">> /\ Modes["Slot"] = <<"count">>
      /\ {"Break", "Return", "Slot"} \subseteq DOMAIN Modes
  BY ModesAre
<1>3. {"case_clauses", "cases", "member_list", "slots", "stmt", "stmts"} \subseteq Plain
          /\ {"case_clause", "case_clauses", "expr", "primary", "slots", "stmt", "stmts",
          "type"} \subseteq Symbols \ {"cases"}
  BY DEF Plain, Symbols
<1>4. {"Break", "Return", "Slot"} \subseteq Filled
  BY <1>2 DEF Filled
<1>5. RowSound(Clauses.Break)
  <2>1. Clauses.Break = Node("stmt", <<>>, "Break")
    BY DEF Clauses
  <2>2. QED  BY <1>2, <1>3, <1>4, <2>1, PlainNode0
<1>6. RowSound(Clauses.FirstClause)
  <2>1. Clauses.FirstClause = Pass("case_clauses", <<"case_clause">>)
    BY DEF Clauses
  <2>2. QED  BY <1>3, <2>1, PlainPass1
<1>7. RowSound(Clauses.NextClause)
  <2>1. Clauses.NextClause = Pass("case_clauses", <<"case_clauses", "case_clause">>)
    BY DEF Clauses
  <2>2. QED  BY <1>3, <2>1, PlainPass2
<1>8. RowSound(Clauses.FirstCase)
  <2>1. Clauses.FirstCase = Pass("cases", <<"primary">>)
    BY DEF Clauses
  <2>2. QED  BY <1>3, <2>1, PlainPass1
<1>9. RowSound(Clauses.FirstDefault)
  <2>1. Clauses.FirstDefault = Pass("cases", <<>>)
    BY DEF Clauses
  <2>2. QED  BY <1>3, <2>1, PlainPass0
<1>10. RowSound(Clauses.NextCase)
  <2>1. Clauses.NextCase = Pass("cases", <<"cases", "primary">>)
    BY DEF Clauses
  <2>2. QED  BY <1>3, <2>1, PlainPass2 DEF Symbols
<1>11. RowSound(Clauses.Return)
  <2>1. Clauses.Return = Node("stmt", <<"expr">>, "Return")
    BY DEF Clauses
  <2>2. QED  BY <1>2, <1>3, <1>4, <2>1, PlainNode1
<1>12. RowSound(Clauses.FirstStmt)
  <2>1. Clauses.FirstStmt = Pass("stmts", <<"stmt">>)
    BY DEF Clauses
  <2>2. QED  BY <1>3, <2>1, PlainPass1
<1>13. RowSound(Clauses.NextStmt)
  <2>1. Clauses.NextStmt = Pass("stmts", <<"stmts", "stmt">>)
    BY DEF Clauses
  <2>2. QED  BY <1>3, <2>1, PlainPass2
<1>14. RowSound(Clauses.NoMembers)
  <2>1. Clauses.NoMembers = Pass("member_list", <<>>)
    BY DEF Clauses
  <2>2. QED  BY <1>3, <2>1, PlainPass0
<1>15. RowSound(Clauses.Members)
  <2>1. Clauses.Members = Pass("member_list", <<"slots">>)
    BY DEF Clauses
  <2>2. QED  BY <1>3, <2>1, PlainPass1
<1>16. RowSound(Clauses.FirstSlot)
  <2>1. Clauses.FirstSlot = Node("slots", <<"type">>, "Slot")
    BY DEF Clauses
  <2>2. QED  BY <1>2, <1>3, <1>4, <2>1, PlainNode1
<1>17. QED  BY <1>1, <1>5, SwitchSound, <1>6, <1>7, ClauseSound, <1>8, <1>9, <1>10,
              NextDefaultSound, CaseBodySound, ReturnVoidSound, <1>11, <1>12, <1>13, <1>14,
              <1>15, <1>16, NextSlotSound

\* The rows of Operators are sound.
LEMMA OperatorsSound == \A p \in DOMAIN Operators : RowSound(Operators[p])
<1>1. DOMAIN Operators = {"NamedType", "Assign", "Cond", "Binary"}
  BY DEF Operators
<1>2. /\ Modes["NamedTypeRef"] = <<>> /\ Modes["Assign"] = <<"count", "count">>
      /\ Modes["Cond"] = <<"count", "count", "count">> /\ Modes["Binary"] = <<"count", "count">>
      /\ {"NamedTypeRef", "Assign", "Cond", "Binary"} \subseteq DOMAIN Modes
  BY ModesAre
<1>3. {"expr", "typeref"} \subseteq Plain /\ {"expr"} \subseteq Symbols \ {"cases"}
  BY DEF Plain, Symbols
<1>4. {"NamedTypeRef", "Assign", "Cond", "Binary"} \subseteq Filled
  BY <1>2 DEF Filled
<1>5. RowSound(Operators.NamedType)
  <2>1. Operators.NamedType = Node("typeref", <<>>, "NamedTypeRef")
    BY DEF Operators
  <2>2. QED  BY <1>2, <1>3, <1>4, <2>1, PlainNode0
<1>6. RowSound(Operators.Assign)
  <2>1. Operators.Assign = Node("expr", <<"expr", "expr">>, "Assign")
    BY DEF Operators
  <2>2. QED  BY <1>2, <1>3, <1>4, <2>1, PlainNode2
<1>7. RowSound(Operators.Cond)
  <2>1. Operators.Cond = Node("expr", <<"expr", "expr", "expr">>, "Cond")
    BY DEF Operators
  <2>2. QED  BY <1>2, <1>3, <1>4, <2>1, PlainNode3
<1>8. RowSound(Operators.Binary)
  <2>1. Operators.Binary = Node("expr", <<"expr", "expr">>, "Binary")
    BY DEF Operators
  <2>2. QED  BY <1>2, <1>3, <1>4, <2>1, PlainNode2
<1>9. QED  BY <1>1, <1>5, <1>6, <1>7, <1>8

\* The rows of Operands are sound.
LEMMA OperandsSound == \A p \in DOMAIN Operands : RowSound(Operands[p])
<1>1. DOMAIN Operands = {"Cast", "Unary", "Deref", "SizeofType", "SizeofExpr", "Aref", "Member",
                          "CallNone", "Call", "FirstArg", "NextArg", "Primary", "Paren",
                          "Variable", "Integer", "String"}
  BY DEF Operands
<1>2. /\ Modes["Cast"] = <<"count", "count">> /\ Modes["Unary"] = <<"count">>
      /\ Modes["Deref"] = <<"count">> /\ Modes["Aref"] = <<"count", "count">>
      /\ Modes["Member"] = <<"count">> /\ Modes["Variable"] = <<>>
      /\ {"Cast", "Unary", "Deref", "Aref", "Member", "Variable"} \subseteq DOMAIN Modes
  BY ModesAre
<1>3. {"args", "expr", "primary"} \subseteq Plain /\ {"args", "expr", "primary",
          "type"} \subseteq Symbols \ {"cases"}
  BY DEF Plain, Symbols
<1>4. {"Cast", "Unary", "Deref", "Aref", "Member", "Variable"} \subseteq Filled
  BY <1>2 DEF Filled
<1>5. RowSound(Operands.Cast)
  <2>1. Operands.Cast = Node("expr", <<"type", "expr">>, "Cast")
    BY DEF Operands
  <2>2. QED  BY <1>2, <1>3, <1>4, <2>1, PlainNode2
<1>6. RowSound(Operands.Unary)
  <2>1. Operands.Unary = Node("expr", <<"expr">>, "Unary")
    BY DEF Operands
  <2>2. QED  BY <1>2, <1>3, <1>4, <2>1, PlainNode1
<1>7. RowSound(Operands.Deref)
  <2>1. Operands.Deref = Node("expr", <<"expr">>, "Deref")
    BY DEF Operands
  <2>2. QED  BY <1>2, <1>3, <1>4, <2>1, PlainNode1
<1>8. RowSound(Operands.Aref)
  <2>1. Operands.Aref = Node("expr", <<"expr", "expr">>, "Aref")
    BY DEF Operands
  <2>2. QED  BY <1>2, <1>3, <1>4, <2>1, PlainNode2
<1>9. RowSound(Operands.Member)
  <2>1. Operands.Member = Node("expr", <<"expr">>, "Member")
    BY DEF Operands
  <2>2. QED  BY <1>2, <1>3, <1>4, <2>1, PlainNode1
<1>10. RowSound(Operands.FirstArg)
  <2>1. Operands.FirstArg = Pass("args", <<"expr">>)
    BY DEF Operands
  <2>2. QED  BY <1>3, <2>1, PlainPass1
<1>11. RowSound(Operands.NextArg)
  <2>1. Operands.NextArg = Pass("args", <<"args", "expr">>)
    BY DEF Operands
  <2>2. QED  BY <1>3, <2>1, PlainPass2
<1>12. RowSound(Operands.Primary)
  <2>1. Operands.Primary = Pass("expr", <<"primary">>)
    BY DEF Operands
  <2>2. QED  BY <1>3, <2>1, PlainPass1
<1>13. RowSound(Operands.Paren)
  <2>1. Operands.Paren = Pass("primary", <<"expr">>)
    BY DEF Operands
  <2>2. QED  BY <1>3, <2>1, PlainPass1
<1>14. RowSound(Operands.Variable)
  <2>1. Operands.Variable = Node("primary", <<>>, "Variable")
    BY DEF Operands
  <2>2. QED  BY <1>2, <1>3, <1>4, <2>1, PlainNode0
<1>15. QED  BY <1>1, <1>5, <1>6, <1>7, SizeofTypeSound, SizeofExprSound, <1>8, <1>9,
              CallNoneSound, CallSound, <1>10, <1>11, <1>12, <1>13, <1>14, IntegerSound,
              StringSound

\* An entry of tables put together is an entry of one of them.
LEMMA TogetherIs ==
    ASSUME NEW tables, NEW p \in DOMAIN Together(tables)
    PROVE  \E i \in DOMAIN tables :
               p \in DOMAIN tables[i] /\ Together(tables)[p] = tables[i][p]
<1> DEFINE holds(i) == p \in DOMAIN tables[i]
           c == CHOOSE i \in DOMAIN tables : holds(i)
<1>1. p \in UNION {DOMAIN tables[i] : i \in DOMAIN tables}
  BY DEF Together
<1>2. \E i \in DOMAIN tables : holds(i)
  BY <1>1
<1>3. c \in DOMAIN tables /\ holds(c)
  BY <1>2
<1>4. Together(tables)[p] = tables[c][p]
  BY <1>1 DEF Together
<1>5. QED  BY <1>3, <1>4

\* Every production of parser.y, as the rows have it, uses each value it finds or
\* makes exactly once, and leaves what later actions read as they expect it: whatever
\* text is parsed, no action forgets an object, drops one twice or reads another kind.
THEOREM RowsSound == \A p \in DOMAIN Rows : RowSound(Rows[p])
<1> DEFINE tables == <<Start, TopDefs, Functions, VariableDecls, TypeDefs, Types, Stmts,
                       Clauses, Operators, Operands>>
<1>1. DOMAIN tables = 1 .. 10
  OBVIOUS
<1>2. /\ tables[1] = Start /\ tables[2] = TopDefs /\ tables[3] = Functions
      /\ tables[4] = VariableDecls /\ tables[5] = TypeDefs /\ tables[6] = Types
      /\ tables[7] = Stmts /\ tables[8] = Clauses /\ tables[9] = Operators
      /\ tables[10] = Operands
  OBVIOUS
<1>3. Rows = Together(tables)
  BY DEF Rows
<1> HIDE DEF tables
<1> TAKE p \in DOMAIN Rows
<1>4. PICK i \in DOMAIN tables : p \in DOMAIN tables[i] /\ Rows[p] = tables[i][p]
  BY <1>3, TogetherIs
<1>5. \A j \in DOMAIN tables : \A q \in DOMAIN tables[j] : RowSound(tables[j][q])
  BY <1>1, <1>2, StartSound, TopDefsSound, FunctionsSound, VariableDeclsSound,
     TypeDefsSound, TypesSound, StmtsSound, ClausesSound, OperatorsSound, OperandsSound
<1>6. QED  BY <1>4, <1>5

\* No row has the name of a symbol.
LEMMA RowsApart == DOMAIN Rows \cap Symbols = {}
<1> DEFINE tables == <<Start, TopDefs, Functions, VariableDecls, TypeDefs, Types, Stmts,
                       Clauses, Operators, Operands>>
<1>1. DOMAIN tables = 1 .. 10
  OBVIOUS
<1>2. /\ tables[1] = Start /\ tables[2] = TopDefs /\ tables[3] = Functions
      /\ tables[4] = VariableDecls /\ tables[5] = TypeDefs /\ tables[6] = Types
      /\ tables[7] = Stmts /\ tables[8] = Clauses /\ tables[9] = Operators
      /\ tables[10] = Operands
  OBVIOUS
<1>3. Rows = Together(tables)
  BY DEF Rows
<1>4. \A q \in DOMAIN Start : q \notin Symbols
  BY DEF Start, Symbols
<1>5. \A q \in DOMAIN TopDefs : q \notin Symbols
  BY DEF TopDefs, Symbols
<1>6. \A q \in DOMAIN Functions : q \notin Symbols
  BY DEF Functions, Symbols
<1>7. \A q \in DOMAIN VariableDecls : q \notin Symbols
  BY DEF VariableDecls, Variables, Symbols
<1>8. \A q \in DOMAIN TypeDefs : q \notin Symbols
  BY DEF TypeDefs, Symbols
<1>9. \A q \in DOMAIN Types : q \notin Symbols
  BY DEF Types, Symbols
<1>10. \A q \in DOMAIN Stmts : q \notin Symbols
  BY DEF Stmts, Symbols
<1>11. \A q \in DOMAIN Clauses : q \notin Symbols
  BY DEF Clauses, Symbols
<1>12. \A q \in DOMAIN Operators : q \notin Symbols
  BY DEF Operators, Symbols
<1>13. \A q \in DOMAIN Operands : q \notin Symbols
  BY DEF Operands, Symbols
<1> HIDE DEF tables
<1>14. \A j \in DOMAIN tables : \A q \in DOMAIN tables[j] : q \notin Symbols
  BY <1>1, <1>2, <1>4, <1>5, <1>6, <1>7, <1>8, <1>9, <1>10, <1>11, <1>12, <1>13
<1>15. ASSUME NEW p \in DOMAIN Rows PROVE p \notin Symbols
  <2>1. PICK i \in DOMAIN tables : p \in DOMAIN tables[i] /\ Rows[p] = tables[i][p]
    BY <1>3, TogetherIs
  <2>2. QED  BY <1>14, <2>1
<1>16. QED  BY <1>15

\* What a constructor may do with an argument; a pointer is stored as it comes for the
\* body of a for statement only.
ModeKnown(c) ==
    /\ \E n \in 0 .. 4 : DOMAIN Modes[c] = 1 .. n
    /\ \A k \in DOMAIN Modes[c] :
        Modes[c][k] \in {"count", "take", "look"} /\ (Modes[c][k] = "look" <=> c = "For" /\ k = 4)

\* A for statement has four members.
LEMMA ForKnown == DOMAIN Modes["For"] = 1 .. 4
<1>1. Modes["For"] = <<"take", "count", "take", "look">>
  BY ModesAre
<1>2. QED  BY <1>1

\* What a constructor may do with its arguments, of which there are at most four.
LEMMA ModesKnown ==
    \A c \in DOMAIN Modes :
        /\ \E n \in 0 .. 4 : DOMAIN Modes[c] = 1 .. n
        /\ \A k \in DOMAIN Modes[c] :
            Modes[c][k] \in {"count", "take", "look"} /\ (Modes[c][k] = "look" <=> c = "For" /\ k = 4)
<1>1. ASSUME NEW c, Modes[c] = <<"count">>, c # "For" PROVE ModeKnown(c)
  <2>1. 1 \in 0 .. 4 /\ DOMAIN Modes[c] = 1 .. 1
    BY <1>1
  <2>2. QED  BY <1>1, <2>1 DEF ModeKnown
<1>2. ASSUME NEW c, Modes[c] = <<"take">>, c # "For" PROVE ModeKnown(c)
  <2>1. 1 \in 0 .. 4 /\ DOMAIN Modes[c] = 1 .. 1
    BY <1>2
  <2>2. QED  BY <1>2, <2>1 DEF ModeKnown
<1>3. ASSUME NEW c, Modes[c] = <<>>, c # "For" PROVE ModeKnown(c)
  <2>1. 0 \in 0 .. 4 /\ DOMAIN Modes[c] = 1 .. 0
    BY <1>3
  <2>2. QED  BY <1>3, <2>1 DEF ModeKnown
<1>4. ASSUME NEW c, Modes[c] = <<"count", "count">>, c # "For" PROVE ModeKnown(c)
  <2>1. 2 \in 0 .. 4 /\ DOMAIN Modes[c] = 1 .. 2
    BY <1>4
  <2>2. QED  BY <1>4, <2>1 DEF ModeKnown
<1>5. ASSUME NEW c, Modes[c] = <<"count", "take">>, c # "For" PROVE ModeKnown(c)
  <2>1. 2 \in 0 .. 4 /\ DOMAIN Modes[c] = 1 .. 2
    BY <1>5
  <2>2. QED  BY <1>5, <2>1 DEF ModeKnown
<1>6. ASSUME NEW c, Modes[c] = <<"count", "count", "count">>, c # "For" PROVE ModeKnown(c)
  <2>1. 3 \in 0 .. 4 /\ DOMAIN Modes[c] = 1 .. 3
    BY <1>6
  <2>2. QED  BY <1>6, <2>1 DEF ModeKnown
<1>7. ASSUME NEW c, Modes[c] = <<"take", "take">>, c # "For" PROVE ModeKnown(c)
  <2>1. 2 \in 0 .. 4 /\ DOMAIN Modes[c] = 1 .. 2
    BY <1>7
  <2>2. QED  BY <1>7, <2>1 DEF ModeKnown
<1>8. ASSUME NEW c, Modes[c] = <<"take", "count">>, c # "For" PROVE ModeKnown(c)
  <2>1. 2 \in 0 .. 4 /\ DOMAIN Modes[c] = 1 .. 2
    BY <1>8
  <2>2. QED  BY <1>8, <2>1 DEF ModeKnown
<1>9. ASSUME NEW c, Modes[c] = <<"take", "count", "take", "look">>, c = "For" PROVE ModeKnown(c)
  <2>1. 4 \in 0 .. 4 /\ DOMAIN Modes[c] = 1 .. 4
    BY <1>9
  <2>2. QED  BY <1>9, <2>1 DEF ModeKnown
<1>10. ASSUME NEW c, Modes[c] = <<"take", "take", "take">>, c # "For" PROVE ModeKnown(c)
  <2>1. 3 \in 0 .. 4 /\ DOMAIN Modes[c] = 1 .. 3
    BY <1>10
  <2>2. QED  BY <1>10, <2>1 DEF ModeKnown
<1>11. \A c \in {"TypeNode", "Unary", "Slot", "Member", "Deref", "Return", "ExprStmt", "Label",
           "WrapTypeRef", "CopiedTypeRefs", "AST"} : ModeKnown(c)
  <2>1. \A c \in {"TypeNode", "Unary", "Slot", "Member", "Deref", "Return", "ExprStmt", "Label",
            "WrapTypeRef", "CopiedTypeRefs", "AST"} : Modes[c] = <<"count">>
    BY ModesAre
  <2>2. QED  BY <1>1, <2>1
<1>12. \A c \in {"IntegerLiteral", "StringLiteral", "Params", "ParamTypeRefs"} : ModeKnown(c)
  <2>1. \A c \in {"IntegerLiteral", "StringLiteral", "Params", "ParamTypeRefs"} : Modes[c] = <<"take">>
    BY ModesAre
  <2>2. QED  BY <1>2, <2>1
<1>13. \A c \in {"Variable", "Break", "NamedTypeRef"} : ModeKnown(c)
  <2>1. \A c \in {"Variable", "Break", "NamedTypeRef"} : Modes[c] = <<>>
    BY ModesAre
  <2>2. QED  BY <1>3, <2>1
<1>14. \A c \in {"Aref", "Cast", "Binary", "Assign", "DoWhile", "While", "Constant",
           "DefinedVariable", "UndefinedFunction", "FunctionTypeRef"} : ModeKnown(c)
  <2>1. \A c \in {"Aref", "Cast", "Binary", "Assign", "DoWhile", "While", "Constant",
            "DefinedVariable", "UndefinedFunction", "FunctionTypeRef"} : Modes[c] = <<"count", "count">>
    BY ModesAre
  <2>2. QED  BY <1>4, <2>1
<1>15. \A c \in {"Funcall", "SizeofExpr", "SizeofType", "Switch"} : ModeKnown(c)
  <2>1. \A c \in {"Funcall", "SizeofExpr", "SizeofType", "Switch"} : Modes[c] = <<"count", "take">>
    BY ModesAre
  <2>2. QED  BY <1>5, <2>1
<1>16. \A c \in {"Cond", "If", "DefinedFunction"} : ModeKnown(c)
  <2>1. \A c \in {"Cond", "If", "DefinedFunction"} : Modes[c] = <<"count", "count", "count">>
    BY ModesAre
  <2>2. QED  BY <1>6, <2>1
<1>17. \A c \in {"Block", "Composite", "Typedef"} : ModeKnown(c)
  <2>1. \A c \in {"Block", "Composite", "Typedef"} : Modes[c] = <<"take", "take">>
    BY ModesAre
  <2>2. QED  BY <1>7, <2>1
<1>18. \A c \in {"Case"} : ModeKnown(c)
  <2>1. \A c \in {"Case"} : Modes[c] = <<"take", "count">>
    BY ModesAre
  <2>2. QED  BY <1>8, <2>1
<1>19. \A c \in {"For"} : ModeKnown(c)
  <2>1. \A c \in {"For"} : Modes[c] = <<"take", "count", "take", "look">>
    BY ModesAre
  <2>2. QED  BY <1>9, <2>1
<1>20. \A c \in {"Declarations"} : ModeKnown(c)
  <2>1. \A c \in {"Declarations"} : Modes[c] = <<"take", "take", "take">>
    BY ModesAre
  <2>2. QED  BY <1>10, <2>1
<1>21. \A c \in DOMAIN Modes : ModeKnown(c)
  BY ModesAre, <1>11, <1>12, <1>13, <1>14, <1>15, <1>16, <1>17, <1>18, <1>19, <1>20
<1>22. QED  BY <1>21 DEF ModeKnown

\* The classes whose members later actions read.
LEMMA KindsKnown ==
    /\ Modes["Params"] = <<"take">> /\ Modes["DefinedVariable"] = <<"count", "count">>
    /\ Modes["TypeNode"] = <<"count">> /\ Modes["ParamTypeRefs"] = <<"take">>
    /\ Modes["Declarations"] = <<"take", "take", "take">> /\ Modes["Case"] = <<"take", "count">>
    /\ Modes["AST"] = <<"count">>
    /\ {"Params", "DefinedVariable", "TypeNode", "ParamTypeRefs", "Declarations", "Case", "AST"}
            \subseteq DOMAIN Modes
  BY ModesAre

=============================================================================
