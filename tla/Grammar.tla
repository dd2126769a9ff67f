------------------------------- MODULE Grammar -------------------------------
(***************************************************************************)
(* The productions of parser/parser.y and their semantic actions, as far   *)
(* as they make, link, count and drop objects.                             *)
(*                                                                         *)
(* Symbols whose values are not objects are left out of the right-hand     *)
(* sides, the levels expr10 to postfix are one symbol, expr, and           *)
(* productions that treat their objects alike are one row.  A row's        *)
(* numbers name objects: 1, 2 ... the values $i of the right-hand side,    *)
(* then the nodes the action makes, in order.                              *)
(***************************************************************************)
EXTENDS AstNodes

None == 0          \* nullptr, or an empty vector
NullItem == 101    \* nullptr as the element of a vector
LastType == 102    \* $1.back()->type_node()
TypeRefsOf == 103  \* the type_ref() of every parameter of $2

\* makes: the classes constructed and their arguments; grow: <<object, member,
\* mode, added>>; gives: what becomes $$, joined into one vector; drops: the
\* objects the action calls dec_ref on (XZERO, ->dec_ref()), in its order.
Row(lhs, rhs, makes, gives, drops) ==
    [lhs |-> lhs, rhs |-> rhs, makes |-> makes, grow |-> <<>>,
     gives |-> gives, drops |-> drops]
Growing(row, grow) == [row EXCEPT !.grow = grow]
Pass(lhs, rhs) == Row(lhs, rhs, <<>>, [i \in DOMAIN rhs |-> i], <<>>)

\* A node made of all the values of the right-hand side, which are then dropped.
Node(lhs, rhs, class) ==
    LET n == Len(rhs)
    IN  Row(lhs, rhs, << <<class, [i \in 1 .. n |-> i]>> >>, <<n + 1>>,
            [i \in 1 .. n |-> i])

\* The COMPILE and DECLARE start rules, and top_defs.
Start == [
    Compile |-> Node("compile", <<"top_defs">>, "AST"),
    Declare |-> Pass("declare", <<"top_defs">>)]

FirstDef(symbol, member, mode, drops) ==
    Growing(Row("top_defs", <<symbol>>, << <<"Declarations", <<None, None, None>> >> >>,
                <<2>>, drops), <<2, member, mode, 1>>)
NextDef(symbol, member, mode, drops) ==
    Growing(Row("top_defs", <<"top_defs", symbol>>, <<>>, <<1>>, drops),
            <<1, member, mode, 2>>)
TopDefs == [
    FirstVars |-> FirstDef("def_vars", 1, "take", <<>>),
    FirstFunc |-> FirstDef("def_func", 2, "count", <<1>>),
    FirstDecl |-> FirstDef("declaration", 3, "count", <<1>>),
    NextVars |-> NextDef("def_vars", 1, "take", <<>>),
    NextFunc |-> NextDef("def_func", 2, "count", <<2>>),
    NextDecl |-> NextDef("declaration", 3, "count", <<2>>)]

\* def_func, STATIC or not.
Functions == [
    DefFunc |-> Row("def_func", <<"typeref", "block">>,
        << <<"Params", <<None>> >>, <<"ParamTypeRefs", <<None>> >>,
           <<"FunctionTypeRef", <<1, 4>> >>, <<"TypeNode", <<5>> >>,
           <<"DefinedFunction", <<6, 3, 2>> >> >>,
        <<7>>, <<6, 5, 4, 3, 1, 2>>),
    DefFuncParams |-> Row("def_func", <<"typeref", "params", "block">>,
        << <<"CopiedTypeRefs", <<TypeRefsOf>> >>, <<"FunctionTypeRef", <<1, 4>> >>,
           <<"TypeNode", <<5>> >>, <<"DefinedFunction", <<6, 2, 3>> >> >>,
        <<7>>, <<6, 5, 4, 1, 2, 3>>)]

\* decl_func, decl_var, def_vars, def_var_list and def_const.  (A slip: the type
\* shared by "int x, y" is dropped like the others.)
Variables(shared) == [
    DeclFunc |-> Row("declaration", <<"typeref">>,
        << <<"Params", <<None>> >>, <<"ParamTypeRefs", <<None>> >>,
           <<"FunctionTypeRef", <<1, 3>> >>, <<"TypeNode", <<4>> >>,
           <<"UndefinedFunction", <<5, 2>> >> >>,
        <<6>>, <<5, 4, 3, 2, 1>>),
    DeclFuncParams |-> Row("declaration", <<"typeref", "params">>,
        << <<"CopiedTypeRefs", <<TypeRefsOf>> >>, <<"FunctionTypeRef", <<1, 3>> >>,
           <<"TypeNode", <<4>> >>, <<"UndefinedFunction", <<5, 2>> >> >>,
        <<6>>, <<5, 4, 3, 1, 2>>),
    DeclVar |-> Row("declaration", <<"typeref">>,
        << <<"TypeNode", <<1>> >>, <<"DefinedVariable", <<2, None>> >> >>, <<3>>, <<2, 1>>),
    DefVar |-> Row("def_vars", <<"typeref">>,
        << <<"TypeNode", <<1>> >>, <<"DefinedVariable", <<2, None>> >> >>, <<3>>, <<1, 2>>),
    DefVarInit |-> Row("def_vars", <<"typeref", "expr">>,
        << <<"TypeNode", <<1>> >>, <<"DefinedVariable", <<3, 2>> >> >>, <<4>>, <<1, 2, 3>>),
    NextVar |-> Row("def_vars", <<"def_vars">>,
        << <<"DefinedVariable", <<LastType, None>> >> >>, <<1, 2>>, shared),
    NextVarInit |-> Row("def_vars", <<"def_vars", "expr">>,
        << <<"DefinedVariable", <<LastType, 2>> >> >>, <<1, 3>>, <<2>> \o shared),
    FirstVarList |-> Pass("def_var_list", <<"def_vars">>),
    NextVarList |-> Pass("def_var_list", <<"def_var_list", "def_vars">>),
    DefConst |-> Row("declaration", <<"typeref", "expr">>,
        << <<"TypeNode", <<1>> >>, <<"Constant", <<3, 2>> >> >>, <<4>>, <<1, 2, 3>>)]
DeclarationsDroppingShared == Variables(<<LastType>>)
VariableDecls == Variables(<<>>)

\* def_struct, def_union, def_typedef, params and param.
TypeDefs == [
    DefStruct |-> Row("declaration", <<"member_list">>,
        << <<"NamedTypeRef", <<>> >>, <<"TypeNode", <<2>> >>, <<"Composite", <<3, 1>> >> >>,
        <<4>>, <<2>>),
    DefTypedef |-> Row("declaration", <<"typeref">>,
        << <<"NamedTypeRef", <<>> >>, <<"TypeNode", <<2>> >>, <<"TypeNode", <<1>> >>,
           <<"Typedef", <<3, 4>> >> >>,
        <<5>>, <<2, 1>>),
    FirstParam |-> Row("params", <<"param">>, << <<"Params", <<1>> >> >>, <<2>>, <<>>),
    NextParam |-> Growing(Row("params", <<"params", "param">>, <<>>, <<1>>, <<>>),
                          <<1, 1, "take", 2>>),
    Param |-> Row("param", <<"typeref">>,
        << <<"TypeNode", <<1>> >>, <<"DefinedVariable", <<2, None>> >> >>, <<3>>, <<1, 2>>)]

\* block, type, typeref and param_typerefs.
Types == [
    EmptyBlock |-> Row("block", <<>>, << <<"Block", <<None, None>> >> >>, <<1>>, <<>>),
    StmtBlock |-> Row("block", <<"stmts">>, << <<"Block", <<None, 1>> >> >>, <<2>>, <<>>),
    VarBlock |-> Row("block", <<"def_var_list">>, << <<"Block", <<1, None>> >> >>, <<2>>, <<>>),
    FullBlock |-> Row("block", <<"def_var_list", "stmts">>,
        << <<"Block", <<1, 2>> >> >>, <<3>>, <<>>),
    Type |-> Node("type", <<"typeref">>, "TypeNode"),
    WrapType |-> Node("typeref", <<"typeref">>, "WrapTypeRef"),
    VoidFunctionType |-> Row("typeref", <<"typeref">>,
        << <<"ParamTypeRefs", <<None>> >>, <<"FunctionTypeRef", <<1, 2>> >> >>, <<3>>, <<2, 1>>),
    FunctionType |-> Node("typeref", <<"typeref", "param_typerefs">>, "FunctionTypeRef"),
    FirstTypeRef |-> Row("param_typerefs", <<"typeref">>,
        << <<"ParamTypeRefs", <<1>> >> >>, <<2>>, <<>>),
    NextTypeRef |-> Growing(Row("param_typerefs", <<"param_typerefs", "typeref">>,
                                <<>>, <<1>>, <<>>), <<1, 1, "take", 2>>)]

\* for_stmt, with opt_expr in place: an expression there or not.
ForStmt(init, cond, incr) ==
    LET I == IF init THEN 1 ELSE 0
        C == IF cond THEN 1 ELSE 0
        N == IF incr THEN 1 ELSE 0
        n == I + C + N + 1                    \* the body
        wrapped == (IF init THEN << <<"ExprStmt", <<1>> >> >> ELSE <<>>)
                    \o (IF incr THEN << <<"ExprStmt", <<I + C + 1>> >> >> ELSE <<>>)
        literal == n + I + N + 1              \* the type of the literal
        truth == IF cond THEN <<>> ELSE
            << <<"NamedTypeRef", <<>> >>, <<"TypeNode", <<literal>> >>,
               <<"IntegerLiteral", <<literal + 1>> >> >>
        loop == n + Len(wrapped) + Len(truth) + 1
        held == IF cond THEN I + 1 ELSE literal + 2
    IN  Row("stmt", [i \in 1 .. n |-> IF i < n THEN "expr" ELSE "stmt"],
            wrapped \o truth \o
            << <<"For", <<IF init THEN n + 1 ELSE None, held,
                          IF incr THEN n + I + 1 ELSE None, n>> >> >>,
            <<loop>>,
            (IF cond THEN <<>> ELSE <<literal, literal + 2>>) \o [i \in 1 .. n |-> i])

\* stmt up to for_stmt.
Stmts == [
    NoStmt |-> Pass("stmt", <<>>),
    ExprStmt |-> Node("stmt", <<"expr">>, "ExprStmt"),
    BlockStmt |-> Pass("stmt", <<"block">>),
    Label |-> Node("stmt", <<"stmt">>, "Label"),
    IfElse |-> Node("stmt", <<"expr", "stmt", "stmt">>, "If"),
    If |-> Row("stmt", <<"expr", "stmt">>, << <<"If", <<1, 2, None>> >> >>, <<3>>, <<1, 2>>),
    While |-> Node("stmt", <<"expr", "stmt">>, "While"),
    DoWhile |-> Node("stmt", <<"stmt", "expr">>, "DoWhile"),
    For |-> ForStmt(TRUE, TRUE, TRUE),
    ForEver |-> ForStmt(FALSE, FALSE, FALSE),
    ForFrom |-> ForStmt(TRUE, FALSE, FALSE),
    ForWhile |-> ForStmt(FALSE, TRUE, FALSE),
    ForStep |-> ForStmt(FALSE, FALSE, TRUE)]

\* goto, switch and its clauses, return, stmts, member_list and slots.
Clauses == [
    Break |-> Node("stmt", <<>>, "Break"),
    Switch |-> Row("stmt", <<"expr", "case_clauses">>,
        << <<"Switch", <<1, 2>> >> >>, <<3>>, <<1>>),
    FirstClause |-> Pass("case_clauses", <<"case_clause">>),
    NextClause |-> Pass("case_clauses", <<"case_clauses", "case_clause">>),
    Clause |-> Row("case_clause", <<"cases", "case_body">>,
        << <<"Case", <<1, 2>> >> >>, <<3>>, <<2>>),
    FirstCase |-> Pass("cases", <<"primary">>),
    FirstDefault |-> Pass("cases", <<>>),
    NextCase |-> Pass("cases", <<"cases", "primary">>),
    NextDefault |-> Row("cases", <<"cases">>, <<>>, <<1, NullItem>>, <<>>),
    CaseBody |-> Row("case_body", <<"stmts">>, << <<"Block", <<None, 1>> >> >>, <<2>>, <<>>),
    ReturnVoid |-> Row("stmt", <<>>, << <<"Return", <<None>> >> >>, <<1>>, <<>>),
    Return |-> Node("stmt", <<"expr">>, "Return"),
    FirstStmt |-> Pass("stmts", <<"stmt">>),
    NextStmt |-> Pass("stmts", <<"stmts", "stmt">>),
    NoMembers |-> Pass("member_list", <<>>),
    Members |-> Pass("member_list", <<"slots">>),
    FirstSlot |-> Node("slots", <<"type">>, "Slot"),
    NextSlot |-> Row("slots", <<"slots", "type">>, << <<"Slot", <<2>> >> >>, <<1, 3>>, <<2>>)]

\* typeref_base, expr and the levels below it.
Operators == [
    NamedType |-> Node("typeref", <<>>, "NamedTypeRef"),
    Assign |-> Node("expr", <<"expr", "expr">>, "Assign"),
    Cond |-> Node("expr", <<"expr", "expr", "expr">>, "Cond"),
    Binary |-> Node("expr", <<"expr", "expr">>, "Binary")]

\* term, unary, postfix, args and primary.
SizeofRow(symbol, class) ==
    Row("expr", <<symbol>>,
        << <<"NamedTypeRef", <<>> >>, <<"TypeNode", <<2>> >>, <<class, <<1, 3>> >> >>,
        <<4>>, <<2, 1>>)
Operands == [
    Cast |-> Node("expr", <<"type", "expr">>, "Cast"),
    Unary |-> Node("expr", <<"expr">>, "Unary"),
    Deref |-> Node("expr", <<"expr">>, "Deref"),
    SizeofType |-> SizeofRow("type", "SizeofType"),
    SizeofExpr |-> SizeofRow("expr", "SizeofExpr"),
    Aref |-> Node("expr", <<"expr", "expr">>, "Aref"),
    Member |-> Node("expr", <<"expr">>, "Member"),
    CallNone |-> Row("expr", <<"expr">>, << <<"Funcall", <<1, None>> >> >>, <<2>>, <<1>>),
    Call |-> Row("expr", <<"expr", "args">>, << <<"Funcall", <<1, 2>> >> >>, <<3>>, <<1>>),
    FirstArg |-> Pass("args", <<"expr">>),
    NextArg |-> Pass("args", <<"args", "expr">>),
    Primary |-> Pass("expr", <<"primary">>),
    Paren |-> Pass("primary", <<"expr">>),
    Variable |-> Node("primary", <<>>, "Variable"),
    Integer |-> Row("primary", <<>>,
        << <<"NamedTypeRef", <<>> >>, <<"TypeNode", <<1>> >>, <<"IntegerLiteral", <<2>> >> >>,
        <<3>>, <<1>>),
    String |-> Row("primary", <<>>,
        << <<"NamedTypeRef", <<>> >>, <<"WrapTypeRef", <<1>> >>, <<"TypeNode", <<2>> >>,
           <<"StringLiteral", <<3>> >> >>,
        <<4>>, <<2, 1>>)]

\* The symbols of the right-hand sides; compile and declare are the start rules.
Symbols == {"compile", "declare", "top_defs", "def_func", "def_vars", "def_var_list",
            "declaration", "params", "param", "block", "type", "typeref",
            "param_typerefs", "stmt", "stmts", "case_clauses", "case_clause", "cases",
            "case_body", "member_list", "slots", "expr", "args", "primary"}

Rows == Together(<<Start, TopDefs, Functions, VariableDecls, TypeDefs, Types, Stmts,
                   Clauses, Operators, Operands>>)
=============================================================================
