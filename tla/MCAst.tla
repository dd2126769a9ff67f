------------------------------- MODULE MCAst -------------------------------
(***************************************************************************)
(* Instances of AstBuilder for TLC: the parts of the language under study, *)
(* each with the length that lets its longest production be followed by    *)
(* what may go wrong with it.                                              *)
(***************************************************************************)
EXTENDS AstBuilder

Study(rows, length) == [rows |-> rows, length |-> length]

\* Statements, in the body of one function without parameters.
Body == {"Compile", "FirstFunc", "DefFunc", "NamedType", "StmtBlock", "FirstStmt",
         "NextStmt", "Variable", "Primary"}
SimpleStmts == Study(Body \cup {"NoStmt", "ExprStmt", "BlockStmt", "EmptyBlock", "Label",
    "IfElse", "If", "While", "DoWhile", "Break", "ReturnVoid", "Return"}, 11)
Loops == Study(Body \cup {"Break", "For", "ForEver", "ForFrom", "ForWhile", "ForStep"}, 14)
Switches == Study(Body \cup {"NoStmt", "Break", "Switch", "FirstClause", "NextClause",
    "Clause", "FirstCase", "FirstDefault", "NextCase", "NextDefault", "CaseBody"}, 17)

\* Definitions and declarations, of a file to compile or to import.
File == {"Compile", "Declare", "NamedType"}
Functional == Study(File \cup {"FirstFunc", "NextFunc", "DefFunc", "DefFuncParams",
    "FirstParam", "NextParam", "Param", "EmptyBlock", "FirstDecl", "NextDecl", "DeclFunc",
    "DeclFuncParams"}, 11)
Data == Study(File \cup {"FirstVars", "NextVars", "DefVar", "DefVarInit", "NextVar",
    "NextVarInit", "Primary", "Integer", "FirstDecl", "DeclVar", "DefConst", "FirstFunc",
    "DefFunc", "VarBlock", "FullBlock", "FirstVarList", "NextVarList", "FirstStmt",
    "NoStmt"}, 10)
Typedefs == Study(File \cup {"FirstDecl", "NextDecl", "DefStruct", "NoMembers", "Members",
    "FirstSlot", "NextSlot", "Type", "DefTypedef", "WrapType", "VoidFunctionType",
    "FunctionType", "FirstTypeRef", "NextTypeRef"}, 9)

\* Expressions, as the initial value of one variable.
Global == {"Compile", "FirstVars", "DefVarInit", "NamedType", "Variable", "Primary"}
Operations == Study(Global \cup {"Assign", "Cond", "Binary", "Unary", "Deref", "Aref",
    "Member", "Paren"}, 9)
Calls == Study(Global \cup {"CallNone", "Call", "FirstArg", "NextArg", "Integer",
    "String"}, 11)
Conversions == Study(Global \cup {"Type", "Cast", "SizeofType", "SizeofExpr", "WrapType"}, 10)

Language == {SimpleStmts, Loops, Switches, Functional, Data, Typedefs, Operations, Calls,
             Conversions}
OnlyLoops == {Loops}
=============================================================================
