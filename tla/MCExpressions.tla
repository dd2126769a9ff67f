--------------------------- MODULE MCExpressions ---------------------------
(***************************************************************************)
(* An instance of Expressions for TLC: one tree for each way in which the  *)
(* classes of nodes meet.                                                  *)
(***************************************************************************)
EXTENDS Expressions

PtrTo(r) == <<"ptr", r>>
ArrOf(r) == <<"arr", r, 3>>
IntRef == <<"int">>
S == <<"struct", "s">>
F == <<"fun", IntRef, <<>>, FALSE>>
U == <<"user", "u">>        \* typedef struct s u
P == <<"user", "p">>        \* typedef struct s *p

MCNames == <<"i", "a", "r", "q", "s", "u", "p", "t", "f">>
MCDeclared == [i |-> IntRef, a |-> ArrOf(ArrOf(IntRef)), r |-> PtrTo(ArrOf(IntRef)), q |-> ArrOf(PtrTo(IntRef)),
               s |-> S, u |-> U, p |-> P, t |-> ArrOf(S), f |-> F]
MCAlias == (U :> S) @@ (P :> PtrTo(S))
MCMembers == S :> [m |-> ArrOf(IntRef)]
MCTypeRefs == <<IntRef, PtrTo(IntRef), PtrTo(ArrOf(IntRef)), PtrTo(PtrTo(IntRef)), PtrTo(S), PtrTo(F)>>
MCConverted == {IntRef}

Node(class, name, parts, type) == [class |-> class, name |-> name, parts |-> parts, type |-> type]
Op(class, parts) == Node(class, "", parts, <<>>)
Variable(name) == Node("variable", name, <<0>>, <<>>)
Literal == Op("literal", <<>>)

MCPrograms == {
    \* a[1][1], r[1][1], q[1][1], and *a[1]
    <<Variable("a"), Literal, Op("aref", <<1, 2>>), Literal, Op("aref", <<3, 4>>), Op("stmt", <<5>>)>>,
    <<Variable("r"), Literal, Op("aref", <<1, 2>>), Literal, Op("aref", <<3, 4>>), Op("stmt", <<5>>)>>,
    <<Variable("q"), Literal, Op("aref", <<1, 2>>), Literal, Op("aref", <<3, 4>>), Op("stmt", <<5>>)>>,
    <<Variable("a"), Literal, Op("aref", <<1, 2>>), Op("dereference", <<3>>), Op("stmt", <<4>>)>>,
    \* **r
    <<Variable("r"), Op("dereference", <<1>>), Op("dereference", <<2>>), Op("stmt", <<3>>)>>,
    \* s.m[1], u.m, s.n, p->m, t->m
    <<Variable("s"), Node("member", "m", <<1>>, <<>>), Literal, Op("aref", <<2, 3>>)>>,
    <<Variable("u"), Node("member", "m", <<1>>, <<>>), Op("sizeof", <<2>>)>>,
    <<Variable("s"), Node("member", "n", <<1>>, <<>>)>>,
    <<Variable("p"), Node("ptrmember", "m", <<1>>, <<>>)>>,
    <<Variable("t"), Node("ptrmember", "m", <<1>>, <<>>), Op("dereference", <<2>>)>>,
    \* f(1), *&i, i = -1, i ? i : 1, i + 1, and p + 1 with its type
    <<Variable("f"), Literal, Op("call", <<1, 2>>), Op("stmt", <<3>>)>>,
    <<Variable("f"), Op("dereference", <<1>>)>>,
    <<Variable("i"), Op("address", <<1>>), Op("dereference", <<2>>)>>,
    <<Variable("i"), Literal, Op("unary", <<2>>), Op("assign", <<1, 3>>)>>,
    <<Literal, Variable("i"), Literal, Op("conditional", <<1, 2, 3>>)>>,
    <<Variable("i"), Literal, Op("binary", <<1, 2>>), Op("unary", <<3>>)>>,
    <<Literal, Literal, Node("binary", "", <<1, 2>>, IntRef), Op("sizeof", <<3>>)>>}
=============================================================================
