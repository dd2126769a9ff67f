---------------------------- MODULE MCTypeTable ----------------------------
(***************************************************************************)
(* An instance of TypeTable for TLC.                                       *)
(***************************************************************************)
EXTENDS TypeTable

PtrTo(r) == <<"ptr", r>>
ArrOf(r, n) == <<"arr", r, n>>
Fun(r, params, varargs) == <<"fun", r, params, varargs>>

IntRef == <<"int">>
StructRef == <<"struct", "s">>
UserRef == <<"user", "u">>

\* TypeTable::lp64, without the types that differ from these by size and name only.
LP64 == [short |-> 2, int |-> 4, long |-> 8]

MCNames == {StructRef, UserRef}
MCAsked == {PtrTo(IntRef), ArrOf(IntRef, 3), ArrOf(ArrOf(ArrOf(IntRef, -1), 3), 3), PtrTo(UserRef),
            ArrOf(IntRef, -1), ArrOf(UserRef, 3),
            Fun(UserRef, <<ArrOf(IntRef, 3)>>, FALSE),
            ArrOf(PtrTo(Fun(IntRef, <<>>, FALSE)), 3), ArrOf(PtrTo(Fun(IntRef, <<>>, TRUE)), 3)}
=============================================================================
