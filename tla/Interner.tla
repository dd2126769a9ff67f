------------------------------ MODULE Interner ------------------------------
(***************************************************************************)
(* What a table of types promises: references that mean the same share one *)
(* type, for as long as the table is there, and a type is never known      *)
(* without the types it is made of, whatever becomes of the call that      *)
(* asked for it.                                                           *)
(***************************************************************************)
CONSTANTS Builtin,          \* the references known from the beginning
          Parts(_),         \* the references a reference is made of
          Same(_, _)        \* two references mean the same

VARIABLE types              \* the known types: <<reference, type>> pairs

OneTypeEach ==
    \A a, b \in types : (Same(a[1], b[1]) <=> a = b) /\ (a[2] = b[2] <=> a = b)

PartsKnown ==
    \A a \in types : \A r \in Parts(a[1]) : \E b \in types : Same(b[1], r)

Init == {a[1] : a \in types} = Builtin /\ OneTypeEach

\* Types are added, never dropped or exchanged.
Next == types \subseteq types' /\ OneTypeEach' /\ PartsKnown'

Spec == Init /\ [][Next]_types
=============================================================================
