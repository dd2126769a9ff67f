------------------------------- MODULE Types -------------------------------
(***************************************************************************)
(* Type references, the types made from them, and the relations between    *)
(* types: include/type.h and ast/type.cc.                                  *)
(*                                                                         *)
(* A type reference is what a source text says: <<"int">> and the like,    *)
(* <<"ptr", base>>, <<"arr", base, length>> with length -1 for none,       *)
(* <<"fun", result, parameters, varargs>>, <<"struct", name>> and          *)
(* <<"user", name>>.                                                       *)
(*                                                                         *)
(* A type is an object on a heap, h[i].  Its parts are the objects its     *)
(* destructor releases; those of a function are the result and a list of   *)
(* parameters, an object too.  A struct has one member, like a typedef's   *)
(* name its real type: no part before semantic analysis has resolved it.   *)
(***************************************************************************)
EXTENDS Integers, SequencesExt

CONSTANTS Sizes,        \* the sizes of the integer types, by name
          PointerSize

ASSUME SizeAssumption == PointerSize \in Nat /\ Sizes \in [DOMAIN Sizes -> Nat]

IntegerNames == DOMAIN Sizes
BuiltinRefs == {<<"void">>} \cup {<<n>> : n \in IntegerNames}

\* The references that a reference is built from.
Components(r) == CASE r[1] \in {"ptr", "arr"} -> {r[2]}
                   [] r[1] = "fun" -> {r[2]} \cup Range(r[3])
                   [] OTHER -> {}
-----------------------------------------------------------------------------
\* What the hash table of the type table tells apart: the strings of two references,
\* in which varargs do not appear, and their equals methods, of which the one of an
\* array looks at the length only.
RECURSIVE Spelling(_)
Spelling(r) == CASE r[1] = "ptr" -> <<"ptr", Spelling(r[2])>>
                 [] r[1] = "arr" -> <<"arr", Spelling(r[2]), r[3]>>
                 [] r[1] = "fun" -> <<"fun", Spelling(r[2]), [i \in DOMAIN r[3] |-> Spelling(r[3][i])]>>
                 [] OTHER -> r

RECURSIVE RefEquals(_, _)
ParamRefsEqual(r, s) ==
    /\ r[4] = s[4] /\ Len(r[3]) = Len(s[3])
    /\ \A i \in DOMAIN r[3] : RefEquals(s[3][i], r[3][i])
RefEquals(r, s) ==
    /\ r[1] = s[1]
    /\ CASE r[1] = "ptr" -> RefEquals(r[2], s[2])
         [] r[1] = "arr" -> r[3] = s[3]
         [] r[1] = "fun" -> RefEquals(s[2], r[2]) /\ ParamRefsEqual(r, s)
         [] OTHER -> r = s

\* (A slip: the hash is left out, as if equals were enough.)
SameEntryByEquals(r, s) == RefEquals(r, s)
SameEntry(r, s) == Spelling(r) = Spelling(s) /\ RefEquals(r, s)
-----------------------------------------------------------------------------
\* A typedef's name leads to a type at last, and everything on the way is resolved.
RECURSIVE Complete(_, _)
Complete(h, i) ==
    CASE h[i].class = "user" -> h[i].parts # <<>> /\ Complete(h, h[i].parts[1])
      [] h[i].class \in {"ptr", "arr"} -> Complete(h, h[i].parts[1])
      [] OTHER -> TRUE

RECURSIVE Real(_, _)
Real(h, i) == IF h[i].class = "user" THEN Real(h, h[i].parts[1]) ELSE i

\* The is_... methods of UserType ask its real type, and so does base_type.
Class(h, i) == h[Real(h, i)].class
Base(h, i) == h[Real(h, i)].parts[1]
IsArray(h, i) == Class(h, i) = "arr"

\* What the relations answer: yes, no, or an exception.
Answer(b) == IF b THEN "yes" ELSE "no"

\* is_same_type, class by class.  Integers and structs are compared by identity; a name
\* for an integer passes is_integer but not the cast in get_integer_type, which is not
\* virtual.  (A slip: a function is the same as itself.)
RECURSIVE IsSameType(_, _, _)
SameInteger(h, i, j) ==
    IF Class(h, j) = "int" /\ h[j].class = "user" THEN "throws" ELSE Answer(i = j)
SamePointer(h, i, j) ==
    IF Class(h, j) = "ptr" THEN IsSameType(h, Base(h, i), Base(h, j)) ELSE "no"
SameArray(h, i, j) ==
    IF Class(h, j) \in {"ptr", "arr"} THEN IsSameType(h, Base(h, i), Base(h, j)) ELSE "no"
SameStruct(h, i, j) == Answer(i = j)
SameFunctionReflexive(h, i, j) == Answer(i = j)
SameFunction(h, i, j) == "no"

IsSameType(h, i, j) ==
    CASE h[i].class = "user"   -> IsSameType(h, Real(h, i), j)
      [] h[i].class = "void"   -> Answer(Class(h, j) = "void")
      [] h[i].class = "int"    -> SameInteger(h, i, j)
      [] h[i].class = "ptr"    -> SamePointer(h, i, j)
      [] h[i].class = "arr"    -> SameArray(h, i, j)
      [] h[i].class = "struct" -> SameStruct(h, i, j)
      [] h[i].class = "fun"    -> SameFunction(h, i, j)

\* CompositeType::compare_member_types: the number of members is compared with a size
\* that nobody computes.
CompareMembers(h, i, j) == IF Class(h, j) # "struct" THEN "no" ELSE "throws"

\* is_compatible.  Arrays and functions inherit Type's answer.
RECURSIVE IsCompatible(_, _, _)
CompatibleInteger(h, i, j) ==
    Answer(Class(h, j) = "int" /\ h[i].size <= h[Real(h, j)].size)
CompatiblePointer(h, i, j) ==
    IF Class(h, j) # "ptr" THEN "no"
    ELSE IF "void" \in {Class(h, Base(h, i)), Class(h, Base(h, j))} THEN "yes"
    ELSE IsCompatible(h, Base(h, i), Base(h, j))

IsCompatible(h, i, j) ==
    CASE h[i].class = "user"   -> IsCompatible(h, Real(h, i), j)
      [] h[i].class = "void"   -> Answer(Class(h, j) = "void")
      [] h[i].class = "int"    -> CompatibleInteger(h, i, j)
      [] h[i].class = "ptr"    -> CompatiblePointer(h, i, j)
      [] h[i].class = "struct" -> CompareMembers(h, i, j)
      [] OTHER -> "no"

\* is_castable_to.  UserType has a method of a similar name instead.  (A slip: UserType
\* has this one.)
IsCastableOf(h, i, j) ==
    CASE h[i].class = "void" -> Answer(Class(h, j) = "void")
      [] h[i].class \in {"int", "ptr"} -> Answer(Class(h, j) \in {"int", "ptr"})
      [] h[i].class = "struct" -> CompareMembers(h, i, j)
      [] OTHER -> "no"
IsCastableByName(h, i, j) == IsCastableOf(h, Real(h, i), j)
IsCastableTo(h, i, j) == IsCastableOf(h, i, j)

\* is_allocated_array and is_incomplete_array; UserType hands on the first only.  (A
\* slip: the length of the base is not looked at.)
IsAllocatedOuter(h, i) == IsArray(h, i) /\ h[Real(h, i)].ref[3] # -1
RECURSIVE IsAllocated(_, _)
IsAllocated(h, i) ==
    /\ IsArray(h, i)
    /\ h[Real(h, i)].ref[3] # -1
    /\ IsArray(h, Base(h, i)) => IsAllocated(h, Base(h, i))
IsIncomplete(h, i) ==
    /\ h[i].class = "arr"
    /\ IsArray(h, Base(h, i)) /\ ~IsAllocated(h, Base(h, i))
=============================================================================
