---------------------------- MODULE Declarations ----------------------------
(***************************************************************************)
(* Reference counting of the entities that Declarations objects hold       *)
(* (ast/decl.cc on top of include/object.h).                               *)
(*                                                                         *)
(* A heap is a function ref whose domain is the set of entities not yet    *)
(* deleted and whose value is oref_.  A Declarations object is the set of  *)
(* entities in its eight pointer sets: which of the eight an entity sits   *)
(* in makes no difference to the counting, so they are one set here.       *)
(***************************************************************************)
EXTENDS Naturals, FiniteSets

\* Object::Object: a new entity starts with one reference, its creator's.
Create(ref, e) == [x \in DOMAIN ref \cup {e} |-> IF x = e THEN 1 ELSE ref[x]]

\* Slips Add could have: no inc_ref at all, and no look at what into holds already.
AddWithoutRef(ref, from, into) == ref
AddTwice(ref, from, into) ==
    [e \in DOMAIN ref |-> IF e \in from THEN ref[e] + 1 ELSE ref[e]]

\* Declarations::add(decls): into gains every entity of from and takes a
\* reference on those it did not hold.  A deleted entity cannot be revived.
Add(ref, from, into) ==
    [e \in DOMAIN ref |-> IF e \in from \ into THEN ref[e] + 1 ELSE ref[e]]

\* How many of the Declarations objects decls[k] hold e.
Held(e, decls) == Cardinality({k \in DOMAIN decls : e \in decls[k]})

\* dec_ref without the delete when the count reaches zero.
DestroyWithoutDelete(ref, decls) ==
    [e \in DOMAIN ref |-> ref[e] - Held(e, decls)]

\* ~Declarations for every decls[k]: each gives back one reference per entity,
\* and Object::dec_ref deletes the entity whose last reference goes.
Destroy(ref, decls) ==
    [e \in {x \in DOMAIN ref : ref[x] > Held(x, decls)} |->
        ref[e] - Held(e, decls)]
=============================================================================
