------------------------------ MODULE MCDriver ------------------------------
(***************************************************************************)
(* Instances of Driver for TLC, and the claim that it implements           *)
(* ImportBatch.                                                            *)
(***************************************************************************)
EXTENDS Driver

CONSTANTS a, b   \* model values: library ids

Batch == INSTANCE ImportBatch WITH
    Lib <- Lib, PathLen <- PathLen, MaxFd <- MaxFd,
    files <- files, argv <- argv, dumpToken <- dumpToken,
    results <- results, exited <- exited

\* Everything main shows of a run is what ImportBatch allows, one file at a
\* time: the nesting of parsers and Loaders, the caches, exceptions and the
\* descriptors leaked by them make no other difference to any answer, and every
\* file gets one unless the process exits or dumps a text without end.
ImplementsBatch == Batch!Batch

ListsUpTo(n) == BoundedSeq(Lib, n)
Here == [i \in 1 .. PathLen |-> "here"]

LibFile(imports, body) == [at |-> Here, imports |-> imports, body |-> body]
CbFile(imports, body) ==
    [opens |-> TRUE, imports |-> imports, body |-> body,
     scan |-> IF body = "jams" THEN "dies" ELSE "ends"]

\* Every import graph over Lib with lists of at most three imports: repeated
\* imports, diamonds, self imports and cycles among them.
GraphFileSystems == [Lib -> {LibFile(s, "decls") : s \in ListsUpTo(3)}]
GraphCommandLines == {<<CbFile(s, "decls")>> : s \in ListsUpTo(3)}

\* Every kind of import file, in the second directory of the path, and files
\* that cannot be read or are missing; two programs in a row, so that what the
\* first leaves behind meets the second.
FaultFiles ==
    {[at |-> <<"absent", "here">>, imports |-> s, body |-> body] :
        s \in ListsUpTo(1), body \in Body}
    \cup {[at |-> s, imports |-> <<>>, body |-> "decls"] :
        s \in {<<"here", "denied">>, <<"denied", "here">>, <<"absent", "absent">>}}
FaultFileSystems == [Lib -> FaultFiles]
FaultPrograms ==
    {CbFile(s, body) : s \in ListsUpTo(1), body \in Body}
    \cup {[CbFile(<<>>, "syntax") EXCEPT !.scan = "endless"],
          [CbFile(<<>>, "throws") EXCEPT !.scan = "dies"],
          [CbFile(<<>>, "decls") EXCEPT !.opens = FALSE],
          CbFile(<<a, b>>, "decls"), CbFile(<<a, a, a>>, "decls")}
FaultCommandLines ==
    {<<x, y>> : x \in FaultPrograms,
                y \in {CbFile(<<a, b>>, "decls"), CbFile(<<b>>, "syntax")}}
=============================================================================
