----------------------------- MODULE ImportBatch -----------------------------
(***************************************************************************)
(* What a user of the compiler sees of a run over several files: each file *)
(* is answered in turn, in one step, from the import tree alone.           *)
(***************************************************************************)
EXTENDS Naturals, Sequences, FiniteSets

CONSTANTS Lib, PathLen, MaxFd

VARIABLES files, argv, dumpToken, results, exited

bvars == <<files, argv, dumpToken, results, exited>>

Closed(C) == \A l \in C : \A i \in DOMAIN files[l].imports :
                files[l].imports[i] \in C
Reach(x) ==
    {l \in Lib : \A C \in SUBSET Lib :
        Closed(C) /\ (\A i \in DOMAIN x.imports : x.imports[i] \in C) => l \in C}

\* No group of libraries in which each imports another of the group.
Acyclic(libs) ==
    \A C \in SUBSET libs : C # {} =>
        \E l \in C : \A i \in DOMAIN files[l].imports : files[l].imports[i] \notin C

\* The third import of one library by the same file is refused.
TwiceAtMost(imports) ==
    \A a, b, c \in DOMAIN imports :
        a < b /\ b < c => ~(imports[a] = imports[b] /\ imports[b] = imports[c])

OnPath(l) == \E i \in 1 .. PathLen :
    files[l].at[i] = "here" /\ \A j \in 1 .. i - 1 : files[l].at[j] = "absent"

Parses(l) == \/ files[l].body = "decls"
             \/ files[l].body = "none" /\ files[l].imports # <<>>
BadText(l) == \/ files[l].body \in {"syntax", "jams"}
              \/ files[l].body = "none" /\ files[l].imports = <<>>

\* Everything the program imports, directly or not, can be loaded.
Loadable(x) ==
    /\ Acyclic(Reach(x)) /\ TwiceAtMost(x.imports)
    /\ \A l \in Reach(x) : OnPath(l) /\ Parses(l) /\ TwiceAtMost(files[l].imports)

Compiles(x) == Loadable(x) /\ x.body \in {"decls", "defines"}

\* Descriptors are not a limit for a program that nothing failed before: main's
\* own and one per library on a chain of imports.
NothingFailed == \A i \in DOMAIN results : results[i].status \in {"ok", "dumped"}
Roomy == MaxFd > Cardinality(Lib)

BatchInit == results = <<>> /\ exited = FALSE

Pending == ~exited /\ Len(results) < Len(argv)
p == argv[Len(results) + 1]

Reply(status, libs) ==
    /\ results' = Append(results, [status |-> status, libs |-> libs])
    /\ UNCHANGED <<files, argv, dumpToken, exited>>

Accept == /\ Pending /\ ~dumpToken /\ p.opens /\ Compiles(p)
          /\ Reply("ok", {l \in Reach(p) : files[l].body = "decls"})

Tokens == /\ Pending /\ dumpToken /\ p.opens /\ p.scan = "ends"
          /\ Reply("dumped", {})

\* A program whose imports load is rejected for its own text only.
Reject == /\ Pending /\ ~dumpToken /\ p.opens
          /\ Loadable(p) /\ p.body \in {"syntax", "none"}
          /\ Reply("rejected", {})

\* A program that compiles is refused only for what an earlier failure leaked.
Throw == /\ Pending /\ ~dumpToken /\ p.opens
         /\ ~(Compiles(p) /\ NothingFailed /\ Roomy)
         /\ Reply("threw", {})

\* The process gives up on a file it cannot open, on a text that it cannot scan, and
\* on a program that reaches an import file with bad text.
GiveUp == /\ Pending
          /\ \/ ~p.opens
             \/ dumpToken /\ p.scan = "dies"
             \/ ~dumpToken /\ p.body = "jams" /\ Loadable(p)
             \/ ~dumpToken /\ \E l \in Reach(p) : OnPath(l) /\ BadText(l)
          /\ exited' = TRUE
          /\ UNCHANGED <<files, argv, dumpToken, results>>

BatchNext == Accept \/ Tokens \/ Reject \/ Throw \/ GiveUp

\* Every file is answered, unless the process gives up or one of which the tokens are
\* dumped has no last token.
Batch == BatchInit /\ [][BatchNext]_bvars /\ WF_bvars(BatchNext)
=============================================================================
