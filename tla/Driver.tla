------------------------------- MODULE Driver -------------------------------
(***************************************************************************)
(* The main loop of may.cc over the files of the command line, composed    *)
(* with the Loader it drives through the parser's COMPILE start rules.     *)
(***************************************************************************)
EXTENDS Loader

CONSTANT CommandLines   \* the command lines under study

\* What comes of asking the scanner for the tokens of a file until it returns 0: it
\* does; the file ends in an open literal, and it returns ERROR for ever; it jams or
\* throws, and main, which catches nothing here, ends.
Scan == {"ends", "endless", "dies"}

\* A .cb file of the command line: whether open() succeeds on it, its imports,
\* what comes of the definitions after them, and of a dump of its tokens.  (Files on
\* which the parse itself is undefined are AstBuilder's subject, and so is --dump-ast.)
Program == [opens : BOOLEAN, imports : Seq(Lib), body : Body, scan : Scan]

ASSUME CommandLineAssumption == CommandLines \subseteq Seq(Program)

VARIABLES
    argv,       \* the files named on the command line
    dumpToken,  \* --dump-tokens was given
    results     \* what became of each file the loop is done with, in order

vars == <<loaderVars, argv, dumpToken, results>>

\* "ok": the AST was built, with the declarations of libs among its own;
\* "rejected": the parser reported a syntax error; "threw": an exception was
\* swallowed; "dumped": only the tokens were printed.
Result == [status : {"ok", "rejected", "threw", "dumped"}, libs : SUBSET Lib]

Init ==
    /\ LoaderInit
    /\ argv \in CommandLines
    /\ dumpToken \in BOOLEAN
    /\ results = <<>>

\* argv[optind]; the loop ends when there is none.
Current == argv[Len(results) + 1]
Idle == frames = <<>> /\ ~exited
MoreFiles == Idle /\ Len(results) < Len(argv)
Finished == exited \/ (Idle /\ Len(results) = Len(argv))

Record(status, libs) ==
    results' = Append(results, [status |-> status, libs |-> libs])
-----------------------------------------------------------------------------
\* The loop opens the next file and starts Parser::parse on it.
OpenFile ==
    /\ MoreFiles /\ ~dumpToken
    /\ Current.opens /\ nfd < MaxFd
    /\ frames' = <<NewFrame(Main, Current.imports, Current.body)>>
    /\ nfd' = nfd + 1
    /\ UNCHANGED <<files, ref, serial, exc, exited, argv, dumpToken, results>>

\* open() fails and main exits, whatever files are still to come.
CannotOpen ==
    /\ MoreFiles
    /\ ~Current.opens \/ nfd = MaxFd
    /\ exited' = TRUE
    /\ UNCHANGED <<files, frames, ref, nfd, serial, exc, argv, dumpToken, results>>

\* --dump-tokens: the file is opened, scanned and closed.  Import statements are
\* tokens like any other.
Dumping(scan) ==
    /\ MoreFiles /\ dumpToken
    /\ Current.opens /\ nfd < MaxFd
    /\ Current.scan = scan

DumpTokens ==
    /\ Dumping("ends")
    /\ Record("dumped", {})
    /\ UNCHANGED <<loaderVars, argv, dumpToken>>

\* The process ends in the middle of a dump, which is outside of the try block.
DumpDies ==
    /\ Dumping("dies")
    /\ exited' = TRUE
    /\ UNCHANGED <<files, frames, ref, nfd, serial, exc, argv, dumpToken, results>>

\* The dump loop prints the ERROR it got and asks again, for the same answer.
DumpGoesOn == Dumping("endless") /\ UNCHANGED vars

\* Parser::parse returns 0.  The start rule has added the imports to top_defs and
\* dropped import_stmts; main dumps the AST and drops it, which destroys top_defs;
\* then the file is closed and the Option destroyed with its Loader.
FinishCompile ==
    /\ AtEnd /\ ~Nested
    /\ Top.body \in {"decls", "defines"}
    /\ ref' = Destroy(Destroy(Accept(Top), <<Declared(Top)>>), Top.cache)
    /\ Record("ok", NamesOf(Top.imp))
    /\ serial' = serial + 1
    /\ frames' = <<>>
    /\ nfd' = nfd - 1
    /\ UNCHANGED <<files, exc, exited, argv, dumpToken>>

\* Parser::parse returns non-zero.  Nothing frees what import_stmts was holding.
MainSyntaxError ==
    /\ AtEnd /\ ~Nested /\ Ungrammatical(Top)
    /\ ref' = Destroy(ref, Top.cache)
    /\ Record("rejected", {})
    /\ frames' = <<>>
    /\ nfd' = nfd - 1
    /\ UNCHANGED <<files, serial, exc, exited, argv, dumpToken>>

\* catch (...): the exception is dropped without a word and the loop goes on.
\* (A slip: the code after the catch is skipped too.)
CatchWith(open) ==
    /\ exc # "none" /\ Len(frames) = 1 /\ ~exited
    /\ ref' = Destroy(ref, Top.cache)
    /\ exc' = "none"
    /\ Record("threw", {})
    /\ frames' = <<>>
    /\ nfd' = open
    /\ UNCHANGED <<files, serial, exited, argv, dumpToken>>
CatchWithoutClose == CatchWith(nfd)
CatchAll == CatchWith(nfd - 1)

\* The process has ended.
Terminated == Finished /\ UNCHANGED vars

LoaderStep == LoaderNext /\ UNCHANGED <<argv, dumpToken, results>>

Next ==
    \/ LoaderStep
    \/ OpenFile \/ CannotOpen
    \/ DumpTokens \/ DumpDies \/ DumpGoesOn
    \/ FinishCompile \/ MainSyntaxError \/ CatchAll
    \/ Terminated

\* One thread runs the program, and nothing it waits for can fail to come.
Spec == Init /\ [][Next]_vars /\ WF_vars(Next)
-----------------------------------------------------------------------------
TypeOK ==
    /\ files \in FileSystems
    /\ frames \in Seq(Frame)
    /\ DOMAIN ref \subseteq Entity \cup MainEntity
    /\ ref \in [DOMAIN ref -> Nat \ {0}]
    /\ nfd \in 0 .. MaxFd
    /\ serial \in Nat
    /\ exc \in Exceptions
    /\ exited \in BOOLEAN
    /\ argv \in CommandLines
    /\ dumpToken \in BOOLEAN
    /\ results \in Seq(Result)
-----------------------------------------------------------------------------
(* Descriptors: open() in main and in search_library against the fclose and  *)
(* close of the paths that return, and the paths that do not.                *)

\* Every active parse has its own descriptor, so unwinding and closing never
\* take one that is not there, and when main reaches its open() again there is
\* a free one, however many descriptors earlier exceptions leaked: the process
\* never gives up on a readable file (exit(1) in main) for want of descriptors.
NextFileOpens ==
    /\ ~exited => nfd >= Len(frames)
    /\ Idle => nfd < MaxFd

\* As long as no file has ended in an exception, exactly the descriptors of the
\* active parses are open: both load_library and main close what they opened.
Clean == exc = "none" /\ \A i \in DOMAIN results : results[i].status # "threw"
NoDescriptorLeak == Clean /\ ~exited => nfd = Len(frames)
-----------------------------------------------------------------------------
(* Entities: Declarations::add and ~Declarations, across nested Loaders.     *)

\* The Declarations objects of all active parses: import_stmts' own at l = Main,
\* and the cached one of each loaded library.
Holders(e) ==
    {h \in (DOMAIN frames) \X (Lib \cup {Main}) :
        e \in IF h[2] = Main THEN frames[h[1]].imp ELSE frames[h[1]].cache[h[2]]}

\* No Declarations object of an active parse points to a deleted entity: each
\* entity it holds is alive with at least one reference per holder, also after
\* the nested Loader that first loaded it has been destroyed.
HeldEntitiesAlive ==
    \A i \in DOMAIN frames :
        \A e \in frames[i].imp \cup UNION {frames[i].cache[l] : l \in Lib} :
            e \in DOMAIN ref /\ ref[e] >= Cardinality(Holders(e))

\* While nothing has been rejected or thrown, the count of every entity is
\* exactly the number of its holders, so that nothing is left once main is done
\* with a file.
RefExact ==
    Clean /\ (\A i \in DOMAIN results : results[i].status # "rejected") =>
        \A e \in DOMAIN ref : ref[e] = Cardinality(Holders(e))
-----------------------------------------------------------------------------
(* What an import brings in.                                                 *)

Closed(fs, C) == \A l \in C : \A i \in DOMAIN fs[l].imports :
                    fs[l].imports[i] \in C

\* The libraries that importing every library of roots reaches in the import
\* tree fs: the least closed set that contains them.
Closure(fs, roots) ==
    {l \in Lib : \A C \in SUBSET Lib : Closed(fs, C) /\ roots \subseteq C => l \in C}

\* An import file with import statements only declares nothing of its own.
Declaring(fs, libs) == {l \in libs : fs[l].body = "decls"}

Done(f) == {f.imports[i] : i \in 1 .. f.pos}

\* What import_stmts has gathered, and the names the scanner returns as TYPENAME
\* from then on (add_known_types), is what the libraries imported so far declare,
\* each of them and all they import: the cache, the merge and the nesting of
\* Loaders lose nothing and add nothing.
ImportClosure ==
    \A i \in DOMAIN frames :
        LET declared == Declaring(files, Closure(files, Done(frames[i])))
        IN  NamesOf(frames[i].imp) = declared /\ frames[i].typename = declared

\* A library whose imports lead back to it is never returned to anyone: no
\* activation ever holds declarations of a library on an import cycle.
Cyclic(fs, l) == l \in Closure(fs, ToSet(fs[l].imports))
NoDeclsFromCycle ==
    \A i \in DOMAIN frames : \A l \in frames[i].loaded : ~Cyclic(files, l)
-----------------------------------------------------------------------------
(* Action and liveness properties.                                           *)

\* loading_ of a Loader holds what it is loading now and the libraries it has
\* answered from its cache, nothing else: an import is refused as recursive
\* exactly when the same file has imported that library twice before.
EarlierImports(f, l) == Cardinality({k \in 1 .. f.pos : f.imports[k] = l})
RecursionIsThirdImport ==
    [][Importing =>
        (exc' = "recursive" <=> EarlierImports(Top, Wanted) >= 2)]_vars

\* The program terminates on every import tree, cyclic ones included: it answers
\* every file or exits.  The one exception is a dump that comes to a file which ends in
\* an open literal (may.cc:48).
Terminates == <>(Finished \/ Dumping("endless"))
-----------------------------------------------------------------------------
(* What the comments in the source say, which the code does not do.          *)

\* loader.cc:47 "stop recursive import": the library being loaded is not entered
\* again by the files it imports.
NoReentrantLoad ==
    \A i, j \in DOMAIN frames : i # j => frames[i].lib # frames[j].lib

\* loader.cc:44 "recursive import from": the import refused as recursive is of a
\* library that leads back to itself.
NoFalseRecursion ==
    [][exc = "none" /\ exc' = "recursive" => Cyclic(files, Wanted)]_vars
=============================================================================
