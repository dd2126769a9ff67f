------------------------------- MODULE Loader -------------------------------
(***************************************************************************)
(* Loading of import files: parser/loader.cc and the productions of        *)
(* parser/parser.y that call it (import_stmts and the DECLARE start rules).*)
(*                                                                         *)
(* One frame stands for one activation of Parser::parse together with the  *)
(* Option, and so the Loader, made for it.  frames[1] parses the .cb file  *)
(* named on the command line; frames[i+1] parses the .hb file that an      *)
(* import statement of frames[i] is loading.  An import file is reduced to *)
(* where the load path finds it, its import statements in order, and what  *)
(* comes of parsing the definitions after them.                            *)
(***************************************************************************)
EXTENDS Declarations, SequencesExt

CONSTANTS
    Lib,          \* library ids an import statement can name
    Main,         \* the id given to the frame of a .cb file
    PathLen,      \* number of directories on the load path
    MaxFd,        \* how many source files the process can hold open
    FileSystems   \* the import trees under study

\* What the definitions after the imports come to: declarations only; nothing;
\* a variable or function with a body; an action or the scanner throwing; text
\* the grammar rejects; text that the scanner has no rule for.
Body == {"decls", "none", "defines", "throws", "syntax", "jams"}

\* What open() finds for a library in one directory of the load path.
Sight == {"absent", "denied", "here"}

File == [at : [1 .. PathLen -> Sight], imports : Seq(Lib), body : Body]

ASSUME LibAssumption == IsFiniteSet(Lib) /\ Main \notin Lib
ASSUME BoundAssumption == PathLen \in Nat \ {0} /\ MaxFd \in Nat \ {0}
ASSUME FileAssumption == FileSystems \subseteq [Lib -> File]

\* All that one load of a library declares counts as one entity; the number
\* tells the copies made by separate loads apart.
Entity == Lib \X Nat
MainEntity == {Main} \X Nat

VARIABLES
    files,    \* the import tree; it does not change while the program runs
    frames,   \* active parses, the innermost last
    ref,      \* Object::oref_ of every entity that is not deleted
    nfd,      \* source files open, the leaked ones included
    serial,   \* how many entities have been made
    exc,      \* the exception in flight, or "none"
    exited    \* the process has ended, by exit or by an exception that nobody catches

loaderVars == <<files, frames, ref, nfd, serial, exc, exited>>

Exceptions == {"none", "recursive", "nosuch", "errno", "throw"}

\* An activation: the file's import list and body, how many imports are done,
\* Loader::loading_ and loaded_ (cache[l] is the Declarations of l, {} when l is
\* not in loaded_), the Declarations of import_stmts, and Option::typename_.
Frame == [lib : Lib \cup {Main}, imports : Seq(Lib), body : Body, pos : Nat,
          loading : Seq(Lib), loaded : SUBSET Lib,
          cache : [Lib -> SUBSET Entity], imp : SUBSET Entity,
          typename : SUBSET Lib]

NewFrame(l, imports, body) ==
    [lib |-> l, imports |-> imports, body |-> body, pos |-> 0,
     loading |-> <<>>, loaded |-> {}, cache |-> [k \in Lib |-> {}],
     imp |-> {}, typename |-> {}]

LoaderInit ==
    /\ files \in FileSystems
    /\ frames = <<>>
    /\ ref = <<>>
    /\ nfd = 0
    /\ serial = 0
    /\ exc = "none"
    /\ exited = FALSE
-----------------------------------------------------------------------------
Top == frames[Len(frames)]
Running == frames # <<>> /\ exc = "none" /\ ~exited
Nested == Len(frames) > 1

\* The parser has reduced an import_stmt and calls load_library on its library.
Importing == Running /\ Top.pos < Len(Top.imports)
Wanted == Top.imports[Top.pos + 1]

\* Every import is done and the rest of the file has been read.
AtEnd == Running /\ Top.pos = Len(Top.imports)

\* Neither start symbol derives an empty file, and COMPILE needs a definition.
Ungrammatical(f) ==
    \/ f.body = "syntax"
    \/ f.body = "none" /\ (f.imports = <<>> \/ f.lib = Main)

NamesOf(decls) == {e[1] : e \in decls}

\* search_library: open() is tried in each directory and the first answer other
\* than ENOENT settles it (a slip: any errno sends the search on).
FoundPastErrors(f) == \E i \in 1 .. PathLen : f.at[i] = "here"
Found(f) == \E i \in 1 .. PathLen :
    f.at[i] = "here" /\ \A j \in 1 .. i - 1 : f.at[j] = "absent"
NoSuch(f) == \A i \in 1 .. PathLen : f.at[i] = "absent"

\* import_stmts' action once load_library has returned decls: merge them, and
\* add_known_types makes their typedef names known to the scanner.
Merge(f, decls) ==
    [f EXCEPT !.pos = @ + 1, !.imp = @ \cup decls,
              !.typename = @ \cup NamesOf(decls)]

\* What top_defs makes of the definitions of f: an entity of its own, unless
\* there are none.
Own(f) == IF f.body = "none" THEN {} ELSE {<<f.lib, serial>>}

\* What the start rule returns of f (a slip: only what f itself declares).
DeclaredOwn(f) == Own(f)
Declared(f) == Own(f) \cup f.imp

\* The heap after a start rule has accepted f.  import_stmts alone are returned
\* as they are; otherwise the imports are added to top_defs and import_stmts is
\* dropped (a slip: it is dropped without being added).
AcceptWithoutAdd(f) ==
    IF f.body = "none" THEN ref
    ELSE Destroy(Create(ref, <<f.lib, serial>>), <<f.imp>>)
Accept(f) ==
    IF f.body = "none" THEN ref
    ELSE Destroy(Add(Create(ref, <<f.lib, serial>>), f.imp, Own(f)), <<f.imp>>)
-----------------------------------------------------------------------------
\* load_library finds the library in loading_ and throws.
RecursiveImport ==
    /\ Importing
    /\ Contains(Top.loading, Wanted)
    /\ exc' = "recursive"
    /\ UNCHANGED <<files, frames, ref, nfd, serial, exited>>

\* load_library pushes the library on loading_, finds it in loaded_ and returns
\* the cached Declarations, which import_stmts merges.  Nothing pops loading_.
\* (A slip: loading_ is popped on this path too, as on the other one.)
CachedWith(push) ==
    /\ Importing
    /\ ~Contains(Top.loading, Wanted)
    /\ Wanted \in Top.loaded
    /\ frames' = [frames EXCEPT ![Len(frames)] =
                    Merge([Top EXCEPT !.loading = @ \o push], Top.cache[Wanted])]
    /\ ref' = Add(ref, Top.cache[Wanted], Top.imp)
    /\ UNCHANGED <<files, nfd, serial, exc, exited>>
CachedImportPops == CachedWith(<<>>)
CachedImport == CachedWith(<<Wanted>>)

\* load_library on a library it has not loaded: it is pushed on loading_ and
\* search_library runs.
Searching == /\ Importing
             /\ ~Contains(Top.loading, Wanted)
             /\ Wanted \notin Top.loaded

WithWantedPushed ==
    [frames EXCEPT ![Len(frames)].loading = Append(@, Wanted)]

\* search_library opens the file and a nested Parser starts on it, with an
\* Option of its own and in it an empty Loader.
OpenLibrary ==
    /\ Searching
    /\ nfd < MaxFd
    /\ Found(files[Wanted])
    /\ nfd' = nfd + 1
    /\ frames' = Append(WithWantedPushed,
            NewFrame(Wanted, files[Wanted].imports, files[Wanted].body))
    /\ UNCHANGED <<files, ref, serial, exc, exited>>

\* search_library throws: open() fails with an errno other than ENOENT, which
\* it does for every path once the process is out of descriptors, or no
\* directory of the load path has the file.
SearchThrows ==
    /\ frames' = WithWantedPushed
    /\ exc' = IF nfd < MaxFd /\ NoSuch(files[Wanted]) THEN "nosuch" ELSE "errno"
    /\ UNCHANGED <<files, ref, nfd, serial, exited>>
NotOpened == Searching /\ (nfd = MaxFd \/ ~Found(files[Wanted]))

\* Slips: load_library returns nullptr, which import_stmts tests for; open() is
\* tried again for as long as there is no descriptor.
SearchFailsSilently ==
    /\ NotOpened
    /\ frames' = [frames EXCEPT ![Len(frames)].pos = @ + 1]
    /\ UNCHANGED <<files, ref, nfd, serial, exc, exited>>
SearchRetries ==
    /\ NotOpened
    /\ IF nfd = MaxFd THEN UNCHANGED loaderVars ELSE SearchThrows

SearchFails == NotOpened /\ SearchThrows

\* The nested parse accepts its file.  In source order: the start rule; then
\* load_library stores the result in loaded_, pops loading_ and closes the file;
\* leaving it destroys the nested Option, whose Loader drops its loaded_; and the
\* waiting import_stmts merges the result.  (A slip: the file stays open.)
ReturnWith(open) ==
    /\ AtEnd /\ Nested
    /\ Top.body \in {"decls", "none"} /\ ~Ungrammatical(Top)
    /\ LET decls  == Declared(Top)
           parent == frames[Len(frames) - 1]
       IN  /\ ref' = Add(Destroy(Accept(Top), Top.cache), decls, parent.imp)
           /\ frames' = [Front(frames) EXCEPT ![Len(frames) - 1] =
                Merge([parent EXCEPT !.loading = Front(@),
                                     !.loaded = @ \cup {Top.lib},
                                     !.cache[Top.lib] = decls], decls)]
    /\ serial' = IF Top.body = "none" THEN serial ELSE serial + 1
    /\ nfd' = open
    /\ UNCHANGED <<files, exc, exited>>
ReturnWithoutClose == ReturnWith(nfd)
ReturnDecls == ReturnWith(nfd - 1)

\* The nested parse returns non-zero: load_library ends the whole process.
LibSyntaxError ==
    /\ AtEnd /\ Nested /\ Ungrammatical(Top)
    /\ exited' = TRUE
    /\ nfd' = nfd - 1
    /\ UNCHANGED <<files, frames, ref, serial, exc>>

\* Inside a literal the scanner has no rule for what is left of the file, not even a
\* default one: "flex scanner jammed", and exit(2) from within yylex, in any file.
ScannerJams ==
    /\ AtEnd /\ Top.body = "jams"
    /\ exited' = TRUE
    /\ UNCHANGED <<files, frames, ref, nfd, serial, exc>>

\* An exception leaves a semantic action or the scanner while the definitions
\* are read.  Under DECLARE a definition with a body is refused only after the
\* imports have been added to top_defs, so their new references leak too.
BodyThrows ==
    /\ AtEnd
    /\ \/ Top.body = "throws" /\ UNCHANGED <<ref, serial>>
       \/ /\ Top.body = "defines" /\ Nested
          /\ ref' = Add(Create(ref, <<Top.lib, serial>>), Top.imp, {})
          /\ serial' = serial + 1
    /\ exc' = "throw"
    /\ UNCHANGED <<files, frames, nfd, exited>>

\* The exception leaves load_library: the nested Option, hence its Loader, is
\* destroyed; the open file, the scanner and the values on the parser's stack
\* are not.
Unwind ==
    /\ exc # "none" /\ Nested /\ ~exited
    /\ ref' = Destroy(ref, Top.cache)
    /\ frames' = Front(frames)
    /\ UNCHANGED <<files, nfd, serial, exc, exited>>

LoaderNext ==
    \/ RecursiveImport \/ CachedImport \/ OpenLibrary \/ SearchFails
    \/ ReturnDecls \/ LibSyntaxError \/ ScannerJams \/ BodyThrows \/ Unwind
=============================================================================
