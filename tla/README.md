# Mayonnaise in TLA+

Mayonnaise is the front end of a compiler for Cb, a small C. `may.cc` parses the files of its
command line one after the other with a bison parser (`parser/parser.y`) and a flex scanner
(`parser/lexer.l`), builds a syntax tree of hand-counted objects, loads the import files (`.hb`)
the sources name, dumps the tree when asked to, and drops it. No semantic pass exists yet: the
type table and the types are written but nothing calls them.

This directory models the places where the program is hard to get right:

* **imports**: parsers nested in parsers through import statements, with a cache and a list of
  loads in progress per file, exceptions that cross several of them and are swallowed at the top,
  descriptors they leave open, and declarations shared between files;
* **ownership of the tree**: some two hundred constructors, destructors and semantic actions that
  count references by hand, over a value stack of raw pointers;
* **the scanner**: where rules with start conditions and longest matches divide a text, what the
  literals in it come to, and when its end is taken for the end;
* **what a semantic pass will build on**: the type table with its rules of who owns a type, the
  relations between types, and the setters and queries of expression nodes.

All are modelled and model-checked; about imports, the ownership of the tree, the scanner and the
setters and queries of nodes there are proofs.

## Inventory

| component | state | operations | talks to |
|---|---|---|---|
| driver, `may.cc` | position in `argv`, options, the open descriptor | open, dump tokens, parse, dump and drop the AST, catch, exit | parser; Loader through the Option in the scanner's extra pointer |
| import loader, `loader.cc` | `loading_`, `loaded_`, load path; one per `Option`, so one per file being parsed | `load_library`, `search_library`, destructor | called by `import_stmt`; runs a nested parser |
| declaration sets, `decl.cc` | eight pointer sets, counts of what is in them | `add`, `add_...`, destructor | parser, Loader cache, AST |
| grammar, `parser.y` | LR stack, value stack, `Option` fields | about 200 productions and their actions | makes nodes, calls Loader and `add_known_types` |
| tree nodes, `node.cc`, `ast.cc`, `entity.cc` | pointer members, `oref_` | constructors, destructors, dump | each other, through `inc_ref` and `dec_ref` |
| type references and types, `type.cc` | as nodes; a type its parts | as nodes; `equals`, `to_string`; `is_same_type`, `is_compatible`, `is_castable_to`, arrays' lengths | type table, nodes |
| type table, `compiler/type_table.cc` | `table_` from references to types | `get`, `put`, `get_param_type`, `pointer_to`, built-in types, `semantic_check`, destructor | types; no caller yet |
| scanner, `lexer.l` | start condition, position, `typename_` | rules, longest match | asked by the dump loop and the parser; reads the names the parser inserts |
| literals, in `lexer.l` and `parser.y` | none | `integer_value`, `string_value`, `character_code`, `integer_node` | scanner, parser |
| dumper, `util` | indentation | `print_...` | nodes |

The program has one thread. What is hard in it is not interleaving but *nesting and order*: a
parse suspended in the middle of a semantic action while another one runs, an exception through
several of them, objects that outlive their maker by a count, and state that one file leaves to
the next. The hazards are listed at their lines in `PROJECT.json`.

What makes each component correct:

* driver: every file gets its answer whatever happened to the files before; a descriptor is free
  whenever it opens one; it terminates;
* loader: an import brings in what the file declares and all it imports, once; a recursive import
  is refused, nothing else is;
* declaration sets and nodes: the count of an object is the number of its holders; nothing that
  will be used or given back is deleted before; all is deleted in the end;
* grammar: every value on the stack has one owner; every accepted text leaves no object behind;
* scanner: it divides a text into code, comments and literals as C does, gives each token its place,
  a name its kind from the first token after its typedef, and comes to an end;
* literals: the value that C gives them, in every base, and escapes read once;
* type table: references that say the same share one type for the table's lifetime, whatever calls
  fail in between; every type is deleted once;
* types: the relations agree with C, whatever names typedefs give;
* setters and queries of nodes: what a pass replaces is released, what it hands over is counted, and
  the type of a place is the declared one.

## Modules

```
Declarations <- Loader <- Driver <- MCDriver (ImportGraphs, Faults, FalseRecursion, Reentrant)
                            ^  \         \-- INSTANCE ImportBatch (refinement)
                            |   DriverProofs <- HeapProofs, BatchProofs
AstNodes <- Grammar <- AstBuilder <- MCAst (Ownership, ForBody)
               ^           \-- OwnershipProofs, with GrammarProofs and InductionLemmas
               \-- GrammarProofs
Literals <- Scanner <- MCScanner (Scan, DumpQuits, HexLiteral, OctalEscape)
                  \-- ScannerProofs, with InductionLemmas
Types <- TypeTable <- MCTypeTable (Table)
             \-- INSTANCE Interner (refinement)
Expressions <- MCExpressions (Expressions)
          \-- ExpressionProofs, with InductionLemmas
```

**`Declarations`** is reference counting of the entities in the declaration sets: `Create`, `Add`
(`Declarations::add`), `Destroy` (`~Declarations`). The eight sets are one, and all that one load
of a library declares is one entity, `<<library, serial>>`: the code treats the members alike, so
neither loses a distinction the counts make.

**`Loader`** is `load_library`, `search_library` and the `DECLARE` productions. A *frame* is one
activation of `Parser::parse` with its `Option` and Loader; `frames` is the C++ call stack. The
steps are those between which something else can run or fail: the recursion check
(`RecursiveImport`), the cached answer (`CachedImport`), opening the file and starting a parser
(`OpenLibrary`), failing to (`SearchFails`), the nested parse ending well (`ReturnDecls`), with a
syntax error (`LibSyntaxError`), with an exception (`BodyThrows`) or with the scanner's `exit(2)` in a
literal it has no rule for (`ScannerJams`, in any file), and the exception leaving one level (`Unwind`). A file is reduced to where the load path finds it, its imports in order and what
comes of the rest (`Body`).

**`Driver`** is the loop of `main` over it: `OpenFile`, `CannotOpen`, `FinishCompile`,
`MainSyntaxError`, `CatchAll`, and what becomes of a dump of tokens: it comes to an end
(`DumpTokens`), the process ends in the middle of it (`DumpDies`), or it prints `ERROR` for ever
(`DumpGoesOn`). Which it is depends on the text; that is `Scanner`'s subject, and here a part of the
file (`Scan`). `nfd` counts descriptors with the leaked ones. Files on which the parse itself is
undefined, and `--dump-ast`, are `AstBuilder`'s.

**`ImportBatch`** is what a user sees of it: each file answered in one step from the import tree
and what is in the files alone, unless one ends the process or is dumped for ever. It knows nothing of nesting, caches or `loading_`; the third import of one library by one
file, which is refused, is part of what it promises because a user sees it.

**`AstNodes`** holds one row per node class: what its constructor does with each pointer argument
(count it, take it over, or only look), what the destructor gives back, what a dump reads; and
`New`, `Grow`, `DecRef` on a heap of objects. Classes that treat their members alike are merged, as
its comments say.

**`Grammar`** holds one row per production: the nodes the action makes and from what, what becomes
`$$`, which objects it drops and in which order. `Symbols` are the symbols of their sides.

**`AstBuilder`** runs the rows: `Expect(p)` lets the text go on as production `p`, `Reduce` runs the
action of the production that is complete, on the value stack, in the order an LR parser reduces.
`DropNext` is one `dec_ref`; a destructor's own `dec_ref` calls are the steps after it, so the
invariants are checked between any two of them. `Reject` may strike before any reduction: the
value stack is forgotten and its objects stay. `Finish`, `Dump`, `DumpNext`, `DropResult` are
what `main` (or `~Loader`) does with the result. Using a null or deleted object leads to
`"undefined"`.

**`Literals`** is the functions on the text of literals, over sequences of characters:
`IntegerValue`, `Unescape`, `StringValue`, `CharacterCode`, `IntegerNode`. The conversions they call
are modelled by what they do: `strtol` and `stol` read the digits of their base and stop, `stol`
throws beyond `LongMax`.

**`Scanner`** is `lexer.l` on one text. `Accepts` has the pattern of each rule, `Rules` the rules of
each start condition in order; `Match` applies the one flex would, moves the position as
flex and `YY_USER_ACTION` do and returns the token of the action. flex counts the newlines of a lexeme
and sets the column to 0 at each before `YY_USER_ACTION` reads them (`ColumnBefore`), which then
counts on itself as far as the first NUL byte (`ColumnAfter`): wherever the code reads a lexeme as a
string of C, it sees no more than that (`CString`). `Jam` is the end of the process where no
rule matches (`%option nodefault`), `Overflow` the exception of a literal whose text begins with a NUL
byte (`strlen(yytext) - 1`), `EndOfText` and `Unterminated` are the `<<EOF>>` rules.
`StartToken` is the pseudo token of `yylex` in `parser.y`, `DefTypedef` the reduction that inserts a
name before the next token is read, `Reject` a parse that stops. `EarlyEnd` is a character that is
taken for the end: the dump loop asks until it gets kind 0, that of a NUL byte, and bison takes every
kind below 1 for the end, so a byte above 127 too. Keywords are plain tokens; the parser is reduced to
what feeds back to the scanner.

**`Types`** is the relations between types and the comparisons of references that the table's hash
and equality are made of. A reference is a tuple (`<<"arr", base, length>>`). **`TypeTable`** is the class of that name: pairs of
references and types, a heap of types with counts, and each method as an action
(`AskType`, `AskParamType`, `AskBuiltin`, `AskPtrDiffType`, `AskPointerTo`, `Define`,
`SemanticCheck`, `Close`). The recursion of `get` into the parts of a type, the order in which the
compiler evaluates the arguments of `new FunctionType` (a choice of the build), and exceptions from
the middle of it are inside the action. The client is external: it owns what is passed out to it and
may give back what the table counted for it (`GiveBack`), or, where the table has counted nothing,
what `object.h` lets it think it owns (`GiveBackFresh`); it resolves its definitions after it put
them (`SetType`). **`Interner`** is the promise: references that mean the same share one type, none is forgotten, and a type
is not there without its parts.

**`Expressions`** is the setters and queries of expression nodes, driven by an external semantic
pass: `Resolve` (`set_entity`), `AttachType` (`set_type`, `set_op_type`), `Convert` and `Fold` (make a
cast or a literal, call the setter, give back what was made), `ReplaceArgs`, `AskAssignable`, and in
the end `Finish`. The kinds of setters are written once each (`SetSwapping`, `SetCounting`,
`SetStoring`, `SetTypeOnce` ...), as the code has them; `DropNext` is one `dec_ref`, as in
`AstBuilder`. `TypeOf` is `type()` and `orig_type()` of every class at once, written over what they
return for the operands (`OrigFrom`, `TypesFrom`); `BaseExpr` and `IsMultiDimension` are those of
`ArefNode`. The types are looked up, not made: making them is the table's part.

Two points of the code that the models take as they are. `inc_ref` and `dec_ref` test `this`
against null, which the Makefile's build (no optimisation) keeps, so on a null pointer they do
nothing. And `fclose(f)` followed by `close(fd)` closes the same descriptor: the second call fails
and nothing is opened between the two.

Some definitions come with a *slip* before them (`AddTwice`, `CatchWithoutClose`,
`LoopNodesLooking` ...): the same operation with a mistake it could plausibly contain. No
specification uses them; `PROJECT.json` pairs each with the property that notices the mistake when
it takes the place of the real one.

## Runs

| run | question | bounds |
|---|---|---|
| `import_graphs` | one program against *every* import graph: what is declared, who keeps it alive, what is refused, what stays open | 2 libraries, lists of up to 3 imports (repetitions, self imports, cycles, diamonds), 4 descriptors |
| `faults` | two programs in a row, parsed or dumped, over every kind of import file, with texts that jam the scanner or are dumped for ever; every file is answered as `ImportBatch` says, and the program terminates but for such a dump | 2 libraries, lists of up to 1 import for libraries and 3 for programs, a path of 2 directories, 3 descriptors |
| `false_recursion` | does "recursive import" mean a recursive import? It does not | as `import_graphs` |
| `reentrant` | is a library being loaded not entered again? It is | as `import_graphs` |
| `ownership` | do constructors, actions and destructors agree on every object of every text? | nine parts of the language, texts of 9 to 17 reductions |
| `for_body` | does every member of every object point to a live one? Not the body of a `for` | loops, 14 reductions |
| `scanner` | how is every short text divided, placed, valued and ended? | all texts of up to 5 characters over quotes, backslash and a letter, and over comment marks and newline; up to 4 over both, and over quotes, newline and NUL bytes; numbers of up to 4 characters; two typedefs and two uses; `LongMax` 99 |
| `dump_quits` | does `--dump-tokens` quit? Not on a text that ends in a literal | as `scanner` |
| `hex_literal` | do integers in expressions have their value? Not with a prefix | as `scanner` |
| `octal_escape` | does an octal escape stand for its character? No | as `scanner` |
| `type_table` | who owns what the table passes out, and are its answers and the relations right? | nine references (three deep at most), a struct and a typedef, 3 calls besides definitions and references given back; LP64 without the types that differ from these by size and name only |
| `expressions` | which setters and queries can a pass rely on? | seventeen trees of up to 6 nodes, 4 calls |

Two libraries are enough for a cycle, for a diamond (with the program as its top), and for a
library reached on two ways; three imports are needed for the third one to be refused. Four
descriptors let a chain of two libraries fit and a cycle run out; with three, a leak of the first
program is felt by the second. In `ownership` each part (`MCAst`) has room for its longest
production (a `for` with three expressions, a `switch` with two clauses of two labels) and
something around it. Five characters hold a literal with an escape and the quote of another one, or
a comment and what follows it; `LongMax` is small so that literals of three digits overflow it. The
references of `type_table` have an array of arrays with a length missing, arrays of a typedef's name, a function whose parameter
is an array, and two that differ in the ellipsis only; three calls let one meet what two others left.
In `expressions` each tree joins the classes in another way (elements of arrays, of arrays of
pointers and of pointers to arrays; a pointer to a pointer, where attached types go stale; members of a struct, through a typedef and through an array; a
call; conversions under each kind of setter). Four calls resolve a name, give two arrays their types
and change one operand. All runs leave deadlock checking on: the end of the program is a stuttering
action of its own.

What the passing runs show:

* `NextFileOpens`, `NoDescriptorLeak`: a descriptor leaks only through an exception, and only those of
  nested parses; one is always free when `main` opens the next file, so it never gives up on a
  readable file, however much leaked.
* `HeldEntitiesAlive`, `RefExact`: declarations survive the Loader that loaded them as long as
  somebody holds them, and their count is exact until something is rejected or thrown.
* `ImportClosure`: what `import_stmts` has gathered, and the names that the scanner returns as
  `TYPENAME`, is at every moment what the libraries imported so far declare, with all they import.
* `NoDeclsFromCycle`, `Terminates`: a library on a cycle is never returned to anyone; the program
  ends all the same. All that keeps it from ending is a dump of a text that ends in an open literal.
* `RecursionIsThirdImport`: exactly when an import is refused as recursive.
* `ImplementsBatch`: refinement of `ImportBatch`, safety and liveness. A file is left without an answer
  only after one that cannot be opened, an import file that is no import file, a text that jams the scanner
  at any depth of imports or in a dump, or a dump without end.
* `CountsExact`: between any two `dec_ref` calls the count of every object is the number of members,
  stack entries and pending `dec_ref` calls that hold it. `OwnedPointersLive`, `AllDeleted`: no
  object is deleted under a holder, and an accepted text leaves none behind.
* `StackUnshared`: every value on bison's stack has exactly one reference, which is what the
  `assert`s of `parser.y` (448, 539, 636, 842, 947) rely on.
* `OnlyKnownFaults`: a null or deleted object is used in three constructs only: the body of a
  `for`, a `default` label after a `case` label, and labels followed by nothing but `;`. The first two
  in a dump only, and at the very body or label that it has come to; no `dec_ref` meets one.

* `RegionsAgree`, `JamsInOpenLiteral`, `EndIsComplete`: the text is divided as C divides it up to the
  first character constant that swallows the quote of another; the process ends in literals never
  closed, or at a double quote in a character constant; a text is taken to be complete although it is not only
  after an unterminated comment, at a NUL byte in the code or, by the parser, at a byte above 127.
* `BeginExact`: a position is the column where a token begins and the line where it *ends*; for a
  literal of several lines the column is 1, and of columns after a NUL byte nothing is said.
* `TypenamesFollowTypedefs`: no lookahead hides a typedef's name from the scanner.
  `ReadTwiceAsOnce`: a character constant is unescaped twice, harmlessly.
* `LengthsExact`, `DecimalNodesExact`: array lengths are right in every base, other integers in base
  10. `ScanEnds`: scanning ends but for the dump of an open literal.
* `AnswersAgree`, `ImplementsInterner`: two references have one type exactly if they say the same,
  after failed calls too; but for arrays whose bases differ in an ellipsis.
* `CountsExact`, `OnlyKnownFaults` of `TypeTable`: a type is deleted under the table only through the
  reference that a fresh answer does not count, a fresh array as a parameter, or
  `semantic_check`, which releases what it does not own.
* `SameTypeExact`, `AliasesTransparent`, `IncompleteExact`: what the relations answer, with the places
  where they differ from C: functions, pointers against arrays, typedefs of integers and
  structs on the right, `is_castable_to` of a typedef.
* `CountsExact`, `OnlyKnownFaults` of `Expressions`: `set_left`, `set_right`, `replaceArgs` and
  `BinaryOpNode::set_type` are the only setters after which counts are wrong; `set_expr` of unary
  operators and a second `set_type` leak. Asking a place whether it is assignable uses a null pointer.
* `PlacesExact`: a place of a lawful tree (`Lawful`: what C allows) has the type that C gives it, or a
  query throws; `base_expr` is the innermost array, whatever types have been attached. This holds
  while the attached types are up to date (`Current`). `set_type` stores a type and no setter of an
  operand looks at it again: in `**r`, give `*r` the type of its address, then convert `r`, and `*r`
  still answers with what `r` was. A pass has to convert before it attaches.

What the runs that end in a violation show:

* `false_recursion`: `load_library` pushes the library on `loading_` (loader.cc:47) before it looks
  in its cache, and the cached return (loader.cc:52) does not pop it. The second import of a library
  in a file is answered and the third refused as recursive; `main` swallows the exception.
* `reentrant`: the nested parser gets an `Option`, hence a Loader, of its own (loader.cc:55), so
  `loading_` never sees a cycle; the recursion ends when `open()` fails.
* `for_body`: `ForNode` stores its body without `inc_ref`, and the action that made it drops the body.

* `dump_quits`: the dump loop waits for kind 0 (may.cc:48); at the end of an open literal the scanner
  returns `ERROR` each time (lexer.l:111, 127).
* `hex_literal`: `integer_node` calls `stol` without a base (parser.y:1024): `0x11` is 0, `021` is 21.
* `octal_escape`: `string_value` passes the backslash to `integer_value` and writes the number back as
  digits (lexer.l:188): each octal escape becomes the character `0`.

**Fairness.** `Driver` and `Scanner` assume `WF_vars(Next)` and nothing else: one thread runs the
program and no step waits for anything, so it keeps going as long as it can take a step. The other
modules state safety only: a parse may stop anywhere, and nothing obliges a client of the table or a
semantic pass to make a call.

## Proofs

### Imports

`DriverProofs`, `HeapProofs` and `BatchProofs` hold for every finite set of libraries, every set of import trees (cyclic ones included), every command line, load path and
limit on descriptors. They assume what the modules assume by name: `LibAssumption` (finitely many
libraries, `Main` not one of them), `BoundAssumption` (at least one directory and one descriptor),
`FileAssumption` and `CommandLineAssumption` (the constants have the types their comments give).
Every safety property that the runs `import_graphs` and `faults` check is a theorem, and so is the
safety part of the refinement. None of them is inductive alone; each module adds the invariant it
needs, one lemma per action that can disturb it.

* `TypeCorrect` (`TypeOK`), `DriverKeepsADescriptor` (`NextFileOpens`) and `CleanRunsLeakNothing`
  (`NoDescriptorLeak`), with `Inv == Types /\ MainOutermost /\ Descriptors`. `MainOutermost` says that
  the outermost frame and no other is `main`'s: `ReturnDecls` needs it to type what it stores in the
  waiting frame's cache, which is indexed by libraries. `Descriptors` says that each frame owns a
  descriptor (`nfd >= Len(frames)`, an inequality because `Unwind` pops a frame and leaves its file
  open) and that there are never more than `MaxFd`: together they let `FinishCompile`,
  `MainSyntaxError` and `CatchAll` close one that is there and leave one free.
* `ImportsBringTheirClosure` (`ImportClosure`). The strengthening `ImportInv` adds what
  the cache holds for each library in `loaded_` (`Gathered`), and that every frame above the outermost
  is the parse of the very file that the next import statement of the frame below names, with that
  file's imports (`Nests`). The graph part is `ClosureLeast`, `ClosureUnion`, `ClosureStep`: the reach of a
  set of libraries is a least fixed point, distributes over union and unfolds along imports, for
  cyclic graphs too.
* `RefusalIsTheThirdImport` (`RecursionIsThirdImport`, an action property) and `CyclesDeclareNothing`
  (`NoDeclsFromCycle`). `LoadInv` relates what a Loader remembers to where its file has got:
  `loaded_` is what was imported before the statement in hand, and a name is on `loading_` exactly if
  it was imported twice before, apart from the one that the waiting frame has in hand. That a
  library on a cycle is never returned follows step by step: the one that returned first would have
  imported one that had returned before.
* `HeldEntitiesLive` (`HeldEntitiesAlive`) and `CountsAreExact` (`RefExact`). `HeapInv` says that the
  count of an entity is *at least* the number of caches and import sets that hold it, in any state
  (what is thrown past leaks, never the reverse), exactly that number until something is rejected or
  thrown, and that serial numbers are used once. `HoldersIn` counts the holders of a whole stack of
  frames; the lemmas about it say what pushing, popping and replacing the top does to that number.
* `DriverImplementsBatch`: every step of `Driver` is a step of `ImportBatch` or leaves its variables
  alone, so each file's answer, and the file that ends the process, is decided by the import trees and
  by what is in the files. `BatchInv` says that the frames
  are a chain of imports from the program on (`Chained`), that all that has been imported so far is
  acyclic, found and parses (`AllSolid`), and that an exception is under way only where the tree gives
  a cause for one (`Excused`).

### Ownership of the tree

Every property of the run `ownership` is a theorem of `OwnershipProofs`, for every set of productions
and every length of text: `TreeTypes` (`TypeOK`), `TreeCountsAreExact` (`CountsExact`),
`OwnersHoldLiveObjects` (`OwnedPointersLive`), `StackedObjectsAreUnshared` (`StackUnshared`),
`NothingLeaks` (`AllDeleted`), `TreeFaultsAreKnown` (`OnlyKnownFaults`). The only assumption is
`StudiesAssumption`: a study is a set of rows and a length. Where the run explores nine parts of the
language separately, the theorems are about texts that mix all of its productions.

The argument has a static half and a dynamic one.

* `GrammarProofs` is about the rows, one by one. `RowsSound` says that each of the eighty or so rows is
  `RowSound`: every value of the right-hand side and every node made is used up in exactly one way,
  taken by a member, added to what is grown, handed on in `$$` or dropped (`UsedOnce`); a constructor
  gets an argument for every member, out of what exists by then (`MakesSound`); what is handed on is
  not counted by a node as well (`GivesUncounted`); and what later actions read has the shape that they
  rely on: a `params` is one `Params` of variables, a variable has its `TypeNode`, a `top_defs` is one
  `Declarations` (`GivesKind`, `GrowSound`). Rows of one form are proved at once (`PassSound`,
  `NodeSound`, `FirstDefSound`), the others each by looking at its numbers. `ModesAre` looks the
  classes up in the tables of `AstNodes`. A row that forgets a temporary, drops one twice or in place of another, or
  hands on what it also counted, makes a lemma of this module false.
* `OwnershipProofs` runs sound rows. The invariant `IInv` has at its centre `Ledger`: the references of
  an object are the members that hold it, the entries of the value stack that do, and the `dec_ref` calls
  to come. It needs `Shapes` (above, as facts of the heap), `Stacks` (there is a value on the stack for
  every symbol of some sentential form of what is to come, of the kind of its symbol), `Unshared` and
  `Acyclic`. A reduction moves every item from the stack to one place (`ReduceLedger`, from
  `WaysAre`: a one-to-one correspondence between the items and the places that use them); a `dec_ref`
  moves what a deleted object held to the calls to come (`DropKeeps`).
* `TreeFaultsAreKnown` looks one step ahead: what a dump has yet to come to exists, or is the body of a
  `for` that was dropped or the null label of a case with a default (`Faulty`); so the first thing that
  does not exist is one of these, and it is the one at which the dump stops.
* `NothingLeaks` needs more than exact counts, for objects that hold each other would keep each other.
  `Acyclic` says that in every set of objects there is one that no other of the set is answerable
  for. It is kept because an action makes nodes only of what was there before them, and grows only
  what nothing refers to. When the result has been given up, an object left would be one with no holder.

### Scanner

`ScannerProofs` holds for every text, of any length and over any characters, every set of keywords
and every answer of the parser. It assumes `TextAssumption` (texts are sequences of
characters), `LetterAssumption` (quotes, the slash and the newline are no letters),
`KeywordAssumption` (keywords are written with letters, as the first 28 rules of lexer.l are) and
`LongAssumption` (the largest long is a natural number).

* `ScannerTypes` (`TypeOK`), `TokensAreLocated` (`BeginExact`), `RulesReadAsC` (`RegionsAgree`),
  `OnlyLiteralsJam` (`JamsInOpenLiteral`), `NothingIsCutShort` (`EndIsComplete`), all from
  `ScanningInvariant`. The invariant `ScanInv` adds to them that the *next* token would be placed right
  (`Located`), that only a NUL byte in the code, or in a parse a byte above 127, is taken for the end
  (`EndSeen`), and `Agreed`: until a character constant swallows a quote, not only the regions so far
  are those of C's reading of the text, but the start condition is what that reading has open at `pos`.
  Neither is inductive without the other.
* The heart is one lemma per start condition (`ReadInCode`, `ReadInComment`, `ReadInLiteral`): the
  *longest* match of the rules, ties going to the first, takes characters that C's reading, which knows
  one character and the next, gives to one region, and leaves it where the next rule begins. This
  is where an interplay of rules would show: a rule that could run over a quote or the beginning of a
  comment (`WordsArePlain`, `OperatorsArePlain`, `OpensTwo`), or a comment text that ran over its end.
* `TypenamesHaveTypedefs` (`TypenamesFollowTypedefs`). The invariant `Named` is about the whole list of
  tokens: `Defined(tokens, k, w)` says that a typedef of the word `w` ends before the `k`-th token, and
  `typename_` lags behind it by the typedef of the last token at most. That it does not when the next
  token is read (`Prepared`) is the parser's part: it reduces `def_typedef` without a lookahead.
* `LiteralsReadOnce` (`ReadTwiceAsOnce`). The image of a literal is what `string_value` made of some text
  (`TokenReads`), and what it makes has no backslash (`CleanCloses`): no escape stands for one, and an
  octal escape for the digit `0`, whatever its digits (`OctalIsZero`). A text without backslashes reads
  as itself (`CleanReads`).
* `ArrayLengthsAreExact` (`LengthsExact`) and `DecimalLiteralsAreExact` (`DecimalNodesExact`). Every image
  of an `integer` token is one that the rule of integers matches (`IntegersRead`), so it is decimal, octal
  or hexadecimal digits and a suffix (`IntegerForms`). What `strtol` makes of the digits from the first to the
  last (`NumberIs`) is the sum of their weights by their places, as C has it, which is taken from the last to
  the first (`SameNumber`). The type asked for is by the last two characters (`SuffixTypeIs`).
  With `Named` and `ReadTwiceAsOnce`, `IntegersRead` makes the invariant `ReadInv` of `ReadingInvariant`.
* `LongestIs`: the longest match exists whenever a rule matches. `NewlinesOfParts`, `LineStartOfParts`:
  line and column can be added up lexeme by lexeme.

C's reading, the escapes of a literal and the like are functions defined by recursion over `0 .. N`.
`InductionLemmas` derives what is needed to reason about those from `Least`: induction stated with a
set (`Induct`, `InductUpTo`) rather than with a predicate, and the existence of the function that such a
definition chooses (`PrimitiveRecursion`, `Recursion`, and `CourseOfValues` for those that look back further than one step).

### Setters and queries of nodes

`ExpressionProofs` holds for every set of trees, every table of types, every scope and any number of
calls. It assumes `ProgramAssumption` (the first tree is one: each node but the last is an operand of
exactly one other, which comes after it; a name has room for its entity and nothing else is null; no
class lacks the operands its constructor takes),
`TypeAssumption` (types and variables are sequences, `int` is a type of the table, conversions are to
types of the table, a typedef's name stands for no other such name, nothing points to what stands
for a query that throws) and `CallAssumption`. The first three theorems leave open what the queries
answer, and hold for any typing rules; the last is about the answers.

* `ExpressionTypes` (`TypeOK`), `HoldersAreCounted` (`CountsExact`), `FaultsAreKnown`
  (`OnlyKnownFaults`), all from `Inv`. `Owed(w, i)` is what the count of object `i` exceeds the places
  that refer to it, the `dec_ref` calls to come and the references forgotten. `Balanced` says that
  this is 1 for the types, the entities and, until it is dropped, the root, and 0 for all others; it
  needs `Formed`, that no place refers to what is not there and that no operand is missing but the
  entity of a name.
* Each setter has a lemma that says what it changes (`PutIs`, `IncIs`, ...) and one that says what
  that makes of the books (`PutOwed`, `IncOwed`, ...): a setter of each kind keeps every object even,
  and a new cast or literal has one reference too many, which the pass gives back (`HandedOver`).
  `DropOwed` is the destructor: what the deleted node held turns from places into `dec_ref` calls
  to come, one for one.
* `RefLive` and `ReachedLive`: in balance, nothing that a live node refers to is deleted, hence nothing
  that a walk from the root finds, at any depth. So `Stale` and the use of a deleted object in
  `DropNext` need a setter that does not count.
* `PlacesAreExact` (`PlacesExact`) needs a second invariant, `TreeInv`: the operands of a node are
  nodes and as many as its class has, a name is resolved by its own entity, the heap has the table's
  types and the scope's variables in front, and there is an order (`Ranks`) in which operands come
  before what is made of them. The parser's numbering is such an order (`TreeAtFirst`). A conversion
  breaks it, because the cast is the newest object and an operand of an old one; the ranks are then
  doubled, and the cast fits between (`MadeGrove`, `FreshFits`). The ranks are why the functions that
  recurse over operands are what their definitions say (`TypeOfIs`, `CTypeIs`, `UnderIs`, `IndexedIs`,
  `BaseIs`), and what the induction of `AllTyped`, `AllExact` and `AllBased` goes along: `TypedStep`
  and `ExactStep` compare a node's type in the code with its type in C, class by class, and
  `BasedStep` does it for `base_expr`.

### What stays model-checked

* Liveness: `Terminates`, `ScanEnds`, and the liveness part of `ImplementsBatch`. Proofs from fairness need
  `ENABLED`, for which the prover has no rules.
* `Types` and `TypeTable` recurse into the parts of a type with RECURSIVE operators, which the
  prover does not take.

## Not modelled, and why

* Formats: what locations, dumps and errors look like. No property is worth one.
* `ErrorHandler`, `ConstantEntry`, `Loader::add_load_path`, `TypeDefinition`'s setters, sizes,
  alignments and offsets of types, entities and slots: nothing calls them, and no rule of the code
  says how they will be called.
* The references to parts that `member_types`, `real_type`, `Entity::type` and the like count and
  nobody releases: they only keep alive what the table keeps alive.
* Parser tables: the grammar's conflicts and precedences; `Scanner` and `AstBuilder` see the order of
  reductions.
* The levels of expressions between `expr10` and `postfix` are one symbol: precedence changes which
  tree is built, not who owns its nodes.
* In `AstBuilder` import statements: their declarations are `Loader`'s subject. The two meet in
  `Declarations` sets, which `AstBuilder` drops whole.
* Running out of memory, and stack overflow in deep recursion.

## Plan

1. Imports: `Declarations`, `Loader`, `Driver`, `ImportBatch`. *Done.*
2. Proofs of `TypeOK`, `NextFileOpens`, `ImportClosure`. *Done.*
3. Ownership of the tree: `AstNodes`, `Grammar`, `AstBuilder`. *Done.*
4. `Types`, `TypeTable` and its promise `Interner`. *Done.*
5. `Literals` and `Scanner`, with the parser's feedback. *Done.*
6. `Expressions`: setters and queries. *Done.*
7. Proofs about imports: every safety property of `Driver`, and the safety part of
   `ImplementsBatch`. *Done.*
8. Proofs about the scanner: positions, regions, where it stops, typedef names, literals, integers. *Done.*
9. Proofs about ownership: `TypeOK`, `CountsExact` and `OnlyKnownFaults` of `Expressions`. *Done.*
10. Proofs about ownership: the rows of `Grammar`, and every property of `AstBuilder`. *Done.*
11. Proofs about the queries: `PlacesExact` of `Expressions`. *Done.*
12. `TypeTable` and `Types` again with recursive functions in place of RECURSIVE operators, to prove
    `CountsExact`, `AnswersAgree` and `SameTypeExact`.
