------------------------------ MODULE Scanner ------------------------------
(***************************************************************************)
(* The scanner of parser/lexer.l on one text, asked for tokens by the dump *)
(* loop of may.cc or by the parser, which gives it the names that typedefs *)
(* define.                                                                 *)
(*                                                                         *)
(* The rules are the patterns of lexer.l, in its order.  A step applies    *)
(* one rule, as flex does: among the rules of the current start condition  *)
(* the one that matches the most of what is left, the first of them if     *)
(* there are several.                                                      *)
(***************************************************************************)
EXTENDS Literals

CONSTANTS Dumped,     \* the texts that are scanned for the dump loop
          Parsed,     \*   and for the parser
          Letter,     \* the letters they are written with, "_" among them
          Keywords,   \* the words that are tokens of their own,
          Typedef     \*   and the one that begins a type definition

ASSUME TextAssumption == Dumped \cup Parsed \subseteq Seq(STRING)
ASSUME LetterAssumption == Letter \subseteq STRING \ {"'", "\"", "/", "\n"}
ASSUME KeywordAssumption == Keywords \subseteq Seq(Letter) /\ Typedef \in Keywords

VARIABLES
    text,       \* the text
    asker,      \* who wants the tokens: "dump" or "parser"
    start,      \* the start condition
    pos,        \* where the next rule begins
    line,       \* yylineno
    column,     \* yycolumn: how many characters of the line were matched
    tokens,     \* the tokens returned so far
    regions,    \* for every character matched, what the rules took it for
    typename,   \* Option::typename_
    status      \* "scanning", "ended", "rejected", "jammed" or "aborted"

vars == <<text, asker, start, pos, line, column, tokens, regions, typename, status>>

Init ==
    /\ \/ asker = "dump" /\ text \in Dumped
       \/ asker = "parser" /\ text \in Parsed
    /\ start = "INITIAL"
    /\ pos = 1 /\ line = 1 /\ column = 0
    /\ tokens = <<>> /\ regions = <<>> /\ typename = {}
    /\ status = "scanning"
-----------------------------------------------------------------------------
Operators == {<<"+", "+">>, <<"-", "-">>, <<"&", "&">>, <<"|", "|">>, <<"<", "<">>,
    <<">", ">">>, <<"-", ">">>, <<"=", "=">>, <<"!", "=">>, <<"<", "=">>, <<">", "=">>,
    <<"+", "=">>, <<"-", "=">>, <<"*", "=">>, <<"/", "=">>, <<"%", "=">>, <<"^", "=">>,
    <<"&", "=">>, <<"|", "=">>, <<"<", "<", "=">>, <<">", ">", "=">>, <<".", ".", ".">>}

All(s, S) == \A i \in DOMAIN s : s[i] \in S

Word(s) == s[1] \in Letter /\ All(s, Letter \cup Digit)

\* The three alternatives of an integer, each with its suffix.
Integer(s) ==
    \E n \in 1 .. Len(s) :
        LET body == SubSeq(s, 1, n)
        IN  /\ From(s, n + 1) \in {<<>>, <<"U">>, <<"L">>, <<"U", "L">>}
            /\ \/ body[1] # "0" /\ All(body, Digit)
               \/ n > 2 /\ body[1] = "0" /\ body[2] \in {"x", "X"} /\ All(From(body, 3), HexDigit)
               \/ body[1] = "0" /\ All(body, Digit \ {"8", "9"})

\* Where a character of s is a backslash that takes the next one with it.
Escapes(s) ==
    LET escapes[i \in 0 .. Len(s)] == i > 0 /\ s[i] = "\\" /\ ~escapes[i - 1]
    IN  escapes

Unescaped(s, i, c) == s[i] = c /\ ~Escapes(s)[i - 1]

\* The rest of a literal: anything but '"', unless it is escaped, and then the quote.
\* The pattern of a character leaves out '"' and not its own quote, which only has to
\* come last.  (A slip: the text of a literal is on one line.)
Closed(s, quote, excluded) ==
    /\ Unescaped(s, Len(s), quote)
    /\ \A i \in 1 .. Len(s) - 1, c \in excluded : ~Unescaped(s, i, c)
LiteralOnOneLine(s, quote) == Closed(s, quote, {"\"", "\n"})
Literal(s, quote) == Closed(s, quote, {"\""})

\* What a comment consists of: text without stars, or one character.  (A slip: the rest
\* of the line, as in a line comment.)
CommentTextToEol(s) == ~Contains(s, "\n") \/ s = <<"\n">>
CommentText(s) == ~Contains(s, "*") \/ s = <<"*">>

Accepts(rule, s) ==
    CASE rule = "keyword"       -> s \in Keywords
      [] rule = "operator"      -> s \in Operators
      [] rule = "space"         -> All(s, {" ", "\t", "\n", "\r", "\f"})
      [] rule = "word"          -> Word(s)
      [] rule = "integer"       -> Integer(s)
      [] rule = "open comment"  -> s = <<"/", "*">>
      [] rule = "line comment"  -> IsPrefix(<<"/", "/">>, s) /\ ~Contains(s, "\n")
      [] rule = "open char"     -> s = <<"'">>
      [] rule = "open string"   -> s = <<"\"">>
      [] rule = "other"         -> Len(s) = 1
      [] rule = "close comment" -> s = <<"*", "/">>
      [] rule = "comment text"  -> CommentText(s)
      [] rule = "character"     -> Literal(s, "'")
      [] rule = "string"        -> Literal(s, "\"")

\* The rules of each start condition, in the order of the file.
Rules == [INITIAL |-> <<"keyword", "operator", "space", "word", "integer", "open comment",
                        "line comment", "open char", "open string", "other">>,
          COMMENT |-> <<"close comment", "comment text">>,
          CH      |-> <<"character">>,
          STR     |-> <<"string">>]

Rest == From(text, pos)
Matches == {m \in (1 .. Len(Rest)) \X DOMAIN Rules[start] :
                Accepts(Rules[start][m[2]], SubSeq(Rest, 1, m[1]))}

\* Flex's choice.
Longest(S) == CHOOSE m \in S : \A o \in S : m[1] > o[1] \/ (m[1] = o[1] /\ m[2] <= o[2])

\* What the characters of a rule are.
Region(rule) ==
    CASE rule \in {"open comment", "comment text", "close comment"} -> "comment"
      [] rule = "line comment"                -> "line"
      [] rule \in {"open char", "character"}  -> "char"
      [] rule \in {"open string", "string"}   -> "string"
      [] OTHER                                -> "code"
-----------------------------------------------------------------------------
\* The tokens end with a def_typedef, which the parser reduces before it asks for
\* another one.  (A slip: it looks one token ahead first.)
TypedefIn(s) ==
    \E n \in 1 .. Len(s) - 3 :
        /\ s[n].kind = "keyword" /\ s[n].image = Typedef
        /\ s[n + 1].kind \in {"keyword", "TYPENAME"}
        /\ s[Len(s) - 1].kind = "IDENTIFIER" /\ Last(s).kind = "other" /\ Last(s).image = <<";">>
        /\ \A k \in n + 1 .. Len(s) - 1 : s[k].image # <<";">>
TypedefReadLate == tokens # <<>> /\ TypedefIn(Front(tokens))
TypedefRead == TypedefIn(tokens)
TypedefName == tokens[SelectLastInSeq(tokens, LAMBDA t : t.kind = "IDENTIFIER")].image

\* What is seen of a lexeme by those who read it as a string of C.
CString(s) == IF Contains(s, Nul) THEN SubSeq(s, 1, SelectInSeq(s, LAMBDA c : c = Nul) - 1) ELSE s

\* The kind of a token for one other character is that char.  That of a NUL byte, whose
\* image is empty, is 0, the END token.  That of a byte above 127 is a negative number;
\* the parser takes it for the end of the text too, the dump loop does not.
HighByte == "byte above 127"
EndImages == IF asker = "parser" THEN {<<>>, <<HighByte>>} ELSE {<<>>}
TakenForEnd == Last(tokens).kind = "other" /\ Last(tokens).image \in EndImages

\* The scanner is asked for a token, or has not returned one yet since it was.  The
\* parser asks no more after an ERROR token.
Asked ==
    /\ status = "scanning" /\ tokens # <<>> /\ ~TakenForEnd
    /\ asker = "parser" =>
        /\ Last(tokens).kind # "ERROR"
        /\ TypedefRead => TypedefName \in typename

Newlines(s) == Cardinality({i \in DOMAIN s : s[i] = "\n"})
LineStart(s) == SelectLastInSeq(s, LAMBDA c : c = "\n")

\* flex counts the lines of a lexeme, and at each newline it sets the column to 0,
\* before YY_USER_ACTION.
ColumnBefore(lexeme) == IF Contains(lexeme, "\n") THEN 0 ELSE column

\* YY_USER_ACTION counts columns up to the first NUL byte.  (A slip: nobody resets the
\* column.)
ColumnAfterStraight(lexeme) == column + Len(lexeme)
ColumnAfter(lexeme) ==
    LET seen == CString(lexeme)
    IN  Len(seen) - LineStart(seen) + (IF LineStart(seen) = 0 THEN ColumnBefore(lexeme) ELSE 0)

\* The part of flex's and YY_USER_ACTION's counting that lasts.  (A slip: YY_USER_ACTION
\* counts the lines that flex has counted.)
AdvanceCounting(rule, lexeme) ==
    /\ pos' = pos + Len(lexeme)
    /\ line' = line + 2 * Newlines(lexeme)
    /\ column' = ColumnAfter(lexeme)
    /\ regions' = regions \o [i \in DOMAIN lexeme |-> Region(rule)]
Advance(rule, lexeme) ==
    /\ pos' = pos + Len(lexeme)
    /\ line' = line + Newlines(lexeme)
    /\ column' = ColumnAfter(lexeme)
    /\ regions' = regions \o [i \in DOMAIN lexeme |-> Region(rule)]

\* A token that carries no Token: loc and val are what they were.
Bare(kind, from, to) ==
    [kind |-> kind, image |-> <<>>, line |-> 0, column |-> 0, at |-> <<from, to>>]

\* YY_SET_LOCATION, with the line and column of flex before YY_USER_ACTION counts on.
Return(kind, image, lexeme) ==
    tokens' = Append(tokens, [kind |-> kind, image |-> image,
                              line |-> line + Newlines(lexeme),
                              column |-> ColumnBefore(lexeme) + 1,
                              at |-> <<pos, pos + Len(lexeme) - 1>>])

\* The first call of yylex returns what selects the start symbol of the grammar.
StartToken ==
    /\ tokens = <<>> /\ status = "scanning"
    /\ tokens' = <<Bare("COMPILE", pos, pos)>>
    /\ UNCHANGED <<text, asker, start, pos, line, column, regions, typename, status>>

Skip(rule) ==
    /\ rule \in {"space", "line comment", "comment text"}
    /\ UNCHANGED <<start, tokens>>

Begins == [rule \in {"open comment", "close comment", "open char", "open string"} |->
    CASE rule = "open comment"  -> "COMMENT"
      [] rule = "close comment" -> "INITIAL"
      [] rule = "open char"     -> "CH"
      [] rule = "open string"   -> "STR"]

Switch(rule) ==
    /\ rule \in DOMAIN Begins
    /\ start' = Begins[rule]
    /\ UNCHANGED tokens

PlainToken(rule, lexeme) ==
    /\ rule \in {"keyword", "operator", "integer"}
    /\ Return(rule, lexeme, lexeme)
    /\ UNCHANGED start

OtherToken(rule, lexeme) ==
    /\ rule = "other"
    /\ Return(rule, CString(lexeme), lexeme)
    /\ UNCHANGED start

WordToken(rule, lexeme) ==
    /\ rule = "word"
    /\ Return(IF lexeme \in typename THEN "TYPENAME" ELSE "IDENTIFIER", lexeme, lexeme)
    /\ UNCHANGED start

\* The text of a literal, up to a NUL byte and without the last character before it,
\* goes through string_value; what that throws is caught.
LiteralToken(rule, lexeme) ==
    /\ rule \in {"character", "string"}
    /\ CString(lexeme) # <<>>
    /\ start' = "INITIAL"
    /\ LET value == StringValue(Front(CString(lexeme)))
       IN  \/ /\ value = Throw
              /\ tokens' = Append(tokens, Bare("ERROR", pos, pos + Len(lexeme) - 1))
           \/ /\ value # Throw
              /\ Return(IF start = "CH" THEN "CHARACTER" ELSE "STRING", value, lexeme)

\* One rule is applied.
Match ==
    /\ Asked /\ Matches # {}
    /\ \E m \in {Longest(Matches)} :
        LET rule == Rules[start][m[2]]
            lexeme == SubSeq(Rest, 1, m[1])
        IN  /\ Advance(rule, lexeme)
            /\ \/ Skip(rule)
               \/ Switch(rule)
               \/ PlainToken(rule, lexeme)
               \/ OtherToken(rule, lexeme)
               \/ WordToken(rule, lexeme)
               \/ LiteralToken(rule, lexeme)
    /\ UNCHANGED <<text, asker, typename, status>>

\* A literal whose text begins with a NUL byte: its length, strlen(yytext) - 1, is the
\* largest size_t, and string throws length_error.  No one catches that in a dump; in a
\* parse it goes on to main, and the parse is over.
Overflow ==
    /\ Asked /\ Matches # {}
    /\ start \in {"CH", "STR"} /\ Rest[1] = Nul
    /\ status' = IF asker = "dump" THEN "aborted" ELSE "rejected"
    /\ UNCHANGED <<text, asker, start, pos, line, column, tokens, regions, typename>>

\* No rule applies, the default rule of flex included: "flex scanner jammed", exit.
Jam ==
    /\ Asked /\ pos <= Len(text) /\ Matches = {}
    /\ status' = "jammed"
    /\ UNCHANGED <<text, asker, start, pos, line, column, tokens, regions, typename>>

\* The start conditions whose rule for the end of the text returns ERROR.  (Slips:
\* comments have such a rule as well; only strings have one.)
ErrorAtEndOfAll == {"CH", "STR", "COMMENT"}
ErrorAtEndOfStrings == {"STR"}
ErrorAtEnd == {"CH", "STR"}

\* Everywhere else, in a comment too, the end of the text is the END token.
EndOfText ==
    /\ Asked /\ pos > Len(text) /\ start \notin ErrorAtEnd
    /\ tokens' = Append(tokens, Bare("END", pos, pos))
    /\ status' = "ended"
    /\ UNCHANGED <<text, asker, start, pos, line, column, regions, typename>>

EarlyEnd ==
    /\ status = "scanning" /\ tokens # <<>> /\ TakenForEnd
    /\ status' = "ended"
    /\ UNCHANGED <<text, asker, start, pos, line, column, tokens, regions, typename>>

\* The text ends in a literal: an ERROR token, and another one each time the dump
\* loop asks again, which it does until it gets END.
Unterminated ==
    /\ Asked /\ pos > Len(text) /\ start \in ErrorAtEnd
    /\ LET error == Bare("ERROR", pos, pos)
       IN  tokens' = IF Last(tokens) = error THEN tokens ELSE Append(tokens, error)
    /\ UNCHANGED <<text, asker, start, pos, line, column, regions, typename, status>>

\* The action of def_typedef.  bison needs no lookahead to reduce it.
DefTypedef ==
    /\ status = "scanning" /\ asker = "parser" /\ TypedefRead
    /\ TypedefName \notin typename
    /\ typename' = typename \cup {TypedefName}
    /\ UNCHANGED <<text, asker, start, pos, line, column, tokens, regions, status>>

\* The parser meets a syntax error, or a semantic action throws; at which token is a
\* matter of the grammar.
Reject ==
    /\ status = "scanning" /\ asker = "parser" /\ tokens # <<>>
    /\ status' = "rejected"
    /\ UNCHANGED <<text, asker, start, pos, line, column, tokens, regions, typename>>

Done == status # "scanning" /\ UNCHANGED vars

Next == StartToken \/ Match \/ Overflow \/ Jam \/ EndOfText \/ EarlyEnd
    \/ Unterminated \/ DefTypedef \/ Reject \/ Done

\* One thread asks and scans; it goes on as long as there is something to do.
Spec == Init /\ [][Next]_vars /\ WF_vars(Next)
-----------------------------------------------------------------------------
\* The types of the variables; the token counts and regions stay in step with pos.
TypeOK ==
    /\ asker \in {"dump", "parser"}
    /\ start \in DOMAIN Rules
    /\ pos \in 1 .. Len(text) + 1
    /\ line \in 1 .. pos /\ column \in 0 .. pos - 1
    /\ Len(regions) = pos - 1
    /\ \A t \in Range(tokens) : t.at[1] <= t.at[2] /\ t.at[2] <= Len(text) + 1
    /\ status \in {"scanning", "ended", "rejected", "jammed", "aborted"}

LineOf(i) == 1 + Newlines(SubSeq(text, 1, i - 1))
ColumnOf(i) == i - LineStart(SubSeq(text, 1, i - 1))

\* YY_USER_ACTION counts no further than a NUL byte; the columns after it are off.
Hidden(i) == \E j \in 1 .. i - 1 : text[j] = Nul

\* The position that parse errors and nodes report, kept by flex and by hand in
\* YY_USER_ACTION (parser.y:70): the line where a token ends, and the column where it
\* begins, or column 1 if it goes over several lines, since flex counts the newlines of
\* a lexeme before.  A literal begins after its quote.
BeginExact ==
    \A t \in Range(tokens) : t.line > 0 =>
        /\ t.line = LineOf(t.at[2])
        /\ \/ Hidden(t.at[1])
           \/ t.column = IF \E i \in t.at[1] .. t.at[2] : text[i] = "\n" THEN 1 ELSE ColumnOf(t.at[1])

\* What C makes of a text, one character after the other: what c belongs to, what is
\* open after it, and whether it takes the next one, d, with it, when m is open.
Unit(m, c, d) ==
    LET unit(mark, then, two) == [mark |-> mark, then |-> then, two |-> two]
    IN  CASE m = "code" /\ c = "/" /\ d = "*"            -> unit("comment", "comment", TRUE)
          [] m = "code" /\ c = "/" /\ d = "/"            -> unit("line", "line", TRUE)
          [] m = "code" /\ c = "'"                       -> unit("char", "char", FALSE)
          [] m = "code" /\ c = "\""                      -> unit("string", "string", FALSE)
          [] m = "comment" /\ c = "*" /\ d = "/"         -> unit(m, "code", TRUE)
          [] m = "line" /\ c = "\n"                      -> unit("code", "code", FALSE)
          [] m \in {"char", "string"} /\ c = "\\"        -> unit(m, m, TRUE)
          [] \/ m = "char" /\ c = "'"
             \/ m = "string" /\ c = "\""                 -> unit(m, "code", FALSE)
          [] OTHER                                       -> unit(m, m, FALSE)

Follow(unit, c, d) ==
    IF unit.two THEN [unit EXCEPT !.two = FALSE] ELSE Unit(unit.then, c, d)

Units(s) ==
    LET units[i \in 0 .. Len(s)] ==
            IF i = 0 THEN [mark |-> "code", then |-> "code", two |-> FALSE]
            ELSE Follow(units[i - 1], s[i], IF i < Len(s) THEN s[i + 1] ELSE "")
    IN  units

\* For each character what it belongs to, and at the end what is still open.
Reading(s) == [i \in 1 .. Len(s) + 1 |->
    IF i <= Len(s) THEN Units(s)[i].mark ELSE Units(s)[Len(s)].then]

\* The quote that closes a literal whose text begins at i; 0 if none does.
Close(i, quote) ==
    LET K == {k \in i .. Len(text) : Unescaped(From(text, i), k - i + 1, quote)}
    IN  IF K = {} THEN 0 ELSE Min(K)

\* A character constant was taken to end at a later quote than its own.
SwallowedQuote ==
    \E t \in Range(tokens) :
        t.at[1] < pos /\ regions[t.at[1]] = "char" /\ Close(t.at[1], "'") # t.at[2]

\* The rules with their start conditions and longest matches divide the text into
\* code, comments and literals as C does, up to the first character constant that
\* swallows the quote of another one (lexer.l:100).
RegionsAgree == SwallowedQuote \/ IsPrefix(regions, Front(Reading(text)))

\* The scanner ends the process only in a literal that is never closed, or at a '"' in
\* a character constant (lexer.l:20, lexer.l:100).
JamsInOpenLiteral ==
    status = "jammed" =>
        \/ start = "STR" /\ Close(pos, "\"") = 0
        \/ start = "CH" /\ (Close(pos, "'") = 0 \/ Close(pos, "\"") \in 1 .. Close(pos, "'"))

\* When the scanner or the parser takes the text to be complete, so that what was
\* read is compiled, it has been read to its end and no literal is cut short; but a
\* comment may be (lexer.l:96), a NUL byte in the code is taken for the end, and the
\* parser takes a byte above 127 for it as well (lexer.l:131).
EndIsComplete ==
    status = "ended" /\ ~SwallowedQuote =>
        \/ pos > Len(text) /\ Last(Reading(text)) \notin {"char", "string"}
        \/ /\ Reading(text)[pos - 1] = "code"
           /\ text[pos - 1] = Nul \/ (asker = "parser" /\ text[pos - 1] = HighByte)

\* The scanner gives the parser the value of a character constant, and the parser
\* evaluates it again (parser.y:997): this is harmless as long as no escape can
\* produce a backslash.
ReadTwiceAsOnce ==
    \A t \in Range(tokens) : t.kind \in {"CHARACTER", "STRING"} =>
        StringValue(t.image) = t.image

\* A word is a TYPENAME from the first token after the ';' of its typedef on, and not
\* before: the parser must have inserted the name when the scanner reads that token
\* (parser.y:519, lexer.l:82).
TypenamesFollowTypedefs ==
    \A k \in DOMAIN tokens : tokens[k].kind \in {"IDENTIFIER", "TYPENAME"} =>
        (tokens[k].kind = "TYPENAME" <=>
            /\ asker = "parser"
            /\ \E n \in 1 .. k - 4 : \E j \in n + 3 .. k - 1 :
                /\ tokens[n].kind = "keyword" /\ tokens[n].image = Typedef
                /\ tokens[n + 1].kind \in {"keyword", "TYPENAME"}
                /\ tokens[j - 1].kind = "IDENTIFIER" /\ tokens[j - 1].image = tokens[k].image
                /\ tokens[j].kind = "other" /\ tokens[j].image = <<";">>
                /\ \A i \in n + 1 .. j - 1 : tokens[i].image # <<";">>)

\* What digits are worth in C, whatever suffix follows: the last k characters come to
\* value[k][1], and a digit before them counts value[k][2] times.
Worth(digits, base) ==
    LET value[k \in 0 .. Len(digits)] ==
            IF k = 0 THEN <<0, 1>>
            ELSE LET c == digits[Len(digits) + 1 - k]
                     v == value[k - 1]
                 IN  IF c \in {"U", "L"} THEN v ELSE <<v[1] + Weight[c] * v[2], v[2] * base>>
    IN  value[Len(digits)][1]

\* The value of an INTEGER token in C: every digit by its weight, in the base of its
\* prefix, without the suffix.
Hexadecimal(image) == Len(image) >= 2 /\ image[1] = "0" /\ image[2] \in {"x", "X"}
Meaning(image) ==
    IF Hexadecimal(image) THEN Worth(From(image, 3), 16)
    ELSE IF image[1] = "0" THEN Worth(image, 8) ELSE Worth(image, 10)

Integers_ == {t \in Range(tokens) : t.kind = "integer"}

\* The length of an array is read by integer_value: right in every base, and the
\* largest long where it does not fit (parser.y:583, lexer.l:161).
LengthsExact ==
    \A t \in Integers_ : IntegerValue(t.image) = Min({Meaning(t.image), LongMax})

\* The type of an integer, by the letters in it.
LetterType(image) ==
    IF Contains(image, "L") THEN IF Contains(image, "U") THEN "unsigned long" ELSE "long"
    ELSE IF Contains(image, "U") THEN "unsigned int" ELSE "int"

\* The value and type of an integer in an expression are those of integer_node:
\* right for decimal literals that fit; one that does not ends the parse, and a
\* literal with a prefix gets the value of the digits that stol can read
\* (parser.y:1024).
DecimalNodesExact ==
    \A t \in Integers_ : t.image[1] # "0" =>
        IntegerNode(t.image) =
            IF Meaning(t.image) > LongMax THEN Throw ELSE <<LetterType(t.image), Meaning(t.image)>>

\* Scanning comes to an end, with one exception: a dump of a text that ends in a
\* literal (may.cc:48, lexer.l:111).
ScanEnds ==
    <>[](status # "scanning" \/ (asker = "dump" /\ Last(Reading(text)) \in {"char", "string"}))

\* "--dump-tokens    dump tokens and quit." (may.cc:33)
DumpQuits == <>(status # "scanning")

\* An integer literal stands for its value in every base: test_cbc.sh:20 expects that
\* 0x11 is 17 and 021 is 17, as test/integer.cb prints them.
LiteralNodesExact ==
    \A t \in Integers_ : Meaning(t.image) <= LongMax => IntegerNode(t.image)[2] = Meaning(t.image)

\* An octal escape stands for its character: test_cbc.sh:33 expects that the string
\* "\101..." of test/string.cb prints "A...".
OctalEscapesRead ==
    \A t \in Range(tokens) :
        t.kind = "STRING" /\ SubSeq(text, t.at[1], t.at[2] - 1) = <<"\\", "1", "0", "1">>
            => t.image = <<"A">>
=============================================================================
