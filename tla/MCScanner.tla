----------------------------- MODULE MCScanner -----------------------------
(***************************************************************************)
(* Instances of Scanner for TLC: all short texts over the characters that  *)
(* one part of the language is written with, and sequences of whole words  *)
(* where typedefs matter.                                                  *)
(***************************************************************************)
EXTENDS Scanner

MCLetter == {"a", "d", "i", "o", "t", "x", "U", "L"}
MCKeywords == {<<"t">>, <<"i">>, <<"d", "o">>}   \* typedef, int, do
MCTypedef == <<"t">>

Concat(words) == FoldLeft(LAMBDA s, w : s \o w, <<>>, words)
Spaced(words) == Concat([i \in DOMAIN words |-> words[i] \o <<" ">>])

QuoteTexts == SeqOf({"'", "\"", "\\", "a"}, 5)
CommentTexts == SeqOf({"/", "*", "\n", "a"}, 5)
MixedTexts == SeqOf({"/", "*", "\"", "'", "\n"}, 4) \cup SeqOf({"'", "a", HighByte}, 3)
NulTexts == SeqOf({"\"", "'", "\n", "a", Nul}, 4)
    \cup {<<"/", "*">> \o s : s \in SeqOf({"*", "/", "\n", Nul}, 4)}
WordTexts == SeqOf({"d", "o", "1", "+", "="}, 3)

\* For the parser: int a = <text>;
Variable(s) == Concat(<<<<"i", " ", "a", "=">>, s, <<";">>>>)
NumberTexts == {Variable(<<c>> \o s) :
    c \in {"0", "1"}, s \in SeqOf({"0", "1", "9", "x", "a", "U", "L"}, 3)}
LiteralTexts == {Variable(s) :
    s \in SeqOf({"'", "\"", "\\", "a", HighByte}, 3) \cup SeqOf({"'", "\"", "\n", Nul}, 3)}

\* Octal and other escapes in one string.
EscapeTexts == {Variable(Concat(<<<<"\"">>, a, b, <<"\"">>>>)) :
    a, b \in {<<>>, <<"a">>, <<"\\", "1", "0", "1">>, <<"\\", "0">>, <<"\\", "1">>, <<"\\", "n">>, <<"\\", "\\">>}}

\* typedef int <name>; typedef <type> <name>; <word> <word>, as the grammar has it:
\* a typedef does not name a type again.
TypedefTexts == {Spaced(<<<<"t">>, <<"i">>, n[1], <<";">>, <<"t">>, n[2], n[3], <<";">>, n[4], n[5]>>) :
    n \in {n \in [1 .. 5 -> {<<"i">>, <<"x">>, <<"a">>}] :
            n[1] # <<"i">> /\ n[2] \in {<<"i">>, n[1]} /\ n[3] \notin {<<"i">>, n[1]}}}

MCDumped == QuoteTexts \cup CommentTexts \cup MixedTexts \cup NulTexts \cup WordTexts
MCParsed == NumberTexts \cup LiteralTexts \cup EscapeTexts \cup TypedefTexts
=============================================================================
