------------------------------ MODULE Literals ------------------------------
(***************************************************************************)
(* The values of literals: the functions at the end of parser/lexer.l, and *)
(* integer_node and the primary rule of parser/parser.y.                   *)
(*                                                                         *)
(* A text is a sequence of characters, each a string of length one; the    *)
(* characters that only an escape can write have names.                    *)
(***************************************************************************)
EXTENDS Integers, SequencesExt

CONSTANT LongMax   \* the largest value of a long

ASSUME LongAssumption == LongMax \in Nat

\* An exception leaves the function instead of a value.
Throw == <<"throw">>

DecimalDigits == <<"0", "1", "2", "3", "4", "5", "6", "7", "8", "9">>
LowerHex == DecimalDigits \o <<"a", "b", "c", "d", "e", "f">>
UpperHex == DecimalDigits \o <<"A", "B", "C", "D", "E", "F">>
Digit == ToSet(DecimalDigits)
HexDigit == ToSet(LowerHex) \cup ToSet(UpperHex)

\* What a digit is worth.
Weight == [c \in HexDigit |->
    (CHOOSE i \in 1 .. 16 : LowerHex[i] = c \/ UpperHex[i] = c) - 1]

\* How many characters at the beginning of s are digits of the base.
Leading(s, base) ==
    CHOOSE n \in 0 .. Len(s) :
        /\ \A i \in 1 .. n : s[i] \in HexDigit /\ Weight[s[i]] < base
        /\ n < Len(s) => s[n + 1] \notin HexDigit \/ Weight[s[n + 1]] >= base

\* The number that s begins with; 0 if it begins with none.
Number(s, base) ==
    LET value[i \in 0 .. Leading(s, base)] ==
            IF i = 0 THEN 0 ELSE value[i - 1] * base + Weight[s[i]]
    IN  value[Leading(s, base)]

\* strtol stops at the largest long, stol throws out_of_range.
Strtol(s, base) == IF Number(s, base) > LongMax THEN LongMax ELSE Number(s, base)

From(s, i) == SubSeq(s, i, Len(s))

\* The base of a literal is in its first characters.  (A slip: an octal literal is
\* read in base 10.)
IntegerValueDecimal(image) ==
    IF Len(image) >= 2 /\ image[1] = "0" /\ image[2] \in {"x", "X"}
    THEN Strtol(From(image, 3), 16)
    ELSE Strtol(image, 10)
IntegerValue(image) ==
    IF Len(image) >= 2 /\ image[1] = "0"
    THEN IF image[2] \in {"x", "X"} THEN Strtol(From(image, 3), 16)
                                    ELSE Strtol(Tail(image), 8)
    ELSE Strtol(image, 10)

\* The type that the suffix asks for.  (A slip: "L" is tried before "UL".)
SuffixTypeShort(image) ==
    IF IsSuffix(<<"L">>, image) THEN "long"
    ELSE IF IsSuffix(<<"U">>, image) THEN "unsigned int" ELSE "int"
SuffixType(image) ==
    IF IsSuffix(<<"U", "L">>, image) THEN "unsigned long"
    ELSE IF IsSuffix(<<"L">>, image) THEN "long"
    ELSE IF IsSuffix(<<"U">>, image) THEN "unsigned int" ELSE "int"

\* The literal node of an INTEGER token: its value is read by stol, in base 10.
IntegerNode(image) ==
    IF Number(image, 10) > LongMax THEN Throw
    ELSE <<SuffixType(image), Number(image, 10)>>

\* The byte that ends a string of C.
Nul == "NUL"

\* unescape_char: the quotes, and the characters that have no sign of their own.  (A
\* slip: the backslash is among the first, as it is in C.)
QuoteEscapesLikeC == [c \in {"\"", "'", "\\"} |-> c]
QuoteEscapes == [c \in {"\"", "'"} |-> c]
ControlEscapes == [c \in {"0", "a", "b", "e", "f", "n", "r", "t", "v"} |->
    CASE c = "0" -> Nul [] c = "a" -> "BEL" [] c = "b" -> "BS" [] c = "e" -> "ESC" [] c = "f" -> "FF"
      [] c = "n" -> "\n" [] c = "r" -> "CR" [] c = "t" -> "TAB" [] c = "v" -> "VT"]
Unescape == [c \in DOMAIN QuoteEscapes \cup DOMAIN ControlEscapes |->
    IF c \in DOMAIN QuoteEscapes THEN QuoteEscapes[c] ELSE ControlEscapes[c]]

\* A number as an output stream writes it.
DecimalText[n \in Nat] ==
    IF n < 10 THEN <<DecimalDigits[n + 1]>>
    ELSE DecimalText[n \div 10] \o <<DecimalDigits[(n % 10) + 1]>>

\* A backslash with three digits after it.
OctalAt(s, i) == i + 3 <= Len(s) /\ \A k \in 1 .. 3 : s[i + k] \in Digit

\* What string_value returns for the text between the quotes.  For an octal escape
\* it writes out, in decimal, the number that integer_value reads; as integer_value
\* is given the backslash too, it reads none.
StringValue(s) ==
    LET Then(a, b) == IF b = Throw THEN Throw ELSE a \o b
        value[i \in 1 .. Len(s) + 1] ==
            IF i > Len(s) THEN <<>>
            ELSE IF s[i] # "\\" THEN Then(<<s[i]>>, value[i + 1])
            ELSE IF OctalAt(s, i)
                 THEN Then(DecimalText[IntegerValue(SubSeq(s, i, i + 3))], value[i + 4])
            ELSE IF i = Len(s) \/ s[i + 1] \notin DOMAIN Unescape THEN Throw
            ELSE Then(<<Unescape[s[i + 1]]>>, value[i + 2])
    IN  value[1]

\* The value of a CHARACTER token: character_code reads the image, from which the
\* scanner has already taken the escapes, once more.
CharacterCode(image) ==
    LET s == StringValue(image)
    IN  IF s = Throw \/ Len(s) # 1 THEN Throw ELSE s
=============================================================================
