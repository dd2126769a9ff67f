--------------------------- MODULE ScannerProofs ---------------------------
(***************************************************************************)
(* Proofs about Scanner, for every text.                                   *)
(***************************************************************************)
EXTENDS Scanner, InductionLemmas, FiniteSetTheorems, SequenceTheorems

Text == Seq(STRING)

LEMMA EscapesFrom ==
    ASSUME NEW s \in Text
    PROVE  /\ Escapes(s) \in [0 .. Len(s) -> BOOLEAN]
           /\ ~Escapes(s)[0]
           /\ \A i \in 1 .. Len(s) : Escapes(s)[i] <=> s[i] = "\\" /\ ~Escapes(s)[i - 1]
<1> DEFINE N == Len(s)
           Rec(f) == f = [i \in 0 .. N |-> i > 0 /\ s[i] = "\\" /\ ~f[i - 1]]
           G == [p \in BOOLEAN \X (1 .. N) |-> s[p[2]] = "\\" /\ ~p[1]]
<1>1. N \in Nat
  BY DEF Text
<1>2. \E f \in [0 .. N -> BOOLEAN] : Rec(f)
  <2>1. G \in [BOOLEAN \X (1 .. N) -> BOOLEAN]
    OBVIOUS
  <2>2. PICK f \in [0 .. N -> BOOLEAN] : Computes(f, N, FALSE, G)
    <3> HIDE DEF G
    <3>1. QED  BY <1>1, <2>1, Recursion
  <2>3. ASSUME NEW i \in 0 .. N
        PROVE  f[i] = (i > 0 /\ s[i] = "\\" /\ ~f[i - 1])
    <3>1. CASE i = 0
      BY <2>2, <3>1 DEF Computes
    <3>2. CASE i > 0
      <4>0. i \in 1 .. N
        BY <1>1, <3>2
      <4>1. f[i] = G[<<f[i - 1], i>>]
        <5> HIDE DEF G
        <5>1. QED  BY <2>2, <4>0 DEF Computes
      <4>2. i \in 1 .. N /\ f[i - 1] \in BOOLEAN
        BY <1>1, <3>2
      <4>3. QED  BY <3>2, <4>1, <4>2
    <3>3. QED  BY <1>1, <3>1, <3>2
  <2>4. Rec(f)
    BY <2>3
  <2>5. QED  BY <2>4
<1>3. Escapes(s) = CHOOSE f : Rec(f)
  BY DEF Escapes
<1>4. Rec(Escapes(s))
  <2> HIDE DEF Rec
  <2>1. QED  BY <1>2, <1>3, Zenon
<1> DEFINE E == Escapes(s)
<1>5. E = [i \in 0 .. N |-> i > 0 /\ s[i] = "\\" /\ ~E[i - 1]]
  BY <1>4
<1> HIDE DEF E
<1>6. E \in [0 .. N -> BOOLEAN]
  BY <1>5
<1>7. \A i \in 0 .. N : E[i] <=> i > 0 /\ s[i] = "\\" /\ ~E[i - 1]
  BY <1>5
<1>8. ~E[0]
  <2>1. 0 \in 0 .. N /\ ~(0 > 0)
    BY <1>1
  <2>2. QED  BY <1>7, <2>1
<1>9. \A i \in 1 .. N : E[i] <=> s[i] = "\\" /\ ~E[i - 1]
  BY <1>1, <1>7
<1>10. QED  BY <1>6, <1>8, <1>9 DEF E

-----------------------------------------------------------------------------
Modes == {"code", "comment", "line", "char", "string"}
UnitSet == [mark : Modes, then : Modes, two : BOOLEAN]
Begin == [mark |-> "code", then |-> "code", two |-> FALSE]

\* The character after the i-th.
After(s, i) == IF i < Len(s) THEN s[i + 1] ELSE ""

LEMMA FollowType ==
    ASSUME NEW u \in UnitSet, NEW c, NEW d
    PROVE  Follow(u, c, d) \in UnitSet
<1>1. u.then \in Modes /\ u.two \in BOOLEAN
  BY DEF UnitSet
<1>2. Unit(u.then, c, d) \in UnitSet
  BY <1>1 DEF Unit, UnitSet, Modes
<1>3. [u EXCEPT !.two = FALSE] \in UnitSet
  BY DEF UnitSet
<1>4. QED  BY <1>1, <1>2, <1>3 DEF Follow

LEMMA UnitsFrom ==
    ASSUME NEW s \in Text
    PROVE  /\ Units(s) \in [0 .. Len(s) -> UnitSet]
           /\ Units(s)[0] = Begin
           /\ \A i \in 1 .. Len(s) : Units(s)[i] = Follow(Units(s)[i - 1], s[i], After(s, i))
<1> DEFINE N == Len(s)
           At(f, i) == IF i = 0 THEN Begin
                       ELSE Follow(f[i - 1], s[i], IF i < Len(s) THEN s[i + 1] ELSE "")
           Rec(f) == f = [i \in 0 .. N |-> At(f, i)]
           G == [p \in UnitSet \X (1 .. N) |-> Follow(p[1], s[p[2]], After(s, p[2]))]
<1>1. N \in Nat
  BY DEF Text
<1>2. \E f \in [0 .. N -> UnitSet] : Rec(f)
  <2>1. G \in [UnitSet \X (1 .. N) -> UnitSet]
    BY FollowType
  <2>2. Begin \in UnitSet
    BY DEF Begin, UnitSet, Modes
  <2>3. PICK f \in [0 .. N -> UnitSet] : Computes(f, N, Begin, G)
    <3> HIDE DEF G
    <3>1. QED  BY <1>1, <2>1, <2>2, Recursion
  <2>4. ASSUME NEW i \in 0 .. N PROVE f[i] = At(f, i)
    <3>1. CASE i = 0
      BY <2>3, <3>1 DEF Computes
    <3>2. CASE i > 0
      <4>0. i \in 1 .. N
        BY <1>1, <3>2
      <4>1. f[i] = G[<<f[i - 1], i>>]
        <5> HIDE DEF G
        <5>1. QED  BY <2>3, <4>0 DEF Computes
      <4>2. i \in 1 .. N /\ f[i - 1] \in UnitSet
        BY <1>1, <3>2
      <4>3. G[<<f[i - 1], i>>] = Follow(f[i - 1], s[i], After(s, i))
        BY <4>2
      <4>4. i # 0
        BY <3>2
      <4>5. QED  BY <4>1, <4>3, <4>4, Zenon DEF After
    <3>3. i = 0 \/ i > 0
      <4> HIDE DEF At
      <4>1. QED  BY <1>1
    <3>4. QED  BY <3>1, <3>2, <3>3, Zenon
  <2>5. Rec(f)
    BY <2>4
  <2>6. QED  BY <2>5
<1>3. Units(s) = CHOOSE f : Rec(f)
  BY DEF Units, Begin
<1>4. Rec(Units(s))
  <2> HIDE DEF Rec
  <2>1. QED  BY <1>2, <1>3, Zenon
<1> DEFINE E == Units(s)
<1>5. E = [i \in 0 .. N |-> At(E, i)]
  BY <1>4
<1> HIDE DEF E, At
<1>6. \A i \in 0 .. N : E[i] = At(E, i)
  BY <1>5
<1>7. E[0] = Begin
  <2>1. 0 \in 0 .. N
    BY <1>1
  <2>2. At(E, 0) = Begin
    BY Zenon DEF At
  <2>3. QED  BY <1>6, <2>1, <2>2, Zenon
<1>8. \A i \in 1 .. N : E[i] = Follow(E[i - 1], s[i], After(s, i))
  <2>1. \A i \in 1 .. N : i \in 0 .. N /\ i # 0
    BY <1>1
  <2>2. \A i : i # 0 => At(E, i) = Follow(E[i - 1], s[i], After(s, i))
    BY Zenon DEF At, After
  <2>3. QED  BY <1>6, <2>1, <2>2, Zenon
<1>9. \A i \in 0 .. N : E[i] \in UnitSet
  <2> DEFINE S == {i \in Nat : i <= N => E[i] \in UnitSet}
  <2>1. 0 \in S
    <3>1. Begin \in UnitSet
      BY DEF Begin, UnitSet, Modes
    <3>2. QED  BY <1>7, <3>1
  <2>2. ASSUME NEW i \in Nat, i \in S PROVE i + 1 \in S
    <3>1. SUFFICES ASSUME i + 1 <= N PROVE E[i + 1] \in UnitSet
      OBVIOUS
    <3>2. E[i] \in UnitSet
      BY <1>1, <2>2, <3>1
    <3>3. i + 1 \in 1 .. N /\ (i + 1) - 1 = i
      BY <1>1, <3>1
    <3>4. E[i + 1] = Follow(E[i], s[i + 1], After(s, i + 1))
      BY <1>8, <3>3
    <3>5. QED  BY <3>2, <3>4, FollowType
  <2>3. Nat \subseteq S
    <3> HIDE DEF S
    <3>1. QED  BY <2>1, <2>2, Induct
  <2>4. QED  BY <1>1, <2>3
<1>10. E \in [0 .. N -> UnitSet]
  BY <1>5, <1>9
<1>11. QED  BY <1>7, <1>8, <1>10 DEF E

LEMMA UnitType ==
    ASSUME NEW s \in Text, NEW i \in 0 .. Len(s)
    PROVE  /\ Units(s)[i].mark \in Modes /\ Units(s)[i].then \in Modes
           /\ Units(s)[i].two \in BOOLEAN
<1>1. Units(s)[i] \in UnitSet
  BY UnitsFrom
<1>2. QED  BY <1>1 DEF UnitSet

\* Nothing is begun that takes more than one character.
Plain(s, i) ==
    /\ s[i] \notin {"'", "\""}
    /\ s[i] = "/" => After(s, i) \notin {"/", "*"}

\* In the code, or after a line comment that the end of the line ends.
InCode(s, p) ==
    /\ ~Units(s)[p].two
    /\ \/ Units(s)[p].then = "code"
       \/ Units(s)[p].then = "line" /\ (p < Len(s) => s[p + 1] = "\n")

MarkOf(m, then, two) == [mark |-> m, then |-> then, two |-> two]

LEMMA UnitOfCode ==
    ASSUME NEW c, NEW d
    PROVE  /\ c \notin {"'", "\""} /\ (c = "/" => d \notin {"/", "*"})
                => Unit("code", c, d) = MarkOf("code", "code", FALSE)
           /\ Unit("code", "/", "*") = MarkOf("comment", "comment", TRUE)
           /\ Unit("code", "/", "/") = MarkOf("line", "line", TRUE)
           /\ Unit("code", "'", d) = MarkOf("char", "char", FALSE)
           /\ Unit("code", "\"", d) = MarkOf("string", "string", FALSE)
BY DEF Unit, MarkOf

LEMMA UnitElsewhere ==
    ASSUME NEW c, NEW d
    PROVE  /\ ~(c = "*" /\ d = "/") =>
                Unit("comment", c, d) = MarkOf("comment", "comment", FALSE)
           /\ Unit("comment", "*", "/") = MarkOf("comment", "code", TRUE)
           /\ c # "\n" => Unit("line", c, d) = MarkOf("line", "line", FALSE)
           /\ Unit("line", "\n", d) = MarkOf("code", "code", FALSE)
           /\ Unit("char", "\\", d) = MarkOf("char", "char", TRUE)
           /\ Unit("char", "'", d) = MarkOf("char", "code", FALSE)
           /\ c \notin {"\\", "'"} => Unit("char", c, d) = MarkOf("char", "char", FALSE)
           /\ Unit("string", "\\", d) = MarkOf("string", "string", TRUE)
           /\ Unit("string", "\"", d) = MarkOf("string", "code", FALSE)
           /\ c \notin {"\\", "\""} => Unit("string", c, d) = MarkOf("string", "string", FALSE)
BY DEF Unit, MarkOf

\* A mode, and nothing begun.
InMode(s, p, m) == ~Units(s)[p].two /\ Units(s)[p].then = m

LEMMA FirstOfUnit ==
    ASSUME NEW s \in Text, NEW i \in 1 .. Len(s), ~Units(s)[i - 1].two
    PROVE  Units(s)[i] = Unit(Units(s)[i - 1].then, s[i], After(s, i))
<1>1. Units(s)[i] = Follow(Units(s)[i - 1], s[i], After(s, i))
  BY UnitsFrom
<1>2. QED  BY <1>1 DEF Follow

LEMMA SecondOfUnit ==
    ASSUME NEW s \in Text, NEW i \in 1 .. Len(s), Units(s)[i - 1].two
    PROVE  /\ Units(s)[i].mark = Units(s)[i - 1].mark
           /\ Units(s)[i].then = Units(s)[i - 1].then
           /\ ~Units(s)[i].two
<1> DEFINE u == Units(s)[i - 1]
           v == [u EXCEPT !.two = FALSE]
<1>1. u \in UnitSet
  <2>1. i - 1 \in 0 .. Len(s)
    BY DEF Text
  <2>2. QED  BY <2>1, UnitsFrom
<1>2. Units(s)[i] = Follow(u, s[i], After(s, i))
  BY UnitsFrom
<1> HIDE DEF u
<1>3. v.mark = u.mark /\ v.then = u.then /\ ~v.two
  BY <1>1 DEF UnitSet
<1>4. Units(s)[i] = v
  <2>1. u.two
    BY DEF u
  <2>2. QED  BY <1>2, <2>1, Zenon DEF Follow
<1> HIDE DEF v
<1>5. QED  BY <1>3, <1>4 DEF u

LEMMA OneStep ==
    ASSUME NEW s \in Text, NEW i \in 1 .. Len(s), NEW m, InMode(s, i - 1, m),
           NEW k, NEW t, Unit(m, s[i], After(s, i)) = MarkOf(k, t, FALSE)
    PROVE  Units(s)[i].mark = k /\ InMode(s, i, t)
<1>1. Units(s)[i] = MarkOf(k, t, FALSE)
  BY FirstOfUnit DEF InMode
<1>2. QED  BY <1>1 DEF MarkOf, InMode

LEMMA TwoSteps ==
    ASSUME NEW s \in Text, NEW i \in 1 .. Len(s) - 1, NEW m, InMode(s, i - 1, m),
           NEW k, NEW t, Unit(m, s[i], s[i + 1]) = MarkOf(k, t, TRUE)
    PROVE  /\ Units(s)[i].mark = k /\ Units(s)[i + 1].mark = k
           /\ InMode(s, i + 1, t)
<1>1. /\ i \in 1 .. Len(s) /\ i + 1 \in 1 .. Len(s) /\ (i + 1) - 1 = i
      /\ After(s, i) = s[i + 1]
  <2>1. Len(s) \in Nat
    BY DEF Text
  <2>2. i < Len(s) /\ i \in 1 .. Len(s) /\ i + 1 \in 1 .. Len(s) /\ (i + 1) - 1 = i
    BY <2>1
  <2>3. QED  BY <2>2 DEF After
<1>2. Units(s)[i] = MarkOf(k, t, TRUE)
  BY <1>1, FirstOfUnit DEF InMode
<1>3. Units(s)[i].mark = k /\ Units(s)[i].then = t /\ Units(s)[i].two
  BY <1>2 DEF MarkOf
<1>4. Units(s)[(i + 1) - 1].two
  BY <1>1, <1>3
<1>5. /\ Units(s)[i + 1].mark = Units(s)[(i + 1) - 1].mark
      /\ Units(s)[i + 1].then = Units(s)[(i + 1) - 1].then
      /\ ~Units(s)[i + 1].two
  BY <1>1, <1>4, SecondOfUnit
<1>6. QED  BY <1>1, <1>3, <1>5 DEF InMode

LEMMA PlainReading ==
    ASSUME NEW s \in Text, NEW p \in 0 .. Len(s), NEW n \in 1 .. Len(s) - p,
           InCode(s, p), \A i \in p + 1 .. p + n : Plain(s, i)
    PROVE  /\ \A i \in p + 1 .. p + n : Units(s)[i].mark = "code"
           /\ InMode(s, p + n, "code")
<1> DEFINE S == {i \in p + 1 .. p + n : Units(s)[i].mark = "code" /\ InMode(s, i, "code")}
<1>1. Len(s) \in Nat
  BY DEF Text
<1>2. p + 1 \in S
  <2>1. p + 1 \in 1 .. Len(s) /\ p + 1 \in p + 1 .. p + n /\ (p + 1) - 1 = p /\ p < Len(s)
    BY <1>1
  <2>2. \/ InMode(s, p, "code")
        \/ InMode(s, p, "line") /\ s[p + 1] = "\n"
    BY <2>1 DEF InCode, InMode
  <2>3. Plain(s, p + 1)
    BY <2>1
  <2>4. CASE InMode(s, p, "code")
    <3>1. Unit("code", s[p + 1], After(s, p + 1)) = MarkOf("code", "code", FALSE)
      BY <2>3, UnitOfCode DEF Plain
    <3>2. QED  BY <2>1, <2>4, <3>1, OneStep
  <2>5. CASE InMode(s, p, "line") /\ s[p + 1] = "\n"
    <3>1. Unit("line", s[p + 1], After(s, p + 1)) = MarkOf("code", "code", FALSE)
      BY <2>5, UnitElsewhere
    <3>2. QED  BY <2>1, <2>5, <3>1, OneStep
  <2>6. QED  BY <2>2, <2>4, <2>5
<1>3. ASSUME NEW i \in p + 1 .. (p + n) - 1, i \in S PROVE i + 1 \in S
  <2>1. i + 1 \in 1 .. Len(s) /\ i + 1 \in p + 1 .. p + n /\ (i + 1) - 1 = i
    BY <1>1
  <2>2. Unit("code", s[i + 1], After(s, i + 1)) = MarkOf("code", "code", FALSE)
    BY <2>1, UnitOfCode DEF Plain
  <2>3. InMode(s, (i + 1) - 1, "code")
    BY <1>3, <2>1
  <2>4. Units(s)[i + 1].mark = "code" /\ InMode(s, i + 1, "code")
    BY <2>1, <2>2, <2>3, OneStep
  <2>5. QED  BY <2>1, <2>4
<1>4. p + 1 .. p + n \subseteq S
  <2> HIDE DEF S
  <2>1. QED  BY <1>1, <1>2, <1>3, InductUpTo
<1>5. p + n \in p + 1 .. p + n
  BY <1>1
<1>6. QED  BY <1>4, <1>5

\* Within a comment, or in a line comment.
LEMMA StayingReading ==
    ASSUME NEW s \in Text, NEW p \in 0 .. Len(s), NEW n \in 0 .. Len(s) - p,
           NEW m, InMode(s, p, m),
           \A i \in p + 1 .. p + n : Unit(m, s[i], After(s, i)) = MarkOf(m, m, FALSE)
    PROVE  /\ \A i \in p + 1 .. p + n : Units(s)[i].mark = m
           /\ InMode(s, p + n, m)
<1> DEFINE S == {i \in p .. p + n : (i > p => Units(s)[i].mark = m) /\ InMode(s, i, m)}
<1>1. Len(s) \in Nat
  BY DEF Text
<1>2. p \in S
  BY <1>1
<1>3. ASSUME NEW i \in p .. (p + n) - 1, i \in S PROVE i + 1 \in S
  <2>1. i + 1 \in 1 .. Len(s) /\ i + 1 \in p + 1 .. p + n /\ (i + 1) - 1 = i
    BY <1>1
  <2>2. InMode(s, (i + 1) - 1, m)
    BY <1>3, <2>1
  <2>3. Units(s)[i + 1].mark = m /\ InMode(s, i + 1, m)
    BY <2>1, <2>2, OneStep
  <2>4. i + 1 \in p .. p + n
    BY <2>1
  <2>5. QED  BY <2>3, <2>4
<1>4. p .. p + n \subseteq S
  <2> HIDE DEF S
  <2>1. QED  BY <1>1, <1>2, <1>3, InductUpTo
<1>5. \A i \in p + 1 .. p + n : i \in p .. p + n /\ i > p
  BY <1>1
<1>6. p + n \in p .. p + n
  BY <1>1
<1>7. QED  BY <1>4, <1>5, <1>6

LEMMA EscapesOfPrefix ==
    ASSUME NEW s \in Text, NEW t \in Text, Len(s) <= Len(t),
           \A i \in 1 .. Len(s) : s[i] = t[i]
    PROVE  \A i \in 0 .. Len(s) : Escapes(s)[i] <=> Escapes(t)[i]
<1> DEFINE S == {i \in 0 .. Len(s) : Escapes(s)[i] <=> Escapes(t)[i]}
<1>1. Len(s) \in Nat /\ Len(t) \in Nat
  BY DEF Text
<1>2. 0 \in S
  BY <1>1, EscapesFrom
<1>3. ASSUME NEW i \in 0 .. Len(s) - 1, i \in S PROVE i + 1 \in S
  <2>1. i + 1 \in 1 .. Len(s) /\ i + 1 \in 1 .. Len(t) /\ (i + 1) - 1 = i
    BY <1>1
  <2>2. Escapes(s)[i + 1] <=> s[i + 1] = "\\" /\ ~Escapes(s)[(i + 1) - 1]
    BY <2>1, EscapesFrom
  <2>3. Escapes(t)[i + 1] <=> t[i + 1] = "\\" /\ ~Escapes(t)[(i + 1) - 1]
    BY <2>1, EscapesFrom
  <2>4. s[i + 1] = t[i + 1] /\ i + 1 \in 0 .. Len(s)
    BY <2>1
  <2>5. Escapes(s)[i] <=> Escapes(t)[i]
    BY <1>3
  <2>6. QED  BY <2>1, <2>2, <2>3, <2>4, <2>5
<1>4. 0 .. Len(s) \subseteq S
  <2> HIDE DEF S
  <2>1. \A i \in 0 .. Len(s) - 1 : i \in S => i + 1 \in S
    BY <1>3
  <2>2. 0 \in Int /\ Len(s) \in Int /\ (0 <= Len(s) => 0 \in S)
    BY <1>1, <1>2
  <2>3. QED  BY <2>1, <2>2, InductUpTo, Zenon
<1>5. QED  BY <1>4

Quoted(m, quote) == (m = "char" /\ quote = "'") \/ (m = "string" /\ quote = "\"")

LEMMA UnitInLiteral ==
    ASSUME NEW m, NEW quote, Quoted(m, quote), NEW c, NEW d
    PROVE  /\ c = "\\" => Unit(m, c, d) = MarkOf(m, m, TRUE)
           /\ c = quote => Unit(m, c, d) = MarkOf(m, "code", FALSE)
           /\ c \notin {"\\", quote} => Unit(m, c, d) = MarkOf(m, m, FALSE)
<1>1. CASE m = "char" /\ quote = "'"
  BY <1>1, UnitElsewhere
<1>2. CASE m = "string" /\ quote = "\""
  BY <1>2, UnitElsewhere
<1>3. QED  BY <1>1, <1>2 DEF Quoted

\* The rest of a literal, t, begins after p; its quote is n characters later.
LEMMA LiteralReading ==
    ASSUME NEW s \in Text, NEW p \in 0 .. Len(s), NEW n \in 1 .. Len(s) - p,
           NEW t \in Text, n <= Len(t), \A i \in 1 .. n : t[i] = s[p + i],
           NEW m, NEW quote, Quoted(m, quote), InMode(s, p, m),
           \A i \in 1 .. n - 1 : ~Unescaped(t, i, quote), Unescaped(t, n, quote)
    PROVE  /\ \A i \in p + 1 .. p + n : Units(s)[i].mark = m
           /\ InMode(s, p + n, "code")
<1> DEFINE U(i) == Units(s)[p + i]
           P(i) == /\ i > 0 => U(i).mark = m
                   /\ U(i).then = m
                   /\ U(i).two <=> Escapes(t)[i]
           S == {i \in 0 .. n - 1 : P(i)}
<1>1. Len(s) \in Nat /\ Len(t) \in Nat
  BY DEF Text
<1> DEFINE InLiteral(c, d) ==
             /\ c = "\\" => Unit(m, c, d) = MarkOf(m, m, TRUE)
             /\ c = quote => Unit(m, c, d) = MarkOf(m, "code", FALSE)
             /\ c \notin {"\\", quote} => Unit(m, c, d) = MarkOf(m, m, FALSE)
<1>0. \A c, d : InLiteral(c, d)
  BY UnitInLiteral
<1>2. P(0)
  <2>1. p + 0 = p /\ ~(0 > 0)
    BY <1>1
  <2>2. ~Escapes(t)[0]
    BY EscapesFrom
  <2>3. QED  BY <2>1, <2>2 DEF InMode
<1>3. ASSUME NEW i \in 0 .. (n - 1) - 1, P(i) PROVE P(i + 1)
  <2>1. /\ p + (i + 1) \in 1 .. Len(s) /\ (p + (i + 1)) - 1 = p + i
        /\ i + 1 \in 1 .. n - 1 /\ i + 1 \in 1 .. n /\ i + 1 \in 1 .. Len(t)
        /\ (i + 1) - 1 = i
    BY <1>1
  <2>2. Escapes(t)[i + 1] <=> t[i + 1] = "\\" /\ ~Escapes(t)[i]
    BY <2>1, EscapesFrom
  <2>3. CASE Escapes(t)[i]
    <3>1. Units(s)[(p + (i + 1)) - 1].two
      BY <1>3, <2>1, <2>3
    <3>2. U(i).mark = m \/ i = 0
      BY <1>3
    <3>3. i # 0
      BY <2>3, EscapesFrom
    <3>4. /\ U(i + 1).mark = Units(s)[(p + (i + 1)) - 1].mark
          /\ U(i + 1).then = Units(s)[(p + (i + 1)) - 1].then
          /\ ~U(i + 1).two
      BY <2>1, <3>1, SecondOfUnit
    <3>5. QED  BY <1>3, <2>1, <2>2, <2>3, <3>2, <3>3, <3>4
  <2>4. CASE ~Escapes(t)[i]
    <3> DEFINE d == After(s, p + (i + 1))
    <3>1. ~Units(s)[(p + (i + 1)) - 1].two
      BY <1>3, <2>1, <2>4
    <3>2. U(i + 1) = Unit(Units(s)[(p + (i + 1)) - 1].then, s[p + (i + 1)], d)
      BY <2>1, <3>1, FirstOfUnit
    <3>3. U(i + 1) = Unit(m, t[i + 1], d)
      BY <1>3, <2>1, <3>2
    <3>4. t[i + 1] # quote
      BY <2>1, <2>4 DEF Unescaped
    <3>5. \/ U(i + 1) = MarkOf(m, m, TRUE) /\ t[i + 1] = "\\"
          \/ U(i + 1) = MarkOf(m, m, FALSE) /\ t[i + 1] # "\\"
      <4>1. InLiteral(t[i + 1], d)
        BY <1>0
      <4> HIDE DEF d, U
      <4>2. QED  BY <3>3, <3>4, <4>1
    <3>6. QED  BY <2>2, <2>4, <3>5 DEF MarkOf
  <2>5. QED  BY <2>3, <2>4
<1>4. 0 .. n - 1 \subseteq S
  <2>1. ASSUME NEW i \in 0 .. (n - 1) - 1, i \in S PROVE i + 1 \in S
    <3>1. P(i) /\ i + 1 \in 0 .. n - 1
      BY <2>1
    <3>2. P(i + 1)
      <4> HIDE DEF P
      <4>1. QED  BY <1>3, <3>1
    <3>3. QED  BY <3>1, <3>2
  <2>2. 0 \in S
    <3> HIDE DEF P
    <3>1. QED  BY <1>2
  <2> HIDE DEF S
  <2>3. \A i \in 0 .. (n - 1) - 1 : i \in S => i + 1 \in S
    BY <2>1
  <2>4. 0 \in Int /\ n - 1 \in Int /\ (0 <= n - 1 => 0 \in S)
    BY <2>2
  <2>5. QED  BY <2>3, <2>4, InductUpTo, Zenon
<1>5. \A i \in 0 .. n - 1 : P(i)
  BY <1>4
<1> HIDE DEF S
<1>6. Units(s)[p + n].mark = m /\ InMode(s, p + n, "code")
  <2>1. /\ p + n \in 1 .. Len(s) /\ (p + n) - 1 = p + (n - 1) /\ n - 1 \in 0 .. n - 1
        /\ n \in 1 .. n
    BY <1>1
  <2>2. InMode(s, (p + n) - 1, m)
    BY <1>5, <2>1 DEF InMode, Unescaped
  <2>3. s[p + n] = quote
    BY <2>1 DEF Unescaped
  <2>4. Unit(m, s[p + n], After(s, p + n)) = MarkOf(m, "code", FALSE)
    <3>1. InLiteral(s[p + n], After(s, p + n))
      BY <1>0
    <3>2. QED  BY <2>3, <3>1
  <2>5. \A i \in 1 .. Len(s) :
            InMode(s, i - 1, m) /\ Unit(m, s[i], After(s, i)) = MarkOf(m, "code", FALSE)
                => Units(s)[i].mark = m /\ InMode(s, i, "code")
    BY OneStep
  <2>6. QED  BY <2>1, <2>2, <2>4, <2>5
<1>7. ASSUME NEW i \in p + 1 .. p + n PROVE Units(s)[i].mark = m
  <2>1. CASE i = p + n
    BY <1>6, <2>1
  <2>2. CASE i # p + n
    <3>1. i - p \in 0 .. n - 1 /\ i - p > 0 /\ p + (i - p) = i
      BY <1>1, <2>2
    <3>2. Units(s)[p + (i - p)].mark = m
      BY <1>5, <3>1
    <3>3. QED  BY <3>1, <3>2
  <2>3. QED  BY <2>1, <2>2
<1>8. QED  BY <1>6, <1>7
-----------------------------------------------------------------------------
\* Parts of a text, their lines and columns.

LEMMA PartIs ==
    ASSUME NEW s \in Text, NEW a \in 1 .. Len(s) + 1, NEW b \in a - 1 .. Len(s)
    PROVE  /\ SubSeq(s, a, b) \in Text
           /\ Len(SubSeq(s, a, b)) = b - a + 1
           /\ \A k \in 1 .. b - a + 1 : SubSeq(s, a, b)[k] = s[a + k - 1]
<1>1. Len(s) \in Nat
  BY DEF Text
<1>2. \A i \in a .. b : i \in 1 .. Len(s)
  BY <1>1
<1>3. \A i \in a .. b : s[i] \in STRING
  BY <1>2, ElementOfSeq DEF Text
<1>4. a \in Int /\ b \in Int
  BY <1>1
<1>5. /\ SubSeq(s, a, b) \in Seq(STRING)
      /\ Len(SubSeq(s, a, b)) = IF a <= b THEN b - a + 1 ELSE 0
      /\ \A i \in 1 .. b - a + 1 : SubSeq(s, a, b)[i] = s[a + i - 1]
  BY <1>3, <1>4, SubSeqProperties
<1>6. (IF a <= b THEN b - a + 1 ELSE 0) = b - a + 1
  BY <1>4
<1>7. QED  BY <1>5, <1>6 DEF Text

LEMMA PrefixIs ==
    ASSUME NEW S, NEW s \in Seq(S), NEW t \in Seq(S), Len(s) <= Len(t)
    PROVE  IsPrefix(s, t) <=> \A k \in 1 .. Len(s) : s[k] = t[k]
<1> DEFINE n == Len(s)
           a == SubSeq(s, 1, n)
           b == SubSeq(t, 1, n)
<1>1. n \in Nat /\ Len(t) \in Nat /\ n <= Len(t)
  OBVIOUS
<1>2. \A i \in 1 .. n : i \in 1 .. Len(s) /\ i \in 1 .. Len(t) /\ 1 + i - 1 = i
  BY <1>1
<1>3. \A i \in 1 .. n : s[i] \in S /\ t[i] \in S
  BY <1>2, ElementOfSeq
<1>4. (IF 1 <= n THEN n - 1 + 1 ELSE 0) = n /\ n - 1 + 1 = n /\ 1 \in Int /\ n \in Int
  BY <1>1
<1> HIDE DEF n
<1>5. a \in Seq(S) /\ Len(a) = n /\ \A i \in 1 .. n : a[i] = s[1 + i - 1]
  BY <1>3, <1>4, SubSeqProperties
<1>6. b \in Seq(S) /\ Len(b) = n /\ \A i \in 1 .. n : b[i] = t[1 + i - 1]
  BY <1>3, <1>4, SubSeqProperties
<1> HIDE DEF a, b
<1>7. /\ \A i \in 1 .. n : a[i] = s[i] /\ b[i] = t[i]
      /\ a \in Seq(S) /\ b \in Seq(S) /\ Len(a) = n /\ Len(b) = n
  BY <1>2, <1>5, <1>6
<1>8. a = b <=> \A k \in 1 .. n : s[k] = t[k]
  <2>1. ASSUME \A k \in 1 .. n : s[k] = t[k] PROVE a = b
    BY <1>7, <2>1, SeqEqual
  <2>2. ASSUME a = b PROVE \A k \in 1 .. n : s[k] = t[k]
    BY <1>7, <2>2
  <2>3. QED  BY <2>1, <2>2
<1>9. QED  BY <1>1, <1>8 DEF IsPrefix, n, a, b

\* Two slashes, or anything else of two characters.
LEMMA PrefixOfTwo ==
    ASSUME NEW s \in Text, NEW c, Len(s) >= 2
    PROVE  IsPrefix(<<c, c>>, s) <=> s[1] = c /\ s[2] = c
<1> DEFINE t == <<c, c>>
           S == STRING \cup {c}
<1>1. s \in Seq(S)
  BY DEF Text
<1>2. t \in Seq(S) /\ Len(t) = 2 /\ t[1] = c /\ t[2] = c
  OBVIOUS
<1> HIDE DEF t, S
<1>3. \A k \in 1 .. 2 : k = 1 \/ k = 2
  OBVIOUS
<1>4. IsPrefix(t, s) <=> \A k \in 1 .. 2 : t[k] = s[k]
  BY <1>1, <1>2, PrefixIs
<1>5. QED  BY <1>2, <1>3, <1>4 DEF t

LEMMA NewlinesType ==
    ASSUME NEW s \in Text
    PROVE  Newlines(s) \in 0 .. Len(s)
<1>1. Len(s) \in Nat /\ DOMAIN s = 1 .. Len(s)
  BY LenProperties DEF Text
<1>2. IsFiniteSet(1 .. Len(s)) /\ Cardinality(1 .. Len(s)) = Len(s)
  <2>1. /\ IsFiniteSet(1 .. Len(s))
        /\ Cardinality(1 .. Len(s)) = IF 1 > Len(s) THEN 0 ELSE Len(s) - 1 + 1
    BY <1>1, FS_Interval
  <2>2. (IF 1 > Len(s) THEN 0 ELSE Len(s) - 1 + 1) = Len(s)
    BY <1>1
  <2>3. QED  BY <2>1, <2>2
<1> DEFINE T == {i \in DOMAIN s : s[i] = "\n"}
<1>3. T \in SUBSET (1 .. Len(s))
  BY <1>1
<1> HIDE DEF T
<1>4. Cardinality(T) \in Nat /\ Cardinality(T) <= Len(s)
  BY <1>2, <1>3, FS_Subset, FS_CardinalityType
<1>5. QED  BY <1>1, <1>4 DEF Newlines, T

LEMMA NewlinesMore ==
    ASSUME NEW a \in Text, NEW b \in Text, Len(b) = Len(a) + 1,
           \A i \in 1 .. Len(a) : b[i] = a[i]
    PROVE  Newlines(b) = IF b[Len(b)] = "\n" THEN Newlines(a) + 1 ELSE Newlines(a)
<1> DEFINE A == {i \in DOMAIN a : a[i] = "\n"}
           B == {i \in DOMAIN b : b[i] = "\n"}
           n == Len(b)
<1>1. /\ Len(a) \in Nat /\ DOMAIN a = 1 .. Len(a) /\ DOMAIN b = 1 .. Len(a) + 1
      /\ n = Len(a) + 1
  BY LenProperties DEF Text
<1>2. IsFiniteSet(A)
  <2>1. IsFiniteSet(1 .. Len(a))
    BY <1>1, FS_Interval
  <2>2. A \in SUBSET (1 .. Len(a))
    BY <1>1
  <2> HIDE DEF A
  <2>3. QED  BY <2>1, <2>2, FS_Subset
<1>3. n \notin A
  BY <1>1
<1>4. IF b[n] = "\n" THEN B = A \cup {n} ELSE B = A
  BY <1>1
<1> HIDE DEF A, B, n
<1>5. Cardinality(A \cup {n}) = Cardinality(A) + 1
  BY <1>2, <1>3, FS_AddElement
<1>6. Cardinality(B) = IF b[n] = "\n" THEN Cardinality(A) + 1 ELSE Cardinality(A)
  BY <1>4, <1>5
<1>7. QED  BY <1>6 DEF Newlines, A, B, n

LEMMA NewlinesOfParts ==
    ASSUME NEW s \in Text, NEW p \in 0 .. Len(s), NEW n \in 0 .. Len(s) - p
    PROVE  Newlines(SubSeq(s, 1, p + n)) =
               Newlines(SubSeq(s, 1, p)) + Newlines(SubSeq(s, p + 1, p + n))
<1> DEFINE F(j) == SubSeq(s, 1, p + j)
           G(j) == SubSeq(s, p + 1, p + j)
           P(j) == Newlines(F(j)) = Newlines(SubSeq(s, 1, p)) + Newlines(G(j))
           S == {j \in 0 .. n : P(j)}
<1>1. Len(s) \in Nat
  BY DEF Text
<1>2. ASSUME NEW j \in 0 .. n
      PROVE  /\ F(j) \in Text /\ Len(F(j)) = p + j
             /\ \A k \in 1 .. p + j : F(j)[k] = s[k]
             /\ G(j) \in Text /\ Len(G(j)) = j
             /\ \A k \in 1 .. j : G(j)[k] = s[p + k]
  <2>1. /\ 1 \in 1 .. Len(s) + 1 /\ p + 1 \in 1 .. Len(s) + 1
        /\ p + j \in 1 - 1 .. Len(s) /\ p + j \in (p + 1) - 1 .. Len(s)
        /\ (p + j) - 1 + 1 = p + j /\ (p + j) - (p + 1) + 1 = j
    BY <1>1
  <2>2. /\ F(j) \in Text /\ Len(F(j)) = p + j
        /\ \A k \in 1 .. p + j : F(j)[k] = s[1 + k - 1]
    BY <2>1, PartIs
  <2>3. /\ G(j) \in Text /\ Len(G(j)) = j
        /\ \A k \in 1 .. j : G(j)[k] = s[p + 1 + k - 1]
    BY <2>1, PartIs
  <2>4. \A k \in 1 .. p + j : 1 + k - 1 = k
    BY <1>1
  <2>5. \A k \in 1 .. j : p + 1 + k - 1 = p + k
    BY <1>1
  <2> HIDE DEF F, G
  <2>6. QED  BY <2>2, <2>3, <2>4, <2>5
<1>3. P(0)
  <2>1. G(0) \in Text /\ Len(G(0)) = 0 /\ F(0) \in Text
    <3>1. 0 \in 0 .. n
      BY <1>1
    <3> HIDE DEF F, G
    <3>2. QED  BY <1>2, <3>1
  <2>2. F(0) = SubSeq(s, 1, p)
    <3>1. p + 0 = p
      BY <1>1
    <3>2. QED  BY <3>1
  <2> HIDE DEF F, G
  <2>3. Newlines(G(0)) \in 0 .. Len(G(0)) /\ Newlines(F(0)) \in 0 .. Len(F(0))
    BY <2>1, NewlinesType
  <2>4. Len(F(0)) \in Nat
    BY <2>1 DEF Text
  <2>5. Newlines(G(0)) = 0 /\ Newlines(F(0)) \in Int
    BY <2>1, <2>3, <2>4
  <2> DEFINE x == Newlines(SubSeq(s, 1, p))
  <2>6. x \in Int /\ Newlines(F(0)) = x
    BY <2>2, <2>5
  <2> HIDE DEF x
  <2>7. Newlines(F(0)) = x + Newlines(G(0))
    BY <2>5, <2>6
  <2>8. QED  BY <2>7 DEF x
<1>4. ASSUME NEW j \in 0 .. n - 1, P(j) PROVE P(j + 1)
  <2>1. j \in 0 .. n /\ j + 1 \in 0 .. n /\ p + (j + 1) = (p + j) + 1
    BY <1>1
  <2>2. /\ Len(F(j + 1)) = Len(F(j)) + 1 /\ Len(G(j + 1)) = Len(G(j)) + 1
        /\ F(j) \in Text /\ F(j + 1) \in Text /\ G(j) \in Text /\ G(j + 1) \in Text
    <3> HIDE DEF F, G
    <3>1. QED  BY <1>2, <2>1
  <2>3. \A k \in 1 .. Len(F(j)) : F(j + 1)[k] = F(j)[k]
    <3>1. \A k \in 1 .. p + j : k \in 1 .. p + (j + 1)
      BY <1>1
    <3> HIDE DEF F, G
    <3>2. QED  BY <1>2, <2>1, <3>1
  <2>4. \A k \in 1 .. Len(G(j)) : G(j + 1)[k] = G(j)[k]
    <3>1. \A k \in 1 .. j : k \in 1 .. j + 1
      OBVIOUS
    <3> HIDE DEF F, G
    <3>2. QED  BY <1>2, <2>1, <3>1
  <2>5. F(j + 1)[Len(F(j + 1))] = G(j + 1)[Len(G(j + 1))]
    <3>1. p + (j + 1) \in 1 .. p + (j + 1) /\ j + 1 \in 1 .. j + 1
      BY <1>1
    <3> HIDE DEF F, G
    <3>2. QED  BY <1>2, <2>1, <3>1
  <2>6. /\ Newlines(F(j)) \in Int /\ Newlines(G(j)) \in Int
        /\ Newlines(SubSeq(s, 1, p)) \in Int
    <3>1. SubSeq(s, 1, p) \in Text
      <4>1. 1 \in 1 .. Len(s) + 1 /\ p \in 1 - 1 .. Len(s)
        BY <1>1
      <4>2. QED  BY <4>1, PartIs
    <3> HIDE DEF F, G
    <3>2. QED  BY <2>2, <3>1, NewlinesType
  <2> HIDE DEF F, G
  <2>7. Newlines(F(j + 1)) = IF F(j + 1)[Len(F(j + 1))] = "\n" THEN Newlines(F(j)) + 1
                             ELSE Newlines(F(j))
    BY <2>2, <2>3, NewlinesMore
  <2>8. Newlines(G(j + 1)) = IF G(j + 1)[Len(G(j + 1))] = "\n" THEN Newlines(G(j)) + 1
                             ELSE Newlines(G(j))
    BY <2>2, <2>4, NewlinesMore
  <2>9. QED  BY <1>4, <2>5, <2>6, <2>7, <2>8
<1>5. 0 .. n \subseteq S
  <2> HIDE DEF P
  <2>1. \A j \in 0 .. n - 1 : j \in S => j + 1 \in S
    BY <1>4
  <2>2. 0 \in Int /\ n \in Int /\ (0 <= n => 0 \in S)
    BY <1>3
  <2> HIDE DEF S
  <2>3. QED  BY <2>1, <2>2, InductUpTo, Zenon
<1>6. P(n)
  BY <1>5
<1>7. QED  BY <1>6

LEMMA LineStartIs ==
    ASSUME NEW s \in Text
    PROVE  /\ LineStart(s) \in 0 .. Len(s)
           /\ LineStart(s) > 0 => s[LineStart(s)] = "\n"
           /\ \A i \in 1 .. Len(s) : s[i] = "\n" => i <= LineStart(s)
<1> DEFINE I == {i \in 1 .. Len(s) : s[i] = "\n"}
<1>1. Len(s) \in Nat
  BY DEF Text
<1>2. LineStart(s) = IF I # {} THEN Max(I) ELSE 0
  BY DEF LineStart, SelectLastInSeq
<1>3. CASE I = {}
  BY <1>1, <1>2, <1>3
<1>4. CASE I # {}
  <2>1. I \in SUBSET (0 .. Len(s))
    BY <1>1
  <2>2. PICK n \in I : \A m \in I : n >= m
    <3> HIDE DEF I
    <3>1. QED  BY <1>1, <1>4, <2>1, Greatest
  <2>3. Max(I) \in I /\ \A m \in I : Max(I) >= m
    <3> HIDE DEF I
    <3>1. QED  BY <2>2 DEF Max
  <2>4. LineStart(s) \in I /\ \A m \in I : LineStart(s) >= m
    <3> HIDE DEF I
    <3>1. QED  BY <1>2, <1>4, <2>3
  <2>5. QED  BY <1>1, <2>4
<1>5. QED  BY <1>3, <1>4

LEMMA LineStartOfParts ==
    ASSUME NEW s \in Text, NEW p \in 0 .. Len(s), NEW n \in 0 .. Len(s) - p
    PROVE  LET lexeme == SubSeq(s, p + 1, p + n)
           IN  LineStart(SubSeq(s, 1, p + n)) =
                   IF LineStart(lexeme) = 0 THEN LineStart(SubSeq(s, 1, p))
                   ELSE p + LineStart(lexeme)
<1> DEFINE a == SubSeq(s, 1, p)
           b == SubSeq(s, p + 1, p + n)
           c == SubSeq(s, 1, p + n)
<1>1. Len(s) \in Nat
  BY DEF Text
<1>2. /\ a \in Text /\ Len(a) = p /\ \A k \in 1 .. p : a[k] = s[k]
      /\ b \in Text /\ Len(b) = n /\ \A k \in 1 .. n : b[k] = s[p + k]
      /\ c \in Text /\ Len(c) = p + n /\ \A k \in 1 .. p + n : c[k] = s[k]
  <2>1. /\ 1 \in 1 .. Len(s) + 1 /\ p + 1 \in 1 .. Len(s) + 1
        /\ p \in 1 - 1 .. Len(s)
        /\ p + n \in 1 - 1 .. Len(s) /\ p + n \in (p + 1) - 1 .. Len(s)
        /\ (p + n) - 1 + 1 = p + n /\ (p + n) - (p + 1) + 1 = n /\ p - 1 + 1 = p
    BY <1>1
  <2>2. a \in Text /\ Len(a) = p /\ \A k \in 1 .. p : a[k] = s[1 + k - 1]
    BY <2>1, PartIs
  <2>3. b \in Text /\ Len(b) = n /\ \A k \in 1 .. n : b[k] = s[p + 1 + k - 1]
    BY <2>1, PartIs
  <2>4. c \in Text /\ Len(c) = p + n /\ \A k \in 1 .. p + n : c[k] = s[1 + k - 1]
    BY <2>1, PartIs
  <2>5. \A k \in Int : 1 + k - 1 = k /\ p + 1 + k - 1 = p + k
    BY <1>1
  <2> HIDE DEF a, b, c
  <2>6. QED  BY <2>2, <2>3, <2>4, <2>5
<1> HIDE DEF a, b, c
<1>3. /\ LineStart(a) \in 0 .. p
      /\ LineStart(a) > 0 => s[LineStart(a)] = "\n"
      /\ \A i \in 1 .. p : s[i] = "\n" => i <= LineStart(a)
  <2>1. /\ LineStart(a) \in 0 .. p
        /\ LineStart(a) > 0 => a[LineStart(a)] = "\n"
        /\ \A i \in 1 .. p : a[i] = "\n" => i <= LineStart(a)
    BY <1>2, LineStartIs
  <2>2. LineStart(a) > 0 => LineStart(a) \in 1 .. p
    BY <1>1, <2>1
  <2>3. QED  BY <1>2, <2>1, <2>2
<1>4. /\ LineStart(b) \in 0 .. n
      /\ LineStart(b) > 0 => s[p + LineStart(b)] = "\n"
      /\ \A i \in 1 .. n : s[p + i] = "\n" => i <= LineStart(b)
  <2>1. /\ LineStart(b) \in 0 .. n
        /\ LineStart(b) > 0 => b[LineStart(b)] = "\n"
        /\ \A i \in 1 .. n : b[i] = "\n" => i <= LineStart(b)
    BY <1>2, LineStartIs
  <2>2. LineStart(b) > 0 => LineStart(b) \in 1 .. n
    BY <1>1, <2>1
  <2>3. QED  BY <1>2, <2>1, <2>2
<1>5. /\ LineStart(c) \in 0 .. p + n
      /\ LineStart(c) > 0 => s[LineStart(c)] = "\n"
      /\ \A i \in 1 .. p + n : s[i] = "\n" => i <= LineStart(c)
  <2>1. /\ LineStart(c) \in 0 .. p + n
        /\ LineStart(c) > 0 => c[LineStart(c)] = "\n"
        /\ \A i \in 1 .. p + n : c[i] = "\n" => i <= LineStart(c)
    BY <1>2, LineStartIs
  <2>2. LineStart(c) > 0 => LineStart(c) \in 1 .. p + n
    BY <1>1, <2>1
  <2>3. QED  BY <1>2, <2>1, <2>2
<1>6. CASE LineStart(b) = 0
  <2>1. ~(LineStart(c) > p)
    <3>1. SUFFICES ASSUME LineStart(c) > p PROVE FALSE
      OBVIOUS
    <3>2. LineStart(c) - p \in 1 .. n /\ p + (LineStart(c) - p) = LineStart(c)
      BY <1>1, <1>5, <3>1
    <3>3. s[p + (LineStart(c) - p)] = "\n"
      BY <1>1, <1>5, <3>1, <3>2
    <3>4. LineStart(c) - p <= 0
      BY <1>4, <1>6, <3>2, <3>3
    <3>5. QED  BY <1>1, <1>5, <3>1, <3>4
  <2>2. LineStart(c) <= LineStart(a)
    <3>1. CASE LineStart(c) = 0
      BY <1>3, <3>1
    <3>2. CASE LineStart(c) # 0
      <4>1. LineStart(c) > 0 /\ LineStart(c) \in 1 .. p
        BY <1>1, <1>5, <2>1, <3>2
      <4>2. QED  BY <1>3, <1>5, <4>1
    <3>3. QED  BY <3>1, <3>2
  <2>3. LineStart(a) <= LineStart(c)
    <3>1. CASE LineStart(a) = 0
      BY <1>1, <1>5, <3>1
    <3>2. CASE LineStart(a) # 0
      <4>1. LineStart(a) > 0 /\ LineStart(a) \in 1 .. p + n
        BY <1>1, <1>3, <3>2
      <4>2. QED  BY <1>3, <1>5, <4>1
    <3>3. QED  BY <3>1, <3>2
  <2>4. LineStart(a) \in Int /\ LineStart(c) \in Int
    BY <1>3, <1>5
  <2>5. LineStart(c) = LineStart(a)
    BY <2>2, <2>3, <2>4
  <2>6. QED  BY <1>6, <2>5 DEF a, b, c
<1>7. CASE LineStart(b) # 0
  <2>1. LineStart(b) > 0 /\ p + LineStart(b) \in 1 .. p + n
    BY <1>1, <1>4, <1>7
  <2>2. p + LineStart(b) <= LineStart(c)
    BY <1>4, <1>5, <2>1
  <2>3. LineStart(c) - p \in 1 .. n /\ p + (LineStart(c) - p) = LineStart(c) /\ LineStart(c) > 0
    BY <1>1, <1>4, <1>5, <2>1, <2>2
  <2>4. s[p + (LineStart(c) - p)] = "\n"
    BY <1>5, <2>3
  <2>5. LineStart(c) - p <= LineStart(b)
    BY <1>4, <2>3, <2>4
  <2>6. LineStart(b) \in Int /\ LineStart(c) \in Int /\ p \in Int
    BY <1>1, <1>4, <1>5
  <2>7. LineStart(c) = p + LineStart(b)
    BY <2>2, <2>5, <2>6
  <2>8. QED  BY <1>7, <2>7 DEF a, b, c
<1>8. QED  BY <1>6, <1>7
\* What C sees of a text is a part at its beginning, and all of it without a NUL byte.
LEMMA CStringIs ==
    ASSUME NEW s \in Text
    PROVE  /\ CString(s) \in Text /\ Len(CString(s)) \in 0 .. Len(s)
           /\ ~Contains(s, Nul) => CString(s) = s
           /\ Len(s) = 1 => (CString(s) = <<>> <=> s[1] = Nul)
<1> DEFINE I == {i \in 1 .. Len(s) : s[i] = Nul}
<1>1. Len(s) \in Nat
  BY DEF Text
<1>2. Contains(s, Nul) <=> I # {}
  BY DEF Contains
<1>3. CASE ~Contains(s, Nul)
  <2>1. CString(s) = s
    BY <1>3 DEF CString
  <2>2. Len(s) = 1 => 1 \in 1 .. Len(s) /\ s # <<>>
    OBVIOUS
  <2>3. \A i \in 1 .. Len(s) : s[i] # Nul
    BY <1>3 DEF Contains
  <2>4. QED  BY <1>1, <2>1, <2>2, <2>3
<1>4. CASE Contains(s, Nul)
  <2>1. PICK n \in I : \A m \in I : n <= m
    <3>1. I \in SUBSET Nat /\ I # {}
      BY <1>2, <1>4
    <3> HIDE DEF I
    <3>2. QED  BY <3>1, Least
  <2>2. Min(I) \in I
    <3> HIDE DEF I
    <3>1. QED  BY <2>1 DEF Min
  <2> DEFINE m == Min(I) - 1
  <2>3. m \in 0 .. Len(s) /\ m + 1 \in I /\ m \in Int
    BY <1>1, <2>2
  <2>4. CString(s) = SubSeq(s, 1, m)
    <3>1. SelectInSeq(s, LAMBDA c : c = Nul) = Min(I)
      BY <1>2, <1>4 DEF SelectInSeq
    <3>2. QED  BY <1>4, <3>1 DEF CString
  <2> HIDE DEF m
  <2>5. SubSeq(s, 1, m) \in Text /\ Len(SubSeq(s, 1, m)) = m
    <3>1. 1 \in 1 .. Len(s) + 1 /\ m \in 1 - 1 .. Len(s) /\ m - 1 + 1 = m
      BY <1>1, <2>3
    <3>2. QED  BY <3>1, PartIs
  <2>6. ASSUME Len(s) = 1 PROVE s[1] = Nul /\ CString(s) = <<>>
    <3>1. m + 1 \in 1 .. 1 /\ s[m + 1] = Nul
      BY <2>3, <2>6
    <3>2. m = 0
      BY <2>3, <3>1
    <3>3. Len(CString(s)) = 0 /\ CString(s) \in Text
      BY <2>4, <2>5, <3>2
    <3>4. QED  BY <3>1, <3>2, <3>3, EmptySeq DEF Text
  <2>7. QED  BY <1>4, <2>3, <2>4, <2>5, <2>6
<1>5. QED  BY <1>3, <1>4
-----------------------------------------------------------------------------
\* The choice of a rule.

LEMMA LongestIs ==
    ASSUME NEW N \in Nat, NEW K \in Nat, NEW S \in SUBSET ((1 .. N) \X (1 .. K)), S # {}
    PROVE  /\ Longest(S) \in S
           /\ \A o \in S : \/ Longest(S)[1] > o[1]
                           \/ Longest(S)[1] = o[1] /\ Longest(S)[2] <= o[2]
<1> DEFINE Best(m) == \A o \in S : m[1] > o[1] \/ (m[1] = o[1] /\ m[2] <= o[2])
           T == {n \in 0 .. N : \E j \in 1 .. K : <<n, j>> \in S}
<1>1. \A o \in S : o[1] \in 1 .. N /\ o[2] \in 1 .. K /\ o = <<o[1], o[2]>>
  OBVIOUS
<1>2. \A o \in S : o[1] \in T
  BY <1>1
<1>3. PICK n \in T : \A k \in T : n >= k
  <2>1. T \in SUBSET (0 .. N) /\ T # {}
    BY <1>2
  <2> HIDE DEF T
  <2>2. QED  BY <2>1, Greatest
<1> DEFINE U == {j \in 1 .. K : <<n, j>> \in S}
<1>4. PICK j \in U : \A k \in U : j <= k
  <2>1. U \in SUBSET Nat /\ U # {}
    BY <1>3
  <2> HIDE DEF U
  <2>2. QED  BY <2>1, Least
<1> DEFINE m == <<n, j>>
<1>5. m \in S
  BY <1>4
<1>6. Best(m)
  <2>1. ASSUME NEW o \in S PROVE n > o[1] \/ (n = o[1] /\ j <= o[2])
    <3>1. n >= o[1] /\ n \in Int /\ o[1] \in Int
      BY <1>1, <1>2, <1>3
    <3>2. CASE n = o[1]
      <4>1. o[2] \in U
        BY <1>1, <3>2
      <4>2. QED  BY <1>4, <3>2, <4>1
    <3>3. QED  BY <3>1, <3>2
  <2>2. m[1] = n /\ m[2] = j
    OBVIOUS
  <2> HIDE DEF m
  <2>3. QED  BY <2>1, <2>2
<1>7. Longest(S) = CHOOSE x \in S : Best(x)
  BY DEF Longest
<1> HIDE DEF Best, m
<1>8. Longest(S) \in S /\ Best(Longest(S))
  BY <1>5, <1>6, <1>7
<1>9. QED  BY <1>8 DEF Best

Conditions == {"INITIAL", "COMMENT", "CH", "STR"}

\* What a state is made of.
Typed ==
    /\ text \in Text
    /\ asker \in {"dump", "parser"}
    /\ start \in Conditions
    /\ pos \in 1 .. Len(text) + 1
    /\ regions \in Seq(Modes) /\ Len(regions) = pos - 1
    /\ status \in {"scanning", "ended", "rejected", "jammed", "aborted"}

Lexeme(n) == SubSeq(Rest, 1, n)

LEMMA LexemeIs ==
    ASSUME Typed
    PROVE  /\ Len(text) \in Nat /\ Rest \in Text /\ Len(Rest) = Len(text) - pos + 1
           /\ \A k \in 1 .. Len(Rest) : Rest[k] = text[pos + k - 1]
           /\ \A n \in 1 .. Len(Rest) :
                /\ Lexeme(n) \in Text /\ Len(Lexeme(n)) = n
                /\ \A k \in 1 .. n : Lexeme(n)[k] = text[pos + k - 1]
                /\ Lexeme(n) = SubSeq(text, pos, pos + n - 1)
<1>1. Len(text) \in Nat /\ text \in Text /\ pos \in 1 .. Len(text) + 1
  BY DEF Typed, Text
<1>2. /\ Rest \in Text /\ Len(Rest) = Len(text) - pos + 1
      /\ \A k \in 1 .. Len(Rest) : Rest[k] = text[pos + k - 1]
  <2>1. Len(text) \in pos - 1 .. Len(text)
    BY <1>1
  <2>2. QED  BY <1>1, <2>1, PartIs DEF Rest, From
<1>3. ASSUME NEW n \in 1 .. Len(Rest)
      PROVE  /\ Lexeme(n) \in Text /\ Len(Lexeme(n)) = n
             /\ \A k \in 1 .. n : Lexeme(n)[k] = text[pos + k - 1]
             /\ Lexeme(n) = SubSeq(text, pos, pos + n - 1)
  <2>1. /\ 1 \in 1 .. Len(Rest) + 1 /\ n \in 1 - 1 .. Len(Rest) /\ n - 1 + 1 = n
        /\ \A k \in 1 .. n : 1 + k - 1 = k /\ k \in 1 .. Len(Rest)
    BY <1>1, <1>2
  <2>2. Lexeme(n) \in Text /\ Len(Lexeme(n)) = n /\ \A k \in 1 .. n : Lexeme(n)[k] = Rest[1 + k - 1]
    BY <1>2, <2>1, PartIs DEF Lexeme
  <2>3. \A k \in 1 .. n : Lexeme(n)[k] = text[pos + k - 1]
    BY <1>2, <2>1, <2>2
  <2> DEFINE t == SubSeq(text, pos, pos + n - 1)
  <2>4. t \in Text /\ Len(t) = n /\ \A k \in 1 .. n : t[k] = text[pos + k - 1]
    <3>1. pos + n - 1 \in pos - 1 .. Len(text) /\ (pos + n - 1) - pos + 1 = n
      BY <1>1, <1>2
    <3>2. QED  BY <1>1, <3>1, PartIs
  <2> HIDE DEF t
  <2>5. Lexeme(n) = t
    BY <2>2, <2>3, <2>4, SeqEqual DEF Text
  <2>6. QED  BY <2>2, <2>3, <2>5 DEF t
<1>4. QED  BY <1>1, <1>2, <1>3

LEMMA RulesOf ==
    /\ DOMAIN Rules = Conditions
    /\ DOMAIN Rules["INITIAL"] = 1 .. 10 /\ DOMAIN Rules["COMMENT"] = 1 .. 2
    /\ DOMAIN Rules["CH"] = 1 .. 1 /\ DOMAIN Rules["STR"] = 1 .. 1
    /\ Rules["INITIAL"][1] = "keyword" /\ Rules["INITIAL"][2] = "operator"
    /\ Rules["INITIAL"][3] = "space" /\ Rules["INITIAL"][4] = "word"
    /\ Rules["INITIAL"][5] = "integer" /\ Rules["INITIAL"][6] = "open comment"
    /\ Rules["INITIAL"][7] = "line comment" /\ Rules["INITIAL"][8] = "open char"
    /\ Rules["INITIAL"][9] = "open string" /\ Rules["INITIAL"][10] = "other"
    /\ Rules["COMMENT"][1] = "close comment" /\ Rules["COMMENT"][2] = "comment text"
    /\ Rules["CH"][1] = "character" /\ Rules["STR"][1] = "string"
BY DEF Rules, Conditions

\* The rule that is applied, and how much it matches.
Rule == Rules[start][Longest(Matches)[2]]
Length == Longest(Matches)[1]

LEMMA BestMatch ==
    ASSUME Typed, Matches # {}
    PROVE  /\ Longest(Matches) \in Matches
           /\ Length \in 1 .. Len(Rest) /\ Longest(Matches)[2] \in DOMAIN Rules[start]
           /\ Accepts(Rule, Lexeme(Length))
           /\ \A k \in 1 .. Len(Rest), j \in DOMAIN Rules[start] :
                Accepts(Rules[start][j], Lexeme(k)) =>
                    Length > k \/ (Length = k /\ Longest(Matches)[2] <= j)
<1>1. Len(Rest) \in Nat
  BY LexemeIs DEF Text
<1>2. PICK K \in Nat : DOMAIN Rules[start] = 1 .. K
  BY RulesOf DEF Typed, Conditions
<1>3. /\ Matches \in SUBSET ((1 .. Len(Rest)) \X (1 .. K))
      /\ \A m \in Matches : Accepts(Rules[start][m[2]], Lexeme(m[1]))
      /\ \A k \in 1 .. Len(Rest), j \in DOMAIN Rules[start] :
            Accepts(Rules[start][j], Lexeme(k)) => <<k, j>> \in Matches
  BY <1>2 DEF Matches, Lexeme
<1>4. /\ Longest(Matches) \in Matches
      /\ \A o \in Matches : \/ Length > o[1]
                            \/ Length = o[1] /\ Longest(Matches)[2] <= o[2]
  BY <1>1, <1>3, LongestIs DEF Length
<1>5. Accepts(Rule, Lexeme(Length))
  BY <1>3, <1>4 DEF Rule, Length
<1>6. Length \in 1 .. Len(Rest) /\ Longest(Matches)[2] \in DOMAIN Rules[start]
  BY <1>2, <1>3, <1>4 DEF Length
<1>7. ASSUME NEW k \in 1 .. Len(Rest), NEW j \in DOMAIN Rules[start],
             Accepts(Rules[start][j], Lexeme(k))
      PROVE  Length > k \/ (Length = k /\ Longest(Matches)[2] <= j)
  <2>1. <<k, j>> \in Matches /\ <<k, j>>[1] = k /\ <<k, j>>[2] = j
    BY <1>3, <1>7
  <2>2. QED  BY <1>4, <2>1
<1>8. QED  BY <1>4, <1>5, <1>6, <1>7
\* The characters that begin something else than code, and the end of a line.
Special == {"'", "\"", "/", "\n"}

LEMMA DigitsAreNot ==
    /\ Digit \cap Special = {}
    /\ HexDigit \cap Special = {}
    /\ {"U", "L", "x", "X"} \cap Special = {}
<1> DEFINE digits == {"0", "1", "2", "3", "4", "5", "6", "7", "8", "9"}
           lower == digits \cup {"a", "b", "c", "d", "e", "f"}
           upper == digits \cup {"A", "B", "C", "D", "E", "F"}
<1>1. DOMAIN DecimalDigits = 1 .. 10 /\ \A i \in 1 .. 10 : DecimalDigits[i] \in digits
  BY DEF DecimalDigits
<1>2. DOMAIN LowerHex = 1 .. 16 /\ \A i \in 1 .. 16 : LowerHex[i] \in lower
  BY DEF LowerHex, DecimalDigits
<1>3. DOMAIN UpperHex = 1 .. 16 /\ \A i \in 1 .. 16 : UpperHex[i] \in upper
  BY DEF UpperHex, DecimalDigits
<1>4. /\ digits \cap Special = {} /\ lower \cap Special = {} /\ upper \cap Special = {}
      /\ {"U", "L", "x", "X"} \cap Special = {}
  BY DEF Special
<1> HIDE DEF digits, lower, upper
<1>5. /\ ToSet(DecimalDigits) \subseteq digits /\ ToSet(LowerHex) \subseteq lower
      /\ ToSet(UpperHex) \subseteq upper
  BY <1>1, <1>2, <1>3 DEF ToSet
<1>6. QED  BY <1>4, <1>5 DEF Digit, HexDigit

LEMMA WordsArePlain ==
    ASSUME NEW s \in Text,
           Accepts("keyword", s) \/ Accepts("word", s) \/ Accepts("integer", s)
    PROVE  \A i \in 1 .. Len(s) : s[i] \notin Special
<1>1. Len(s) \in Nat /\ DOMAIN s = 1 .. Len(s)
  BY LenProperties DEF Text
<1>2. Letter \cap Special = {}
  BY LetterAssumption DEF Special
<1>3. CASE Accepts("keyword", s)
  <2>1. s \in Seq(Letter)
    BY <1>3, KeywordAssumption DEF Accepts
  <2>2. \A i \in 1 .. Len(s) : s[i] \in Letter
    BY <2>1, ElementOfSeq
  <2>3. QED  BY <1>2, <2>2
<1>4. CASE Accepts("word", s)
  <2>1. \A i \in 1 .. Len(s) : s[i] \in Letter \cup Digit
    BY <1>1, <1>4 DEF Accepts, Word, All
  <2>2. QED  BY <1>2, <2>1, DigitsAreNot
<1>5. CASE Accepts("integer", s)
  <2> DEFINE body(n) == SubSeq(s, 1, n)
             tail(n) == From(s, n + 1)
  <2>1. PICK n \in 1 .. Len(s) :
            /\ tail(n) \in {<<>>, <<"U">>, <<"L">>, <<"U", "L">>}
            /\ \/ body(n)[1] # "0" /\ All(body(n), Digit)
               \/ /\ n > 2 /\ body(n)[1] = "0" /\ body(n)[2] \in {"x", "X"}
                  /\ All(From(body(n), 3), HexDigit)
               \/ body(n)[1] = "0" /\ All(body(n), Digit \ {"8", "9"})
    BY <1>5 DEF Accepts, Integer
  <2>2. /\ body(n) \in Text /\ Len(body(n)) = n
        /\ \A k \in 1 .. n : body(n)[k] = s[k]
        /\ tail(n) \in Text /\ Len(tail(n)) = Len(s) - n
        /\ \A k \in 1 .. Len(s) - n : tail(n)[k] = s[n + k]
    <3>1. /\ 1 \in 1 .. Len(s) + 1 /\ n \in 1 - 1 .. Len(s) /\ n - 1 + 1 = n
          /\ n + 1 \in 1 .. Len(s) + 1 /\ Len(s) \in (n + 1) - 1 .. Len(s)
          /\ Len(s) - (n + 1) + 1 = Len(s) - n
      BY <1>1
    <3>2. body(n) \in Text /\ Len(body(n)) = n /\ \A k \in 1 .. n : body(n)[k] = s[1 + k - 1]
      BY <3>1, PartIs
    <3>3. /\ tail(n) \in Text /\ Len(tail(n)) = Len(s) - n
          /\ \A k \in 1 .. Len(s) - n : tail(n)[k] = s[n + 1 + k - 1]
      BY <3>1, PartIs DEF From
    <3>4. \A k \in Int : 1 + k - 1 = k /\ n + 1 + k - 1 = n + k
      BY <1>1
    <3> HIDE DEF body, tail
    <3>5. QED  BY <3>2, <3>3, <3>4
  <2>3. \A k \in 1 .. n : s[k] \notin Special
    <3>0. DOMAIN body(n) = 1 .. n
      <4> HIDE DEF body
      <4>1. QED  BY <2>2, LenProperties DEF Text
    <3>1. CASE All(body(n), Digit) \/ All(body(n), Digit \ {"8", "9"})
      <4>1. \A k \in 1 .. n : body(n)[k] \in Digit
        BY <3>0, <3>1 DEF All
      <4> HIDE DEF body, tail
      <4>2. QED  BY <2>2, <4>1, DigitsAreNot
    <3>2. CASE /\ n > 2 /\ body(n)[1] = "0" /\ body(n)[2] \in {"x", "X"}
               /\ All(From(body(n), 3), HexDigit)
      <4> DEFINE b == body(n)
                 h == From(b, 3)
      <4>1. /\ h \in Text /\ Len(h) = n - 2 /\ \A k \in 1 .. n - 2 : h[k] = b[k + 2]
        <5>1. b \in Text /\ Len(b) = n /\ n \in Nat
          BY <1>1, <2>2
        <5> HIDE DEF b
        <5>2. /\ 3 \in 1 .. Len(b) + 1 /\ Len(b) \in 3 - 1 .. Len(b)
              /\ Len(b) - 3 + 1 = n - 2 /\ \A k \in Int : 3 + k - 1 = k + 2
          BY <3>2, <5>1
        <5>3. /\ h \in Text /\ Len(h) = Len(b) - 3 + 1
              /\ \A k \in 1 .. Len(b) - 3 + 1 : h[k] = b[3 + k - 1]
          BY <5>1, <5>2, PartIs DEF From
        <5> HIDE DEF h
        <5>4. QED  BY <5>2, <5>3
      <4>2. \A k \in 1 .. n - 2 : h[k] \in HexDigit
        <5>1. All(h, HexDigit)
          BY <3>2
        <5> HIDE DEF h
        <5>2. QED  BY <4>1, <5>1, LenProperties DEF All, Text
      <4>3. b[1] = "0" /\ b[2] \in {"x", "X"} /\ \A k \in 1 .. n : b[k] = s[k]
        BY <2>2, <3>2
      <4> HIDE DEF b, h
      <4>4. \A k \in 1 .. n : k = 1 \/ k = 2 \/ (k - 2 \in 1 .. n - 2 /\ (k - 2) + 2 = k)
        BY <1>1
      <4>5. \A k \in 1 .. n : k = 1 \/ k = 2 \/ b[k] \in HexDigit
        BY <4>1, <4>2, <4>4
      <4>6. "0" \notin Special
        BY DEF Special
      <4>7. QED  BY <4>3, <4>5, <4>6, DigitsAreNot
    <3> HIDE DEF body, tail
    <3>3. QED  BY <2>1, <3>1, <3>2
  <2>4. \A k \in 1 .. Len(s) - n : tail(n)[k] \in {"U", "L"}
    <3> DEFINE t == tail(n)
    <3>1. /\ t \in {<<>>, <<"U">>, <<"L">>, <<"U", "L">>}
          /\ Len(t) = Len(s) - n
      BY <2>1, <2>2
    <3> HIDE DEF t
    <3>2. \A k \in 1 .. Len(t) : t[k] \in {"U", "L"}
      <4>1. \A r \in {<<>>, <<"U">>, <<"L">>, <<"U", "L">>} :
                \A k \in 1 .. Len(r) : r[k] \in {"U", "L"}
        OBVIOUS
      <4>2. QED  BY <3>1, <4>1
    <3>3. QED  BY <3>1, <3>2 DEF t
  <2>5. \A k \in 1 .. Len(s) - n : s[n + k] \notin Special
    <3> HIDE DEF body, tail
    <3>1. QED  BY <2>2, <2>4, DigitsAreNot
  <2>6. \A i \in 1 .. Len(s) : i \in 1 .. n \/ (i - n \in 1 .. Len(s) - n /\ n + (i - n) = i)
    BY <1>1
  <2> HIDE DEF body, tail
  <2>7. QED  BY <2>3, <2>5, <2>6
<1>6. QED  BY <1>3, <1>4, <1>5

LEMMA OperatorsArePlain ==
    ASSUME NEW s \in Operators
    PROVE  /\ Len(s) \in {2, 3}
           /\ \A i \in 1 .. Len(s) : s[i] \notin {"'", "\"", "\n"}
           /\ \A i \in 1 .. Len(s) : s[i] = "/" => i = 1 /\ s[2] = "="
<1>1. Len(s) \in {2, 3}
  BY DEF Operators
<1>2. s[1] \in {"+", "-", "&", "|", "<", ">", "=", "!", "*", "/", "%", "^", "."}
  BY DEF Operators
<1>3. s[2] \in {"+", "-", "&", "|", "<", ">", "=", "."}
  BY DEF Operators
<1>4. Len(s) = 3 => s[3] \in {"=", "."}
  BY DEF Operators
<1>5. s[1] = "/" => s[2] = "="
  BY DEF Operators
<1>6. \A i \in 1 .. Len(s) : i = 1 \/ i = 2 \/ (i = 3 /\ Len(s) = 3)
  <2>1. \A n \in {2, 3} : \A i \in 1 .. n : i = 1 \/ i = 2 \/ (i = 3 /\ n = 3)
    OBVIOUS
  <2>2. QED  BY <1>1, <2>1
<1>7. QED  BY <1>1, <1>2, <1>3, <1>4, <1>5, <1>6

\* In the code a rule is one of ten, and nothing longer matches, nor does an earlier
\* rule as much.
LEMMA BestInCode ==
    ASSUME Typed, Matches # {}, start = "INITIAL"
    PROVE  /\ Rule \in {"keyword", "operator", "space", "word", "integer", "open comment",
                        "line comment", "open char", "open string", "other"}
           /\ \A k \in 1 .. Len(Rest) :
                  Accepts("open comment", Lexeme(k)) \/ Accepts("line comment", Lexeme(k))
                      => k <= Length
           /\ Rule = "other" => /\ ~Accepts("space", Lexeme(Length))
                                /\ ~Accepts("open char", Lexeme(Length))
                                /\ ~Accepts("open string", Lexeme(Length))
<1> DEFINE j == Longest(Matches)[2]
<1>1. j \in 1 .. 10 /\ Rule = Rules["INITIAL"][j]
  BY BestMatch, RulesOf DEF Rule
<1>2. Length \in Int
  BY BestMatch
<1>3. \A k \in 1 .. Len(Rest), i \in 1 .. 10 :
          Accepts(Rules["INITIAL"][i], Lexeme(k)) => Length > k \/ (Length = k /\ j <= i)
  BY BestMatch, RulesOf
<1> HIDE DEF j
<1>4. j \in {1, 2, 3, 4, 5, 6, 7, 8, 9, 10}
  BY <1>1
<1>5. Rule \in {"keyword", "operator", "space", "word", "integer", "open comment",
                "line comment", "open char", "open string", "other"}
  BY <1>1, <1>4, RulesOf
<1>6. ASSUME NEW k \in 1 .. Len(Rest),
             Accepts("open comment", Lexeme(k)) \/ Accepts("line comment", Lexeme(k))
      PROVE  k <= Length
  <2>1. 6 \in 1 .. 10 /\ 7 \in 1 .. 10
    OBVIOUS
  <2>2. Length > k \/ Length = k
    BY <1>3, <1>6, <2>1, RulesOf
  <2>3. k \in Int
    OBVIOUS
  <2>4. QED  BY <1>2, <2>2, <2>3
<1>7. ASSUME Rule = "other"
      PROVE  /\ ~Accepts("space", Lexeme(Length))
             /\ ~Accepts("open char", Lexeme(Length))
             /\ ~Accepts("open string", Lexeme(Length))
  <2>1. j = 10
    BY <1>1, <1>4, <1>7, RulesOf
  <2>2. Length \in 1 .. Len(Rest) /\ ~(Length > Length)
    BY <1>2, BestMatch
  <2>3. \A i \in {3, 8, 9} : i \in 1 .. 10 /\ ~(10 <= i)
    OBVIOUS
  <2>4. \A i \in {3, 8, 9} : ~Accepts(Rules["INITIAL"][i], Lexeme(Length))
    BY <1>3, <2>1, <2>2, <2>3
  <2>5. QED  BY <2>4, RulesOf
<1>8. QED  BY <1>5, <1>6, <1>7

\* Two characters ahead.
LEMMA OpensTwo ==
    ASSUME Typed, pos < Len(text), NEW c, text[pos] = "/", text[pos + 1] = c
    PROVE  /\ 2 \in 1 .. Len(Rest)
           /\ c = "*" => Accepts("open comment", Lexeme(2))
           /\ c = "/" => Accepts("line comment", Lexeme(2))
<1>1. 2 \in 1 .. Len(Rest) /\ pos + 1 - 1 = pos /\ pos + 2 - 1 = pos + 1
  BY LexemeIs DEF Typed
<1>2. Lexeme(2) \in Text /\ Len(Lexeme(2)) = 2 /\ Lexeme(2)[1] = "/" /\ Lexeme(2)[2] = c
  <2>1. /\ Lexeme(2) \in Text /\ Len(Lexeme(2)) = 2
        /\ \A k \in 1 .. 2 : Lexeme(2)[k] = text[pos + k - 1]
    BY <1>1, LexemeIs
  <2>2. 1 \in 1 .. 2 /\ 2 \in 1 .. 2
    OBVIOUS
  <2>3. Lexeme(2)[1] = text[pos + 1 - 1] /\ Lexeme(2)[2] = text[pos + 2 - 1]
    BY <2>1, <2>2
  <2>4. QED  BY <1>1, <2>1, <2>3
<1> DEFINE s == Lexeme(2)
<1> HIDE DEF s
<1>3. s \in Seq(STRING) /\ Len(s) = 2 /\ s[1] = "/" /\ s[2] = c
  BY <1>2 DEF s, Text
<1>4. c = "*" => Accepts("open comment", s)
  BY <1>3 DEF Accepts
<1>5. c = "/" => Accepts("line comment", s)
  <2>1. SUFFICES ASSUME c = "/" PROVE IsPrefix(<<"/", "/">>, s) /\ ~Contains(s, "\n")
    BY DEF Accepts
  <2>2. s = <<"/", "/">>
    BY <1>3, <2>1
  <2>3. QED  BY <2>2 DEF IsPrefix, Contains
<1>6. QED  BY <1>1, <1>4, <1>5 DEF s

\* The characters of the rule belong to m.
Took(m) == \A i \in pos .. pos + Length - 1 : Units(text)[i].mark = m

LEMMA Ahead ==
    ASSUME Typed, Matches # {}
    PROVE  /\ Len(text) \in Nat /\ pos \in Int /\ Length \in Int /\ 1 <= pos /\ 1 <= Length
           /\ pos + Length - 1 <= Len(text) /\ Length <= Len(Rest)
           /\ Len(Rest) = Len(text) - pos + 1
           /\ Lexeme(Length) \in Text /\ Len(Lexeme(Length)) = Length
           /\ \A k \in 1 .. Length : Lexeme(Length)[k] = text[pos + k - 1]
           /\ \A i \in pos .. pos + Length - 1 :
                /\ i - pos + 1 \in 1 .. Length /\ i \in 1 .. Len(text)
                /\ text[i] = Lexeme(Length)[i - pos + 1]
<1>1. /\ Len(text) \in Nat /\ Len(Rest) = Len(text) - pos + 1 /\ Length \in 1 .. Len(Rest)
      /\ pos \in 1 .. Len(text) + 1
  BY LexemeIs, BestMatch DEF Typed
<1>2. /\ Lexeme(Length) \in Text /\ Len(Lexeme(Length)) = Length
      /\ \A k \in 1 .. Length : Lexeme(Length)[k] = text[pos + k - 1]
  BY <1>1, LexemeIs
<1>3. \A i \in pos .. pos + Length - 1 :
          /\ i - pos + 1 \in 1 .. Length /\ i \in 1 .. Len(text)
          /\ pos + (i - pos + 1) - 1 = i
  BY <1>1
<1>4. \A i \in pos .. pos + Length - 1 : text[i] = Lexeme(Length)[i - pos + 1]
  BY <1>2, <1>3
<1>5. QED  BY <1>1, <1>2, <1>3, <1>4

LEMMA PlainRule ==
    ASSUME Typed, Matches # {}, start = "INITIAL",
           Rule \in {"keyword", "operator", "space", "word", "integer", "other"}
    PROVE  /\ \A i \in pos .. pos + Length - 1 : Plain(text, i)
           /\ Rule # "space" => text[pos + Length - 1] # "\n"
<1> DEFINE L == Lexeme(Length)
           N == Length
<1>1. /\ L \in Text /\ Len(L) = N /\ N \in Nat /\ N >= 1 /\ Accepts(Rule, L)
      /\ \A i \in pos .. pos + N - 1 : i - pos + 1 \in 1 .. N /\ text[i] = L[i - pos + 1]
  BY Ahead, BestMatch
<1>2. /\ pos + N - 1 \in pos .. pos + N - 1 /\ (pos + N - 1) - pos + 1 = N /\ N \in 1 .. N
      /\ pos \in pos .. pos + N - 1 /\ pos - pos + 1 = 1
  BY Ahead
<1>3. text[pos + N - 1] = L[N] /\ text[pos] = L[1]
  BY <1>1, <1>2
<1>4. CASE Rule \in {"keyword", "word", "integer"}
  <2>1. \A k \in 1 .. N : L[k] \notin Special
    BY <1>1, <1>4, WordsArePlain
  <2> HIDE DEF L
  <2>2. \A i \in pos .. pos + N - 1 : text[i] \notin Special
    BY <1>1, <2>1
  <2>3. \A i \in pos .. pos + N - 1 : Plain(text, i)
    BY <2>2 DEF Special, Plain
  <2>4. text[pos + N - 1] # "\n"
    BY <1>2, <2>2 DEF Special
  <2>5. QED  BY <2>3, <2>4
<1>5. CASE Rule = "space"
  <2>1. All(L, {" ", "\t", "\n", "\r", "\f"})
    BY <1>1, <1>5 DEF Accepts
  <2> HIDE DEF L, N
  <2>2. \A k \in 1 .. N : L[k] \in {" ", "\t", "\n", "\r", "\f"}
    BY <1>1, <2>1, LenProperties DEF All, Text
  <2>3. \A i \in pos .. pos + N - 1 : text[i] \in {" ", "\t", "\n", "\r", "\f"}
    BY <1>1, <2>2
  <2>4. \A i \in pos .. pos + N - 1 : text[i] \notin {"'", "\"", "/"}
    BY <2>3
  <2>5. QED  BY <1>5, <2>4 DEF Plain, N
<1>6. CASE Rule = "operator"
  <2>1. L \in Operators
    BY <1>1, <1>6 DEF Accepts
  <2>2. /\ N \in {2, 3}
        /\ \A k \in 1 .. N : L[k] \notin {"'", "\"", "\n"}
        /\ \A k \in 1 .. N : L[k] = "/" => k = 1 /\ L[2] = "="
    <3> HIDE DEF L, N
    <3>1. QED  BY <1>1, <2>1, OperatorsArePlain
  <2>3. /\ pos + 1 \in pos .. pos + N - 1 /\ (pos + 1) - pos + 1 = 2
        /\ \A i \in pos .. pos + N - 1 : i - pos + 1 = 1 => i = pos
        /\ pos < Len(text)
    <3>1. Len(text) \in Nat /\ pos \in Int /\ pos + N - 1 <= Len(text)
      BY Ahead
    <3>2. N \in {2, 3}
      BY <2>2
    <3> HIDE DEF N
    <3>3. QED  BY <3>1, <3>2
  <2>4. text[pos + 1] = L[2]
    BY <1>1, <2>3
  <2>5. ASSUME NEW i \in pos .. pos + N - 1 PROVE Plain(text, i)
    <3>1. text[i] \notin {"'", "\""}
      <4> HIDE DEF L, N
      <4>1. QED  BY <1>1, <2>2
    <3>2. ASSUME text[i] = "/" PROVE i = pos /\ text[pos + 1] = "="
      <4> HIDE DEF L, N
      <4>1. QED  BY <1>1, <2>2, <2>3, <2>4, <3>2
    <3>3. text[i] = "/" => After(text, i) = "="
      BY <2>3, <3>2 DEF After
    <3>4. QED  BY <3>1, <3>3 DEF Plain
  <2>6. text[pos + N - 1] # "\n"
    <3> HIDE DEF L, N
    <3>1. QED  BY <1>2, <1>3, <2>2
  <2>7. QED  BY <2>5, <2>6 DEF N
<1>7. CASE Rule = "other"
  <2>1. N = 1 /\ L \in Seq(STRING) /\ Len(L) = 1
    <3>1. Len(L) = 1
      BY <1>1, <1>7 DEF Accepts
    <3> HIDE DEF L, N
    <3>2. QED  BY <1>1, <3>1 DEF Text
  <2>2. ~Accepts("space", L) /\ ~Accepts("open char", L) /\ ~Accepts("open string", L)
    BY <1>7, BestInCode
  <2>3. L[1] \notin {"'", "\"", "\n"}
    <3> HIDE DEF L, N
    <3>0. L = <<L[1]>>
      BY <2>1
    <3>1. ASSUME L[1] = "'" PROVE FALSE
      <4>1. L = <<"'">>
        BY <3>0, <3>1
      <4>2. QED  BY <2>2, <4>1 DEF Accepts
    <3>2. ASSUME L[1] = "\"" PROVE FALSE
      <4>1. L = <<"\"">>
        BY <3>0, <3>2
      <4>2. QED  BY <2>2, <4>1 DEF Accepts
    <3>3. ASSUME L[1] = "\n" PROVE FALSE
      <4>1. DOMAIN L = 1 .. 1
        BY <2>1, LenProperties
      <4>2. \A k \in 1 .. 1 : k = 1
        OBVIOUS
      <4>3. \A k \in DOMAIN L : L[k] = "\n"
        BY <3>3, <4>1, <4>2, Zenon
      <4>4. All(L, {" ", "\t", "\n", "\r", "\f"})
        BY <4>3 DEF All
      <4>5. QED  BY <2>2, <4>4 DEF Accepts
    <3>4. QED  BY <3>1, <3>2, <3>3
  <2>4. ASSUME text[pos] = "/", After(text, pos) \in {"/", "*"} PROVE FALSE
    <3>1. pos < Len(text) /\ After(text, pos) = text[pos + 1]
      BY <2>4 DEF After
    <3>2. PICK k \in 1 .. Len(Rest) : k = 2 /\ (Accepts("open comment", Lexeme(k)) \/ Accepts("line comment", Lexeme(k)))
      BY <2>4, <3>1, OpensTwo
    <3>3. 2 <= Length
      BY <3>2, BestInCode
    <3>4. QED  BY <2>1, <3>3
  <2>5. \A i \in pos .. pos + N - 1 : i = pos
    BY <2>1, Ahead
  <2> HIDE DEF L, N
  <2>6. QED  BY <1>3, <2>1, <2>3, <2>4, <2>5 DEF Plain, N
<1>8. QED  BY <1>4, <1>5, <1>6, <1>7

\* The region of what a rule matched, and the mode it leaves, in the code.
LEMMA ReadInCode ==
    ASSUME Typed, Matches # {}, start = "INITIAL", InCode(text, pos - 1)
    PROVE  /\ Took(Region(Rule))
           /\ Rule \notin {"open comment", "open char", "open string"}
                => InCode(text, pos + Length - 1)
           /\ Rule = "open comment" => InMode(text, pos + Length - 1, "comment")
           /\ Rule = "open char" => InMode(text, pos + Length - 1, "char")
           /\ Rule = "open string" => InMode(text, pos + Length - 1, "string")
<1> DEFINE L == Lexeme(Length)
           N == Length
           p == pos - 1
<1>0. text \in Text
  BY DEF Typed
<1>1. /\ text \in Text /\ L \in Seq(STRING) /\ Len(L) = N /\ Accepts(Rule, L)
      /\ \A k \in 1 .. N : L[k] = text[pos + k - 1]
  BY Ahead, BestMatch DEF Text, Typed
<1>2. /\ Len(text) \in Nat /\ N \in Nat /\ pos \in Int /\ p \in 0 .. Len(text)
      /\ N \in 1 .. Len(text) - p /\ p + 1 = pos /\ p + N = pos + N - 1 /\ pos \in 1 .. Len(text)
      /\ 1 \in 1 .. N /\ pos + 1 - 1 = pos /\ pos + 2 - 1 = pos + 1
      /\ (N >= 2 => 2 \in 1 .. N /\ pos \in 1 .. Len(text) - 1)
  BY Ahead
<1>3. L[1] = text[pos] /\ (N >= 2 => L[2] = text[pos + 1])
  BY <1>1, <1>2
<1> HIDE DEF L, N
<1>4. text[pos] # "\n" => InMode(text, pos - 1, "code")
  BY <1>2 DEF InCode, InMode
<1>11. ASSUME NEW k, pos \in 1 .. Len(text) - 1, InMode(text, pos - 1, "code"),
              Unit("code", text[pos], text[pos + 1]) = MarkOf(k, k, TRUE)
       PROVE  /\ Units(text)[pos].mark = k /\ Units(text)[pos + 1].mark = k
              /\ InMode(text, pos + 1, k)
  BY <1>0, <1>11, TwoSteps
<1>5. CASE Rule \in {"keyword", "operator", "space", "word", "integer", "other"}
  <2>1. \A i \in p + 1 .. p + N : Plain(text, i)
    BY <1>2, <1>5, PlainRule DEF N
  <2>2. /\ \A i \in p + 1 .. p + N : Units(text)[i].mark = "code"
        /\ InMode(text, p + N, "code")
    <3>1. InCode(text, p)
      OBVIOUS
    <3> HIDE DEF p
    <3>2. QED  BY <1>1, <1>2, <2>1, <3>1, PlainReading
  <2>3. Region(Rule) = "code"
    BY <1>5 DEF Region
  <2>4. Took("code") /\ InCode(text, pos + Length - 1)
    BY <1>2, <2>2 DEF Took, N, InCode, InMode
  <2>5. QED  BY <1>5, <2>3, <2>4
<1>6. CASE Rule = "line comment"
  <2>1. IsPrefix(<<"/", "/">>, L) /\ ~Contains(L, "\n")
    BY <1>1, <1>6 DEF Accepts
  <2>2. N >= 2 /\ L[1] = "/" /\ L[2] = "/"
    <3>1. Len(L) >= 2
      BY <2>1 DEF IsPrefix
    <3>2. L \in Text
      BY <1>1 DEF Text
    <3>3. QED  BY <1>1, <2>1, <3>1, <3>2, PrefixOfTwo
  <2>3. text[pos] = "/" /\ text[pos + 1] = "/" /\ pos \in 1 .. Len(text) - 1
    BY <1>2, <1>3, <2>2
  <2>4. /\ Units(text)[pos].mark = "line" /\ Units(text)[pos + 1].mark = "line"
        /\ InMode(text, pos + 1, "line")
    <3>1. Unit("code", text[pos], text[pos + 1]) = MarkOf("line", "line", TRUE)
      BY <2>3, UnitOfCode
    <3>2. InMode(text, pos - 1, "code")
      BY <1>4, <2>3
    <3>3. QED  BY <1>11, <2>3, <3>1, <3>2
  <2>5. /\ pos + 1 \in 0 .. Len(text) /\ N - 2 \in 0 .. Len(text) - (pos + 1)
        /\ (pos + 1) + 1 = pos + 2 /\ (pos + 1) + (N - 2) = pos + N - 1
    BY <1>2, <2>2
  <2>6. ASSUME NEW i \in (pos + 1) + 1 .. (pos + 1) + (N - 2)
        PROVE  Unit("line", text[i], After(text, i)) = MarkOf("line", "line", FALSE)
    <3>1. i - pos + 1 \in 1 .. N /\ pos + (i - pos + 1) - 1 = i
      BY <1>2, <2>2
    <3>2. text[i] = L[i - pos + 1] /\ L[i - pos + 1] # "\n"
      BY <1>1, <2>1, <3>1 DEF Contains
    <3>3. QED  BY <3>2, UnitElsewhere
  <2>7. /\ \A i \in (pos + 1) + 1 .. (pos + 1) + (N - 2) : Units(text)[i].mark = "line"
        /\ InMode(text, (pos + 1) + (N - 2), "line")
    <3> DEFINE q == pos + 1
               n == N - 2
    <3>1. /\ text \in Text /\ q \in 0 .. Len(text) /\ n \in 0 .. Len(text) - q
          /\ InMode(text, q, "line")
          /\ \A i \in q + 1 .. q + n :
                Unit("line", text[i], After(text, i)) = MarkOf("line", "line", FALSE)
      BY <1>1, <2>4, <2>5, <2>6
    <3> HIDE DEF q, n
    <3>2. (\A i \in q + 1 .. q + n : Units(text)[i].mark = "line") /\ InMode(text, q + n, "line")
      BY <3>1, StayingReading
    <3>3. QED  BY <3>2 DEF q, n
  <2>8. Took("line")
    <3>1. \A i \in pos .. pos + N - 1 :
              i = pos \/ i = pos + 1 \/ i \in (pos + 1) + 1 .. (pos + 1) + (N - 2)
      BY <1>2, <2>2
    <3>2. QED  BY <2>4, <2>7, <3>1 DEF Took, N
  <2>9. ASSUME pos + N - 1 < Len(text) PROVE text[(pos + N - 1) + 1] = "\n"
    <3>1. SUFFICES ASSUME text[pos + N] # "\n" PROVE FALSE
      BY <1>2
    <3> DEFINE M == Lexeme(N + 1)
    <3>2. N + 1 \in 1 .. Len(Rest)
      BY <1>2, <2>9, LexemeIs
    <3>3. /\ M \in Seq(STRING) /\ Len(M) = N + 1
          /\ \A k \in 1 .. N + 1 : M[k] = text[pos + k - 1]
      BY <3>2, LexemeIs DEF Text
    <3> HIDE DEF M
    <3>4. \A k \in 1 .. N + 1 : M[k] = IF k = N + 1 THEN text[pos + N] ELSE L[k]
      <4>1. \A k \in 1 .. N + 1 : k = N + 1 \/ k \in 1 .. N
        BY <1>2
      <4>2. pos + (N + 1) - 1 = pos + N
        BY <1>2
      <4>3. QED  BY <1>1, <3>3, <4>1, <4>2
    <3>5. ~Contains(M, "\n")
      <4>1. ASSUME NEW k \in 1 .. N + 1 PROVE M[k] # "\n"
        <5>1. CASE k = N + 1
          BY <3>1, <3>4, <5>1
        <5>2. CASE k # N + 1
          <6>1. k \in 1 .. N /\ M[k] = L[k]
            BY <1>2, <3>4, <5>2
          <6>2. QED  BY <1>1, <2>1, <6>1 DEF Contains
        <5>3. QED  BY <5>1, <5>2
      <4>2. QED  BY <3>3, <4>1 DEF Contains
    <3>6. IsPrefix(<<"/", "/">>, M)
      <4>1. M[1] = "/" /\ M[2] = "/" /\ Len(M) >= 2
        <5>1. /\ 1 \in 1 .. N + 1 /\ 2 \in 1 .. N + 1 /\ 1 # N + 1 /\ 2 # N + 1
              /\ N + 1 >= 2
          BY <1>2, <2>2
        <5>2. QED  BY <2>2, <3>3, <3>4, <5>1
      <4>2. M \in Text
        BY <3>3 DEF Text
      <4>3. QED  BY <4>1, <4>2, PrefixOfTwo
    <3>7. Accepts("line comment", M)
      BY <3>5, <3>6 DEF Accepts
    <3>8. N + 1 <= Length
      BY <3>2, <3>7, BestInCode DEF M
    <3>9. QED  BY <1>2, <3>8 DEF N
  <2>10. InCode(text, pos + Length - 1)
    BY <2>5, <2>7, <2>9 DEF InCode, InMode, N
  <2>11. Region(Rule) = "line"
    BY <1>6 DEF Region
  <2>12. QED  BY <1>6, <2>8, <2>10, <2>11
<1>7. CASE Rule = "open comment"
  <2>1. L = <<"/", "*">>
    BY <1>1, <1>7 DEF Accepts
  <2>2. N = 2 /\ L[1] = "/" /\ L[2] = "*"
    BY <1>1, <2>1
  <2>3. text[pos] = "/" /\ text[pos + 1] = "*" /\ pos \in 1 .. Len(text) - 1
    BY <1>2, <1>3, <2>2
  <2>4. /\ Units(text)[pos].mark = "comment" /\ Units(text)[pos + 1].mark = "comment"
        /\ InMode(text, pos + 1, "comment")
    <3>1. Unit("code", text[pos], text[pos + 1]) = MarkOf("comment", "comment", TRUE)
      BY <2>3, UnitOfCode
    <3>2. InMode(text, pos - 1, "code")
      BY <1>4, <2>3
    <3>3. QED  BY <1>11, <2>3, <3>1, <3>2
  <2>5. pos + N - 1 = pos + 1 /\ \A i \in pos .. pos + N - 1 : i = pos \/ i = pos + 1
    BY <1>2, <2>2
  <2>6. Took("comment") /\ InMode(text, pos + Length - 1, "comment")
    BY <2>4, <2>5 DEF Took, N
  <2>7. Region(Rule) = "comment"
    BY <1>7 DEF Region
  <2>8. QED  BY <1>7, <2>6, <2>7
<1>8. ASSUME NEW m, NEW quote, Quoted(m, quote), L = <<quote>>
      PROVE  Took(m) /\ InMode(text, pos + Length - 1, m)
  <2>1. N = 1 /\ text[pos] = quote
    BY <1>1, <1>3, <1>8
  <2>2. text[pos] # "\n" /\ Unit("code", text[pos], After(text, pos)) = MarkOf(m, m, FALSE)
    <3>1. CASE m = "char" /\ quote = "'"
      BY <2>1, <3>1, UnitOfCode
    <3>2. CASE m = "string" /\ quote = "\""
      BY <2>1, <3>2, UnitOfCode
    <3>3. QED  BY <1>8, <3>1, <3>2 DEF Quoted
  <2>3. Units(text)[pos].mark = m /\ InMode(text, pos, m)
    <3>1. InMode(text, pos - 1, "code")
      BY <1>4, <2>2
    <3>2. pos \in 1 .. Len(text)
      BY <1>2
    <3>3. QED  BY <1>0, <2>2, <3>1, <3>2, OneStep
  <2>4. pos + N - 1 = pos /\ \A i \in pos .. pos + N - 1 : i = pos
    BY <1>2, <2>1
  <2>5. QED  BY <2>3, <2>4 DEF Took, N
<1>9. CASE Rule = "open char"
  <2>1. L = <<"'">>
    BY <1>1, <1>9 DEF Accepts
  <2>2. Quoted("char", "'") /\ Region(Rule) = "char"
    BY <1>9 DEF Quoted, Region
  <2>3. QED  BY <1>8, <1>9, <2>1, <2>2
<1>10. CASE Rule = "open string"
  <2>1. L = <<"\"">>
    BY <1>1, <1>10 DEF Accepts
  <2>2. Quoted("string", "\"") /\ Region(Rule) = "string"
    BY <1>10 DEF Quoted, Region
  <2>3. QED  BY <1>8, <1>10, <2>1, <2>2
<1>12. QED  BY <1>5, <1>6, <1>7, <1>9, <1>10, BestInCode

LEMMA BestInComment ==
    ASSUME Typed, Matches # {}, start = "COMMENT"
    PROVE  /\ Rule \in {"close comment", "comment text"}
           /\ \A k \in 1 .. Len(Rest) : Accepts("close comment", Lexeme(k)) => k <= Length
<1> DEFINE j == Longest(Matches)[2]
<1>1. j \in 1 .. 2 /\ Rule = Rules["COMMENT"][j]
  BY BestMatch, RulesOf DEF Rule
<1>2. Length \in Int
  BY BestMatch
<1>3. \A k \in 1 .. Len(Rest), i \in 1 .. 2 :
          Accepts(Rules["COMMENT"][i], Lexeme(k)) => Length > k \/ (Length = k /\ j <= i)
  BY BestMatch, RulesOf
<1> HIDE DEF j
<1>4. j \in {1, 2}
  BY <1>1
<1>5. Rule \in {"close comment", "comment text"}
  BY <1>1, <1>4, RulesOf
<1>6. ASSUME NEW k \in 1 .. Len(Rest), Accepts("close comment", Lexeme(k))
      PROVE  k <= Length
  <2>1. 1 \in 1 .. 2
    OBVIOUS
  <2>2. Length > k \/ Length = k
    BY <1>3, <1>6, <2>1, RulesOf
  <2>3. k \in Int
    OBVIOUS
  <2>4. QED  BY <1>2, <2>2, <2>3
<1>7. QED  BY <1>5, <1>6

\* In a comment: its text, or its end.
LEMMA ReadInComment ==
    ASSUME Typed, Matches # {}, start = "COMMENT", InMode(text, pos - 1, "comment")
    PROVE  /\ Took("comment")
           /\ Rule = "close comment" => InCode(text, pos + Length - 1)
           /\ Rule = "comment text" => InMode(text, pos + Length - 1, "comment")
<1> DEFINE L == Lexeme(Length)
           N == Length
           p == pos - 1
<1>0. text \in Text
  BY DEF Typed
<1>1. /\ L \in Seq(STRING) /\ Len(L) = N /\ Accepts(Rule, L)
      /\ \A k \in 1 .. N : L[k] = text[pos + k - 1]
  BY Ahead, BestMatch DEF Text, Typed
<1>2. /\ Len(text) \in Nat /\ N \in Nat /\ pos \in Int /\ p \in 0 .. Len(text)
      /\ N \in 0 .. Len(text) - p /\ N >= 1
      /\ p + 1 = pos /\ p + N = pos + N - 1 /\ pos \in 1 .. Len(text)
      /\ 1 \in 1 .. N /\ pos + 1 - 1 = pos /\ pos + 2 - 1 = pos + 1
      /\ (N >= 2 => 2 \in 1 .. N /\ pos \in 1 .. Len(text) - 1)
  BY Ahead
<1>3. L[1] = text[pos] /\ (N >= 2 => L[2] = text[pos + 1])
  BY <1>1, <1>2
<1> HIDE DEF L, N
<1>4. CASE Rule = "close comment"
  <2>1. L = <<"*", "/">>
    BY <1>1, <1>4 DEF Accepts
  <2>2. N = 2 /\ L[1] = "*" /\ L[2] = "/"
    BY <1>1, <2>1
  <2>3. text[pos] = "*" /\ text[pos + 1] = "/" /\ pos \in 1 .. Len(text) - 1
    BY <1>2, <1>3, <2>2
  <2>4. Unit("comment", text[pos], text[pos + 1]) = MarkOf("comment", "code", TRUE)
    BY <2>3, UnitElsewhere
  <2>5. ASSUME NEW k, NEW t, pos \in 1 .. Len(text) - 1, InMode(text, pos - 1, "comment"),
               Unit("comment", text[pos], text[pos + 1]) = MarkOf(k, t, TRUE)
        PROVE  /\ Units(text)[pos].mark = k /\ Units(text)[pos + 1].mark = k
               /\ InMode(text, pos + 1, t)
    BY <1>0, <2>5, TwoSteps
  <2>6. /\ Units(text)[pos].mark = "comment" /\ Units(text)[pos + 1].mark = "comment"
        /\ InMode(text, pos + 1, "code")
    BY <2>3, <2>4, <2>5
  <2>7. pos + N - 1 = pos + 1 /\ \A i \in pos .. pos + N - 1 : i = pos \/ i = pos + 1
    BY <1>2, <2>2
  <2>8. QED  BY <1>4, <2>6, <2>7 DEF Took, N, InCode, InMode
<1>5. CASE Rule = "comment text"
  <2>1. ~Contains(L, "*") \/ L = <<"*">>
    BY <1>1, <1>5 DEF Accepts, CommentText
  <2>2. ASSUME NEW i \in p + 1 .. p + N, text[i] = "*" PROVE After(text, i) # "/"
    <3>1. i - pos + 1 \in 1 .. N /\ pos + (i - pos + 1) - 1 = i
      BY <1>2
    <3>2. L[i - pos + 1] = "*"
      BY <1>1, <2>2, <3>1
    <3>3. L = <<"*">>
      BY <1>1, <2>1, <3>1, <3>2 DEF Contains
    <3>4. N = 1 /\ i = pos
      <4>1. N = 1
        BY <1>1, <3>3
      <4>2. QED  BY <1>2, <4>1
    <3>5. SUFFICES ASSUME After(text, pos) = "/" PROVE FALSE
      BY <3>4
    <3>6. pos < Len(text) /\ text[pos + 1] = "/"
      <4>1. pos < Len(text) \/ After(text, pos) = ""
        BY DEF After
      <4>2. QED  BY <3>5, <4>1 DEF After
    <3> DEFINE M == Lexeme(2)
    <3>7. 2 \in 1 .. Len(Rest)
      BY <1>2, <3>6, LexemeIs
    <3>8. M \in Seq(STRING) /\ Len(M) = 2 /\ \A k \in 1 .. 2 : M[k] = text[pos + k - 1]
      BY <3>7, LexemeIs DEF Text
    <3> HIDE DEF M
    <3>9. M[1] = "*" /\ M[2] = "/"
      <4>1. 1 \in 1 .. 2 /\ 2 \in 1 .. 2
        OBVIOUS
      <4>2. M[1] = text[pos + 1 - 1] /\ M[2] = text[pos + 2 - 1]
        BY <3>8, <4>1
      <4>3. QED  BY <1>2, <2>2, <3>4, <3>6, <4>2
    <3>10. M = <<"*", "/">>
      <4>1. M = <<M[1], M[2]>>
        BY <3>8
      <4>2. QED  BY <3>9, <4>1
    <3>11. 2 <= Length
      BY <3>7, <3>10, BestInComment DEF Accepts, M
    <3>12. QED  BY <3>4, <3>11 DEF N
  <2>3. \A i \in p + 1 .. p + N :
            Unit("comment", text[i], After(text, i)) = MarkOf("comment", "comment", FALSE)
    BY <2>2, UnitElsewhere
  <2>4. InMode(text, p, "comment")
    OBVIOUS
  <2> HIDE DEF p
  <2>5. /\ \A i \in p + 1 .. p + N : Units(text)[i].mark = "comment"
        /\ InMode(text, p + N, "comment")
    BY <1>0, <1>2, <2>3, <2>4, StayingReading
  <2>6. QED  BY <1>2, <1>5, <2>5 DEF Took, N
<1>6. QED  BY <1>4, <1>5, BestInComment

LEMMA RuleOfLiteral ==
    ASSUME Typed, Matches # {}, start \in {"CH", "STR"}
    PROVE  Rule = IF start = "CH" THEN "character" ELSE "string"
<1>1. 1 .. 1 = {1}
  OBVIOUS
<1>2. CASE start = "CH"
  BY <1>1, <1>2, BestMatch, RulesOf DEF Rule
<1>3. CASE start = "STR"
  BY <1>1, <1>3, BestMatch, RulesOf DEF Rule
<1>4. QED  BY <1>2, <1>3

\* What is escaped in a lexeme is what is escaped in the rest of the text.
LEMMA UnescapedInLexeme ==
    ASSUME Typed, NEW n \in 1 .. Len(Rest)
    PROVE  \A i \in 1 .. n : \A c : Unescaped(Lexeme(n), i, c) <=> Unescaped(Rest, i, c)
<1>1. /\ Rest \in Text /\ Lexeme(n) \in Text /\ Len(Lexeme(n)) = n /\ n <= Len(Rest)
      /\ \A k \in 1 .. n : k \in 1 .. Len(Rest)
  BY LexemeIs DEF Text
<1>2. \A k \in 1 .. n : Lexeme(n)[k] = Rest[k]
  BY <1>1, LexemeIs
<1>3. \A i \in 0 .. n : Escapes(Lexeme(n))[i] <=> Escapes(Rest)[i]
  BY <1>1, <1>2, EscapesOfPrefix
<1>4. \A i \in 1 .. n : i - 1 \in 0 .. n
  OBVIOUS
<1>5. QED  BY <1>2, <1>3, <1>4 DEF Unescaped

\* The rest of a literal; that of a character constant does not take a later quote.
LEMMA ReadInLiteral ==
    ASSUME Typed, Matches # {}, start \in {"CH", "STR"}, NEW m, NEW quote,
           Quoted(m, quote), start = "CH" <=> m = "char", InMode(text, pos - 1, m),
           \A i \in 1 .. Length - 1 : ~Unescaped(Rest, i, quote)
    PROVE  Took(m) /\ InCode(text, pos + Length - 1)
<1> DEFINE L == Lexeme(Length)
           N == Length
           p == pos - 1
<1>0. text \in Text /\ L \in Text
  BY Ahead DEF Typed
<1>1. /\ Len(L) = N /\ Accepts(Rule, L)
      /\ \A k \in 1 .. N : L[k] = text[pos + k - 1]
  BY Ahead, BestMatch
<1>2. /\ Len(text) \in Nat /\ N \in Nat /\ pos \in Int /\ p \in 0 .. Len(text)
      /\ N \in 1 .. Len(text) - p /\ N <= Len(L) /\ N \in 1 .. N /\ N \in 1 .. Len(Rest)
      /\ p + 1 = pos /\ p + N = pos + N - 1
      /\ \A k \in 1 .. N : pos + k - 1 = p + k
      /\ \A k \in 1 .. N - 1 : k \in 1 .. N
  <2>1. Len(text) \in Nat /\ pos \in Int /\ 1 <= pos /\ 1 <= N /\ N \in Int
    BY Ahead
  <2>2. /\ pos + N - 1 <= Len(text) /\ N <= Len(Rest) /\ Len(Rest) = Len(text) - pos + 1
        /\ Len(L) = N
    BY Ahead
  <2> HIDE DEF L, N
  <2>3. QED  BY <2>1, <2>2
<1>3. Accepts(IF start = "CH" THEN "character" ELSE "string", L)
  BY <1>1, RuleOfLiteral
<1>4. Unescaped(L, Len(L), quote)
  <2>1. CASE m = "char" /\ quote = "'"
    BY <1>3, <2>1 DEF Accepts, Literal, Closed
  <2>2. CASE m = "string" /\ quote = "\""
    BY <1>3, <2>2 DEF Accepts, Literal, Closed
  <2>3. QED  BY <2>1, <2>2 DEF Quoted
<1>5. \A i \in 1 .. N - 1 : ~Unescaped(L, i, quote)
  BY <1>2, UnescapedInLexeme
<1>6. \A k \in 1 .. N : L[k] = text[p + k]
  BY <1>1, <1>2
<1>7. InMode(text, p, m) /\ Unescaped(L, N, quote)
  BY <1>1, <1>4
<1> HIDE DEF L, N, p
<1>8. (\A i \in p + 1 .. p + N : Units(text)[i].mark = m) /\ InMode(text, p + N, "code")
  BY <1>0, <1>2, <1>5, <1>6, <1>7, LiteralReading
<1>9. QED  BY <1>2, <1>8 DEF Took, N, InCode, InMode

-----------------------------------------------------------------------------
\* The invariant.  Of the states that the rules pass through: the tokens are where
\* they say; the position is counted exactly; what the rules took each character for
\* and what they have open is what C makes of it; and a byte above 127 that is taken
\* for the end is one in the code.

Spans(t) == 1 <= t.at[1] /\ t.at[1] <= t.at[2] /\ t.at[2] <= Len(text) + 1

Placed(t) ==
    t.line > 0 =>
        /\ t.line = LineOf(t.at[2])
        /\ \/ Hidden(t.at[1])
           \/ t.column = IF \E i \in t.at[1] .. t.at[2] : text[i] = "\n" THEN 1 ELSE ColumnOf(t.at[1])

Listed ==
    /\ tokens \in Seq(Range(tokens))
    /\ \A t \in Range(tokens) : t.at \in Int \X Int /\ Spans(t) /\ Placed(t)

Located ==
    /\ line = LineOf(pos) /\ column \in 0 .. pos - 1
    /\ Hidden(pos) \/ column = ColumnOf(pos) - 1

Opened(condition, p) ==
    /\ condition = "INITIAL" => InCode(text, p)
    /\ condition = "COMMENT" => InMode(text, p, "comment")
    /\ condition = "CH" => InMode(text, p, "char")
    /\ condition = "STR" => InMode(text, p, "string")

Agreed ==
    \/ SwallowedQuote
    \/ /\ \A i \in 1 .. pos - 1 : regions[i] = Units(text)[i].mark
       /\ Opened(start, pos - 1)

EndSeen ==
    tokens # <<>> /\ TakenForEnd =>
        /\ pos > 1 /\ regions[pos - 1] = "code"
        /\ text[pos - 1] = Nul \/ (asker = "parser" /\ text[pos - 1] = HighByte)

ScanInv ==
    Typed /\ Listed /\ Located /\ Agreed /\ EndSeen /\ JamsInOpenLiteral /\ EndIsComplete

LEMMA AppendedTo ==
    ASSUME NEW s, s \in Seq(Range(s)), NEW e
    PROVE  /\ Append(s, e) \in Seq(Range(Append(s, e)))
           /\ Range(Append(s, e)) = Range(s) \cup {e}
           /\ Append(s, e) # <<>> /\ Last(Append(s, e)) = e
<1> DEFINE S == Range(s) \cup {e}
           a == Append(s, e)
           n == Len(s)
<1>1. s \in Seq(S) /\ e \in S /\ n \in Nat /\ DOMAIN s = 1 .. n
  <2>1. Range(s) \subseteq S /\ e \in S
    OBVIOUS
  <2> HIDE DEF S
  <2>2. QED  BY <2>1, LenProperties
<1>2. \A x \in Range(s) : \E i \in 1 .. n : s[i] = x
  BY <1>1 DEF Range
<1>3. \A i \in 1 .. n : s[i] \in Range(s)
  BY ElementOfSeq
<1> HIDE DEF S
<1>4. /\ a \in Seq(S) /\ a # <<>> /\ Len(a) = n + 1
      /\ \A i \in 1 .. n : a[i] = s[i]
      /\ a[n + 1] = e
  BY <1>1, AppendProperties
<1>5. DOMAIN a = 1 .. n + 1
  <2> HIDE DEF a, n
  <2>1. QED  BY <1>4, LenProperties
<1> HIDE DEF a, n
<1>6. \A i \in 1 .. n + 1 : i = n + 1 \/ i \in 1 .. n
  BY <1>1
<1>7. n + 1 \in 1 .. n + 1 /\ \A i \in 1 .. n : i \in 1 .. n + 1
  BY <1>1
<1>8. Range(a) = S
  <2>1. Range(a) = {a[i] : i \in 1 .. n + 1}
    BY <1>5 DEF Range
  <2>2. ASSUME NEW x \in Range(a) PROVE x \in S
    BY <1>3, <1>4, <1>6, <2>1, <2>2 DEF S
  <2>3. ASSUME NEW x \in S PROVE x \in Range(a)
    <3>1. CASE x = e
      BY <1>4, <1>7, <2>1, <3>1
    <3>2. CASE x \in Range(s)
      BY <1>2, <1>4, <1>7, <2>1, <3>2
    <3>3. QED  BY <3>1, <3>2 DEF S
  <2>4. QED  BY <2>2, <2>3
<1>9. QED  BY <1>4, <1>8 DEF a, n, S, Last

LEMMA BeginsIs ==
    /\ DOMAIN Begins = {"open comment", "close comment", "open char", "open string"}
    /\ Begins["open comment"] = "COMMENT" /\ Begins["close comment"] = "INITIAL"
    /\ Begins["open char"] = "CH" /\ Begins["open string"] = "STR"
BY DEF Begins

LEMMA MatchIs ==
    ASSUME Match
    PROVE  /\ Asked /\ Matches # {} /\ Advance(Rule, Lexeme(Length))
           /\ \/ Skip(Rule)
              \/ Switch(Rule)
              \/ PlainToken(Rule, Lexeme(Length))
              \/ OtherToken(Rule, Lexeme(Length))
              \/ WordToken(Rule, Lexeme(Length))
              \/ LiteralToken(Rule, Lexeme(Length))
           /\ UNCHANGED <<text, asker, typename, status>>
BY DEF Match, Rule, Length, Lexeme

\* A token of the lexeme.
Token(kind, image) ==
    [kind |-> kind, image |-> image, line |-> line + Newlines(Lexeme(Length)),
     column |-> ColumnBefore(Lexeme(Length)) + 1, at |-> <<pos, pos + Length - 1>>]

LEMMA RegionType ==
    ASSUME NEW rule
    PROVE  Region(rule) \in Modes
BY DEF Region, Modes

LEMMA MatchAdvances ==
    ASSUME Typed, Match
    PROVE  /\ pos' = pos + Length
           /\ \A i \in 1 .. pos - 1 : regions'[i] = regions[i]
           /\ \A i \in pos .. pos + Length - 1 : regions'[i] = Region(Rule)
           /\ Typed'
<1> DEFINE L == Lexeme(Length)
           more == [i \in DOMAIN L |-> Region(Rule)]
<1>1. Matches # {} /\ Advance(Rule, L) /\ UNCHANGED <<text, asker, typename, status>>
  BY MatchIs
<1>2. L \in Text /\ Len(L) = Length /\ DOMAIN L = 1 .. Length
  BY <1>1, Ahead, LenProperties DEF Text
<1>3. /\ Len(text) \in Nat /\ pos \in Int /\ Length \in Nat /\ 1 <= pos /\ 1 <= Length
      /\ pos + Length - 1 <= Len(text)
  BY <1>1, Ahead
<1>4. pos' = pos + Length /\ regions' = regions \o more
  BY <1>1, <1>2 DEF Advance
<1>5. /\ more \in Seq(Modes) /\ Len(more) = Length
      /\ \A i \in 1 .. Length : more[i] = Region(Rule)
  <2>1. \A i \in 1 .. Length : Region(Rule) \in Modes
    BY RegionType
  <2> HIDE DEF L
  <2>2. more = [i \in 1 .. Length |-> Region(Rule)]
    BY <1>2
  <2>3. more \in [1 .. Length -> Modes]
    BY <2>1, <2>2
  <2>4. \A i \in 1 .. Length : more[i] = Region(Rule)
    BY <2>2
  <2> HIDE DEF more
  <2>5. more \in Seq(Modes) /\ Len(more) = Length
    BY <1>3, <2>3
  <2>6. QED  BY <2>4, <2>5
<1>6. regions \in Seq(Modes) /\ Len(regions) = pos - 1
  BY DEF Typed
<1> HIDE DEF L, more
<1>7. /\ regions' \in Seq(Modes) /\ Len(regions') = (pos - 1) + Length
      /\ \A i \in 1 .. (pos - 1) + Length :
            regions'[i] = IF i <= pos - 1 THEN regions[i] ELSE more[i - (pos - 1)]
  <2>1. /\ regions \o more \in Seq(Modes) /\ Len(regions \o more) = Len(regions) + Len(more)
        /\ \A i \in 1 .. Len(regions) + Len(more) :
              (regions \o more)[i] = IF i <= Len(regions) THEN regions[i] ELSE more[i - Len(regions)]
    BY <1>5, <1>6, ConcatProperties
  <2>2. QED  BY <1>4, <1>5, <1>6, <2>1
<1>8. \A i \in 1 .. pos - 1 : regions'[i] = regions[i]
  <2>1. \A i \in 1 .. pos - 1 : i \in 1 .. (pos - 1) + Length /\ i <= pos - 1
    BY <1>3
  <2>2. QED  BY <1>7, <2>1
<1>9. \A i \in pos .. pos + Length - 1 : regions'[i] = Region(Rule)
  <2>1. \A i \in pos .. pos + Length - 1 :
            /\ i \in 1 .. (pos - 1) + Length /\ ~(i <= pos - 1)
            /\ i - (pos - 1) \in 1 .. Length
    BY <1>3
  <2>2. QED  BY <1>5, <1>7, <2>1
<1>10. start' \in Conditions
  <2>1. start \in Conditions
    BY DEF Typed
  <2>2. CASE Skip(Rule) \/ PlainToken(Rule, L) \/ OtherToken(Rule, L) \/ WordToken(Rule, L)
    BY <2>1, <2>2 DEF Skip, PlainToken, OtherToken, WordToken
  <2>3. CASE Switch(Rule)
    BY <2>3, BeginsIs DEF Switch, Conditions
  <2>4. CASE LiteralToken(Rule, L)
    BY <2>4 DEF LiteralToken, Conditions
  <2>5. QED  BY <2>2, <2>3, <2>4, MatchIs DEF L
<1>11. pos' \in 1 .. Len(text') + 1 /\ Len(regions') = pos' - 1
  BY <1>1, <1>3, <1>4, <1>7
<1>12. Typed'
  BY <1>1, <1>7, <1>10, <1>11 DEF Typed
<1>13. QED  BY <1>4, <1>8, <1>9, <1>12

LEMMA PlaceIs ==
    ASSUME NEW i, NEW k, i - 1 = k
    PROVE  /\ LineOf(i) = 1 + Newlines(SubSeq(text, 1, k))
           /\ ColumnOf(i) = i - LineStart(SubSeq(text, 1, k))
BY DEF LineOf, ColumnOf

\* The characters before the position, before and after.
LEMMA PlacesAdvance ==
    ASSUME Typed, Matches # {}
    PROVE  LET lexeme == Lexeme(Length)
           IN  /\ LineOf(pos + Length) = LineOf(pos) + Newlines(lexeme)
               /\ ColumnOf(pos + Length) =
                    IF LineStart(lexeme) = 0 THEN ColumnOf(pos) + Length
                    ELSE 1 + Length - LineStart(lexeme)
               /\ LineOf(pos) \in 1 .. pos /\ ColumnOf(pos) \in 1 .. pos
               /\ Newlines(lexeme) \in 0 .. Length /\ LineStart(lexeme) \in 0 .. Length
               /\ text[pos + Length - 1] # "\n" =>
                    LineOf(pos + Length - 1) = LineOf(pos) + Newlines(lexeme)
<1> DEFINE p == pos - 1
           n == Length
           L == Lexeme(n)
           A(k) == SubSeq(text, 1, k)
<1>1. /\ text \in Text /\ Len(text) \in Nat /\ p \in 0 .. Len(text) /\ n \in 0 .. Len(text) - p
      /\ n \in Nat /\ n >= 1 /\ pos \in Nat /\ p + 1 = pos /\ p + n = pos + n - 1
      /\ p + n \in 0 .. Len(text) /\ n \in 1 .. Len(Rest)
      /\ (pos + n) - 1 = p + n
  <2>1. /\ Len(text) \in Nat /\ pos \in Int /\ n \in Int /\ 1 <= pos /\ 1 <= n
        /\ pos + n - 1 <= Len(text) /\ n <= Len(Rest) /\ Len(Rest) = Len(text) - pos + 1
    BY Ahead
  <2>2. text \in Text
    BY DEF Typed
  <2> HIDE DEF n
  <2>3. QED  BY <2>1, <2>2
<1>2. L = SubSeq(text, p + 1, p + n) /\ L \in Text /\ Len(L) = n
  BY <1>1, LexemeIs
<1>3. \A k \in 0 .. Len(text) : /\ A(k) \in Text /\ Len(A(k)) = k
                                /\ \A i \in 1 .. k : A(k)[i] = text[i]
  <2>1. ASSUME NEW k \in 0 .. Len(text)
        PROVE  A(k) \in Text /\ Len(A(k)) = k /\ \A i \in 1 .. k : A(k)[i] = text[i]
    <3>1. /\ 1 \in 1 .. Len(text) + 1 /\ k \in 1 - 1 .. Len(text) /\ k - 1 + 1 = k
          /\ \A i \in 1 .. k : 1 + i - 1 = i
      BY <1>1
    <3>2. /\ A(k) \in Text /\ Len(A(k)) = k - 1 + 1
          /\ \A i \in 1 .. k - 1 + 1 : A(k)[i] = text[1 + i - 1]
      BY <1>1, <3>1, PartIs
    <3> HIDE DEF A
    <3>3. QED  BY <3>1, <3>2
  <2>2. QED  BY <2>1
<1>4. Newlines(A(p + n)) = Newlines(A(p)) + Newlines(L)
  <2>1. Newlines(A(p + n)) = Newlines(A(p)) + Newlines(SubSeq(text, p + 1, p + n))
    <3> HIDE DEF L, p, n
    <3>1. QED  BY <1>1, NewlinesOfParts
  <2>2. QED  BY <1>2, <2>1
<1>5. LineStart(A(p + n)) = IF LineStart(L) = 0 THEN LineStart(A(p)) ELSE p + LineStart(L)
  <2>1. LET lexeme == SubSeq(text, p + 1, p + n)
        IN  LineStart(A(p + n)) =
                IF LineStart(lexeme) = 0 THEN LineStart(A(p)) ELSE p + LineStart(lexeme)
    <3> HIDE DEF L, p, n
    <3>1. QED  BY <1>1, LineStartOfParts
  <2>2. QED  BY <1>2, <2>1
<1>6. /\ Newlines(A(p)) \in 0 .. p /\ LineStart(A(p)) \in 0 .. p
      /\ Newlines(L) \in 0 .. n /\ LineStart(L) \in 0 .. n
  <2> HIDE DEF L, p, n, A
  <2>1. QED  BY <1>1, <1>2, <1>3, NewlinesType, LineStartIs
<1>7. /\ LineOf(pos + n) = 1 + Newlines(A(p + n)) /\ LineOf(pos) = 1 + Newlines(A(p))
      /\ ColumnOf(pos + n) = (pos + n) - LineStart(A(p + n))
      /\ ColumnOf(pos) = pos - LineStart(A(p))
  <2>1. (pos + n) - 1 = p + n /\ pos - 1 = p
    BY <1>1
  <2> HIDE DEF p, n, L
  <2>2. LineOf(pos + n) = 1 + Newlines(A(p + n)) /\ ColumnOf(pos + n) = (pos + n) - LineStart(A(p + n))
    BY <2>1, PlaceIs
  <2>3. LineOf(pos) = 1 + Newlines(A(p)) /\ ColumnOf(pos) = pos - LineStart(A(p))
    BY <2>1, PlaceIs
  <2>4. QED  BY <2>2, <2>3
<1>8. ASSUME text[pos + n - 1] # "\n"
      PROVE  LineOf(pos + n - 1) = LineOf(pos) + Newlines(L)
  <2>1. /\ p + n - 1 \in 0 .. Len(text) /\ p + n = (p + n - 1) + 1
        /\ \A i \in 1 .. p + n - 1 : i \in 1 .. p + n
        /\ p + n \in 1 .. p + n
        /\ (pos + n - 1) - 1 = p + n - 1
    BY <1>1
  <2> DEFINE a == A(p + n - 1)
             b == A(p + n)
  <2>2. /\ a \in Text /\ Len(a) = p + n - 1
        /\ \A i \in 1 .. p + n - 1 : a[i] = text[i]
        /\ b \in Text /\ Len(b) = p + n
        /\ \A i \in 1 .. p + n : b[i] = text[i]
    <3> HIDE DEF A, p, n
    <3>1. QED  BY <1>1, <1>3, <2>1
  <2>3. b[Len(b)] # "\n"
    <3> HIDE DEF a, b
    <3>1. QED  BY <1>1, <1>8, <2>1, <2>2
  <2>4. Newlines(b) = Newlines(a)
    <3>1. Len(b) = Len(a) + 1 /\ \A i \in 1 .. Len(a) : b[i] = a[i]
      <4> HIDE DEF a, b
      <4>1. QED  BY <1>1, <2>1, <2>2
    <3> HIDE DEF a, b
    <3>2. QED  BY <2>2, <2>3, <3>1, NewlinesMore
  <2>5. LineOf(pos + n - 1) = 1 + Newlines(a)
    BY <2>1 DEF LineOf
  <2>6. Newlines(b) = Newlines(A(p)) + Newlines(L)
    BY <1>4
  <2> DEFINE x == Newlines(A(p))
             y == Newlines(L)
  <2>7. x \in Int /\ y \in Int /\ LineOf(pos) = 1 + x /\ LineOf(pos + n - 1) = 1 + (x + y)
    BY <1>6, <1>7, <2>4, <2>5, <2>6
  <2> HIDE DEF x, y
  <2>8. LineOf(pos + n - 1) = LineOf(pos) + y
    BY <2>7
  <2>9. QED  BY <2>8 DEF y
<1> DEFINE x == Newlines(A(p))
           y == Newlines(L)
           z == LineStart(A(p))
           w == LineStart(L)
<1>9. /\ x \in 0 .. p /\ y \in 0 .. n /\ z \in 0 .. p /\ w \in 0 .. n
      /\ LineOf(pos + n) = 1 + (x + y) /\ LineOf(pos) = 1 + x
      /\ ColumnOf(pos + n) = (pos + n) - (IF w = 0 THEN z ELSE p + w)
      /\ ColumnOf(pos) = pos - z
  BY <1>4, <1>5, <1>6, <1>7
<1> HIDE DEF x, y, z, w, L
<1>10. /\ LineOf(pos + n) = LineOf(pos) + y
       /\ ColumnOf(pos + n) = IF w = 0 THEN ColumnOf(pos) + n ELSE 1 + n - w
       /\ LineOf(pos) \in 1 .. pos /\ ColumnOf(pos) \in 1 .. pos
  BY <1>1, <1>9
<1>11. QED  BY <1>8, <1>9, <1>10 DEF y, w, L

\* What the lexeme has of newlines and NUL bytes.
LEMMA LexemeHas ==
    ASSUME Typed, Matches # {}, NEW c
    PROVE  Contains(Lexeme(Length), c) <=> \E i \in pos .. pos + Length - 1 : text[i] = c
<1> DEFINE L == Lexeme(Length)
<1>1. /\ Len(L) = Length /\ Length \in Int /\ pos \in Int
      /\ \A k \in 1 .. Length : L[k] = text[pos + k - 1]
  BY Ahead, BestMatch
<1>2. /\ \A k \in 1 .. Length : pos + k - 1 \in pos .. pos + Length - 1
      /\ \A i \in pos .. pos + Length - 1 : i - pos + 1 \in 1 .. Length /\ pos + (i - pos + 1) - 1 = i
  BY <1>1
<1>3. Contains(L, c) <=> \E k \in 1 .. Length : L[k] = c
  BY <1>1 DEF Contains
<1> HIDE DEF L
<1>4. ASSUME NEW k \in 1 .. Length, L[k] = c PROVE \E i \in pos .. pos + Length - 1 : text[i] = c
  BY <1>1, <1>2, <1>4
<1>5. ASSUME NEW i \in pos .. pos + Length - 1, text[i] = c PROVE \E k \in 1 .. Length : L[k] = c
  <2>1. i - pos + 1 \in 1 .. Length /\ L[i - pos + 1] = text[i]
    BY <1>1, <1>2
  <2>2. QED  BY <1>5, <2>1
<1>6. QED  BY <1>3, <1>4, <1>5 DEF L

LEMMA LocatedStep ==
    ASSUME Typed, Located, Match
    PROVE  Located'
<1> DEFINE L == Lexeme(Length)
           C == CString(L)
           y == Newlines(L)
           w == LineStart(L)
           v == LineStart(C)
           b == ColumnBefore(L)
           q == pos + Length
<1>1. Matches # {} /\ Advance(Rule, L) /\ text' = text /\ Len(L) = Length /\ L \in Text
  BY MatchIs, Ahead DEF Text
<1>2. /\ pos' = q /\ line' = line + y
      /\ column' = Len(C) - v + (IF v = 0 THEN b ELSE 0)
  BY <1>1 DEF Advance, ColumnAfter
<1>3. /\ LineOf(q) = LineOf(pos) + y
      /\ ColumnOf(q) = IF w = 0 THEN ColumnOf(pos) + Length ELSE 1 + Length - w
      /\ LineOf(pos) \in 1 .. pos /\ ColumnOf(pos) \in 1 .. pos
      /\ y \in 0 .. Length /\ w \in 0 .. Length
  BY <1>1, PlacesAdvance
<1>4. /\ line = LineOf(pos) /\ column \in 0 .. pos - 1
      /\ Hidden(pos) \/ column = ColumnOf(pos) - 1
  BY DEF Located
<1>5. pos \in Int /\ Length \in Int /\ 1 <= pos /\ 1 <= Length
  BY <1>1, Ahead
<1>6. LineOf(pos)' = LineOf(q) /\ ColumnOf(pos)' = ColumnOf(q) /\ (Hidden(pos)' <=> Hidden(q))
  BY <1>1, <1>2 DEF LineOf, ColumnOf, Hidden
<1>7. /\ C \in Text /\ Len(C) \in 0 .. Length /\ v \in 0 .. Len(C)
      /\ ~Contains(L, Nul) => C = L
  <2>1. C \in Text /\ Len(C) \in 0 .. Length /\ (~Contains(L, Nul) => C = L)
    BY <1>1, CStringIs
  <2>2. v \in 0 .. Len(C)
    BY <2>1, LineStartIs
  <2>3. QED  BY <2>1, <2>2
<1>8. b \in {0, column} /\ (w = 0 => b = column)
  <2>1. w = 0 => ~Contains(L, "\n")
    <3>1. \A i \in 1 .. Len(L) : L[i] = "\n" => i <= w
      BY <1>1, LineStartIs
    <3>2. \A i \in 1 .. Len(L) : ~(i <= 0)
      BY <1>1, <1>5
    <3>3. QED  BY <3>1, <3>2 DEF Contains
  <2>2. QED  BY <2>1 DEF ColumnBefore
<1>9. ASSUME ~Hidden(q) PROVE ~Hidden(pos) /\ C = L
  <2>1. \A i \in 1 .. pos - 1 : i \in 1 .. q - 1
    BY <1>5
  <2>2. \A i \in pos .. pos + Length - 1 : i \in 1 .. q - 1
    BY <1>5
  <2>3. ~Contains(L, Nul)
    BY <1>1, <1>9, <2>2, LexemeHas DEF Hidden
  <2>4. QED  BY <1>7, <1>9, <2>1, <2>3 DEF Hidden
<1>10. C = L => v = w
  OBVIOUS
<1> HIDE DEF L, C, y, w, v, b
<1>11. line' = LineOf(q) /\ column' \in 0 .. q - 1
  BY <1>2, <1>3, <1>4, <1>5, <1>7, <1>8
<1>12. ASSUME ~Hidden(q) PROVE column' = ColumnOf(q) - 1
  <2>1. column = ColumnOf(pos) - 1 /\ Len(C) = Length /\ v = w
    BY <1>1, <1>4, <1>9, <1>10, <1>12
  <2>2. column' = Length - w + (IF w = 0 THEN b ELSE 0)
    BY <1>2, <2>1
  <2> HIDE DEF q
  <2>3. QED  BY <1>3, <1>5, <1>8, <2>1, <2>2
<1>13. pos' = q
  BY <1>2
<1> HIDE DEF q
<1>14. QED  BY <1>6, <1>11, <1>12, <1>13 DEF Located

\* Which rules a start condition has.
LEMMA RuleOf ==
    ASSUME Typed, Matches # {}
    PROVE  /\ start = "INITIAL" =>
                Rule \in {"keyword", "operator", "space", "word", "integer", "open comment",
                          "line comment", "open char", "open string", "other"}
           /\ start = "COMMENT" => Rule \in {"close comment", "comment text"}
           /\ start = "CH" => Rule = "character"
           /\ start = "STR" => Rule = "string"
           /\ start \in Conditions
<1>1. start \in Conditions
  BY DEF Typed
<1>2. start = "CH" => start \in {"CH", "STR"}
  OBVIOUS
<1>3. start = "STR" => start \in {"CH", "STR"} /\ start # "CH"
  OBVIOUS
<1>4. QED  BY <1>1, <1>2, <1>3, BestInCode, BestInComment, RuleOfLiteral

\* What a rule adds to the tokens.
IsNew(t) ==
    /\ t.at = <<pos, pos + Length - 1>>
    /\ Placed(t)
    /\ t.kind = "other" /\ t.image \in {<<>>, <<HighByte>>} =>
            /\ Length = 1 /\ Region(Rule) = "code"
            /\ text[pos] = IF t.image = <<>> THEN Nul ELSE HighByte
    /\ start = "CH" => Region(Rule) = "char"

LEMMA PlacedToken ==
    ASSUME Typed, Located, Matches # {}, text[pos + Length - 1] # "\n", NEW kind, NEW image
    PROVE  Placed(Token(kind, image)) /\ Token(kind, image).at = <<pos, pos + Length - 1>>
<1> DEFINE t == Token(kind, image)
           L == Lexeme(Length)
           y == Newlines(L)
           b == ColumnBefore(L)
           e == pos + Length - 1
<1>1. /\ t.at = <<pos, e>> /\ t.at[1] = pos /\ t.at[2] = e
      /\ t.line = line + y /\ t.column = b + 1
  BY DEF Token
<1>2. LineOf(e) = LineOf(pos) + y /\ ColumnOf(pos) \in 1 .. pos
  BY PlacesAdvance
<1>3. line = LineOf(pos) /\ (Hidden(pos) \/ column = ColumnOf(pos) - 1)
  BY DEF Located
<1>4. pos \in Int
  BY Ahead
<1>5. b = IF \E i \in pos .. e : text[i] = "\n" THEN 0 ELSE column
  BY LexemeHas DEF ColumnBefore
<1> HIDE DEF t, y, b, e
<1>6. t.line = LineOf(t.at[2])
  BY <1>1, <1>2, <1>3
<1>7. ASSUME ~Hidden(t.at[1])
      PROVE  t.column = IF \E i \in t.at[1] .. t.at[2] : text[i] = "\n" THEN 1 ELSE ColumnOf(t.at[1])
  <2>1. column = ColumnOf(pos) - 1 /\ (ColumnOf(pos) - 1) + 1 = ColumnOf(pos)
    BY <1>1, <1>2, <1>3, <1>4, <1>7
  <2>2. CASE \E i \in pos .. e : text[i] = "\n"
    BY <1>1, <1>5, <2>2
  <2>3. CASE ~\E i \in pos .. e : text[i] = "\n"
    BY <1>1, <1>5, <2>1, <2>3
  <2>4. QED  BY <2>2, <2>3
<1>8. QED  BY <1>1, <1>6, <1>7 DEF Placed, t, e

LEMMA MatchTokens ==
    ASSUME Typed, Located, Match
    PROVE  \/ /\ tokens' = tokens /\ start \notin {"CH", "STR"}
           \/ \E t : tokens' = Append(tokens, t) /\ IsNew(t)
<1> DEFINE L == Lexeme(Length)
<1>1. /\ Matches # {} /\ L \in Seq(STRING) /\ Len(L) = Length
      /\ Length \in Nat /\ 1 <= Length /\ pos \in Int
      /\ Accepts(Rule, L)
      /\ \A k \in 1 .. Length : L[k] = text[pos + k - 1]
  BY MatchIs, Ahead, BestMatch DEF Text
<1>2. Skip(Rule) \/ Switch(Rule) \/ PlainToken(Rule, L) \/ OtherToken(Rule, L)
      \/ WordToken(Rule, L) \/ LiteralToken(Rule, L)
  BY MatchIs
<1>3. CASE Skip(Rule) \/ Switch(Rule)
  BY <1>1, <1>3, RuleOf, BeginsIs DEF Skip, Switch
<1>4. ASSUME Rule \in {"keyword", "operator", "integer", "other", "word"}
      PROVE  start = "INITIAL" /\ text[pos + Length - 1] # "\n"
  <2>1. start = "INITIAL"
    BY <1>1, <1>4, RuleOf DEF Conditions
  <2>2. QED  BY <1>1, <1>4, <2>1, PlainRule
<1>5. CASE PlainToken(Rule, L)
  <2> DEFINE t == Token(Rule, L)
  <2>1. Rule \in {"keyword", "operator", "integer"} /\ tokens' = Append(tokens, t)
    BY <1>1, <1>5 DEF PlainToken, Return, Token
  <2>2. start = "INITIAL" /\ text[pos + Length - 1] # "\n"
    BY <1>4, <2>1
  <2>3. t.kind = Rule
    BY DEF Token
  <2>4. Placed(t) /\ t.at = <<pos, pos + Length - 1>>
    BY <1>1, <2>2, PlacedToken
  <2> HIDE DEF t, L
  <2>5. IsNew(t)
    BY <2>1, <2>2, <2>3, <2>4 DEF IsNew
  <2>6. QED  BY <2>1, <2>5
<1>6. CASE OtherToken(Rule, L)
  <2> DEFINE C == CString(L)
             t == Token(Rule, C)
  <2>1. Rule = "other" /\ tokens' = Append(tokens, t)
    BY <1>1, <1>6 DEF OtherToken, Return, Token
  <2>2. start = "INITIAL" /\ text[pos + Length - 1] # "\n"
    BY <1>4, <2>1
  <2>3. t.kind = Rule /\ t.image = C
    BY DEF Token
  <2>4. Length = 1 /\ L[1] = text[pos]
    <3>1. Length = 1
      BY <1>1, <2>1 DEF Accepts
    <3>2. 1 \in 1 .. Length /\ pos + 1 - 1 = pos
      BY <1>1, <3>1
    <3>3. L[1] = text[pos + 1 - 1]
      BY <1>1, <3>2
    <3>4. QED  BY <3>1, <3>2, <3>3
  <2>5. /\ C = <<>> => text[pos] = Nul
        /\ C = <<HighByte>> => text[pos] = HighByte
    <3>1. L \in Text /\ Len(L) = 1
      BY <1>1, <2>4 DEF Text
    <3>2. (C = <<>> <=> L[1] = Nul) /\ (~Contains(L, Nul) => C = L)
      BY <3>1, CStringIs
    <3>3. Contains(L, Nul) => L[1] = Nul
      <4>1. \A i \in 1 .. 1 : i = 1
        OBVIOUS
      <4>2. QED  BY <3>1, <4>1 DEF Contains
    <3> HIDE DEF C
    <3>4. C = <<HighByte>> => L = <<HighByte>>
      BY <3>2, <3>3
    <3>5. QED  BY <2>4, <3>2, <3>4
  <2>6. Region(Rule) = "code"
    BY <2>1 DEF Region
  <2>7. Placed(t) /\ t.at = <<pos, pos + Length - 1>>
    <3> HIDE DEF C
    <3>1. QED  BY <1>1, <2>2, PlacedToken
  <2> HIDE DEF t, L, C
  <2>8. t.kind = "other" /\ t.image \in {<<>>, <<HighByte>>} =>
            text[pos] = IF t.image = <<>> THEN Nul ELSE HighByte
    BY <2>3, <2>5
  <2>9. IsNew(t)
    BY <2>2, <2>4, <2>6, <2>7, <2>8 DEF IsNew
  <2>10. QED  BY <2>1, <2>9
<1>7. CASE WordToken(Rule, L)
  <2> DEFINE k == IF L \in typename THEN "TYPENAME" ELSE "IDENTIFIER"
             t == Token(k, L)
  <2>1. Rule = "word" /\ tokens' = Append(tokens, t)
    BY <1>1, <1>7 DEF WordToken, Return, Token
  <2>2. start = "INITIAL" /\ text[pos + Length - 1] # "\n"
    BY <1>4, <2>1
  <2>3. t.kind # "other"
    BY DEF Token
  <2>4. Placed(t) /\ t.at = <<pos, pos + Length - 1>>
    <3> HIDE DEF k, L
    <3>1. QED  BY <1>1, <2>2, PlacedToken
  <2> HIDE DEF t, L
  <2>5. IsNew(t)
    BY <2>2, <2>3, <2>4 DEF IsNew
  <2>6. QED  BY <2>1, <2>5
<1>8. CASE LiteralToken(Rule, L)
  <2>1. Rule \in {"character", "string"}
    BY <1>8 DEF LiteralToken
  <2>2. start \in {"CH", "STR"} /\ (start = "CH" => Region(Rule) = "char")
    BY <1>1, <2>1, RuleOf DEF Conditions, Region
  <2>3. text[pos + Length - 1] # "\n"
    <3>1. \E quote \in {"'", "\""} : Unescaped(L, Len(L), quote)
      BY <1>1, <2>1 DEF Accepts, Literal, Closed
    <3>2. L[Length] # "\n"
      <4> HIDE DEF L
      <4>1. QED  BY <1>1, <3>1 DEF Unescaped
    <3>3. Length \in 1 .. Length
      BY <1>1
    <3>4. QED  BY <1>1, <3>2, <3>3
  <2>4. CASE tokens' = Append(tokens, Bare("ERROR", pos, pos + Len(L) - 1))
    <3> DEFINE t == Bare("ERROR", pos, pos + Len(L) - 1)
    <3>1. t.kind # "other" /\ t.line = 0 /\ t.at = <<pos, pos + Length - 1>>
      BY <1>1 DEF Bare
    <3>2. Placed(t)
      BY <3>1 DEF Placed
    <3> HIDE DEF t
    <3>3. IsNew(t)
      BY <2>2, <3>1, <3>2 DEF IsNew
    <3>4. QED  BY <2>4, <3>3 DEF t
  <2>5. CASE Return(IF start = "CH" THEN "CHARACTER" ELSE "STRING", StringValue(Front(CString(L))), L)
    <3> DEFINE k == IF start = "CH" THEN "CHARACTER" ELSE "STRING"
               v == StringValue(Front(CString(L)))
               t == Token(k, v)
    <3> HIDE DEF v
    <3>1. tokens' = Append(tokens, t) /\ t.kind # "other"
      BY <1>1, <2>5 DEF Return, Token, v
    <3>2. Placed(t) /\ t.at = <<pos, pos + Length - 1>>
      <4> HIDE DEF k, L
      <4>1. QED  BY <1>1, <2>3, PlacedToken
    <3> HIDE DEF t
    <3>3. IsNew(t)
      BY <2>2, <3>1, <3>2 DEF IsNew
    <3>4. QED  BY <3>1, <3>3
  <2>6. QED  BY <1>8, <2>4, <2>5 DEF LiteralToken
<1>9. QED  BY <1>2, <1>3, <1>5, <1>6, <1>7, <1>8

-----------------------------------------------------------------------------
\* The steps preserve the invariant.

\* A step that applies no rule leaves the position alone; it may add a token without
\* a Token.
Waits ==
    /\ UNCHANGED <<text, asker, start, pos, line, column, regions>>
    /\ \/ tokens' = tokens
       \/ \E kind \in {"COMPILE", "END", "ERROR"} : tokens' = Append(tokens, Bare(kind, pos, pos))

LEMMA Steps ==
    ASSUME [Next]_vars
    PROVE  Match \/ Waits
<1>1. CASE StartToken
  <2>1. tokens' = Append(tokens, Bare("COMPILE", pos, pos))
    <3>1. \A e : <<e>> = Append(<<>>, e)
      OBVIOUS
    <3>2. QED  BY <1>1, <3>1 DEF StartToken
  <2>2. QED  BY <1>1, <2>1 DEF StartToken, Waits
<1>2. CASE EndOfText \/ Unterminated
  BY <1>2 DEF EndOfText, Unterminated, Waits
<1>3. CASE Overflow \/ Jam \/ EarlyEnd \/ DefTypedef \/ Reject \/ Done \/ UNCHANGED vars
  BY <1>3 DEF Overflow, Jam, EarlyEnd, DefTypedef, Reject, Done, vars, Waits
<1>4. QED  BY <1>1, <1>2, <1>3 DEF Next

LEMMA ListStep ==
    ASSUME Typed, Listed, Located, Match \/ Waits
    PROVE  Listed'
<1>0. text' = text /\ text \in Text /\ Len(text) \in Nat /\ pos \in 1 .. Len(text) + 1
  BY MatchIs DEF Typed, Waits, Text
<1>1. ASSUME NEW t PROVE (Spans(t)' <=> Spans(t)) /\ (Placed(t)' <=> Placed(t))
  BY <1>0 DEF Spans, Placed, LineOf, ColumnOf, Hidden
<1>2. ASSUME NEW t, tokens' = Append(tokens, t), t.at \in Int \X Int, Spans(t), Placed(t)
      PROVE  Listed'
  <2>1. /\ tokens' \in Seq(Range(tokens')) /\ Range(tokens') = Range(tokens) \cup {t}
    BY <1>2, AppendedTo DEF Listed
  <2>2. \A u \in Range(tokens') : u.at \in Int \X Int /\ Spans(u) /\ Placed(u)
    BY <1>2, <2>1 DEF Listed
  <2>3. QED  BY <1>1, <2>1, <2>2 DEF Listed
<1>3. ASSUME tokens' = tokens PROVE Listed'
  BY <1>1, <1>3 DEF Listed
<1>4. CASE Waits
  <2>1. ASSUME NEW kind
        PROVE  LET t == Bare(kind, pos, pos)
               IN  t.at \in Int \X Int /\ Spans(t) /\ Placed(t)
    <3> DEFINE t == Bare(kind, pos, pos)
    <3>1. t.at = <<pos, pos>> /\ t.line = 0
      BY DEF Bare
    <3> HIDE DEF t
    <3>2. t.at \in Int \X Int /\ Spans(t) /\ Placed(t)
      BY <1>0, <3>1 DEF Spans, Placed
    <3>3. QED  BY <3>2 DEF t
  <2>2. QED  BY <1>2, <1>3, <1>4, <2>1 DEF Waits
<1>5. CASE Match
  <2>1. CASE \E t : tokens' = Append(tokens, t) /\ IsNew(t)
    <3>1. PICK t : tokens' = Append(tokens, t) /\ IsNew(t)
      BY <2>1
    <3>2. /\ pos \in Int /\ Length \in Int /\ 1 <= pos /\ 1 <= Length
          /\ pos + Length - 1 <= Len(text)
      BY <1>5, MatchIs, Ahead
    <3>3. t.at = <<pos, pos + Length - 1>> /\ Placed(t)
      BY <3>1 DEF IsNew
    <3>4. t.at \in Int \X Int /\ Spans(t)
      BY <1>0, <3>2, <3>3 DEF Spans
    <3>5. QED  BY <1>2, <3>1, <3>3, <3>4
  <2>2. QED  BY <1>3, <1>5, <2>1, MatchTokens
<1>6. QED  BY <1>4, <1>5

\* What a quote has swallowed stays so.
LEMMA SwallowedStays ==
    ASSUME Typed, Listed, Located, Match \/ Waits, SwallowedQuote
    PROVE  SwallowedQuote'
<1>1. PICK t \in Range(tokens) :
          t.at[1] < pos /\ regions[t.at[1]] = "char" /\ Close(t.at[1], "'") # t.at[2]
  BY DEF SwallowedQuote
<1>2. t.at[1] \in Int /\ 1 <= t.at[1] /\ pos \in Int
  BY DEF Listed, Spans, Typed
<1>3. /\ text' = text /\ t \in Range(tokens') /\ t.at[1] < pos'
      /\ regions'[t.at[1]] = regions[t.at[1]]
  <2>1. CASE Match
    <3>1. Length \in Int /\ 1 <= Length /\ pos' = pos + Length /\ text' = text
      BY <2>1, MatchIs, Ahead, MatchAdvances
    <3>2. t.at[1] \in 1 .. pos - 1 /\ t.at[1] < pos'
      BY <1>1, <1>2, <3>1
    <3>3. regions'[t.at[1]] = regions[t.at[1]]
      BY <2>1, <3>2, MatchAdvances
    <3>4. tokens' = tokens \/ \E u : tokens' = Append(tokens, u)
      BY <2>1, MatchTokens
    <3>5. t \in Range(tokens')
      BY <3>4, AppendedTo DEF Listed
    <3>6. QED  BY <3>1, <3>2, <3>3, <3>5
  <2>2. CASE Waits
    <3>1. tokens' = tokens \/ \E u : tokens' = Append(tokens, u)
      BY <2>2 DEF Waits
    <3>2. t \in Range(tokens')
      BY <3>1, AppendedTo DEF Listed
    <3>3. QED  BY <1>1, <2>2, <3>2 DEF Waits
  <2>3. QED  BY <2>1, <2>2
<1>4. Close(t.at[1], "'")' = Close(t.at[1], "'")
  BY <1>3 DEF Close
<1>5. QED  BY <1>1, <1>3, <1>4 DEF SwallowedQuote

LEMMA CloseIs ==
    ASSUME Typed, NEW quote
    PROVE  LET k == Close(pos, quote)
           IN  \/ /\ k = 0
                  /\ \A i \in 1 .. Len(Rest) : ~Unescaped(Rest, i, quote)
               \/ /\ k \in pos .. Len(text) /\ k - pos + 1 \in 1 .. Len(Rest)
                  /\ Unescaped(Rest, k - pos + 1, quote)
                  /\ \A i \in 1 .. k - pos : ~Unescaped(Rest, i, quote)
<1> DEFINE K == {k \in pos .. Len(text) : Unescaped(Rest, k - pos + 1, quote)}
           c == Close(pos, quote)
<1>1. /\ Len(text) \in Nat /\ Len(Rest) = Len(text) - pos + 1 /\ pos \in Int /\ 1 <= pos
      /\ Len(Rest) \in Int
  <2>1. Len(text) \in Nat /\ Len(Rest) = Len(text) - pos + 1
    BY LexemeIs
  <2>2. QED  BY <2>1 DEF Typed
<1>2. c = IF K = {} THEN 0 ELSE Min(K)
  BY DEF Close, Rest
<1>3. \A i \in 1 .. Len(Rest) : /\ pos + i - 1 \in pos .. Len(text)
                                /\ (pos + i - 1) - pos + 1 = i
  BY <1>1
<1>4. CASE K = {}
  <2>1. ASSUME NEW i \in 1 .. Len(Rest), Unescaped(Rest, i, quote) PROVE FALSE
    <3>1. pos + i - 1 \in K
      <4> HIDE DEF c
      <4>1. QED  BY <1>3, <2>1
    <3>2. QED  BY <1>4, <3>1
  <2>2. c = 0
    BY <1>2, <1>4
  <2>3. QED  BY <2>1, <2>2
<1>5. CASE K # {}
  <2>1. K \in SUBSET Nat
    BY <1>1
  <2>2. PICK n \in K : \A m \in K : n <= m
    <3> HIDE DEF K
    <3>1. QED  BY <1>5, <2>1, Least
  <2>3. Min(K) \in K /\ \A m \in K : Min(K) <= m
    <3> HIDE DEF K
    <3>1. QED  BY <2>2 DEF Min
  <2>4. c \in K /\ \A m \in K : c <= m
    <3> HIDE DEF K, c
    <3>1. QED  BY <1>2, <1>5, <2>3
  <2> HIDE DEF c
  <2>5. c \in pos .. Len(text) /\ Unescaped(Rest, c - pos + 1, quote)
    BY <2>4
  <2>6. c - pos + 1 \in 1 .. Len(Rest)
    BY <1>1, <2>5
  <2>7. ASSUME NEW i \in 1 .. c - pos, Unescaped(Rest, i, quote) PROVE FALSE
    <3>1. i \in 1 .. Len(Rest) /\ ~(c <= pos + i - 1)
      BY <1>1, <2>5
    <3>2. pos + i - 1 \in K
      BY <1>3, <2>7, <3>1
    <3>3. QED  BY <2>4, <3>1, <3>2
  <2>8. QED  BY <2>5, <2>6, <2>7 DEF c
<1>6. QED  BY <1>4, <1>5

LEMMA StartAfter ==
    ASSUME Match
    PROVE  start' = CASE Rule = "open comment"                          -> "COMMENT"
                      [] Rule = "open char"                             -> "CH"
                      [] Rule = "open string"                           -> "STR"
                      [] Rule \in {"close comment", "character", "string"} -> "INITIAL"
                      [] OTHER                                          -> start
<1> DEFINE L == Lexeme(Length)
<1> HIDE DEF L
<1>1. CASE Skip(Rule)
  BY <1>1 DEF Skip
<1>2. CASE Switch(Rule)
  BY <1>2, BeginsIs DEF Switch
<1>3. CASE PlainToken(Rule, L) \/ OtherToken(Rule, L)
  BY <1>3 DEF PlainToken, OtherToken
<1>4. CASE WordToken(Rule, L)
  BY <1>4 DEF WordToken
<1>5. CASE LiteralToken(Rule, L)
  BY <1>5 DEF LiteralToken
<1>6. QED  BY <1>1, <1>2, <1>3, <1>4, <1>5, MatchIs DEF L

\* A character constant that has swallowed no quote ends at its own.
LEMMA OwnQuote ==
    ASSUME Typed, Listed, Located, Match, ~SwallowedQuote', start = "CH"
    PROVE  Close(pos, "'") = pos + Length - 1
<1>1. /\ Matches # {} /\ pos \in Int /\ Length \in Int /\ 1 <= Length /\ pos' = pos + Length
      /\ text' = text
  BY MatchIs, Ahead, MatchAdvances
<1>2. PICK t : tokens' = Append(tokens, t) /\ IsNew(t)
  BY MatchTokens
<1>3. t \in Range(tokens')
  BY <1>2, AppendedTo DEF Listed
<1>4. t.at[1] = pos /\ t.at[2] = pos + Length - 1 /\ Region(Rule) = "char"
  BY <1>2 DEF IsNew
<1>5. pos \in pos .. pos + Length - 1 /\ pos < pos'
  BY <1>1
<1>6. regions'[pos] = "char"
  BY <1>4, <1>5, MatchAdvances
<1>7. ~(t.at[1] < pos' /\ regions'[t.at[1]] = "char" /\ Close(t.at[1], "'")' # t.at[2])
  BY <1>3 DEF SwallowedQuote
<1>8. Close(t.at[1], "'")' = Close(t.at[1], "'")
  BY <1>1 DEF Close
<1>9. QED  BY <1>4, <1>5, <1>6, <1>7, <1>8

LEMMA AgreeStep ==
    ASSUME Typed, Listed, Located, Agreed, Match \/ Waits
    PROVE  Agreed'
<1>1. SUFFICES ASSUME ~SwallowedQuote'
               PROVE  /\ \A i \in 1 .. pos' - 1 : regions'[i] = Units(text')[i].mark
                      /\ Opened(start, pos - 1)'
  BY DEF Agreed
<1>2. /\ \A i \in 1 .. pos - 1 : regions[i] = Units(text)[i].mark
      /\ Opened(start, pos - 1)
  BY <1>1, SwallowedStays DEF Agreed
<1>3. CASE Waits
  BY <1>2, <1>3 DEF Waits, Opened, InCode, InMode
<1>4. CASE Match
  <2>1. /\ Matches # {} /\ pos \in Int /\ Length \in Int /\ 1 <= pos /\ 1 <= Length
        /\ pos' = pos + Length /\ text' = text /\ Len(Rest) \in Int /\ Length <= Len(Rest)
    <3>1. /\ Matches # {} /\ pos \in Int /\ Length \in Int /\ 1 <= pos /\ 1 <= Length
          /\ Length <= Len(Rest) /\ text' = text
      BY <1>4, MatchIs, Ahead
    <3>2. Len(Rest) \in Int
      BY LexemeIs DEF Text
    <3>3. QED  BY <1>4, <3>1, <3>2, MatchAdvances
  <2>2. Took(Region(Rule)) /\ Opened(start', pos + Length - 1)
    <3>1. CASE start = "INITIAL"
      <4>1. InCode(text, pos - 1)
        BY <1>2, <3>1 DEF Opened
      <4>2. /\ Took(Region(Rule))
            /\ Rule \notin {"open comment", "open char", "open string"}
                  => InCode(text, pos + Length - 1)
            /\ Rule = "open comment" => InMode(text, pos + Length - 1, "comment")
            /\ Rule = "open char" => InMode(text, pos + Length - 1, "char")
            /\ Rule = "open string" => InMode(text, pos + Length - 1, "string")
        BY <2>1, <3>1, <4>1, ReadInCode
      <4>3. /\ Rule = "open comment" => start' = "COMMENT"
            /\ Rule = "open char" => start' = "CH"
            /\ Rule = "open string" => start' = "STR"
            /\ Rule \notin {"open comment", "open char", "open string"} => start' = "INITIAL"
        BY <1>4, <3>1, StartAfter
      <4>4. QED  BY <4>2, <4>3 DEF Opened
    <3>2. CASE start = "COMMENT"
      <4>1. InMode(text, pos - 1, "comment")
        BY <1>2, <3>2 DEF Opened
      <4>2. /\ Took("comment") /\ Rule \in {"close comment", "comment text"}
            /\ Rule = "close comment" => InCode(text, pos + Length - 1)
            /\ Rule = "comment text" => InMode(text, pos + Length - 1, "comment")
        BY <2>1, <3>2, <4>1, ReadInComment, RuleOf
      <4>3. /\ Region(Rule) = "comment"
            /\ Rule = "close comment" => start' = "INITIAL"
            /\ Rule = "comment text" => start' = "COMMENT"
        BY <1>4, <3>2, <4>2, StartAfter DEF Region
      <4>4. QED  BY <4>2, <4>3 DEF Opened
    <3>3. CASE start = "CH"
      <4>1. InMode(text, pos - 1, "char") /\ start \in {"CH", "STR"}
        BY <1>2, <3>3 DEF Opened
      <4>2. \A i \in 1 .. Length - 1 : ~Unescaped(Rest, i, "'")
        <5> DEFINE k == Close(pos, "'")
        <5>1. k = pos + Length - 1
          BY <1>1, <1>4, <3>3, OwnQuote
        <5>2. k # 0 /\ k - pos = Length - 1
          BY <2>1, <5>1
        <5>3. k = 0 \/ \A i \in 1 .. k - pos : ~Unescaped(Rest, i, "'")
          BY CloseIs
        <5>4. QED  BY <5>2, <5>3
      <4>3. Quoted("char", "'") /\ (start = "CH" <=> "char" = "char")
        BY <3>3 DEF Quoted
      <4>4. Took("char") /\ InCode(text, pos + Length - 1)
        BY <2>1, <4>1, <4>2, <4>3, ReadInLiteral
      <4>5. Rule = "character"
        BY <2>1, <3>3, RuleOf
      <4>6. Region(Rule) = "char" /\ start' = "INITIAL"
        BY <1>4, <4>5, StartAfter DEF Region
      <4>7. QED  BY <4>4, <4>6 DEF Opened
    <3>4. CASE start = "STR"
      <4>1. InMode(text, pos - 1, "string") /\ start \in {"CH", "STR"}
        BY <1>2, <3>4 DEF Opened
      <4>2. Rule = "string"
        BY <2>1, <3>4, RuleOf
      <4>3. \A i \in 1 .. Length - 1 : ~Unescaped(Rest, i, "\"")
        <5>1. Accepts("string", Lexeme(Length)) /\ Len(Lexeme(Length)) = Length
          BY <2>1, <4>2, BestMatch, Ahead
        <5>2. \A i \in 1 .. Length - 1 : ~Unescaped(Lexeme(Length), i, "\"")
          BY <5>1 DEF Accepts, Literal, Closed
        <5>3. Length \in 1 .. Len(Rest) /\ \A i \in 1 .. Length - 1 : i \in 1 .. Length
          BY <2>1
        <5>4. QED  BY <5>2, <5>3, UnescapedInLexeme
      <4>4. Quoted("string", "\"") /\ (start = "CH" <=> "string" = "char")
        BY <3>4 DEF Quoted
      <4>5. Took("string") /\ InCode(text, pos + Length - 1)
        BY <2>1, <4>1, <4>3, <4>4, ReadInLiteral
      <4>6. Region(Rule) = "string" /\ start' = "INITIAL"
        BY <1>4, <4>2, StartAfter DEF Region
      <4>7. QED  BY <4>5, <4>6 DEF Opened
    <3>5. QED  BY <2>1, <3>1, <3>2, <3>3, <3>4, RuleOf DEF Conditions
  <2>3. ASSUME NEW i \in 1 .. pos' - 1 PROVE regions'[i] = Units(text')[i].mark
    <3>1. i \in 1 .. pos - 1 \/ i \in pos .. pos + Length - 1
      BY <2>1
    <3>2. CASE i \in 1 .. pos - 1
      BY <1>2, <1>4, <2>1, <3>2, MatchAdvances
    <3>3. CASE i \in pos .. pos + Length - 1
      BY <1>4, <2>1, <2>2, <3>3, MatchAdvances DEF Took
    <3>4. QED  BY <3>1, <3>2, <3>3
  <2>4. pos' - 1 = pos + Length - 1
    BY <2>1
  <2>5. Opened(start, pos - 1)'
    <3> DEFINE k == pos + Length - 1
    <3>1. /\ Opened(start', k) <=> /\ start' = "INITIAL" => InCode(text, k)
                                   /\ start' = "COMMENT" => InMode(text, k, "comment")
                                   /\ start' = "CH" => InMode(text, k, "char")
                                   /\ start' = "STR" => InMode(text, k, "string")
      BY DEF Opened
    <3>2. QED  BY <2>1, <2>2, <2>4, <3>1 DEF Opened, InCode, InMode
  <2>6. QED  BY <2>3, <2>5
<1>5. QED  BY <1>3, <1>4

\* A byte in the code that is taken for the end is the last thing that is read.
LEMMA EndSeenStep ==
    ASSUME Typed, Listed, Located, EndSeen, Match \/ Waits
    PROVE  EndSeen'
<1>1. CASE Waits
  <2>1. CASE tokens' = tokens
    BY <1>1, <2>1 DEF Waits, EndSeen, TakenForEnd, EndImages
  <2>2. CASE \E kind \in {"COMPILE", "END", "ERROR"} : tokens' = Append(tokens, Bare(kind, pos, pos))
    <3>1. PICK kind \in {"COMPILE", "END", "ERROR"} : tokens' = Append(tokens, Bare(kind, pos, pos))
      BY <2>2
    <3>2. Last(tokens') = Bare(kind, pos, pos) /\ Bare(kind, pos, pos).kind = kind
      BY <3>1, AppendedTo DEF Listed, Bare
    <3>3. ~TakenForEnd'
      BY <3>1, <3>2 DEF TakenForEnd
    <3>4. QED  BY <3>3 DEF EndSeen
  <2>3. QED  BY <1>1, <2>1, <2>2 DEF Waits
<1>2. CASE Match
  <2>1. tokens # <<>> /\ ~TakenForEnd /\ asker' = asker /\ text' = text
    BY <1>2, MatchIs DEF Asked
  <2>2. CASE tokens' = tokens
    BY <2>1, <2>2 DEF EndSeen, TakenForEnd, EndImages
  <2>3. CASE \E t : tokens' = Append(tokens, t) /\ IsNew(t)
    <3>1. PICK t : tokens' = Append(tokens, t) /\ IsNew(t)
      BY <2>3
    <3>2. Last(tokens') = t
      BY <3>1, AppendedTo DEF Listed
    <3>3. ASSUME TakenForEnd'
          PROVE  /\ pos' > 1 /\ regions'[pos' - 1] = "code"
                 /\ text'[pos' - 1] = Nul \/ (asker' = "parser" /\ text'[pos' - 1] = HighByte)
      <4>1. /\ t.kind = "other" /\ t.image \in {<<>>, <<HighByte>>}
            /\ t.image = <<>> \/ asker = "parser"
        BY <2>1, <3>2, <3>3 DEF TakenForEnd, EndImages, HighByte
      <4>2. /\ Length = 1 /\ Region(Rule) = "code"
            /\ text[pos] = IF t.image = <<>> THEN Nul ELSE HighByte
        BY <3>1, <4>1 DEF IsNew
      <4>3. pos \in Int /\ 1 <= pos /\ pos' = pos + Length
        BY <1>2, MatchIs, Ahead, MatchAdvances
      <4>4. pos \in pos .. pos + Length - 1 /\ pos' > 1 /\ pos' - 1 = pos
        BY <4>2, <4>3
      <4>5. regions'[pos] = "code"
        BY <1>2, <4>2, <4>4, MatchAdvances
      <4>6. QED  BY <2>1, <4>1, <4>2, <4>4, <4>5
    <3>4. QED  BY <3>3 DEF EndSeen, HighByte, Nul
  <2>4. QED  BY <1>2, <2>2, <2>3, MatchTokens
<1>3. QED  BY <1>1, <1>2

\* Some rule applies in the code and in a comment; in a literal, if it is closed.
LEMMA JamIs ==
    ASSUME Typed, Jam
    PROVE  \/ start = "STR" /\ Close(pos, "\"") = 0
           \/ /\ start = "CH"
              /\ Close(pos, "'") = 0 \/ Close(pos, "\"") \in 1 .. Close(pos, "'")
<1>1. /\ Len(text) \in Nat /\ pos \in Int /\ 1 <= pos /\ pos <= Len(text)
      /\ Len(Rest) = Len(text) - pos + 1 /\ start \in Conditions
  <2>1. Len(text) \in Nat /\ Len(Rest) = Len(text) - pos + 1 /\ pos <= Len(text)
    BY LexemeIs DEF Jam
  <2>2. QED  BY <2>1 DEF Typed
<1>2. ASSUME NEW k \in 1 .. Len(Rest), NEW j \in DOMAIN Rules[start]
      PROVE  ~Accepts(Rules[start][j], Lexeme(k))
  <2>1. Matches = {}
    BY DEF Jam
  <2>2. Accepts(Rules[start][j], Lexeme(k)) => <<k, j>> \in Matches
    BY DEF Matches, Lexeme
  <2>3. QED  BY <2>1, <2>2
<1>3. 1 \in 1 .. Len(Rest)
  BY <1>1
<1>4. Len(Lexeme(1)) = 1 /\ Lexeme(1) \in Seq(STRING)
  BY <1>3, LexemeIs DEF Text
<1>5. start # "INITIAL"
  <2>1. Accepts("other", Lexeme(1))
    BY <1>4 DEF Accepts
  <2>2. 10 \in 1 .. 10
    OBVIOUS
  <2>3. QED  BY <1>2, <1>3, <2>1, <2>2, RulesOf
<1>6. start # "COMMENT"
  <2> DEFINE s == Lexeme(1)
  <2>1. s = <<s[1]>> /\ Len(s) = 1
    BY <1>4
  <2> HIDE DEF s
  <2>2. s[1] # "*" => ~Contains(s, "*")
    <3>1. \A i \in 1 .. Len(s) : i = 1
      BY <2>1
    <3>2. QED  BY <3>1 DEF Contains
  <2>3. Accepts("comment text", s)
    BY <2>1, <2>2 DEF Accepts, CommentText
  <2>4. 2 \in 1 .. 2
    OBVIOUS
  <2>5. QED  BY <1>2, <1>3, <2>3, <2>4, RulesOf DEF s
<1>7. \A k \in 1 .. Len(Rest) : /\ start = "CH" => ~Accepts("character", Lexeme(k))
                                /\ start = "STR" => ~Accepts("string", Lexeme(k))
  <2>1. 1 \in 1 .. 1
    OBVIOUS
  <2>2. QED  BY <1>2, <2>1, RulesOf
<1>8. ASSUME NEW quote, NEW k \in 1 .. Len(Rest), Unescaped(Rest, k, quote),
             \A i \in 1 .. k - 1 : ~Unescaped(Rest, i, "\"")
      PROVE  Literal(Lexeme(k), quote)
  <2>1. Len(Lexeme(k)) = k
    BY LexemeIs
  <2>2. k \in 1 .. k /\ \A i \in 1 .. k - 1 : i \in 1 .. k
    OBVIOUS
  <2>3. Unescaped(Lexeme(k), k, quote) /\ \A i \in 1 .. k - 1 : ~Unescaped(Lexeme(k), i, "\"")
    BY <1>8, <2>2, UnescapedInLexeme
  <2>4. QED  BY <2>1, <2>3 DEF Literal, Closed
<1> DEFINE c == Close(pos, "'")
           d == Close(pos, "\"")
<1>9. CASE start = "STR"
  <2>1. SUFFICES ASSUME d # 0 PROVE FALSE
    BY <1>9
  <2>2. /\ d \in pos .. Len(text) /\ d - pos + 1 \in 1 .. Len(Rest)
        /\ Unescaped(Rest, d - pos + 1, "\"")
        /\ \A i \in 1 .. d - pos : ~Unescaped(Rest, i, "\"")
    BY <2>1, CloseIs
  <2> HIDE DEF d
  <2> DEFINE k == d - pos + 1
  <2>3. k \in 1 .. Len(Rest) /\ Unescaped(Rest, k, "\"") /\ k - 1 = d - pos
    <3>1. k \in 1 .. Len(Rest) /\ Unescaped(Rest, k, "\"")
      BY <2>2
    <3>2. d \in pos .. Len(text)
      BY <2>2
    <3>3. k - 1 = d - pos
      <4> DEFINE n == Len(text)
      <4>1. d \in pos .. n /\ pos \in Int /\ n \in Int
        BY <1>1, <3>2
      <4> HIDE DEF n
      <4>2. QED  BY <4>1
    <3>4. QED  BY <3>1, <3>3
  <2> HIDE DEF k
  <2>4. Literal(Lexeme(k), "\"")
    BY <1>8, <2>2, <2>3
  <2>5. QED  BY <1>7, <1>9, <2>3, <2>4 DEF Accepts
<1>10. CASE start = "CH"
  <2>1. SUFFICES ASSUME c # 0 PROVE d \in 1 .. c
    BY <1>10
  <2>2. /\ c \in pos .. Len(text) /\ c - pos + 1 \in 1 .. Len(Rest)
        /\ Unescaped(Rest, c - pos + 1, "'")
    BY <2>1, CloseIs
  <2>3. \/ d = 0 /\ \A i \in 1 .. Len(Rest) : ~Unescaped(Rest, i, "\"")
        \/ d \in pos .. Len(text) /\ \A i \in 1 .. d - pos : ~Unescaped(Rest, i, "\"")
    BY CloseIs
  <2> HIDE DEF c, d
  <2> DEFINE k == c - pos + 1
  <2>4. k \in 1 .. Len(Rest) /\ Unescaped(Rest, k, "'") /\ k - 1 = c - pos
    BY <1>1, <2>2
  <2>5. PICK i \in 1 .. k - 1 : Unescaped(Rest, i, "\"")
    <3>1. ~Literal(Lexeme(k), "'")
      BY <1>7, <1>10, <2>4 DEF Accepts
    <3> HIDE DEF k
    <3>2. QED  BY <1>8, <2>4, <3>1
  <2>6. i \in 1 .. Len(Rest)
    BY <1>1, <2>4
  <2>7. d \in pos .. Len(text) /\ ~(i \in 1 .. d - pos)
    BY <2>3, <2>5, <2>6
  <2>8. QED  BY <1>1, <2>2, <2>7
<1>11. QED  BY <1>1, <1>5, <1>6, <1>9, <1>10 DEF Conditions

LEMMA JamStep ==
    ASSUME Typed, JamsInOpenLiteral, [Next]_vars
    PROVE  JamsInOpenLiteral'
<1>1. SUFFICES ASSUME status' = "jammed" PROVE JamsInOpenLiteral'
  BY DEF JamsInOpenLiteral
<1>2. /\ UNCHANGED <<text, start, pos>>
      /\ Jam \/ status = "jammed"
  <2>1. CASE Match
    BY <1>1, <2>1, MatchIs DEF Asked
  <2>2. CASE StartToken \/ Overflow \/ EndOfText \/ EarlyEnd \/ Unterminated \/ DefTypedef \/ Reject
    BY <1>1, <2>2
    DEF StartToken, Overflow, EndOfText, EarlyEnd, Unterminated, DefTypedef, Reject, Asked
  <2>3. CASE Jam
    BY <2>3 DEF Jam
  <2>4. CASE Done \/ UNCHANGED vars
    BY <1>1, <2>4 DEF Done, vars
  <2>5. QED  BY <2>1, <2>2, <2>3, <2>4 DEF Next
<1>3. \/ start = "STR" /\ Close(pos, "\"") = 0
      \/ /\ start = "CH"
         /\ Close(pos, "'") = 0 \/ Close(pos, "\"") \in 1 .. Close(pos, "'")
  BY <1>2, JamIs DEF JamsInOpenLiteral
<1>4. Close(pos, "'")' = Close(pos, "'") /\ Close(pos, "\"")' = Close(pos, "\"")
  BY <1>2 DEF Close
<1>5. QED  BY <1>2, <1>3, <1>4 DEF JamsInOpenLiteral

LEMMA ReadingIs ==
    ASSUME NEW s \in Text
    PROVE  /\ Reading(s) \in Seq(Modes) /\ Len(Reading(s)) = Len(s) + 1
           /\ \A i \in 1 .. Len(s) : Reading(s)[i] = Units(s)[i].mark
           /\ Last(Reading(s)) = Units(s)[Len(s)].then
<1> DEFINE n == Len(s)
           r(i) == IF i <= n THEN Units(s)[i].mark ELSE Units(s)[n].then
<1>1. n \in Nat
  BY DEF Text
<1>2. Reading(s) = [i \in 1 .. n + 1 |-> r(i)]
  BY DEF Reading
<1>3. ASSUME NEW i \in 1 .. n + 1 PROVE r(i) \in Modes
  <2>1. n \in 0 .. n /\ (i <= n => i \in 0 .. n)
    BY <1>1
  <2>2. Units(s)[n].then \in Modes /\ (i <= n => Units(s)[i].mark \in Modes)
    BY <2>1, UnitType
  <2>3. QED  BY <2>2
<1>4. Reading(s) \in [1 .. n + 1 -> Modes]
  <2> HIDE DEF r
  <2>1. QED  BY <1>2, <1>3
<1>5. Reading(s) \in Seq(Modes) /\ Len(Reading(s)) = n + 1
  <2> HIDE DEF n
  <2>1. QED  BY <1>1, <1>4
<1>6. \A i \in 1 .. n : Reading(s)[i] = Units(s)[i].mark
  <2>1. \A i \in 1 .. n : i \in 1 .. n + 1 /\ i <= n
    BY <1>1
  <2>2. QED  BY <1>2, <2>1
<1>7. Reading(s)[n + 1] = Units(s)[n].then
  <2>1. n + 1 \in 1 .. n + 1 /\ ~(n + 1 <= n)
    BY <1>1
  <2>2. QED  BY <1>2, <2>1
<1>8. QED  BY <1>5, <1>6, <1>7 DEF Last

LEMMA EndStep ==
    ASSUME Typed, Listed, Located, Agreed, EndSeen, EndIsComplete, [Next]_vars
    PROVE  EndIsComplete'
<1> DEFINE Complete == pos > Len(text) /\ Last(Reading(text)) \notin {"char", "string"}
           Early == /\ Reading(text)[pos - 1] = "code"
                    /\ text[pos - 1] = Nul \/ (asker = "parser" /\ text[pos - 1] = HighByte)
<1>1. SUFFICES ASSUME status' = "ended", ~SwallowedQuote' PROVE (Complete \/ Early)'
  BY DEF EndIsComplete
<1>2. /\ UNCHANGED <<text, asker, start, pos>>
      /\ EndOfText \/ EarlyEnd \/ status = "ended"
  <2>1. CASE Match
    BY <1>1, <2>1, MatchIs DEF Asked
  <2>2. CASE StartToken \/ Overflow \/ Jam \/ Unterminated \/ DefTypedef \/ Reject
    BY <1>1, <2>2 DEF StartToken, Overflow, Jam, Unterminated, DefTypedef, Reject, Asked
  <2>3. CASE EndOfText \/ EarlyEnd
    BY <2>3 DEF EndOfText, EarlyEnd
  <2>4. CASE Done \/ UNCHANGED vars
    BY <1>1, <2>4 DEF Done, vars
  <2>5. QED  BY <2>1, <2>2, <2>3, <2>4 DEF Next
<1>3. ~SwallowedQuote
  BY <1>1, Steps, SwallowedStays
<1>4. /\ text \in Text /\ Len(text) \in Nat /\ pos \in 1 .. Len(text) + 1
  BY DEF Typed, Text
<1>5. /\ \A i \in 1 .. pos - 1 : regions[i] = Units(text)[i].mark
      /\ Opened(start, pos - 1)
  BY <1>3 DEF Agreed
<1>6. /\ \A i \in 1 .. Len(text) : Reading(text)[i] = Units(text)[i].mark
      /\ Last(Reading(text)) = Units(text)[Len(text)].then
  BY <1>4, ReadingIs
<1>7. Complete \/ Early
  <2>1. CASE EndOfText
    <3>1. pos > Len(text) /\ start \notin {"CH", "STR"}
      BY <2>1 DEF EndOfText, ErrorAtEnd
    <3>2. pos - 1 = Len(text)
      BY <1>4, <3>1
    <3>3. start \in {"INITIAL", "COMMENT"}
      BY <3>1 DEF Typed, Conditions
    <3>4. Units(text)[pos - 1].then \in {"code", "line", "comment"}
      BY <1>5, <3>3 DEF Opened, InCode, InMode
    <3>5. QED  BY <1>6, <3>1, <3>2, <3>4
  <2>2. CASE EarlyEnd
    <3>1. /\ pos > 1 /\ regions[pos - 1] = "code"
          /\ text[pos - 1] = Nul \/ (asker = "parser" /\ text[pos - 1] = HighByte)
      BY <2>2 DEF EarlyEnd, EndSeen
    <3>2. pos - 1 \in 1 .. pos - 1 /\ pos - 1 \in 1 .. Len(text)
      BY <1>4, <3>1
    <3>3. QED  BY <1>5, <1>6, <3>1, <3>2
  <2>3. CASE status = "ended"
    BY <1>3, <2>3 DEF EndIsComplete
  <2>4. QED  BY <1>2, <2>1, <2>2, <2>3
<1>8. Reading(text)' = Reading(text) /\ Last(Reading(text))' = Last(Reading(text))
  BY <1>2
<1>9. QED  BY <1>2, <1>7, <1>8
-----------------------------------------------------------------------------
LEMMA ScanInit ==
    ASSUME Init
    PROVE  ScanInv
<1>1. /\ text \in Text /\ pos = 1 /\ line = 1 /\ column = 0 /\ start = "INITIAL"
      /\ tokens = <<>> /\ regions = <<>> /\ status = "scanning" /\ asker \in {"dump", "parser"}
  BY TextAssumption DEF Init, Text
<1>2. Len(text) \in Nat
  BY <1>1 DEF Text
<1>3. Typed
  BY <1>1, <1>2 DEF Typed, Conditions
<1>4. Range(tokens) = {}
  BY <1>1 DEF Range
<1>5. Listed
  BY <1>1, <1>4 DEF Listed
<1>6. Located
  <2> DEFINE a == SubSeq(text, 1, 0)
  <2>1. a \in Text /\ Len(a) = 0
    <3>1. 1 \in 1 .. Len(text) + 1 /\ 0 \in 1 - 1 .. Len(text) /\ 0 - 1 + 1 = 0
      BY <1>2
    <3>2. QED  BY <1>1, <3>1, PartIs
  <2>2. LineOf(1) = 1 + Newlines(a) /\ ColumnOf(1) = 1 - LineStart(a)
    <3>1. 1 - 1 = 0
      OBVIOUS
    <3>2. QED  BY <3>1, PlaceIs
  <2> HIDE DEF a
  <2>3. Newlines(a) \in 0 .. Len(a) /\ LineStart(a) \in 0 .. Len(a)
    BY <2>1, NewlinesType, LineStartIs
  <2>4. Newlines(a) = 0 /\ LineStart(a) = 0
    BY <2>1, <2>3
  <2>5. LineOf(1) = 1 /\ ColumnOf(1) - 1 = 0
    BY <2>2, <2>4
  <2>6. QED  BY <1>1, <2>5 DEF Located
<1>7. Agreed
  <2>1. InCode(text, 0)
    BY <1>1, UnitsFrom DEF InCode, Begin
  <2>2. pos - 1 = 0 /\ 1 .. pos - 1 = {}
    BY <1>1
  <2>3. QED  BY <1>1, <2>1, <2>2 DEF Agreed, Opened
<1>8. EndSeen /\ JamsInOpenLiteral /\ EndIsComplete
  BY <1>1 DEF EndSeen, JamsInOpenLiteral, EndIsComplete
<1>9. QED  BY <1>3, <1>5, <1>6, <1>7, <1>8 DEF ScanInv

LEMMA ScanStep ==
    ASSUME ScanInv, [Next]_vars
    PROVE  ScanInv'
<1>1. Match \/ Waits
  BY Steps
<1>2. /\ Typed /\ Listed /\ Located /\ Agreed /\ EndSeen /\ JamsInOpenLiteral
      /\ EndIsComplete
  BY DEF ScanInv
<1>3. Typed'
  <2>1. CASE Waits
    <3>1. status' \in {"scanning", "ended", "rejected", "jammed", "aborted"}
      <4>1. CASE Match
        BY <1>2, <4>1, MatchIs DEF Typed
      <4>2. CASE \/ StartToken \/ Overflow \/ Jam \/ EndOfText \/ EarlyEnd \/ Unterminated
                 \/ DefTypedef \/ Reject
        BY <1>2, <4>2
        DEF StartToken, Overflow, Jam, EndOfText, EarlyEnd, Unterminated, DefTypedef, Reject, Typed
      <4>3. CASE Done \/ UNCHANGED vars
        BY <1>2, <4>3 DEF Done, vars, Typed
      <4>4. QED  BY <4>1, <4>2, <4>3 DEF Next
    <3>2. QED  BY <1>2, <2>1, <3>1 DEF Waits, Typed
  <2>2. CASE Match
    BY <1>2, <2>2, MatchAdvances
  <2>3. QED  BY <1>1, <2>1, <2>2
<1>4. Listed'
  BY <1>1, <1>2, ListStep
<1>5. Located'
  <2>1. CASE Waits
    BY <1>2, <2>1 DEF Waits, Located, LineOf, ColumnOf, Hidden
  <2>2. QED  BY <1>1, <1>2, <2>1, LocatedStep
<1>6. Agreed'
  BY <1>1, <1>2, AgreeStep
<1>7. EndSeen'
  BY <1>1, <1>2, EndSeenStep
<1>8. JamsInOpenLiteral'
  BY <1>2, JamStep
<1>9. EndIsComplete'
  BY <1>2, EndStep
<1>10. QED  BY <1>3, <1>4, <1>5, <1>6, <1>7, <1>8, <1>9 DEF ScanInv

\* Every state of a scan of any text satisfies the invariant.
THEOREM ScanningInvariant == Spec => []ScanInv
BY ScanInit, ScanStep, PTL DEF Spec

\* The variables keep their types: the position stays within the text and one past its
\* end, every character before it belongs to a region, and no token ends after the text
\* (YY_USER_ACTION, parser.y:70).
THEOREM ScannerTypes == Spec => []TypeOK
<1>1. ScanInv => TypeOK
  <2> SUFFICES ASSUME ScanInv PROVE TypeOK
    OBVIOUS
  <2>1. Typed /\ Listed /\ Located
    BY DEF ScanInv
  <2>2. Len(text) \in Nat /\ pos \in 1 .. Len(text) + 1 /\ text \in Text
    BY <2>1 DEF Typed, Text
  <2> DEFINE a == SubSeq(text, 1, pos - 1)
  <2>3. a \in Text /\ Len(a) = pos - 1
    <3>1. 1 \in 1 .. Len(text) + 1 /\ pos - 1 \in 1 - 1 .. Len(text) /\ (pos - 1) - 1 + 1 = pos - 1
      BY <2>2
    <3>2. QED  BY <2>2, <3>1, PartIs
  <2>4. LineOf(pos) = 1 + Newlines(a)
    BY DEF LineOf
  <2> HIDE DEF a
  <2>5. Newlines(a) \in 0 .. pos - 1
    BY <2>3, NewlinesType
  <2>6. line = 1 + Newlines(a) /\ column \in 0 .. pos - 1
    BY <2>1, <2>4 DEF Located
  <2>7. line \in 1 .. pos /\ column \in 0 .. pos - 1
    BY <2>2, <2>5, <2>6
  <2>8. \A t \in Range(tokens) : t.at[1] <= t.at[2] /\ t.at[2] <= Len(text) + 1
    BY <2>1 DEF Listed, Spans
  <2>9. start \in DOMAIN Rules
    BY <2>1, RulesOf DEF Typed
  <2>10. QED  BY <2>1, <2>7, <2>8, <2>9 DEF TypeOK, Typed
<1>2. QED  BY <1>1, ScanningInvariant, PTL

\* In every text the line reported for a token is the one it ends on, and, unless a NUL
\* byte came before it, the column is the one where it begins, or 1 if it goes over several
\* lines (parser.y:70).
THEOREM TokensAreLocated == Spec => []BeginExact
<1>1. ScanInv => BeginExact
  BY DEF ScanInv, Listed, Placed, BeginExact
<1>2. QED  BY <1>1, ScanningInvariant, PTL

\* The rules divide every text into code, comments and literals as C does, up to the
\* first character constant that swallows the quote of another one (lexer.l:93,
\* lexer.l:100).
THEOREM RulesReadAsC == Spec => []RegionsAgree
<1>1. ScanInv => RegionsAgree
  <2> SUFFICES ASSUME ScanInv, ~SwallowedQuote PROVE IsPrefix(regions, Front(Reading(text)))
    BY DEF RegionsAgree
  <2>1. Typed /\ Agreed
    BY DEF ScanInv
  <2>2. /\ Len(text) \in Nat /\ pos \in 1 .. Len(text) + 1 /\ text \in Text
        /\ regions \in Seq(Modes) /\ Len(regions) = pos - 1
    BY <2>1 DEF Typed, Text
  <2> DEFINE n == Len(text)
             r == Reading(text)
             f == Front(r)
  <2>3. r \in Seq(Modes) /\ Len(r) = n + 1 /\ \A i \in 1 .. n : r[i] = Units(text)[i].mark
    BY <2>2, ReadingIs
  <2> HIDE DEF r
  <2>4. f = SubSeq(r, 1, n)
    <3>1. Len(r) - 1 = n
      BY <2>2, <2>3
    <3>2. QED  BY <3>1 DEF Front
  <2>5. f \in Seq(Modes) /\ Len(f) = n /\ \A i \in 1 .. n : f[i] = r[i]
    <3>1. /\ \A i \in 1 .. n : i \in 1 .. Len(r) /\ 1 + i - 1 = i
          /\ (IF 1 <= n THEN n - 1 + 1 ELSE 0) = n /\ n - 1 + 1 = n /\ 1 \in Int /\ n \in Int
      BY <2>2, <2>3
    <3>2. \A i \in 1 .. n : r[i] \in Modes
      BY <2>3, <3>1, ElementOfSeq
    <3> HIDE DEF n
    <3>3. /\ SubSeq(r, 1, n) \in Seq(Modes) /\ Len(SubSeq(r, 1, n)) = n
          /\ \A i \in 1 .. n : SubSeq(r, 1, n)[i] = r[1 + i - 1]
      BY <3>1, <3>2, SubSeqProperties
    <3>4. QED  BY <2>4, <3>1, <3>3
  <2> HIDE DEF f
  <2>6. Len(regions) <= Len(f) /\ \A k \in 1 .. Len(regions) : k \in 1 .. n /\ k \in 1 .. pos - 1
    BY <2>2, <2>5
  <2>7. \A k \in 1 .. Len(regions) : regions[k] = f[k]
    BY <2>1, <2>3, <2>5, <2>6 DEF Agreed
  <2>8. IsPrefix(regions, f)
    BY <2>2, <2>5, <2>6, <2>7, PrefixIs
  <2>9. QED  BY <2>8 DEF f, r
<1>2. QED  BY <1>1, ScanningInvariant, PTL

\* The scanner ends the process only in a literal that is never closed, or at a '"' in a
\* character constant, whatever the text is (lexer.l:20, lexer.l:100).
THEOREM OnlyLiteralsJam == Spec => []JamsInOpenLiteral
<1>1. ScanInv => JamsInOpenLiteral
  BY DEF ScanInv
<1>2. QED  BY <1>1, ScanningInvariant, PTL

\* No text is taken to be complete that was not read to its end or ends in a literal, but
\* for a swallowed quote, a NUL byte in the code, and, in a parse, a byte above 127 there
\* (lexer.l:96, lexer.l:131).
THEOREM NothingIsCutShort == Spec => []EndIsComplete
<1>1. ScanInv => EndIsComplete
  BY DEF ScanInv
<1>2. QED  BY <1>1, ScanningInvariant, PTL

-----------------------------------------------------------------------------
\* The names that typedefs define.

\* The j-th token of s ends a typedef of the word w.
DefinesAt(s, j, w) ==
    \E n \in 1 .. j - 3 :
        /\ s[n].kind = "keyword" /\ s[n].image = Typedef
        /\ s[n + 1].kind \in {"keyword", "TYPENAME"}
        /\ s[j - 1].kind = "IDENTIFIER" /\ s[j - 1].image = w
        /\ s[j].kind = "other" /\ s[j].image = <<";">>
        /\ \A k \in n + 1 .. j - 1 : s[k].image # <<";">>

\* Whether the word w has been defined before the k-th token is asked for.
Defined(s, k, w) == \E j \in 1 .. k - 1 : DefinesAt(s, j, w)

IsWord(t) == t.kind \in {"IDENTIFIER", "TYPENAME"}

\* Every name of typename_ has its typedef, and the typedefs before the last token are
\* all in it; a word was given the kind that the typedefs before it ask for.
Named ==
    /\ asker = "dump" => typename = {}
    /\ asker = "parser" =>
        /\ \A w \in typename : Defined(tokens, Len(tokens) + 1, w)
        /\ \A w : Defined(tokens, Len(tokens), w) => w \in typename
    /\ \A k \in 1 .. Len(tokens) : IsWord(tokens[k]) =>
        (tokens[k].kind = "TYPENAME" <=> asker = "parser" /\ Defined(tokens, k, tokens[k].image))

\* What stands before a token does not depend on those after it.
LEMMA DefinedStays ==
    ASSUME NEW T, NEW s \in Seq(T), NEW t \in T
    PROVE  /\ \A j \in 1 .. Len(s) : \A w : DefinesAt(Append(s, t), j, w) <=> DefinesAt(s, j, w)
           /\ \A k \in 1 .. Len(s) + 1 : \A w : Defined(Append(s, t), k, w) <=> Defined(s, k, w)
<1> DEFINE a == Append(s, t)
           N == Len(s)
<1>1. N \in Nat /\ \A i \in 1 .. N : a[i] = s[i]
  BY AppendProperties, LenProperties
<1> HIDE DEF a, N
<1>2. ASSUME NEW j \in 1 .. N, NEW w PROVE DefinesAt(a, j, w) <=> DefinesAt(s, j, w)
  <2>1. \A n \in 1 .. j - 3 :
            /\ n \in 1 .. N /\ n + 1 \in 1 .. N /\ j - 1 \in 1 .. N
            /\ \A k \in n + 1 .. j - 1 : k \in 1 .. N
    BY <1>1
  <2>2. \A n \in 1 .. j - 3 :
            /\ a[n] = s[n] /\ a[n + 1] = s[n + 1] /\ a[j - 1] = s[j - 1] /\ a[j] = s[j]
            /\ \A k \in n + 1 .. j - 1 : a[k] = s[k]
    BY <1>1, <2>1
  <2>3. QED  BY <2>2 DEF DefinesAt
<1>3. ASSUME NEW k \in 1 .. N + 1, NEW w PROVE Defined(a, k, w) <=> Defined(s, k, w)
  <2>1. \A j \in 1 .. k - 1 : j \in 1 .. N
    BY <1>1
  <2>2. QED  BY <1>2, <2>1 DEF Defined
<1>4. QED  BY <1>2, <1>3 DEF a, N

\* The last of the tokens that are identifiers.
LEMMA LastIdentifier ==
    ASSUME NEW T, NEW s \in Seq(T), NEW n \in 1 .. Len(s), s[n].kind = "IDENTIFIER",
           \A i \in n + 1 .. Len(s) : s[i].kind # "IDENTIFIER"
    PROVE  SelectLastInSeq(s, LAMBDA t : t.kind = "IDENTIFIER") = n
<1> DEFINE I == {i \in 1 .. Len(s) : s[i].kind = "IDENTIFIER"}
           z == SelectLastInSeq(s, LAMBDA t : t.kind = "IDENTIFIER")
<1>1. Len(s) \in Nat
  BY LenProperties
<1>2. z = IF I # {} THEN Max(I) ELSE 0
  BY DEF SelectLastInSeq
<1>3. n \in I /\ \A m \in I : n >= m
  BY <1>1
<1> HIDE DEF I, z
<1>4. Max(I) \in I /\ \A m \in I : Max(I) >= m
  BY <1>3 DEF Max
<1>5. Max(I) >= n /\ n >= Max(I) /\ Max(I) \in 1 .. Len(s)
  BY <1>3, <1>4 DEF I
<1>6. z = n
  BY <1>1, <1>2, <1>3, <1>5
<1>7. QED  BY <1>6 DEF z

\* A typedef that the last token ends is what the parser reduces, and defines the name
\* that it inserts.
LEMMA TypedefReadIs ==
    ASSUME NEW T, tokens \in Seq(T)
    PROVE  /\ \A w : DefinesAt(tokens, Len(tokens), w) => TypedefRead /\ w = TypedefName
           /\ TypedefRead => DefinesAt(tokens, Len(tokens), TypedefName)
<1> DEFINE N == Len(tokens)
<1>1. N \in Nat
  BY LenProperties
<1>2. Last(tokens) = tokens[N]
  BY DEF Last
<1>3. ASSUME N - 1 \in 1 .. N, tokens[N - 1].kind = "IDENTIFIER", tokens[N].kind = "other"
      PROVE  TypedefName = tokens[N - 1].image
  <2>1. \A i \in (N - 1) + 1 .. N : tokens[i].kind # "IDENTIFIER"
    <3>1. \A i \in (N - 1) + 1 .. N : i = N
      BY <1>1
    <3>2. QED  BY <1>3, <3>1
  <2>2. SelectLastInSeq(tokens, LAMBDA t : t.kind = "IDENTIFIER") = N - 1
    BY <1>3, <2>1, LastIdentifier
  <2>3. QED  BY <2>2 DEF TypedefName
<1>4. ASSUME NEW w, DefinesAt(tokens, N, w) PROVE TypedefRead /\ w = TypedefName
  <2>1. PICK n \in 1 .. N - 3 :
            /\ tokens[n].kind = "keyword" /\ tokens[n].image = Typedef
            /\ tokens[n + 1].kind \in {"keyword", "TYPENAME"}
            /\ tokens[N - 1].kind = "IDENTIFIER" /\ tokens[N - 1].image = w
            /\ tokens[N].kind = "other" /\ tokens[N].image = <<";">>
            /\ \A k \in n + 1 .. N - 1 : tokens[k].image # <<";">>
    BY <1>4 DEF DefinesAt
  <2>2. TypedefRead
    BY <1>2, <2>1 DEF TypedefRead, TypedefIn
  <2>3. N - 1 \in 1 .. N
    <3> HIDE DEF N
    <3>1. n \in 1 .. N - 3
      OBVIOUS
    <3>2. QED  BY <1>1, <3>1
  <2>4. QED  BY <1>3, <2>1, <2>2, <2>3
<1>5. ASSUME TypedefRead PROVE DefinesAt(tokens, N, TypedefName)
  <2>1. PICK n \in 1 .. N - 3 :
            /\ tokens[n].kind = "keyword" /\ tokens[n].image = Typedef
            /\ tokens[n + 1].kind \in {"keyword", "TYPENAME"}
            /\ tokens[N - 1].kind = "IDENTIFIER" /\ tokens[N].kind = "other" /\ tokens[N].image = <<";">>
            /\ \A k \in n + 1 .. N - 1 : tokens[k].image # <<";">>
    BY <1>2, <1>5 DEF TypedefRead, TypedefIn
  <2>2. N - 1 \in 1 .. N
    <3> HIDE DEF N
    <3>1. n \in 1 .. N - 3
      OBVIOUS
    <3>2. QED  BY <1>1, <3>1
  <2>3. TypedefName = tokens[N - 1].image
    BY <1>3, <2>1, <2>2
  <2>4. QED  BY <2>1, <2>3 DEF DefinesAt
<1>6. QED  BY <1>4, <1>5

\* What the scanner makes of a token's word or text.
Reads(t) ==
    /\ IsWord(t) => (t.kind = "TYPENAME" <=> t.image \in typename)
    /\ t.kind \in {"CHARACTER", "STRING"} =>
            \E s \in Text : t.image = StringValue(s) /\ t.image # Throw
    /\ t.kind = "integer" => t.image \in Text /\ Integer(t.image)

\* Every token but a word or a literal has a kind of its own.
LEMMA TokenReads ==
    ASSUME Typed, Match
    PROVE  tokens' = tokens \/ \E t : tokens' = Append(tokens, t) /\ Reads(t)
<1> DEFINE L == Lexeme(Length)
<1>1. /\ Matches # {} /\ L \in Text /\ Len(L) = Length /\ Length \in Nat /\ 1 <= Length
      /\ Accepts(Rule, L)
  BY MatchIs, Ahead, BestMatch DEF Text
<1>2. Skip(Rule) \/ Switch(Rule) \/ PlainToken(Rule, L) \/ OtherToken(Rule, L)
      \/ WordToken(Rule, L) \/ LiteralToken(Rule, L)
  BY MatchIs
<1>3. CASE Skip(Rule) \/ Switch(Rule)
  BY <1>3 DEF Skip, Switch
<1>4. CASE PlainToken(Rule, L)
  <2> DEFINE t == Token(Rule, L)
  <2>1. Rule \in {"keyword", "operator", "integer"} /\ tokens' = Append(tokens, t)
    BY <1>1, <1>4 DEF PlainToken, Return, Token
  <2>2. t.kind = Rule /\ t.image = L
    BY DEF Token
  <2> HIDE DEF t, L
  <2>3. Rule = "integer" => Integer(L)
    BY <1>1 DEF Accepts
  <2>4. Reads(t)
    BY <1>1, <2>1, <2>2, <2>3 DEF Reads, IsWord
  <2>5. QED  BY <2>1, <2>4
<1>5. CASE OtherToken(Rule, L)
  <2> DEFINE t == Token(Rule, CString(L))
  <2>1. Rule = "other" /\ tokens' = Append(tokens, t)
    BY <1>1, <1>5 DEF OtherToken, Return, Token
  <2>2. t.kind = Rule
    BY DEF Token
  <2> HIDE DEF t
  <2>3. Reads(t)
    BY <2>1, <2>2 DEF Reads, IsWord
  <2>4. QED  BY <2>1, <2>3
<1>6. CASE WordToken(Rule, L)
  <2> DEFINE k == IF L \in typename THEN "TYPENAME" ELSE "IDENTIFIER"
             t == Token(k, L)
  <2>1. tokens' = Append(tokens, t)
    BY <1>1, <1>6 DEF WordToken, Return, Token
  <2>2. t.kind = k /\ t.image = L
    BY DEF Token
  <2> HIDE DEF t, L
  <2>3. Reads(t)
    BY <2>2 DEF Reads, IsWord
  <2>4. QED  BY <2>1, <2>3
<1>7. CASE LiteralToken(Rule, L)
  <2> DEFINE C == CString(L)
             v == StringValue(Front(C))
             k == IF start = "CH" THEN "CHARACTER" ELSE "STRING"
  <2>1. Front(C) \in Text
    <3>1. Front(C) = SubSeq(C, 1, Len(C) - 1)
      BY DEF Front
    <3>2. C \in Text /\ Len(C) \in Nat
      BY <1>1, CStringIs DEF Text
    <3> HIDE DEF L, C
    <3>3. C # <<>> => Len(C) >= 1
      BY <3>2, EmptySeq DEF Text
    <3>4. C # <<>>
      BY <1>7 DEF LiteralToken, C, L
    <3>5. 1 \in 1 .. Len(C) + 1 /\ Len(C) - 1 \in 1 - 1 .. Len(C)
      BY <3>2, <3>3, <3>4
    <3>6. QED  BY <3>1, <3>2, <3>5, PartIs
  <2>2. CASE v = Throw /\ tokens' = Append(tokens, Bare("ERROR", pos, pos + Len(L) - 1))
    <3> DEFINE t == Bare("ERROR", pos, pos + Len(L) - 1)
    <3>1. t.kind = "ERROR"
      BY DEF Bare
    <3> HIDE DEF t
    <3>2. Reads(t)
      BY <3>1 DEF Reads, IsWord
    <3>3. QED  BY <2>2, <3>2 DEF t
  <2>3. CASE v # Throw /\ Return(k, v, L)
    <3> DEFINE t == Token(k, v)
    <3>1. tokens' = Append(tokens, t)
      BY <1>1, <2>3 DEF Return, Token
    <3>2. t.kind = k /\ t.image = v
      BY DEF Token
    <3>3. k \in {"CHARACTER", "STRING"}
      OBVIOUS
    <3> HIDE DEF t, k, L, C
    <3>4. Reads(t)
      BY <2>1, <2>3, <3>2, <3>3 DEF Reads, IsWord
    <3>5. QED  BY <3>1, <3>4
  <2>4. QED  BY <1>7, <2>2, <2>3 DEF LiteralToken
<1>8. QED  BY <1>2, <1>3, <1>4, <1>5, <1>6, <1>7

\* The parser has inserted the name of the typedef that was read last.
Prepared == asker = "parser" /\ tokens # <<>> /\ TypedefRead => TypedefName \in typename

\* What a step adds to the tokens, and to the names.
LEMMA StepReads ==
    ASSUME [Next]_vars
    PROVE  /\ UNCHANGED <<text, asker>>
           /\ \/ Match /\ Prepared /\ UNCHANGED typename
              \/ DefTypedef
              \/ /\ UNCHANGED typename
                 /\ \/ tokens' = tokens
                    \/ /\ Prepared
                       /\ \E kind \in {"COMPILE", "END", "ERROR"} : tokens' = Append(tokens, Bare(kind, pos, pos))
<1>1. Asked => Prepared
  BY DEF Asked, Prepared
<1>2. CASE Match
  BY <1>1, <1>2 DEF Match
<1>3. CASE StartToken
  <2>1. tokens' = Append(tokens, Bare("COMPILE", pos, pos))
    <3>1. \A e : <<e>> = Append(<<>>, e)
      OBVIOUS
    <3>2. QED  BY <1>3, <3>1 DEF StartToken
  <2>2. QED  BY <1>3, <2>1 DEF StartToken, Prepared
<1>4. CASE EndOfText \/ Unterminated
  BY <1>1, <1>4 DEF EndOfText, Unterminated
<1>5. CASE Overflow \/ Jam \/ EarlyEnd \/ Reject \/ Done \/ UNCHANGED vars
  BY <1>5 DEF Overflow, Jam, EarlyEnd, Reject, Done, vars
<1>6. CASE DefTypedef
  BY <1>6 DEF DefTypedef
<1>7. QED  BY <1>2, <1>3, <1>4, <1>5, <1>6 DEF Next

\* A token more: the words before it keep their kinds, and it has its own.
LEMMA NamedMore ==
    ASSUME NEW T, tokens \in Seq(T), NEW t \in T, tokens' = Append(tokens, t), UNCHANGED <<asker, typename>>,
           Named, Prepared, asker \in {"dump", "parser"}, Reads(t)
    PROVE  Named'
<1> DEFINE N == Len(tokens)
           a == Append(tokens, t)
<1>1. /\ N \in Nat /\ Len(a) = N + 1 /\ a[N + 1] = t /\ \A i \in 1 .. N : a[i] = tokens[i]
      /\ (N # 0 => tokens # <<>>)
  BY AppendProperties, LenProperties
<1>2. \A k \in 1 .. N + 1 : \A w : Defined(a, k, w) <=> Defined(tokens, k, w)
  BY DefinedStays
<1>3. \A w : DefinesAt(tokens, N, w) => TypedefRead /\ w = TypedefName
  BY TypedefReadIs
<1> HIDE DEF N, a
<1>4. ASSUME NEW w, asker = "parser" PROVE w \in typename <=> Defined(tokens, N + 1, w)
  <2>1. w \in typename => Defined(tokens, N + 1, w)
    BY <1>4 DEF Named, N
  <2>2. ASSUME Defined(tokens, N + 1, w) PROVE w \in typename
    <3>1. PICK j \in 1 .. (N + 1) - 1 : DefinesAt(tokens, j, w)
      BY <2>2 DEF Defined
    <3>2. CASE j = N
      <4>1. N # 0
        BY <1>1, <3>2
      <4>2. QED  BY <1>1, <1>3, <1>4, <3>1, <3>2, <4>1 DEF Prepared
    <3>3. CASE j # N
      <4>1. j \in 1 .. N - 1
        BY <1>1, <3>3
      <4>2. Defined(tokens, N, w)
        BY <3>1, <4>1 DEF Defined
      <4>3. QED  BY <1>4, <4>2 DEF Named, N
    <3>4. QED  BY <3>2, <3>3
  <2>3. QED  BY <2>1, <2>2
<1>5. asker = "dump" => typename = {}
  BY DEF Named
<1>6. ASSUME asker = "parser", NEW w PROVE w \in typename <=> Defined(a, N + 1, w)
  <2>1. N + 1 \in 1 .. N + 1
    BY <1>1
  <2>2. QED  BY <1>2, <1>4, <1>6, <2>1
<1>7. ASSUME asker = "parser", NEW w \in typename PROVE Defined(a, (N + 1) + 1, w)
  <2>1. PICK j \in 1 .. (N + 1) - 1 : DefinesAt(a, j, w)
    BY <1>6, <1>7 DEF Defined
  <2>2. j \in 1 .. ((N + 1) + 1) - 1
    BY <1>1
  <2>3. QED  BY <2>1, <2>2 DEF Defined
<1>8. ASSUME NEW k \in 1 .. N + 1, IsWord(a[k])
      PROVE  a[k].kind = "TYPENAME" <=> asker = "parser" /\ Defined(a, k, a[k].image)
  <2>1. CASE k = N + 1
    <3>1. a[k] = t /\ (t.kind = "TYPENAME" <=> t.image \in typename)
      BY <1>1, <1>8, <2>1 DEF Reads
    <3>2. QED  BY <1>5, <1>6, <2>1, <3>1
  <2>2. CASE k # N + 1
    <3>1. k \in 1 .. N /\ a[k] = tokens[k]
      BY <1>1, <2>2
    <3>2. tokens[k].kind = "TYPENAME" <=> asker = "parser" /\ Defined(tokens, k, tokens[k].image)
      BY <1>8, <3>1 DEF Named, N
    <3>3. QED  BY <1>2, <3>1, <3>2
  <2>3. QED  BY <2>1, <2>2
<1>9. /\ asker = "parser" => /\ \A w \in typename : Defined(a, Len(a) + 1, w)
                             /\ \A w : Defined(a, Len(a), w) => w \in typename
      /\ \A k \in 1 .. Len(a) : IsWord(a[k]) =>
            (a[k].kind = "TYPENAME" <=> asker = "parser" /\ Defined(a, k, a[k].image))
  BY <1>1, <1>6, <1>7, <1>8
<1>10. tokens' = a /\ asker' = asker /\ typename' = typename
  BY DEF a
<1>11. QED  BY <1>5, <1>9, <1>10 DEF Named

\* Every step keeps the names right: the token that follows a typedef waits for DefTypedef.
LEMMA NamedStep ==
    ASSUME Typed, Listed, Named, [Next]_vars
    PROVE  Named'
<1>1. tokens \in Seq(Range(tokens)) /\ UNCHANGED asker
  BY StepReads DEF Listed
<1>2. ASSUME NEW t, tokens' = Append(tokens, t), Reads(t), Prepared, UNCHANGED typename PROVE Named'
  <2> DEFINE T == Range(tokens) \cup {t}
  <2>1. t \in T /\ Range(tokens) \subseteq T
    OBVIOUS
  <2> HIDE DEF T
  <2>2. tokens \in Seq(T)
    BY <1>1, <2>1, SeqMonotonic
  <2>3. asker \in {"dump", "parser"}
    BY DEF Typed
  <2>4. QED  BY <1>1, <1>2, <2>1, <2>2, <2>3, NamedMore
<1>3. ASSUME tokens' = tokens, UNCHANGED typename PROVE Named'
  BY <1>1, <1>3 DEF Named
<1>4. CASE Match /\ Prepared /\ UNCHANGED typename
  BY <1>2, <1>3, <1>4, TokenReads
<1>5. ASSUME NEW kind \in {"COMPILE", "END", "ERROR"}, tokens' = Append(tokens, Bare(kind, pos, pos)),
             Prepared, UNCHANGED typename
      PROVE  Named'
  <2> DEFINE t == Bare(kind, pos, pos)
  <2>1. t.kind = kind
    BY DEF Bare
  <2> HIDE DEF t
  <2>2. Reads(t)
    BY <2>1 DEF Reads, IsWord
  <2>3. tokens' = Append(tokens, t)
    BY <1>5 DEF t
  <2>4. QED  BY <1>2, <1>5, <2>2, <2>3
<1>6. CASE DefTypedef
  <2> DEFINE N == Len(tokens)
  <2>1. asker = "parser" /\ TypedefRead /\ typename' = typename \cup {TypedefName} /\ tokens' = tokens
    BY <1>6 DEF DefTypedef
  <2>2. DefinesAt(tokens, N, TypedefName)
    BY <1>1, <2>1, TypedefReadIs
  <2>3. N \in Nat
    BY <1>1, LenProperties
  <2> HIDE DEF N
  <2>4. N # 0
    <3>1. PICK n : n \in 1 .. N - 3
      BY <2>2 DEF DefinesAt
    <3>2. QED  BY <2>3, <3>1
  <2>5. N \in 1 .. (N + 1) - 1
    BY <2>3, <2>4
  <2>6. Defined(tokens, N + 1, TypedefName)
    BY <2>2, <2>5 DEF Defined
  <2>7. \A w \in typename' : Defined(tokens, N + 1, w)
    BY <2>1, <2>6 DEF Named, N
  <2>8. QED  BY <1>1, <2>1, <2>7 DEF Named, N
<1>7. QED  BY <1>3, <1>4, <1>5, <1>6, StepReads

\* Then TYPENAME is the kind of the words that have been defined, and of no others.
LEMMA NamedIs ==
    ASSUME Listed, Named
    PROVE  TypenamesFollowTypedefs
<1> DEFINE N == Len(tokens)
           Had(k, w) == \E n \in 1 .. k - 4 : \E j \in n + 3 .. k - 1 :
                            /\ tokens[n].kind = "keyword" /\ tokens[n].image = Typedef
                            /\ tokens[n + 1].kind \in {"keyword", "TYPENAME"}
                            /\ tokens[j - 1].kind = "IDENTIFIER" /\ tokens[j - 1].image = w
                            /\ tokens[j].kind = "other" /\ tokens[j].image = <<";">>
                            /\ \A i \in n + 1 .. j - 1 : tokens[i].image # <<";">>
<1>1. DOMAIN tokens = 1 .. N
  BY LenProperties DEF Listed
<1>2. N \in Nat
  BY LenProperties DEF Listed
<1> HIDE DEF N
<1>3. ASSUME NEW k \in 1 .. N, NEW w PROVE Defined(tokens, k, w) <=> Had(k, w)
  <2>1. \A n, j : n \in 1 .. k - 4 /\ j \in n + 3 .. k - 1 <=> j \in 1 .. k - 1 /\ n \in 1 .. j - 3
    BY <1>2
  <2>2. QED  BY <2>1 DEF Defined, DefinesAt
<1>4. \A k \in 1 .. N : IsWord(tokens[k]) =>
        (tokens[k].kind = "TYPENAME" <=> asker = "parser" /\ Defined(tokens, k, tokens[k].image))
  BY DEF Named, N
<1>5. \A k \in DOMAIN tokens : tokens[k].kind \in {"IDENTIFIER", "TYPENAME"} =>
        (tokens[k].kind = "TYPENAME" <=> asker = "parser" /\ Had(k, tokens[k].image))
  <2> HIDE DEF Had
  <2>1. QED  BY <1>1, <1>3, <1>4 DEF IsWord
<1>6. QED  BY <1>5, Zenon DEF TypenamesFollowTypedefs

\* Before the first token nothing is defined.
LEMMA NamedInit == Init => Named
<1> SUFFICES ASSUME Init PROVE Named
  OBVIOUS
<1>1. tokens = <<>> /\ Len(tokens) = 0 /\ typename = {}
  BY DEF Init
<1>2. \A k \in 1 .. 0 : FALSE
  OBVIOUS
<1>3. \A w : ~Defined(tokens, 0, w)
  <2>1. \A j \in 1 .. 0 - 1 : FALSE
    OBVIOUS
  <2>2. QED  BY <2>1 DEF Defined
<1>4. QED  BY <1>1, <1>2, <1>3 DEF Named

-----------------------------------------------------------------------------
\* The values of literals.

Backslash == "\\"

\* The characters of texts and of values.  (All are strings; but of a string that is written
\* out the provers do not see that it is one.)
Characters == STRING \cup {DecimalDigits[i] : i \in 1 .. 10} \cup {Unescape[c] : c \in DOMAIN Unescape}
                     \cup {"throw"}
Value == Seq(Characters)

\* A backslash is no digit.
LEMMA DigitsAreRead ==
    /\ Backslash \notin HexDigit
    /\ DecimalDigits[1] = "0"
<1> DEFINE digits == {"0", "1", "2", "3", "4", "5", "6", "7", "8", "9"}
           lower == digits \cup {"a", "b", "c", "d", "e", "f"}
           upper == digits \cup {"A", "B", "C", "D", "E", "F"}
<1>1. DOMAIN LowerHex = 1 .. 16 /\ \A i \in 1 .. 16 : LowerHex[i] \in lower
  BY DEF LowerHex, DecimalDigits
<1>2. DOMAIN UpperHex = 1 .. 16 /\ \A i \in 1 .. 16 : UpperHex[i] \in upper
  BY DEF UpperHex, DecimalDigits
<1>3. Backslash \notin lower /\ Backslash \notin upper
  BY DEF Backslash
<1> HIDE DEF lower, upper
<1>4. ToSet(LowerHex) \subseteq lower /\ ToSet(UpperHex) \subseteq upper
  BY <1>1, <1>2 DEF ToSet
<1>5. DecimalDigits[1] = "0"
  BY DEF DecimalDigits
<1>6. QED  BY <1>3, <1>4, <1>5 DEF HexDigit

\* The text of every number is a text, and that of zero is "0".
LEMMA DecimalTextIs == DecimalText[0] = <<"0">>
<1> DEFINE At(f, n) == IF n < 10 THEN <<DecimalDigits[n + 1]>>
                       ELSE f[n \div 10] \o <<DecimalDigits[(n % 10) + 1]>>
           Rec(f) == f = [n \in Nat |-> At(f, n)]
           G == [p \in Nat \X [Nat -> Value] |-> At(p[2], p[1])]
<1>1. ASSUME NEW i \in 1 .. 10 PROVE <<DecimalDigits[i]>> \in Value
  <2>1. DecimalDigits[i] \in Characters
    BY DEF Characters
  <2>2. QED  BY <2>1 DEF Value
<1>2. ASSUME NEW n \in Nat
      PROVE  (n % 10) + 1 \in 1 .. 10 /\ n \div 10 \in Nat /\ (n < 10 => n + 1 \in 1 .. 10)
             /\ (~(n < 10) => n \div 10 \in 0 .. n - 1)
  OBVIOUS
<1>3. ASSUME NEW n \in Nat, NEW f \in [Nat -> Value] PROVE At(f, n) \in Value
  <2>1. CASE n < 10
    BY <1>1, <1>2, <2>1
  <2>2. CASE ~(n < 10)
    <3>1. f[n \div 10] \in Value /\ <<DecimalDigits[(n % 10) + 1]>> \in Value
      BY <1>1, <1>2
    <3>2. f[n \div 10] \o <<DecimalDigits[(n % 10) + 1]>> \in Value
      BY <3>1, ConcatProperties DEF Value
    <3>3. QED  BY <2>2, <3>2
  <2>3. QED  BY <2>1, <2>2
<1>4. ASSUME NEW n \in Nat, NEW f \in [Nat -> Value], NEW g \in [Nat -> Value],
             \A j \in 0 .. n - 1 : f[j] = g[j]
      PROVE  At(f, n) = At(g, n)
  BY <1>2, <1>4
<1> HIDE DEF At
<1>5. /\ G \in [Nat \X [Nat -> Value] -> Value]
      /\ \A n \in Nat : \A f \in [Nat -> Value] : G[<<n, f>>] = At(f, n)
  BY <1>3
<1> HIDE DEF G
<1>6. LooksBack(G, Value)
  BY <1>4, <1>5 DEF LooksBack
<1>7. <<>> \in Value
  BY DEF Value
<1>8. PICK f \in [Nat -> Value] : Values(f, G)
  BY <1>5, <1>6, <1>7, CourseOfValues
<1>9. Rec(f)
  BY <1>5, <1>8 DEF Values
<1>10. DecimalText = CHOOSE e : Rec(e)
  BY DEF DecimalText, At
<1>11. Rec(DecimalText)
  <2> HIDE DEF Rec
  <2>1. QED  BY <1>9, <1>10, Zenon
<1>12. DecimalText[0] = At(DecimalText, 0)
  <2> DEFINE e == DecimalText
  <2>1. e = [n \in Nat |-> At(e, n)]
    BY <1>11
  <2> HIDE DEF e
  <2>2. e[0] = At(e, 0)
    BY <2>1
  <2>3. QED  BY <2>2 DEF e
<1>13. At(DecimalText, 0) = <<DecimalDigits[0 + 1]>>
  BY DEF At
<1>14. QED  BY <1>12, <1>13, DigitsAreRead

\* integer_value reads nothing of a text that begins with a backslash.
LEMMA NothingRead ==
    ASSUME NEW s \in Value, Len(s) >= 1, s[1] = Backslash
    PROVE  IntegerValue(s) = 0
<1> DEFINE L == Leading(s, 10)
           Rec(f) == f = [i \in 0 .. 0 |-> IF i = 0 THEN 0 ELSE f[i - 1] * 10 + Weight[s[i]]]
<1>1. Len(s) \in Nat
  BY DEF Value
<1>2. L = 0
  <2> DEFINE Reads10(n) == /\ \A i \in 1 .. n : s[i] \in HexDigit /\ Weight[s[i]] < 10
                           /\ n < Len(s) => s[n + 1] \notin HexDigit \/ Weight[s[n + 1]] >= 10
  <2>1. 0 \in 0 .. Len(s) /\ Reads10(0)
    <3>1. s[0 + 1] \notin HexDigit
      BY DigitsAreRead
    <3>2. QED  BY <1>1, <3>1
  <2>2. ASSUME NEW n \in 0 .. Len(s), Reads10(n) PROVE n = 0
    <3>1. SUFFICES ASSUME n # 0 PROVE FALSE
      OBVIOUS
    <3>2. 1 \in 1 .. n
      BY <1>1, <3>1
    <3>3. s[1] \in HexDigit
      BY <2>2, <3>2
    <3>4. QED  BY <3>3, DigitsAreRead
  <2>3. L = CHOOSE n \in 0 .. Len(s) : Reads10(n)
    BY DEF Leading
  <2> HIDE DEF Reads10
  <2>4. QED  BY <2>1, <2>2, <2>3
<1>3. Number(s, 10) = 0
  <2>1. Number(s, 10) = (CHOOSE f : f = [i \in 0 .. L |->
                            IF i = 0 THEN 0 ELSE f[i - 1] * 10 + Weight[s[i]]])[L]
    BY DEF Number
  <2>2. Number(s, 10) = (CHOOSE f : Rec(f))[0]
    BY <1>2, <2>1
  <2>3. Rec([i \in 0 .. 0 |-> 0])
    OBVIOUS
  <2> DEFINE f == CHOOSE f : Rec(f)
  <2>4. Rec(f)
    <3> HIDE DEF Rec
    <3>1. QED  BY <2>3, Zenon
  <2>5. f[0] = 0
    <3> HIDE DEF f
    <3>1. QED  BY <2>4
  <2>6. QED  BY <2>2, <2>5
<1>4. s[1] # "0"
  BY DEF Backslash
<1>5. IntegerValue(s) = Strtol(s, 10)
  BY <1>4 DEF IntegerValue
<1>6. ~(0 > LongMax)
  BY LongAssumption
<1>7. QED  BY <1>3, <1>5, <1>6 DEF Strtol

\* One character after the other, as string_value reads a text; a, b and c are what it
\* makes of the text one, two and four characters on.
Then(a, b) == IF b = Throw THEN Throw ELSE a \o b
Piece(s, i, a, b, c) ==
    IF i > Len(s) THEN <<>>
    ELSE IF s[i] # "\\" THEN Then(<<s[i]>>, a)
    ELSE IF OctalAt(s, i) THEN Then(DecimalText[IntegerValue(SubSeq(s, i, i + 3))], c)
    ELSE IF i = Len(s) \/ s[i + 1] \notin DOMAIN Unescape THEN Throw
    ELSE Then(<<Unescape[s[i + 1]]>>, b)
Pieces(s, f) == f = [i \in 1 .. Len(s) + 1 |-> Piece(s, i, f[i + 1], f[i + 2], f[i + 4])]

\* An octal escape of any digits stands for the digit zero.
LEMMA OctalIsZero ==
    ASSUME NEW s \in Value, NEW i \in 1 .. Len(s), s[i] = Backslash, OctalAt(s, i)
    PROVE  DecimalText[IntegerValue(SubSeq(s, i, i + 3))] = <<"0">>
<1> DEFINE x == SubSeq(s, i, i + 3)
<1>1. Len(s) \in Nat /\ i \in Int /\ i + 3 \in Int /\ i + 3 <= Len(s)
  BY DEF OctalAt, Value
<1>2. \A k \in i .. i + 3 : k \in 1 .. Len(s) /\ s[k] \in Characters
  <2>1. \A k \in i .. i + 3 : k \in 1 .. Len(s)
    BY <1>1
  <2>2. QED  BY <2>1, ElementOfSeq DEF Value
<1>3. /\ (IF i <= i + 3 THEN (i + 3) - i + 1 ELSE 0) = 4 /\ 1 \in 1 .. (i + 3) - i + 1 /\ i + 1 - 1 = i
  BY <1>1
<1>4. x \in Value /\ Len(x) = 4 /\ x[1] = s[i]
  BY <1>1, <1>2, <1>3, SubSeqProperties DEF Value
<1> HIDE DEF x
<1>5. IntegerValue(x) = 0
  BY <1>4, NothingRead
<1>6. QED  BY <1>5, DecimalTextIs DEF x

\* Whatever a set of texts is closed under, the reading of a text is in it.
Closes(T, C) ==
    /\ Throw \in T /\ <<>> \in T
    /\ \A c \in C : \A b \in T : Then(<<c>>, b) \in T

\* So is each piece of it.
LEMMA PieceIn ==
    ASSUME NEW T, Closes(T, Characters \ {Backslash}), NEW s \in Value, NEW i \in 1 .. Len(s) + 1, NEW a, NEW b, NEW c,
           i <= Len(s) => a \in T, i < Len(s) => b \in T, i + 3 <= Len(s) => c \in T
    PROVE  Piece(s, i, a, b, c) \in T
<1> DEFINE N == Len(s)
           C == Characters \ {Backslash}
<1>1. N \in Nat
  BY DEF Value
<1>2. CASE i > N
  BY <1>2 DEF Piece, Closes
<1>3. CASE i <= N /\ s[i] # Backslash
  <2>1. s[i] \in C
    BY <1>1, <1>3, ElementOfSeq DEF Value
  <2>2. Then(<<s[i]>>, a) \in T
    BY <1>3, <2>1 DEF Closes
  <2>3. Piece(s, i, a, b, c) = Then(<<s[i]>>, a)
    BY <1>1, <1>3 DEF Piece, Backslash
  <2>4. QED  BY <2>2, <2>3
<1>4. CASE i <= N /\ s[i] = Backslash /\ OctalAt(s, i)
  <2>1. i + 3 <= N
    BY <1>4 DEF OctalAt
  <2>2. i \in 1 .. Len(s)
    BY <1>1, <1>4
  <2>3. DecimalText[IntegerValue(SubSeq(s, i, i + 3))] = <<"0">>
    BY <1>4, <2>2, OctalIsZero
  <2>4. "0" \in C
    <3>1. DecimalDigits[1] \in Characters
      BY DEF Characters
    <3>2. QED  BY <3>1, DigitsAreRead DEF Backslash
  <2>5. Then(<<"0">>, c) \in T
    BY <2>1, <2>4 DEF Closes
  <2>6. Piece(s, i, a, b, c) = Then(DecimalText[IntegerValue(SubSeq(s, i, i + 3))], c)
    BY <1>1, <1>4 DEF Piece, Backslash
  <2>7. QED  BY <2>3, <2>5, <2>6
<1>5. CASE i <= N /\ s[i] = Backslash /\ ~OctalAt(s, i) /\ (i = N \/ s[i + 1] \notin DOMAIN Unescape)
  BY <1>1, <1>5 DEF Piece, Backslash, Closes
<1>6. CASE i <= N /\ s[i] = Backslash /\ ~OctalAt(s, i) /\ ~(i = N \/ s[i + 1] \notin DOMAIN Unescape)
  <2>1. Piece(s, i, a, b, c) = Then(<<Unescape[s[i + 1]]>>, b)
    BY <1>1, <1>6 DEF Piece, Backslash
  <2>2. i < N
    BY <1>1, <1>6
  <2>3. Unescape[s[i + 1]] \in C
    <3>1. Unescape[s[i + 1]] \in Characters
      BY <1>6 DEF Characters
    <3>2. \A e \in DOMAIN Unescape : Unescape[e] # Backslash
      BY DEF Unescape, QuoteEscapes, ControlEscapes, Nul, Backslash
    <3>3. QED  BY <1>6, <3>1, <3>2
  <2>4. Then(<<Unescape[s[i + 1]]>>, b) \in T
    BY <2>2, <2>3 DEF Closes
  <2>5. QED  BY <2>1, <2>4
<1>7. QED  BY <1>1, <1>2, <1>3, <1>4, <1>5, <1>6

\* Only what follows is read.
LEMMA PieceSame ==
    ASSUME NEW s \in Value, NEW i \in 1 .. Len(s) + 1, NEW a, NEW b, NEW c, NEW d, NEW e, NEW f,
           i <= Len(s) => a = d, i < Len(s) => b = e, i + 3 <= Len(s) => c = f
    PROVE  Piece(s, i, a, b, c) = Piece(s, i, d, e, f)
<1>1. Len(s) \in Nat
  BY DEF Value
<1>2. OctalAt(s, i) => i + 3 <= Len(s)
  BY DEF OctalAt
<1>3. QED  BY <1>1, <1>2 DEF Piece

\* An exception is a value like others to the provers.
LEMMA ThrowIs == Throw \in Value /\ Len(Throw) = 1 /\ Throw[1] = "throw" /\ Throw # <<>>
<1>1. "throw" \in Characters
  BY DEF Characters
<1>2. QED  BY <1>1 DEF Throw, Value

\* A character before a text.
LEMMA ThenIs ==
    ASSUME NEW c \in Characters, NEW b \in Value
    PROVE  /\ Then(<<c>>, b) \in Value
           /\ b = Throw => Then(<<c>>, b) = Throw
           /\ b # Throw => /\ Len(Then(<<c>>, b)) = 1 + Len(b)
                           /\ Then(<<c>>, b)[1] = c
                           /\ \A k \in 2 .. 1 + Len(b) : Then(<<c>>, b)[k] = b[k - 1]
<1> DEFINE d == <<c>>
<1>1. d \in Value /\ Len(d) = 1 /\ d[1] = c
  BY DEF Value
<1>2. Len(b) \in Nat
  BY DEF Value
<1> HIDE DEF d
<1>3. /\ d \o b \in Value /\ Len(d \o b) = 1 + Len(b)
      /\ \A i \in 1 .. 1 + Len(b) : (d \o b)[i] = IF i <= 1 THEN d[i] ELSE b[i - 1]
  <2>1. d \in Seq(Characters) /\ b \in Seq(Characters)
    BY <1>1 DEF Value
  <2>2. /\ d \o b \in Seq(Characters) /\ Len(d \o b) = Len(d) + Len(b)
        /\ \A i \in 1 .. Len(d) + Len(b) :
              (d \o b)[i] = IF i <= Len(d) THEN d[i] ELSE b[i - Len(d)]
    BY <2>1, ConcatProperties
  <2>3. QED  BY <1>1, <2>2 DEF Value
<1>4. 1 \in 1 .. 1 + Len(b) /\ \A k \in 2 .. 1 + Len(b) : k \in 1 .. 1 + Len(b) /\ ~(k <= 1)
  BY <1>2
<1>5. (d \o b)[1] = c /\ \A k \in 2 .. 1 + Len(b) : (d \o b)[k] = b[k - 1]
  BY <1>1, <1>3, <1>4
<1>6. Then(d, b) = IF b = Throw THEN Throw ELSE d \o b
  BY DEF Then
<1>7. QED  BY <1>3, <1>5, <1>6, ThrowIs DEF d

\* Values are closed under adding a character.
LEMMA ValuesClose == Closes(Value, Characters \ {Backslash})
<1>1. <<>> \in Value
  BY DEF Value
<1>2. QED  BY <1>1, ThrowIs, ThenIs DEF Closes

\* string_value is what its pieces make together.
LEMMA StringValueIs ==
    ASSUME NEW s \in Value
    PROVE  \E f : Pieces(s, f) /\ StringValue(s) = f[1]
<1> DEFINE N == Len(s)
           At(h, k) == IF k <= N THEN Piece(s, N + 1 - k, h[k - 1], h[k - 2], h[k - 4]) ELSE <<>>
           G == [p \in Nat \X [Nat -> Value] |-> At(p[2], p[1])]
           Rec(f) == Pieces(s, f)
<1>1. N \in Nat
  BY DEF Value
<1> HIDE DEF N
<1>2. <<>> \in Value
  BY ValuesClose DEF Closes
<1>3. ASSUME NEW k \in Nat, k <= N
      PROVE  /\ N + 1 - k \in 1 .. N + 1
             /\ N + 1 - k <= N => k - 1 \in Nat /\ k - 1 \in 0 .. k - 1
             /\ N + 1 - k < N => k - 2 \in Nat /\ k - 2 \in 0 .. k - 1
             /\ (N + 1 - k) + 3 <= N => k - 4 \in Nat /\ k - 4 \in 0 .. k - 1
  BY <1>1, <1>3
<1>4. ASSUME NEW k \in Nat, NEW h \in [Nat -> Value] PROVE At(h, k) \in Value
  <2>1. CASE k <= N
    <3>1. Piece(s, N + 1 - k, h[k - 1], h[k - 2], h[k - 4]) \in Value
      BY <1>3, <2>1, ValuesClose, PieceIn DEF N
    <3>2. QED  BY <2>1, <3>1
  <2>2. QED  BY <1>2, <2>1
<1>5. ASSUME NEW k \in Nat, NEW g \in [Nat -> Value], NEW h \in [Nat -> Value],
             \A j \in 0 .. k - 1 : g[j] = h[j]
      PROVE  At(g, k) = At(h, k)
  <2>1. CASE k <= N
    <3>1. Piece(s, N + 1 - k, g[k - 1], g[k - 2], g[k - 4]) = Piece(s, N + 1 - k, h[k - 1], h[k - 2], h[k - 4])
      BY <1>3, <1>5, <2>1, PieceSame DEF N
    <3>2. QED  BY <2>1, <3>1
  <2>2. QED  BY <2>1
<1> HIDE DEF At
<1>6. /\ G \in [Nat \X [Nat -> Value] -> Value]
      /\ \A k \in Nat : \A h \in [Nat -> Value] : G[<<k, h>>] = At(h, k)
  BY <1>4
<1> HIDE DEF G
<1>7. LooksBack(G, Value)
  BY <1>5, <1>6 DEF LooksBack
<1>8. PICK h \in [Nat -> Value] : Values(h, G)
  BY <1>2, <1>6, <1>7, CourseOfValues
<1> DEFINE f == [i \in 1 .. N + 1 |-> h[N + 1 - i]]
<1>9. ASSUME NEW i \in 1 .. N + 1
      PROVE  f[i] = Piece(s, i, f[i + 1], f[i + 2], f[i + 4])
  <2> DEFINE k == N + 1 - i
  <2>1. k \in Nat /\ k <= N /\ N + 1 - k = i
    BY <1>1
  <2>2. /\ i <= N => i + 1 \in 1 .. N + 1 /\ N + 1 - (i + 1) = k - 1
        /\ i < N => i + 2 \in 1 .. N + 1 /\ N + 1 - (i + 2) = k - 2
        /\ i + 3 <= N => i + 4 \in 1 .. N + 1 /\ N + 1 - (i + 4) = k - 4
    BY <1>1
  <2>3. f[i] = h[k]
    OBVIOUS
  <2>4. /\ i <= N => f[i + 1] = h[k - 1]
        /\ i < N => f[i + 2] = h[k - 2]
        /\ i + 3 <= N => f[i + 4] = h[k - 4]
    BY <2>2
  <2> HIDE DEF k, f
  <2>5. h[k] = Piece(s, i, h[k - 1], h[k - 2], h[k - 4])
    BY <1>6, <1>8, <2>1 DEF Values, At
  <2>6. Piece(s, i, h[k - 1], h[k - 2], h[k - 4]) = Piece(s, i, f[i + 1], f[i + 2], f[i + 4])
    BY <2>4, PieceSame DEF N
  <2>7. QED  BY <2>3, <2>5, <2>6
<1>10. Pieces(s, f)
  BY <1>9 DEF Pieces, N
<1>11. StringValue(s) = (CHOOSE e : Rec(e))[1]
  BY DEF StringValue, Pieces, Piece, Then
<1> HIDE DEF f
<1>12. Rec(CHOOSE e : Rec(e))
  <2> HIDE DEF Rec
  <2>1. Rec(f)
    BY <1>10 DEF Rec
  <2>2. QED  BY <2>1, Zenon
<1>13. QED  BY <1>11, <1>12

\* What string_value makes of the text from its i-th character on.
LEMMA PiecesAre ==
    ASSUME NEW s \in Value, NEW f, Pieces(s, f), NEW i \in 1 .. Len(s) + 1
    PROVE  f[i] = Piece(s, i, f[i + 1], f[i + 2], f[i + 4])
BY DEF Pieces

\* From its end to its beginning, each piece of a text is in a set that is closed.
LEMMA PiecesIn ==
    ASSUME NEW T, Closes(T, Characters \ {Backslash}), NEW s \in Value, NEW f, Pieces(s, f)
    PROVE  f[1] \in T
<1> DEFINE N == Len(s)
           S == {k \in Nat : \A m \in 0 .. k : m <= N => f[N + 1 - m] \in T}
<1>1. N \in Nat
  BY DEF Value
<1> HIDE DEF N
<1>2. ASSUME NEW i \in 1 .. N + 1, \A j \in i + 1 .. N + 1 : f[j] \in T PROVE f[i] \in T
  <2>1. /\ i <= N => i + 1 \in i + 1 .. N + 1
        /\ i < N => i + 2 \in i + 1 .. N + 1
        /\ i + 3 <= N => i + 4 \in i + 1 .. N + 1
    BY <1>1
  <2>2. Piece(s, i, f[i + 1], f[i + 2], f[i + 4]) \in T
    BY <1>2, <2>1, PieceIn DEF N
  <2>3. QED  BY <2>2, PiecesAre DEF N
<1>3. 0 \in S
  <2>1. N + 1 \in 1 .. N + 1 /\ \A j \in (N + 1) + 1 .. N + 1 : FALSE
    BY <1>1
  <2>2. f[N + 1] \in T
    BY <1>2, <2>1
  <2>3. \A m \in 0 .. 0 : N + 1 - m = N + 1
    BY <1>1
  <2>4. QED  BY <2>2, <2>3
<1>4. ASSUME NEW k \in Nat, k \in S PROVE k + 1 \in S
  <2>1. ASSUME NEW m \in 0 .. k + 1, m <= N PROVE f[N + 1 - m] \in T
    <3>1. CASE m \in 0 .. k
      BY <1>4, <2>1, <3>1
    <3>2. CASE m = k + 1
      <4>1. N + 1 - m \in 1 .. N + 1
        BY <1>1, <2>1
      <4>2. ASSUME NEW j \in (N + 1 - m) + 1 .. N + 1 PROVE f[j] \in T
        <5>1. N + 1 - j \in 0 .. k /\ N + 1 - j <= N /\ N + 1 - (N + 1 - j) = j
          BY <1>1, <2>1, <3>2
        <5>2. QED  BY <1>4, <5>1
      <4>3. QED  BY <1>2, <4>1, <4>2
    <3>3. QED  BY <3>1, <3>2
  <2>2. QED  BY <2>1
<1>5. N \in S
  <2> HIDE DEF S
  <2>1. QED  BY <1>1, <1>3, <1>4, Induct
<1>6. N \in 0 .. N /\ N + 1 - N = 1
  BY <1>1
<1>7. QED  BY <1>1, <1>5, <1>6

\* A value without backslashes; the one that is an exception apart, it does not end in what
\* is taken for one.
Clean(w) == w = Throw \/ /\ \A j \in 1 .. Len(w) : w[j] # Backslash
                         /\ Len(w) > 0 => w[Len(w)] # "throw"

\* Values without backslashes are closed under adding any other character.
LEMMA CleanCloses == Closes({w \in Value : Clean(w)}, Characters \ {Backslash})
<1> DEFINE T == {w \in Value : Clean(w)}
<1>1. Throw \in T
  BY ThrowIs DEF Clean
<1>2. <<>> \in T
  BY DEF Clean, Value
<1>3. ASSUME NEW c \in Characters \ {Backslash}, NEW b \in T PROVE Then(<<c>>, b) \in T
  <2> DEFINE x == Then(<<c>>, b)
  <2>1. /\ x \in Value
        /\ b = Throw => x = Throw
        /\ b # Throw => /\ Len(x) = 1 + Len(b)
                        /\ x[1] = c
                        /\ \A k \in 2 .. 1 + Len(b) : x[k] = b[k - 1]
    BY ThenIs
  <2>6. SUFFICES x \in T
    OBVIOUS
  <2> HIDE DEF x
  <2>2. Len(b) \in Nat
    BY DEF Value
  <2>3. CASE b = Throw
    BY <1>1, <2>1, <2>3
  <2>4. CASE b # Throw /\ Len(b) > 0
    <3>1. (\A j \in 1 .. Len(b) : b[j] # Backslash) /\ b[Len(b)] # "throw"
      BY <2>4 DEF Clean
    <3>2. ASSUME NEW j \in 1 .. Len(x) PROVE x[j] # Backslash
      <4>1. CASE j = 1
        BY <2>1, <2>4, <4>1
      <4>2. CASE j # 1
        <5>1. j \in 2 .. 1 + Len(b) /\ j - 1 \in 1 .. Len(b)
          BY <2>1, <2>2, <2>4, <4>2
        <5>2. QED  BY <2>1, <2>4, <3>1, <5>1
      <4>3. QED  BY <4>1, <4>2
    <3>3. x[Len(x)] # "throw"
      <4>1. Len(x) \in 2 .. 1 + Len(b) /\ Len(x) - 1 = Len(b)
        BY <2>1, <2>2, <2>4
      <4>2. QED  BY <2>1, <2>4, <3>1, <4>1
    <3>4. QED  BY <2>1, <3>2, <3>3 DEF Clean
  <2>5. CASE b # Throw /\ Len(b) = 0
    <3>1. Len(x) = 1 /\ x[1] = c
      BY <2>1, <2>5
    <3>2. CASE c = "throw"
      <4>1. x = Throw
        <5>1. Len(x) = Len(Throw) /\ \A i \in 1 .. Len(x) : x[i] = Throw[i]
          <6>1. \A i \in 1 .. 1 : i = 1
            OBVIOUS
          <6>2. QED  BY <3>1, <3>2, <6>1, ThrowIs
        <5>2. QED  BY <2>1, <5>1, ThrowIs, SeqEqual DEF Value
      <4>2. QED  BY <1>1, <4>1
    <3>3. CASE c # "throw"
      <4>1. \A j \in 1 .. Len(x) : j = 1
        BY <3>1
      <4>2. QED  BY <2>1, <3>1, <3>3, <4>1 DEF Clean
    <3>4. QED  BY <3>2, <3>3
  <2>7. QED  BY <2>2, <2>3, <2>4, <2>5
<1>4. QED  BY <1>1, <1>2, <1>3 DEF Closes

\* A clean value reads as itself.
LEMMA CleanReads ==
    ASSUME NEW w \in Value, Clean(w), w # Throw
    PROVE  StringValue(w) = w
<1> DEFINE N == Len(w)
           R(i) == SubSeq(w, i, N)
<1>1. N \in Nat
  BY DEF Value
<1>2. (\A j \in 1 .. N : w[j] # Backslash) /\ (N > 0 => w[N] # "throw")
  BY DEF Clean
<1>3. PICK f : Pieces(w, f) /\ StringValue(w) = f[1]
  BY StringValueIs
<1> HIDE DEF N
<1>4. ASSUME NEW i \in 1 .. N + 1
      PROVE  /\ R(i) \in Value /\ Len(R(i)) = N + 1 - i
             /\ \A k \in 1 .. N + 1 - i : R(i)[k] = w[i + k - 1]
  <2>1. \A k \in i .. N : k \in 1 .. Len(w) /\ w[k] \in Characters
    <3>1. \A k \in i .. N : k \in 1 .. Len(w)
      BY <1>1 DEF N
    <3>2. QED  BY <3>1, ElementOfSeq DEF Value
  <2>2. i \in Int /\ N \in Int /\ N - i + 1 = N + 1 - i /\ (IF i <= N THEN N - i + 1 ELSE 0) = N + 1 - i
    BY <1>1
  <2>3. /\ R(i) \in Value /\ Len(R(i)) = IF i <= N THEN N - i + 1 ELSE 0
        /\ \A k \in 1 .. N - i + 1 : R(i)[k] = w[i + k - 1]
    BY <2>1, <2>2, SubSeqProperties DEF Value
  <2> HIDE DEF R
  <2>4. QED  BY <2>2, <2>3
<1> HIDE DEF R
<1>5. ASSUME NEW i \in 1 .. N + 1 PROVE R(i) # Throw
  <2>1. SUFFICES ASSUME R(i) = Throw PROVE FALSE
    OBVIOUS
  <2>2. N + 1 - i = 1 /\ R(i)[1] = "throw"
    BY <1>4, <2>1, ThrowIs
  <2>3. i = N /\ N > 0 /\ 1 \in 1 .. N + 1 - i /\ i + 1 - 1 = N
    BY <1>1, <2>2
  <2>4. R(i)[1] = w[i + 1 - 1]
    BY <1>4, <2>3
  <2>5. QED  BY <1>2, <2>2, <2>3, <2>4
<1>6. ASSUME NEW i \in 1 .. N PROVE Then(<<w[i]>>, R(i + 1)) = R(i)
  <2> DEFINE x == Then(<<w[i]>>, R(i + 1))
  <2>1. w[i] \in Characters
    BY ElementOfSeq DEF Value, N
  <2>2. i + 1 \in 1 .. N + 1 /\ i \in 1 .. N + 1 /\ 1 + (N + 1 - (i + 1)) = N + 1 - i
    BY <1>1
  <2>3. R(i + 1) # Throw /\ R(i + 1) \in Value /\ Len(R(i + 1)) = N + 1 - (i + 1)
    BY <1>4, <1>5, <2>2
  <2>4. /\ x \in Value /\ Len(x) = N + 1 - i /\ x[1] = w[i]
        /\ \A k \in 2 .. N + 1 - i : x[k] = R(i + 1)[k - 1]
    BY <2>1, <2>2, <2>3, ThenIs
  <2> HIDE DEF x
  <2>5. ASSUME NEW k \in 1 .. N + 1 - i PROVE x[k] = R(i)[k]
    <3>1. R(i)[k] = w[i + k - 1]
      BY <1>4, <2>2
    <3>2. CASE k = 1
      <4>1. i + k - 1 = i
        BY <3>2
      <4>2. QED  BY <2>4, <3>1, <3>2, <4>1
    <3>3. CASE k # 1
      <4>1. k \in 2 .. N + 1 - i /\ k - 1 \in 1 .. N + 1 - (i + 1) /\ (i + 1) + (k - 1) - 1 = i + k - 1
        BY <1>1, <3>3
      <4>2. R(i + 1)[k - 1] = w[(i + 1) + (k - 1) - 1]
        BY <1>4, <2>2, <4>1
      <4>3. QED  BY <2>4, <3>1, <4>1, <4>2
    <3>4. QED  BY <3>2, <3>3
  <2>6. R(i) \in Value /\ Len(R(i)) = N + 1 - i
    BY <1>4, <2>2
  <2>7. x = R(i)
    BY <2>4, <2>5, <2>6, SeqEqual DEF Value
  <2>8. QED  BY <2>7 DEF x
<1> DEFINE S == {k \in Nat : k <= N => f[N + 1 - k] = R(N + 1 - k)}
<1>7. 0 \in S
  <2>1. N + 1 \in 1 .. N + 1 /\ N + 1 > N /\ N + 1 - 0 = N + 1
    BY <1>1
  <2>2. f[N + 1] = <<>>
    <3>1. f[N + 1] = Piece(w, N + 1, f[(N + 1) + 1], f[(N + 1) + 2], f[(N + 1) + 4])
      BY <1>3, <2>1, PiecesAre DEF N
    <3>2. QED  BY <2>1, <3>1 DEF Piece, N
  <2>3. R(N + 1) = <<>>
    <3>1. N + 1 - (N + 1) = 0
      BY <1>1
    <3>2. R(N + 1) \in Value /\ Len(R(N + 1)) = 0
      BY <1>4, <2>1, <3>1
    <3>3. QED  BY <3>2, EmptySeq DEF Value
  <2>4. QED  BY <2>1, <2>2, <2>3
<1>8. ASSUME NEW k \in Nat, k \in S PROVE k + 1 \in S
  <2>1. SUFFICES ASSUME k + 1 <= N PROVE f[N + 1 - (k + 1)] = R(N + 1 - (k + 1))
    OBVIOUS
  <2> DEFINE i == N + 1 - (k + 1)
  <2>2. i \in 1 .. N /\ i \in 1 .. N + 1 /\ i + 1 = N + 1 - k /\ k <= N /\ ~(i > N)
    BY <1>1, <2>1
  <2>3. f[i + 1] = R(i + 1)
    BY <1>8, <2>2
  <2> HIDE DEF i
  <2>4. f[i] = Piece(w, i, f[i + 1], f[i + 2], f[i + 4])
    BY <1>3, <2>2, PiecesAre DEF N
  <2>5. w[i] # Backslash
    BY <1>2, <2>2
  <2>6. f[i] = Then(<<w[i]>>, f[i + 1])
    BY <2>2, <2>4, <2>5 DEF Piece, N, Backslash
  <2>7. f[i] = R(i)
    BY <1>6, <2>2, <2>3, <2>6
  <2>8. QED  BY <2>7 DEF i
<1>9. N \in S
  <2> HIDE DEF S
  <2>1. QED  BY <1>1, <1>7, <1>8, Induct
<1>10. f[1] = R(1)
  <2>1. N + 1 - N = 1
    BY <1>1
  <2>2. QED  BY <1>1, <1>9, <2>1
<1>11. R(1) = w
  <2>1. 1 \in 1 .. N + 1 /\ N + 1 - 1 = N /\ \A k \in 1 .. N : 1 + k - 1 = k
    BY <1>1
  <2>2. R(1) \in Value /\ Len(R(1)) = N /\ \A k \in 1 .. N : R(1)[k] = w[1 + k - 1]
    BY <1>4, <2>1
  <2>3. \A k \in 1 .. N : R(1)[k] = w[k]
    BY <2>1, <2>2
  <2>4. Len(w) = N
    BY DEF N
  <2>5. QED  BY <2>2, <2>3, <2>4, SeqEqual DEF Value
<1>12. QED  BY <1>3, <1>10, <1>11

\* What string_value returns has no escape left.
LEMMA ReadOnce ==
    ASSUME NEW s \in Text, StringValue(s) # Throw
    PROVE  StringValue(StringValue(s)) = StringValue(s)
<1>1. s \in Value
  <2>1. STRING \subseteq Characters
    BY DEF Characters
  <2>2. QED  BY <2>1, SeqMonotonic DEF Text, Value
<1>2. PICK f : Pieces(s, f) /\ StringValue(s) = f[1]
  BY <1>1, StringValueIs
<1> DEFINE T == {w \in Value : Clean(w)}
<1>3. StringValue(s) \in T
  <2>1. Closes(T, Characters \ {Backslash})
    BY CleanCloses
  <2> HIDE DEF T
  <2>2. QED  BY <1>1, <1>2, <2>1, PiecesIn
<1>4. QED  BY <1>3, CleanReads

\* Every token that a step adds is read.
LEMMA TokensRead ==
    ASSUME Typed, [Next]_vars
    PROVE  tokens' = tokens \/ \E t : tokens' = Append(tokens, t) /\ Reads(t)
<1>1. CASE Match
  BY <1>1, TokenReads
<1>2. CASE DefTypedef
  BY <1>2 DEF DefTypedef
<1>3. ASSUME NEW kind \in {"COMPILE", "END", "ERROR"}, tokens' = Append(tokens, Bare(kind, pos, pos))
      PROVE  \E t : tokens' = Append(tokens, t) /\ Reads(t)
  <2> DEFINE t == Bare(kind, pos, pos)
  <2>1. t.kind = kind
    BY DEF Bare
  <2> HIDE DEF t
  <2>2. Reads(t)
    BY <2>1 DEF Reads, IsWord
  <2>3. tokens' = Append(tokens, t)
    BY <1>3 DEF t
  <2>4. QED  BY <2>2, <2>3
<1>4. QED  BY <1>1, <1>2, <1>3, StepReads

\* No literal is added whose value another reading would change.
LEMMA ReadOnceStep ==
    ASSUME Typed, Listed, ReadTwiceAsOnce, [Next]_vars
    PROVE  ReadTwiceAsOnce'
<1>1. ASSUME NEW t, tokens' = Append(tokens, t), Reads(t) PROVE ReadTwiceAsOnce'
  <2>1. Range(tokens') = Range(tokens) \cup {t}
    BY <1>1, AppendedTo DEF Listed
  <2>2. ASSUME t.kind \in {"CHARACTER", "STRING"} PROVE StringValue(t.image) = t.image
    <3>1. PICK s \in Text : t.image = StringValue(s) /\ t.image # Throw
      BY <1>1, <2>2 DEF Reads
    <3>2. QED  BY <3>1, ReadOnce
  <2>3. QED  BY <2>1, <2>2 DEF ReadTwiceAsOnce
<1>2. CASE tokens' = tokens
  BY <1>2 DEF ReadTwiceAsOnce
<1>3. QED  BY <1>1, <1>2, TokensRead

-----------------------------------------------------------------------------
\* The values of integers.

\* What the digits are worth.
LEMMA WeightsAre ==
    /\ \A c \in HexDigit : Weight[c] \in 0 .. 15
    /\ Digit \subseteq HexDigit
    /\ \A c \in Digit : Weight[c] < 10
    /\ \A c \in Digit \ {"8", "9"} : Weight[c] < 8
    /\ "0" \in Digit /\ Weight["0"] = 0
    /\ "U" \notin HexDigit /\ "L" \notin HexDigit /\ "x" \notin Digit /\ "X" \notin Digit
<1> DEFINE digits == {"0", "1", "2", "3", "4", "5", "6", "7", "8", "9"}
           lower == {"a", "b", "c", "d", "e", "f"}
           upper == {"A", "B", "C", "D", "E", "F"}
<1>1. /\ DOMAIN DecimalDigits = 1 .. 10 /\ \A i \in 1 .. 10 : DecimalDigits[i] \in digits
      /\ \A i, j \in 1 .. 10 : DecimalDigits[i] = DecimalDigits[j] => i = j
      /\ DecimalDigits[1] = "0" /\ DecimalDigits[9] = "8" /\ DecimalDigits[10] = "9"
  BY DEF DecimalDigits
<1>2. /\ DOMAIN LowerHex = 1 .. 16 /\ \A i \in 1 .. 10 : LowerHex[i] = DecimalDigits[i]
      /\ \A i \in 11 .. 16 : LowerHex[i] \in lower
  BY DEF LowerHex, DecimalDigits
<1>3. /\ DOMAIN UpperHex = 1 .. 16 /\ \A i \in 1 .. 10 : UpperHex[i] = DecimalDigits[i]
      /\ \A i \in 11 .. 16 : UpperHex[i] \in upper
  BY DEF UpperHex, DecimalDigits
<1>4. /\ \A c \in digits : c \notin lower /\ c \notin upper
      /\ "U" \notin digits \cup lower \cup upper /\ "L" \notin digits \cup lower \cup upper
      /\ "x" \notin digits /\ "X" \notin digits
  OBVIOUS
<1> HIDE DEF digits, lower, upper
<1>5. /\ Digit = {DecimalDigits[i] : i \in 1 .. 10}
      /\ HexDigit = {LowerHex[i] : i \in 1 .. 16} \cup {UpperHex[i] : i \in 1 .. 16}
  BY <1>1, <1>2, <1>3 DEF Digit, HexDigit, ToSet
<1>6. ASSUME NEW c \in HexDigit
      PROVE  /\ Weight[c] \in 0 .. 15
             /\ LowerHex[Weight[c] + 1] = c \/ UpperHex[Weight[c] + 1] = c
  <2> DEFINE P(i) == LowerHex[i] = c \/ UpperHex[i] = c
             w == CHOOSE i \in 1 .. 16 : P(i)
  <2>1. Weight[c] = w - 1
    BY DEF Weight
  <2>2. \E i \in 1 .. 16 : P(i)
    BY <1>5
  <2>3. w \in 1 .. 16 /\ P(w)
    <3> HIDE DEF P
    <3>1. QED  BY <2>2
  <2> HIDE DEF w
  <2>4. w - 1 \in 0 .. 15 /\ (w - 1) + 1 = w
    BY <2>3
  <2>5. QED  BY <2>1, <2>3, <2>4
<1>7. ASSUME NEW i \in 1 .. 10 PROVE DecimalDigits[i] \in HexDigit /\ Weight[DecimalDigits[i]] = i - 1
  <2> DEFINE c == DecimalDigits[i]
             j == Weight[c] + 1
  <2>1. c \in HexDigit /\ c \in digits
    BY <1>1, <1>2, <1>5
  <2>2. j \in 1 .. 16 /\ j = Weight[c] + 1 /\ Weight[c] \in Int /\ (LowerHex[j] = c \/ UpperHex[j] = c)
    BY <1>6, <2>1
  <2> HIDE DEF c, j
  <2>3. j \in 1 .. 10
    <3>1. SUFFICES ASSUME j \notin 1 .. 10 PROVE FALSE
      OBVIOUS
    <3>2. j \in 11 .. 16
      BY <2>2, <3>1
    <3>3. QED  BY <1>2, <1>3, <1>4, <2>1, <2>2, <3>2
  <2>4. DecimalDigits[j] = DecimalDigits[i]
    BY <1>2, <1>3, <2>2, <2>3 DEF c
  <2>5. j = i
    BY <1>1, <2>3, <2>4
  <2>6. Weight[c] = i - 1
    BY <2>2, <2>5
  <2>7. QED  BY <2>1, <2>6 DEF c
<1>8. \A c \in Digit : \E i \in 1 .. 10 : c = DecimalDigits[i]
  BY <1>5
<1>9. Digit \subseteq HexDigit /\ \A c \in Digit : Weight[c] < 10
  BY <1>7, <1>8
<1>10. ASSUME NEW c \in Digit \ {"8", "9"} PROVE Weight[c] < 8
  <2>1. PICK i \in 1 .. 10 : c = DecimalDigits[i]
    BY <1>8
  <2>2. i # 9 /\ i # 10
    BY <1>1, <2>1
  <2>3. QED  BY <1>7, <2>1, <2>2
<1>11. "0" \in Digit /\ Weight["0"] = 0
  <2>1. 1 \in 1 .. 10 /\ 1 - 1 = 0
    OBVIOUS
  <2>2. QED  BY <1>1, <1>5, <1>7, <2>1
<1>12. \A i \in 1 .. 16 : i \in 1 .. 10 \/ i \in 11 .. 16
  OBVIOUS
<1>13. HexDigit \subseteq digits \cup lower \cup upper /\ Digit \subseteq digits
  BY <1>1, <1>2, <1>3, <1>5, <1>12
<1>14. QED  BY <1>4, <1>6, <1>9, <1>10, <1>11, <1>13

\* w is a number of m digits, and a suffix.
Spells(w, m, base) ==
    /\ w \in Text /\ m \in 0 .. Len(w) /\ base \in Nat
    /\ \A i \in 1 .. m : w[i] \in HexDigit /\ Weight[w[i]] < base
    /\ \A i \in m + 1 .. Len(w) : w[i] \in {"U", "L"}

\* strtol stops at the suffix.
LEMMA LeadingIs ==
    ASSUME NEW w, NEW m, NEW base, Spells(w, m, base)
    PROVE  Leading(w, base) = m
<1> DEFINE Stops(n) == /\ \A i \in 1 .. n : w[i] \in HexDigit /\ Weight[w[i]] < base
                       /\ n < Len(w) => w[n + 1] \notin HexDigit \/ Weight[w[n + 1]] >= base
<1>1. Len(w) \in Nat /\ m \in 0 .. Len(w)
  BY DEF Spells, Text
<1>2. /\ \A i \in 1 .. m : w[i] \in HexDigit /\ Weight[w[i]] < base
      /\ \A i \in m + 1 .. Len(w) : w[i] \notin HexDigit
  BY WeightsAre DEF Spells
<1>3. Stops(m)
  <2>1. m < Len(w) => m + 1 \in m + 1 .. Len(w)
    BY <1>1
  <2>2. QED  BY <1>2, <2>1
<1>4. ASSUME NEW n \in 0 .. Len(w), Stops(n) PROVE n = m
  <2>1. CASE n > m
    <3>1. m + 1 \in 1 .. n /\ m + 1 \in m + 1 .. Len(w)
      BY <1>1, <2>1
    <3>2. QED  BY <1>2, <1>4, <3>1
  <2>2. CASE n < m
    <3>1. n + 1 \in 1 .. m /\ n < Len(w)
      BY <1>1, <2>2
    <3>2. w[n + 1] \in HexDigit /\ Weight[w[n + 1]] < base /\ Weight[w[n + 1]] \in Int /\ base \in Nat
      <4>1. w[n + 1] \in HexDigit /\ Weight[w[n + 1]] < base
        BY <1>2, <3>1
      <4>2. Weight[w[n + 1]] \in 0 .. 15
        BY <4>1, WeightsAre
      <4>3. base \in Nat
        BY DEF Spells
      <4>4. QED  BY <4>1, <4>2, <4>3
    <3>3. ~(Weight[w[n + 1]] >= base)
      BY <3>2
    <3>4. QED  BY <1>4, <3>1, <3>2, <3>3
  <2>3. QED  BY <1>1, <2>1, <2>2
<1>5. Leading(w, base) = CHOOSE n \in 0 .. Len(w) : Stops(n)
  BY DEF Leading
<1> HIDE DEF Stops
<1>6. QED  BY <1>1, <1>3, <1>4, <1>5

\* The number that digits are read as, from the first to the last.
Horner(h, w, m, base) == h[0] = 0 /\ \A i \in 1 .. m : h[i] = h[i - 1] * base + Weight[w[i]]

\* strtol reads the digits that the base has, and stops at the suffix.
LEMMA NumberIs ==
    ASSUME NEW w, NEW m, NEW base, Spells(w, m, base)
    PROVE  \E h \in [0 .. m -> Nat] : Horner(h, w, m, base) /\ Number(w, base) = h[m]
<1> DEFINE G == [p \in Nat \X (1 .. m) |-> p[1] * base + Weight[w[p[2]]]]
           Rec(f) == f = [i \in 0 .. m |-> IF i = 0 THEN 0 ELSE f[i - 1] * base + Weight[w[i]]]
<1>1. m \in Nat /\ base \in Nat
  BY DEF Spells, Text
<1>2. ASSUME NEW i \in 1 .. m PROVE Weight[w[i]] \in Nat
  <2>1. w[i] \in HexDigit
    BY DEF Spells
  <2>2. Weight[w[i]] \in 0 .. 15
    BY <2>1, WeightsAre
  <2>3. QED  BY <2>2
<1>3. ASSUME NEW a \in Nat, NEW i \in 1 .. m PROVE a * base + Weight[w[i]] \in Nat
  BY <1>1, <1>2
<1>4. G \in [Nat \X (1 .. m) -> Nat] /\ \A a \in Nat : \A i \in 1 .. m : G[<<a, i>>] = a * base + Weight[w[i]]
  BY <1>3
<1> HIDE DEF G
<1>5. PICK h \in [0 .. m -> Nat] : Computes(h, m, 0, G)
  BY <1>1, <1>4, Recursion
<1>6. ASSUME NEW i \in 1 .. m PROVE h[i] = h[i - 1] * base + Weight[w[i]]
  <2>1. i - 1 \in 0 .. m
    BY <1>1
  <2>2. QED  BY <1>4, <1>5, <2>1 DEF Computes
<1>7. \A i \in 0 .. m : h[i] = IF i = 0 THEN 0 ELSE h[i - 1] * base + Weight[w[i]]
  <2>1. \A i \in 0 .. m : i = 0 \/ i \in 1 .. m
    BY <1>1
  <2>2. QED  BY <1>5, <1>6, <2>1 DEF Computes
<1>8. Rec(h)
  BY <1>7
<1>9. Number(w, base) = (CHOOSE f : Rec(f))[m]
  BY LeadingIs DEF Number
<1> DEFINE f == CHOOSE f : Rec(f)
<1>10. Rec(f)
  <2> HIDE DEF Rec
  <2>1. QED  BY <1>8, Zenon
<1> HIDE DEF f
<1>11. f = [i \in 0 .. m |-> IF i = 0 THEN 0 ELSE f[i - 1] * base + Weight[w[i]]]
  BY <1>10
<1>12. Horner(f, w, m, base)
  <2>1. 0 \in 0 .. m /\ \A i \in 1 .. m : i \in 0 .. m /\ i # 0
    BY <1>1
  <2>2. \A i \in 0 .. m : f[i] = IF i = 0 THEN 0 ELSE f[i - 1] * base + Weight[w[i]]
    BY <1>11
  <2>3. QED  BY <2>1, <2>2 DEF Horner
<1>13. f \in [0 .. m -> Nat]
  <2> DEFINE S == {i \in Nat : i <= m => f[i] \in Nat}
  <2>1. 0 \in S
    BY <1>12 DEF Horner
  <2>2. ASSUME NEW i \in Nat, i \in S PROVE i + 1 \in S
    <3>1. SUFFICES ASSUME i + 1 <= m PROVE f[i + 1] \in Nat
      OBVIOUS
    <3>2. i + 1 \in 1 .. m /\ (i + 1) - 1 = i /\ i <= m
      BY <1>1, <3>1
    <3>3. f[i] \in Nat
      BY <2>2, <3>2
    <3>4. f[i + 1] = f[i] * base + Weight[w[i + 1]]
      BY <1>12, <3>2 DEF Horner
    <3>5. QED  BY <1>3, <3>2, <3>3, <3>4
  <2>3. \A i \in Nat : i \in S
    <3> HIDE DEF S
    <3>1. QED  BY <2>1, <2>2, Induct
  <2>4. \A i \in 0 .. m : f[i] \in Nat
    BY <1>1, <2>3
  <2>5. DOMAIN f = 0 .. m /\ f = [i \in 0 .. m |-> f[i]]
    BY <1>11
  <2>6. QED  BY <2>4, <2>5
<1>14. Number(w, base) = f[m]
  BY <1>9 DEF f
<1>15. QED  BY <1>12, <1>13, <1>14

\* The characters from the last to the first.
Positional(g, w, m, base) ==
    /\ g[0] = <<0, 1>>
    /\ \A k \in 1 .. Len(w) - m : g[k] = g[k - 1]
    /\ \A k \in (Len(w) - m) + 1 .. Len(w) :
            g[k] = <<g[k - 1][1] + Weight[w[Len(w) + 1 - k]] * g[k - 1][2], g[k - 1][2] * base>>

\* The worth of the digits is the sum of their weights by their places.
LEMMA WorthIs ==
    ASSUME NEW w, NEW m, NEW base, Spells(w, m, base)
    PROVE  \E g \in [0 .. Len(w) -> Nat \X Nat] :
               Positional(g, w, m, base) /\ Worth(w, base) = g[Len(w)][1]
<1> DEFINE N == Len(w)
           At(v, k) == IF w[N + 1 - k] \in {"U", "L"} THEN v
                       ELSE <<v[1] + Weight[w[N + 1 - k]] * v[2], v[2] * base>>
           V == Nat \X Nat
           G == [p \in V \X (1 .. N) |-> At(p[1], p[2])]
           Rec(f) == f = [k \in 0 .. N |-> IF k = 0 THEN <<0, 1>> ELSE At(f[k - 1], k)]
<1>1. N \in Nat /\ m \in 0 .. N /\ base \in Nat
  BY DEF Spells, Text
<1>2. Worth(w, base) = (CHOOSE f : Rec(f))[N][1]
  BY DEF Worth
<1>3. ASSUME NEW k \in 1 .. N - m PROVE w[N + 1 - k] \in {"U", "L"}
  <2> HIDE DEF N
  <2>1. N + 1 - k \in m + 1 .. N
    BY <1>1
  <2>2. QED  BY <2>1 DEF Spells, N
<1>4. ASSUME NEW k \in (N - m) + 1 .. N
      PROVE  Weight[w[N + 1 - k]] \in Nat /\ w[N + 1 - k] \notin {"U", "L"}
  <2> HIDE DEF N
  <2>1. N + 1 - k \in 1 .. m
    BY <1>1
  <2>2. w[N + 1 - k] \in HexDigit
    BY <2>1 DEF Spells
  <2>3. Weight[w[N + 1 - k]] \in 0 .. 15
    BY <2>2, WeightsAre
  <2>4. QED  BY <2>2, <2>3, WeightsAre
<1> HIDE DEF N
<1>5. ASSUME NEW v \in V, NEW k \in 1 .. N PROVE At(v, k) \in V
  <2>1. CASE k \in 1 .. N - m
    BY <1>3, <2>1
  <2>2. CASE k \in (N - m) + 1 .. N
    <3>1. v[1] \in Nat /\ v[2] \in Nat /\ Weight[w[N + 1 - k]] \in Nat /\ base \in Nat
      BY <1>1, <1>4, <2>2
    <3>2. At(v, k) = <<v[1] + Weight[w[N + 1 - k]] * v[2], v[2] * base>>
      BY <1>4, <2>2
    <3> HIDE DEF At
    <3>3. \A a, b, c, d \in Nat : <<a + c * b, b * d>> \in V
      OBVIOUS
    <3>4. QED  BY <3>1, <3>2, <3>3
  <2>3. QED  BY <1>1, <2>1, <2>2
<1> HIDE DEF At
<1>6. G \in [V \X (1 .. N) -> V] /\ \A v \in V : \A k \in 1 .. N : G[<<v, k>>] = At(v, k)
  BY <1>5
<1> HIDE DEF G
<1>7. << 0, 1 >> \in V
  OBVIOUS
<1> HIDE DEF V
<1> DEFINE o == << 0, 1 >>
<1>8. o \in V
  BY <1>7
<1> HIDE DEF o
<1>9. PICK h \in [0 .. N -> V] : Computes(h, N, o, G)
  BY <1>1, <1>6, <1>8, Recursion
<1>10. \A k \in 0 .. N : h[k] = IF k = 0 THEN o ELSE At(h[k - 1], k)
  <2>1. \A k \in 0 .. N : k = 0 \/ (k \in 1 .. N /\ k - 1 \in 0 .. N)
    BY <1>1
  <2>2. QED  BY <1>6, <1>9, <2>1 DEF Computes
<1>11. Rec(h)
  BY <1>10 DEF o
<1> DEFINE g == CHOOSE f : Rec(f)
<1>12. Rec(g)
  <2> HIDE DEF Rec
  <2>1. QED  BY <1>11, Zenon
<1> HIDE DEF g
<1>13. /\ g = [k \in 0 .. N |-> g[k]]
       /\ \A k \in 0 .. N : g[k] = IF k = 0 THEN o ELSE At(g[k - 1], k)
  BY <1>12 DEF o
<1>14. \A k \in 0 .. N : g[k] \in V
  <2> DEFINE S == {k \in Nat : k <= N => g[k] \in V}
  <2>1. 0 \in S
    <3>1. 0 \in 0 .. N
      BY <1>1
    <3>2. QED  BY <1>8, <1>13, <3>1
  <2>2. ASSUME NEW k \in Nat, k \in S PROVE k + 1 \in S
    <3>1. SUFFICES ASSUME k + 1 <= N PROVE g[k + 1] \in V
      OBVIOUS
    <3>2. k + 1 \in 0 .. N /\ k + 1 \in 1 .. N /\ k + 1 # 0 /\ (k + 1) - 1 = k /\ k <= N
      BY <1>1, <3>1
    <3>3. g[k + 1] = At(g[k], k + 1) /\ g[k] \in V
      BY <1>13, <2>2, <3>2
    <3>4. QED  BY <1>5, <3>2, <3>3
  <2>3. \A k \in Nat : k \in S
    <3> HIDE DEF S
    <3>1. QED  BY <2>1, <2>2, Induct
  <2>4. QED  BY <1>1, <2>3
<1>15. g \in [0 .. N -> V]
  BY <1>13, <1>14
<1>16. Positional(g, w, m, base)
  <2>1. g[0] = << 0, 1 >>
    <3>1. 0 \in 0 .. N
      BY <1>1
    <3>2. QED  BY <1>13, <3>1 DEF o
  <2>2. ASSUME NEW k \in 1 .. N - m PROVE g[k] = g[k - 1]
    <3>1. k \in 0 .. N /\ k # 0
      BY <1>1
    <3>2. QED  BY <1>3, <1>13, <3>1 DEF At
  <2>3. ASSUME NEW k \in (N - m) + 1 .. N
        PROVE  g[k] = <<g[k - 1][1] + Weight[w[N + 1 - k]] * g[k - 1][2], g[k - 1][2] * base>>
    <3>1. k \in 0 .. N /\ k # 0
      BY <1>1
    <3>2. g[k] = At(g[k - 1], k)
      BY <1>13, <3>1
    <3>3. QED  BY <1>4, <3>2 DEF At
  <2>4. QED  BY <2>1, <2>2, <2>3 DEF Positional, N
<1>17. Worth(w, base) = g[N][1]
  BY <1>2 DEF g
<1>18. QED  BY <1>15, <1>16, <1>17 DEF N, V

\* Read from the last character to the first, digits come to the same number.
LEMMA SameNumber ==
    ASSUME NEW w, NEW m, NEW base, Spells(w, m, base)
    PROVE  Worth(w, base) = Number(w, base) /\ Number(w, base) \in Nat
<1> DEFINE N == Len(w)
<1>1. N \in Nat /\ m \in 0 .. N /\ base \in Nat /\ N - m \in 0 .. N
  BY DEF Spells, Text
<1>2. PICK h \in [0 .. m -> Nat] : Horner(h, w, m, base) /\ Number(w, base) = h[m]
  BY NumberIs
<1>3. PICK g \in [0 .. Len(w) -> Nat \X Nat] :
          Positional(g, w, m, base) /\ Worth(w, base) = g[Len(w)][1]
  BY WorthIs
<1>4. /\ g[0] = << 0, 1 >>
      /\ \A k \in 1 .. N - m : g[k] = g[k - 1]
      /\ \A k \in (N - m) + 1 .. N :
              g[k] = <<g[k - 1][1] + Weight[w[N + 1 - k]] * g[k - 1][2], g[k - 1][2] * base>>
      /\ \A k \in 0 .. N : g[k] \in Nat \X Nat
  BY <1>3 DEF Positional
<1> HIDE DEF N
<1>5. \A k \in 0 .. N - m : g[k] = << 0, 1 >>
  <2> DEFINE S == {k \in Nat : k <= N - m => g[k] = << 0, 1 >>}
  <2>1. 0 \in S
    BY <1>4
  <2>2. ASSUME NEW k \in Nat, k \in S PROVE k + 1 \in S
    <3>1. SUFFICES ASSUME k + 1 <= N - m PROVE g[k + 1] = << 0, 1 >>
      OBVIOUS
    <3>2. k + 1 \in 1 .. N - m /\ (k + 1) - 1 = k /\ k <= N - m
      BY <1>1, <3>1
    <3>3. QED  BY <1>4, <2>2, <3>2
  <2>3. \A k \in Nat : k \in S
    <3> HIDE DEF S
    <3>1. QED  BY <2>1, <2>2, Induct
  <2>4. QED  BY <1>1, <2>3
<1>6. ASSUME NEW a \in Nat, NEW b \in Nat, NEW p \in Nat, NEW v \in Nat, NEW x \in Nat
      PROVE  (a * b + x) * p + v = a * (p * b) + (v + x * p)
  OBVIOUS
<1> DEFINE S == {j \in Nat : j <= m => h[m - j] * g[(N - m) + j][2] + g[(N - m) + j][1] = h[m]}
<1>7. 0 \in S
  <2>1. m - 0 = m /\ (N - m) + 0 = N - m /\ N - m \in 0 .. N - m /\ m \in 0 .. m
    BY <1>1
  <2>2. g[(N - m) + 0] = << 0, 1 >> /\ h[m] \in Nat /\ h[m - 0] = h[m]
    BY <1>5, <2>1
  <2>3. h[m - 0] * g[(N - m) + 0][2] + g[(N - m) + 0][1] = h[m]
    <3>1. g[(N - m) + 0][2] = 1 /\ g[(N - m) + 0][1] = 0
      BY <2>2
    <3>2. QED  BY <2>2, <3>1
  <2>4. QED  BY <2>3
<1>8. ASSUME NEW j \in Nat, j \in S PROVE j + 1 \in S
  <2> DEFINE k == (N - m) + j
             i == m - j
  <2>1. SUFFICES ASSUME j + 1 <= m PROVE h[m - (j + 1)] * g[(N - m) + (j + 1)][2] + g[(N - m) + (j + 1)][1] = h[m]
    OBVIOUS
  <2>2. /\ k \in 0 .. N /\ k + 1 \in (N - m) + 1 .. N /\ k + 1 = (N - m) + (j + 1) /\ (k + 1) - 1 = k
        /\ i \in 1 .. m /\ i - 1 \in 0 .. m /\ i - 1 = m - (j + 1) /\ N + 1 - (k + 1) = i /\ j <= m
    BY <1>1, <2>1
  <2>3. h[i] * g[k][2] + g[k][1] = h[m]
    BY <1>8, <2>2
  <2> HIDE DEF k, i
  <2>4. g[k + 1] = <<g[k][1] + Weight[w[i]] * g[k][2], g[k][2] * base>>
    BY <1>4, <2>2
  <2>5. h[i] = h[i - 1] * base + Weight[w[i]]
    BY <1>2, <2>2 DEF Horner
  <2>6. h[i - 1] \in Nat /\ g[k][1] \in Nat /\ g[k][2] \in Nat /\ Weight[w[i]] \in Nat
    <3>1. w[i] \in HexDigit
      BY <2>2 DEF Spells
    <3>2. Weight[w[i]] \in 0 .. 15
      BY <3>1, WeightsAre
    <3>3. g[k] \in Nat \X Nat
      BY <1>4, <2>2
    <3>4. g[k][1] \in Nat /\ g[k][2] \in Nat
      BY <3>3
    <3>5. h[i - 1] \in Nat
      BY <2>2
    <3>6. Weight[w[i]] \in Nat
      BY <3>2
    <3>7. QED  BY <3>4, <3>5, <3>6
  <2>7. (h[i - 1] * base + Weight[w[i]]) * g[k][2] + g[k][1]
            = h[i - 1] * (g[k][2] * base) + (g[k][1] + Weight[w[i]] * g[k][2])
    <3> DEFINE a == h[i - 1]
               p == g[k][2]
               v == g[k][1]
               x == Weight[w[i]]
    <3>1. a \in Nat /\ p \in Nat /\ v \in Nat /\ x \in Nat /\ base \in Nat
      BY <1>1, <2>6
    <3> HIDE DEF a, p, v, x
    <3>2. (a * base + x) * p + v = a * (p * base) + (v + x * p)
      BY <1>6, <3>1
    <3>3. QED  BY <3>2 DEF a, p, v, x
  <2>8. g[k + 1][2] = g[k][2] * base /\ g[k + 1][1] = g[k][1] + Weight[w[i]] * g[k][2]
    BY <2>4
  <2>9. h[i - 1] * g[k + 1][2] + g[k + 1][1] = h[m]
    BY <2>3, <2>5, <2>7, <2>8
  <2>10. QED  BY <2>2, <2>9
<1>9. \A j \in Nat : j \in S
  <2> HIDE DEF S
  <2>1. QED  BY <1>7, <1>8, Induct
<1>10. m - m = 0 /\ (N - m) + m = N /\ m \in Nat /\ N \in 0 .. N
  BY <1>1
<1>11. h[0] * g[N][2] + g[N][1] = h[m]
  BY <1>9, <1>10
<1>12. h[0] = 0 /\ g[N] \in Nat \X Nat /\ h[m] \in Nat
  BY <1>1, <1>2, <1>4, <1>10 DEF Horner
<1>13. g[N][1] \in Nat /\ g[N][2] \in Nat
  BY <1>12
<1>14. g[N][1] = h[m]
  BY <1>11, <1>12, <1>13
<1>15. QED  BY <1>2, <1>3, <1>12, <1>14 DEF N

\* A zero before the digits does not count.
LEMMA TailSame ==
    ASSUME NEW w, NEW m, NEW base, Spells(w, m, base), m >= 1, w[1] = "0"
    PROVE  Spells(Tail(w), m - 1, base) /\ Number(Tail(w), base) = Number(w, base)
<1> DEFINE t == Tail(w)
           N == Len(w)
<1>1. N \in Nat /\ m \in 1 .. N /\ base \in Nat /\ w \in Text
  BY DEF Spells, Text
<1>2. t \in Text /\ Len(t) = N - 1 /\ \A i \in 1 .. N - 1 : t[i] = w[i + 1]
  <2>1. w # <<>>
    BY <1>1, EmptySeq DEF Text
  <2>2. QED  BY <1>1, <2>1, HeadTailProperties DEF Text
<1> HIDE DEF t, N
<1>3. Spells(t, m - 1, base)
  <2>1. m - 1 \in 0 .. N - 1
    BY <1>1
  <2>2. ASSUME NEW i \in 1 .. m - 1 PROVE t[i] \in HexDigit /\ Weight[t[i]] < base
    <3>1. i + 1 \in 1 .. m /\ i \in 1 .. N - 1
      BY <1>1
    <3>2. t[i] = w[i + 1]
      BY <1>2, <3>1
    <3>3. QED  BY <3>1, <3>2 DEF Spells
  <2>3. ASSUME NEW i \in (m - 1) + 1 .. N - 1 PROVE t[i] \in {"U", "L"}
    <3>1. i + 1 \in m + 1 .. N /\ i \in 1 .. N - 1
      BY <1>1
    <3>2. t[i] = w[i + 1]
      BY <1>2, <3>1
    <3>3. QED  BY <3>1, <3>2 DEF Spells, N
  <2>4. QED  BY <1>1, <1>2, <2>1, <2>2, <2>3 DEF Spells
<1>4. PICK h \in [0 .. m -> Nat] : Horner(h, w, m, base) /\ Number(w, base) = h[m]
  BY NumberIs
<1>5. PICK f \in [0 .. m - 1 -> Nat] : Horner(f, t, m - 1, base) /\ Number(t, base) = f[m - 1]
  BY <1>3, NumberIs
<1> DEFINE S == {i \in Nat : i <= m - 1 => f[i] = h[i + 1]}
<1>6. 0 \in S
  <2>1. 1 \in 1 .. m /\ 1 - 1 = 0 /\ 0 + 1 = 1
    BY <1>1
  <2>2. h[1] = h[0] * base + Weight[w[1]]
    BY <1>4, <2>1 DEF Horner
  <2>3. h[0] = 0 /\ f[0] = 0 /\ Weight[w[1]] = 0
    BY <1>4, <1>5, WeightsAre DEF Horner
  <2>4. h[1] = 0
    BY <1>1, <2>2, <2>3
  <2>5. QED  BY <2>3, <2>4
<1>7. ASSUME NEW i \in Nat, i \in S PROVE i + 1 \in S
  <2>1. SUFFICES ASSUME i + 1 <= m - 1 PROVE f[i + 1] = h[(i + 1) + 1]
    OBVIOUS
  <2>2. /\ i + 1 \in 1 .. m - 1 /\ (i + 1) + 1 \in 1 .. m /\ i <= m - 1
        /\ ((i + 1) + 1) - 1 = i + 1 /\ (i + 1) - 1 = i /\ i + 1 \in 1 .. N - 1
    BY <1>1, <2>1
  <2>3. f[i] = h[i + 1]
    BY <1>7, <2>2
  <2>4. f[i + 1] = f[i] * base + Weight[t[i + 1]]
    BY <1>5, <2>2 DEF Horner
  <2>5. h[(i + 1) + 1] = h[i + 1] * base + Weight[w[(i + 1) + 1]]
    BY <1>4, <2>2 DEF Horner
  <2>6. t[i + 1] = w[(i + 1) + 1]
    BY <1>2, <2>2
  <2>7. QED  BY <2>3, <2>4, <2>5, <2>6
<1>8. \A i \in Nat : i \in S
  <2> HIDE DEF S
  <2>1. QED  BY <1>6, <1>7, Induct
<1>9. m - 1 \in Nat /\ (m - 1) + 1 = m
  BY <1>1
<1>10. f[m - 1] = h[m]
  BY <1>8, <1>9
<1>11. QED  BY <1>3, <1>4, <1>5, <1>10 DEF t

Suffixed(s, n) ==
    \/ Len(s) = n
    \/ Len(s) = n + 1 /\ s[n + 1] \in {"U", "L"}
    \/ Len(s) = n + 2 /\ s[n + 1] = "U" /\ s[n + 2] = "L"

\* The three alternatives of an integer, character by character.
Decimal(s, n) == s[1] # "0" /\ \A i \in 1 .. n : s[i] \in Digit
Prefixed(s, n) == /\ n > 2 /\ s[1] = "0" /\ s[2] \in {"x", "X"}
                  /\ \A i \in 3 .. n : s[i] \in HexDigit
Octal(s, n) == s[1] = "0" /\ \A i \in 1 .. n : s[i] \in Digit \ {"8", "9"}

\* What the rule of integers matches is decimal, hexadecimal or octal digits and a suffix.
LEMMA IntegerForms ==
    ASSUME NEW s \in Text, Integer(s)
    PROVE  \E n \in 1 .. Len(s) : Suffixed(s, n) /\ (Decimal(s, n) \/ Prefixed(s, n) \/ Octal(s, n))
<1> DEFINE N == Len(s)
<1>1. N \in Nat
  BY DEF Text
<1>2. PICK n \in 1 .. N :
          /\ From(s, n + 1) \in {<<>>, <<"U">>, <<"L">>, <<"U", "L">>}
          /\ \/ SubSeq(s, 1, n)[1] # "0" /\ All(SubSeq(s, 1, n), Digit)
             \/ /\ n > 2 /\ SubSeq(s, 1, n)[1] = "0" /\ SubSeq(s, 1, n)[2] \in {"x", "X"}
                /\ All(From(SubSeq(s, 1, n), 3), HexDigit)
             \/ SubSeq(s, 1, n)[1] = "0" /\ All(SubSeq(s, 1, n), Digit \ {"8", "9"})
  BY DEF Integer
<1> DEFINE b == SubSeq(s, 1, n)
           u == SubSeq(s, n + 1, N)
<1>3. b \in Text /\ Len(b) = n /\ \A i \in 1 .. n : b[i] = s[i]
  <2>1. 1 \in 1 .. Len(s) + 1 /\ n \in 1 - 1 .. Len(s) /\ n - 1 + 1 = n /\ \A i \in 1 .. n : 1 + i - 1 = i
    BY <1>1
  <2> HIDE DEF N
  <2>2. QED  BY <2>1, PartIs
<1>4. u \in Text /\ Len(u) = N - n /\ \A i \in 1 .. N - n : u[i] = s[n + i]
  <2>1. /\ n + 1 \in 1 .. Len(s) + 1 /\ N \in (n + 1) - 1 .. Len(s) /\ N - (n + 1) + 1 = N - n
        /\ \A i \in 1 .. N - n : (n + 1) + i - 1 = n + i
    BY <1>1
  <2> HIDE DEF N
  <2>2. QED  BY <2>1, PartIs
<1> HIDE DEF b, u
<1>5. u \in {<<>>, <<"U">>, <<"L">>, <<"U", "L">>}
  BY <1>2 DEF u, From
<1>6. \/ b[1] # "0" /\ All(b, Digit)
      \/ n > 2 /\ b[1] = "0" /\ b[2] \in {"x", "X"} /\ All(From(b, 3), HexDigit)
      \/ b[1] = "0" /\ All(b, Digit \ {"8", "9"})
  BY <1>2 DEF b
<1> HIDE DEF N
<1>7. n \in Nat /\ n >= 1 /\ n <= N
  BY <1>1
<1>8. Suffixed(s, n)
  <2>1. CASE u = <<>>
    <3>1. N - n = 0
      BY <1>4, <2>1
    <3>2. N = n
      BY <1>1, <1>7, <3>1
    <3>3. QED  BY <3>2 DEF Suffixed, N
  <2>2. ASSUME NEW c \in {"U", "L"}, u = <<c>> PROVE Suffixed(s, n)
    <3>1. Len(u) = 1 /\ u[1] = c
      BY <2>2
    <3>2. N - n = 1 /\ 1 \in 1 .. 1
      <4>1. Len(u) = N - n
        BY <1>4
      <4>2. N - n = 1
        BY <3>1, <4>1
      <4>3. QED  BY <4>2
    <3>3. s[n + 1] = c
      BY <1>4, <3>1, <3>2
    <3>4. N = n + 1
      BY <1>1, <1>7, <3>2
    <3>5. QED  BY <3>3, <3>4 DEF Suffixed, N
  <2>3. CASE u = <<"U", "L">>
    <3>1. Len(u) = 2 /\ u[1] = "U" /\ u[2] = "L"
      BY <2>3
    <3>2. N - n = 2 /\ 1 \in 1 .. 2 /\ 2 \in 1 .. 2
      <4>1. Len(u) = N - n
        BY <1>4
      <4>2. N - n = 2
        BY <3>1, <4>1
      <4>3. QED  BY <4>2
    <3>3. s[n + 1] = "U" /\ s[n + 2] = "L"
      BY <1>4, <3>1, <3>2
    <3>4. N = n + 2
      BY <1>1, <1>7, <3>2
    <3>5. QED  BY <3>3, <3>4 DEF Suffixed, N
  <2>4. QED  BY <1>5, <2>1, <2>2, <2>3
<1>9. DOMAIN b = 1 .. n
  BY <1>3, LenProperties DEF Text
<1>10. 1 \in 1 .. n /\ (n > 2 => 2 \in 1 .. n)
  BY <1>7
<1>11. CASE b[1] # "0" /\ All(b, Digit)
  BY <1>3, <1>8, <1>9, <1>10, <1>11 DEF Decimal, All, N
<1>12. CASE b[1] = "0" /\ All(b, Digit \ {"8", "9"})
  BY <1>3, <1>8, <1>9, <1>10, <1>12 DEF Octal, All, N
<1>13. CASE n > 2 /\ b[1] = "0" /\ b[2] \in {"x", "X"} /\ All(From(b, 3), HexDigit)
  <2> DEFINE d == SubSeq(b, 3, n)
  <2>1. d \in Text /\ Len(d) = n - 2 /\ \A i \in 1 .. n - 2 : d[i] = b[i + 2]
    <3>1. /\ 3 \in 1 .. Len(b) + 1 /\ n \in 3 - 1 .. Len(b) /\ n - 3 + 1 = n - 2
          /\ \A i \in 1 .. n - 2 : 3 + i - 1 = i + 2
      BY <1>3, <1>7, <1>13
    <3>2. QED  BY <1>3, <3>1, PartIs
  <2>2. All(d, HexDigit)
    BY <1>3, <1>13 DEF From
  <2> HIDE DEF d
  <2>3. DOMAIN d = 1 .. n - 2
    BY <2>1, LenProperties DEF Text
  <2>4. ASSUME NEW i \in 3 .. n PROVE s[i] \in HexDigit
    <3>1. i - 2 \in 1 .. n - 2 /\ (i - 2) + 2 = i /\ i \in 1 .. n
      BY <1>7
    <3>2. d[i - 2] \in HexDigit
      BY <2>2, <2>3, <3>1 DEF All
    <3>3. QED  BY <1>3, <2>1, <3>1, <3>2
  <2>5. Prefixed(s, n)
    BY <1>3, <1>10, <1>13, <2>4 DEF Prefixed
  <2>6. QED  BY <1>8, <2>5 DEF N
<1>14. QED  BY <1>6, <1>11, <1>12, <1>13

\* After the digits come only the letters of a suffix.
LEMMA SuffixIs ==
    ASSUME NEW s \in Text, NEW n \in 1 .. Len(s), Suffixed(s, n)
    PROVE  \A i \in n + 1 .. Len(s) : s[i] \in {"U", "L"}
<1>1. ASSUME NEW i \in n + 1 .. Len(s) PROVE s[i] \in {"U", "L"}
  <2>1. CASE Len(s) = n
    BY <2>1
  <2>2. CASE Len(s) = n + 1 /\ s[n + 1] \in {"U", "L"}
    <3>1. i = n + 1
      BY <2>2
    <3>2. QED  BY <2>2, <3>1
  <2>3. CASE Len(s) = n + 2 /\ s[n + 1] = "U" /\ s[n + 2] = "L"
    <3>1. i = n + 1 \/ i = n + 2
      BY <2>3
    <3>2. QED  BY <2>3, <3>1
  <2>4. QED  BY <2>1, <2>2, <2>3 DEF Suffixed
<1>2. QED  BY <1>1

\* A decimal literal is read in base 10 by all, whatever integer_value and stol do with
\* others.
LEMMA DecimalIs ==
    ASSUME NEW s \in Text, NEW n \in 1 .. Len(s), Suffixed(s, n), Decimal(s, n)
    PROVE  /\ IntegerValue(s) = Strtol(s, 10)
           /\ Number(s, 10) = Meaning(s) /\ Meaning(s) \in Nat
<1>1. Spells(s, n, 10)
  <2>1. n \in 0 .. Len(s)
    OBVIOUS
  <2>2. \A i \in 1 .. n : s[i] \in HexDigit /\ Weight[s[i]] < 10
    BY WeightsAre DEF Decimal
  <2>3. QED  BY <2>1, <2>2, SuffixIs DEF Spells
<1>2. Worth(s, 10) = Number(s, 10) /\ Number(s, 10) \in Nat
  BY <1>1, SameNumber
<1>3. s[1] # "0"
  BY DEF Decimal
<1>4. QED  BY <1>2, <1>3 DEF Meaning, Hexadecimal, IntegerValue

\* Hexadecimal digits are read after their prefix.
LEMMA PrefixedIs ==
    ASSUME NEW s \in Text, NEW n \in 1 .. Len(s), Suffixed(s, n), Prefixed(s, n)
    PROVE  IntegerValue(s) = Strtol(From(s, 3), 16) /\ Number(From(s, 3), 16) = Meaning(s) /\ Meaning(s) \in Nat
<1> DEFINE N == Len(s)
           w == SubSeq(s, 3, N)
<1>1. N \in Nat /\ n > 2 /\ n <= N
  BY DEF Text, Prefixed
<1>2. w \in Text /\ Len(w) = N - 2 /\ \A i \in 1 .. N - 2 : w[i] = s[i + 2]
  <2>1. /\ 3 \in 1 .. Len(s) + 1 /\ N \in 3 - 1 .. Len(s) /\ N - 3 + 1 = N - 2
        /\ \A i \in 1 .. N - 2 : 3 + i - 1 = i + 2
    BY <1>1
  <2> HIDE DEF N
  <2>2. QED  BY <2>1, PartIs
<1>3. From(s, 3) = w
  BY DEF From
<1> HIDE DEF w, N
<1>4. Spells(w, n - 2, 16)
  <2>1. n - 2 \in 0 .. N - 2
    BY <1>1
  <2>2. ASSUME NEW i \in 1 .. n - 2 PROVE w[i] \in HexDigit /\ Weight[w[i]] < 16
    <3>1. i + 2 \in 3 .. n /\ i \in 1 .. N - 2
      BY <1>1
    <3>2. w[i] \in HexDigit
      BY <1>2, <3>1 DEF Prefixed
    <3>3. Weight[w[i]] \in 0 .. 15
      BY <3>2, WeightsAre
    <3>4. QED  BY <3>2, <3>3
  <2>3. ASSUME NEW i \in (n - 2) + 1 .. N - 2 PROVE w[i] \in {"U", "L"}
    <3>1. i + 2 \in n + 1 .. N /\ i \in 1 .. N - 2
      BY <1>1
    <3>2. QED  BY <1>2, <3>1, SuffixIs DEF N
  <2>4. QED  BY <1>2, <2>1, <2>2, <2>3 DEF Spells
<1>5. Worth(w, 16) = Number(w, 16) /\ Number(w, 16) \in Nat
  BY <1>4, SameNumber
<1>6. Len(s) >= 2 /\ s[1] = "0" /\ s[2] \in {"x", "X"}
  BY <1>1 DEF Prefixed, N
<1>7. QED  BY <1>3, <1>5, <1>6 DEF Meaning, Hexadecimal, IntegerValue

\* Octal digits are read after the 0, if any follow, and a lone 0 is read as it is.
LEMMA OctalIs ==
    ASSUME NEW s \in Text, NEW n \in 1 .. Len(s), Suffixed(s, n), Octal(s, n)
    PROVE  /\ \/ IntegerValue(s) = Strtol(Tail(s), 8) /\ Number(Tail(s), 8) = Meaning(s)
              \/ IntegerValue(s) = Strtol(s, 10) /\ Number(s, 10) = Meaning(s)
           /\ Meaning(s) \in Nat
<1>1. Len(s) \in Nat /\ n \in 0 .. Len(s) /\ n >= 1 /\ s[1] = "0"
  BY DEF Text, Octal
<1>2. \A i \in 1 .. n : s[i] \in Digit /\ s[i] \in HexDigit /\ Weight[s[i]] < 8
  BY WeightsAre DEF Octal
<1>3. Spells(s, n, 8)
  BY <1>1, <1>2, SuffixIs DEF Spells
<1>4. ~Hexadecimal(s)
  <2>1. SUFFICES ASSUME Len(s) >= 2, s[2] \in {"x", "X"} PROVE FALSE
    BY DEF Hexadecimal
  <2>2. 2 \in 1 .. n \/ 2 \in n + 1 .. Len(s)
    BY <1>1, <2>1
  <2>3. CASE 2 \in 1 .. n
    BY <1>2, <2>1, <2>3, WeightsAre
  <2>4. CASE 2 \in n + 1 .. Len(s)
    <3>1. s[2] \in {"U", "L"}
      BY <2>4, SuffixIs
    <3>2. QED  BY <2>1, <3>1
  <2>5. QED  BY <2>2, <2>3, <2>4
<1>5. Meaning(s) = Number(s, 8) /\ Number(s, 8) \in Nat
  BY <1>1, <1>3, <1>4, SameNumber DEF Meaning
<1>6. CASE Len(s) >= 2
  <2>1. IntegerValue(s) = Strtol(Tail(s), 8)
    BY <1>1, <1>4, <1>6 DEF IntegerValue, Hexadecimal
  <2>2. Number(Tail(s), 8) = Number(s, 8)
    BY <1>1, <1>3, TailSame
  <2>3. QED  BY <1>5, <2>1, <2>2
<1>7. CASE Len(s) = 1
  <2>1. n = 1 /\ 1 \in 1 .. n /\ 1 \in 1 .. 1 /\ 1 - 1 = 0 /\ 10 \in Nat /\ 8 \in Nat
    BY <1>1, <1>7
  <2>2. IntegerValue(s) = Strtol(s, 10)
    BY <1>7 DEF IntegerValue
  <2>3. ASSUME NEW base, Spells(s, 1, base) PROVE Number(s, base) = 0
    <3>1. PICK h \in [0 .. 1 -> Nat] : Horner(h, s, 1, base) /\ Number(s, base) = h[1]
      BY <2>3, NumberIs
    <3>2. h[1] = h[1 - 1] * base + Weight[s[1]] /\ h[0] = 0
      BY <2>1, <3>1 DEF Horner
    <3>3. Weight[s[1]] = 0
      BY <1>1, WeightsAre
    <3>4. base \in Nat
      BY <2>3 DEF Spells
    <3>5. h[1] = 0
      BY <2>1, <3>2, <3>3, <3>4
    <3>6. QED  BY <3>1, <3>5
  <2>4. Spells(s, 1, 10)
    <3>1. \A i \in 1 .. 1 : s[i] \in HexDigit /\ Weight[s[i]] < 10
      BY <1>2, <2>1, WeightsAre
    <3>2. QED  BY <1>3, <2>1, <3>1 DEF Spells
  <2>5. Spells(s, 1, 8)
    BY <1>3, <2>1
  <2>6. Number(s, 10) = 0 /\ Number(s, 8) = 0
    BY <2>3, <2>4, <2>5
  <2>7. QED  BY <1>5, <2>2, <2>6
<1>8. QED  BY <1>1, <1>6, <1>7

\* integer_value returns what the literal means, or the largest long.
LEMMA LengthIs ==
    ASSUME NEW s \in Text, Integer(s)
    PROVE  IntegerValue(s) = Min({Meaning(s), LongMax})
<1>1. PICK n \in 1 .. Len(s) : Suffixed(s, n) /\ (Decimal(s, n) \/ Prefixed(s, n) \/ Octal(s, n))
  BY IntegerForms
<1>2. PICK w, base : IntegerValue(s) = Strtol(w, base) /\ Number(w, base) = Meaning(s) /\ Meaning(s) \in Nat
  BY <1>1, DecimalIs, PrefixedIs, OctalIs
<1> DEFINE a == Meaning(s)
           x == IF a > LongMax THEN LongMax ELSE a
<1>3. IntegerValue(s) = x /\ a \in Nat
  BY <1>2 DEF Strtol
<1> HIDE DEF a
<1>4. LongMax \in Nat
  BY LongAssumption
<1>5. x \in {a, LongMax} /\ \A y \in {a, LongMax} : x =< y
  BY <1>3, <1>4
<1>6. ASSUME NEW z \in {a, LongMax}, \A y \in {a, LongMax} : z =< y PROVE z = x
  BY <1>3, <1>4, <1>6
<1>7. Min({a, LongMax}) = x
  <2> HIDE DEF x
  <2>1. QED  BY <1>5, <1>6 DEF Min
<1>8. QED  BY <1>3, <1>7 DEF a

\* A suffix is compared from the end.
LEMMA SuffixOf ==
    ASSUME NEW T, NEW t \in Seq(T), NEW s \in Seq(T)
    PROVE  IsSuffix(t, s) <=> /\ Len(t) <= Len(s)
                              /\ \A j \in 1 .. Len(t) : t[Len(t) - j + 1] = s[Len(s) - j + 1]
<1> DEFINE m == Len(t)
           n == Len(s)
           a == Reverse(t)
           b == Reverse(s)
<1>1. m \in Nat /\ n \in Nat
  BY LenProperties
<1>2. a \in Seq(T) /\ Len(a) = m /\ \A j \in 1 .. m : a[j] = t[m - j + 1]
  <2>1. \A j \in 1 .. m : m - j + 1 \in 1 .. m /\ t[m - j + 1] \in T
    <3>1. \A j \in 1 .. m : m - j + 1 \in 1 .. m
      BY <1>1
    <3>2. QED  BY <3>1, ElementOfSeq
  <2>2. a = [j \in 1 .. m |-> t[(m - j) + 1]]
    BY DEF Reverse
  <2> HIDE DEF a, m
  <2>3. QED  BY <1>1, <2>1, <2>2
<1>3. b \in Seq(T) /\ Len(b) = n /\ \A j \in 1 .. n : b[j] = s[n - j + 1]
  <2>1. \A j \in 1 .. n : n - j + 1 \in 1 .. n /\ s[n - j + 1] \in T
    <3>1. \A j \in 1 .. n : n - j + 1 \in 1 .. n
      BY <1>1
    <3>2. QED  BY <3>1, ElementOfSeq
  <2>2. b = [j \in 1 .. n |-> s[(n - j) + 1]]
    BY DEF Reverse
  <2> HIDE DEF b, n
  <2>3. QED  BY <1>1, <2>1, <2>2
<1>4. IsSuffix(t, s) <=> IsPrefix(a, b)
  BY DEF IsSuffix
<1> HIDE DEF a, b, m, n
<1>5. CASE m <= n
  <2>1. IsPrefix(a, b) <=> \A j \in 1 .. Len(a) : a[j] = b[j]
    <3>1. Len(a) <= Len(b)
      BY <1>2, <1>3, <1>5
    <3>2. a \in Seq(T) /\ b \in Seq(T)
      BY <1>2, <1>3
    <3>3. QED  BY <3>1, <3>2, PrefixIs
  <2>2. \A j \in 1 .. m : j \in 1 .. n
    BY <1>1, <1>5
  <2>3. (\A j \in 1 .. m : a[j] = b[j]) <=> \A j \in 1 .. m : t[m - j + 1] = s[n - j + 1]
    BY <1>2, <1>3, <2>2
  <2>4. QED  BY <1>2, <1>4, <1>5, <2>1, <2>3 DEF m, n
<1>6. CASE ~(m <= n)
  <2>1. ~(Len(a) <= Len(b))
    BY <1>2, <1>3, <1>6
  <2>2. ~IsPrefix(a, b)
    BY <2>1 DEF IsPrefix
  <2>3. QED  BY <1>4, <1>6, <2>2 DEF m, n
<1>7. QED  BY <1>5, <1>6

\* The suffixes of one and of two letters, by the last characters of the image.
LEMMA SuffixesAre ==
    ASSUME NEW s \in Text, Len(s) >= 1
    PROVE  /\ \A c \in {"U", "L"} : IsSuffix(<<c>>, s) <=> s[Len(s)] = c
           /\ IsSuffix(<<"U", "L">>, s) <=> Len(s) >= 2 /\ s[Len(s)] = "L" /\ s[Len(s) - 1] = "U"
<1> DEFINE T == STRING \cup {"U", "L"}
           n == Len(s)
<1>1. STRING \subseteq T /\ "U" \in T /\ "L" \in T
  OBVIOUS
<1> HIDE DEF T
<1>2. s \in Seq(T) /\ n \in Nat
  <2>1. s \in Seq(STRING)
    BY DEF Text
  <2>2. s \in Seq(T)
    BY <1>1, <2>1, SeqMonotonic
  <2>3. QED  BY <2>2, LenProperties
<1>3. ASSUME NEW c \in {"U", "L"} PROVE IsSuffix(<<c>>, s) <=> s[n] = c
  <2> DEFINE t == <<c>>
  <2>1. t \in Seq(T) /\ Len(t) = 1 /\ t[1] = c
    BY <1>1
  <2> HIDE DEF t, n
  <2>2. 1 <= n /\ \A j \in 1 .. 1 : j = 1 /\ 1 - j + 1 = 1 /\ n - j + 1 = n
    BY <1>2 DEF n
  <2>3. IsSuffix(t, s) <=> 1 <= n /\ \A j \in 1 .. 1 : t[1 - j + 1] = s[n - j + 1]
    <3>1. t \in Seq(T) /\ s \in Seq(T)
      BY <1>2, <2>1
    <3>2. IsSuffix(t, s) <=> /\ Len(t) <= Len(s)
                             /\ \A j \in 1 .. Len(t) : t[Len(t) - j + 1] = s[Len(s) - j + 1]
      BY <3>1, SuffixOf
    <3>3. QED  BY <2>1, <3>2 DEF n
  <2>4. 1 \in 1 .. 1
    OBVIOUS
  <2>5. IsSuffix(t, s) <=> s[n] = c
    BY <2>1, <2>2, <2>3, <2>4
  <2>6. QED  BY <2>5 DEF t
<1>4. IsSuffix(<<"U", "L">>, s) <=> n >= 2 /\ s[n] = "L" /\ s[n - 1] = "U"
  <2> DEFINE t == <<"U", "L">>
  <2>1. t \in Seq(T) /\ Len(t) = 2 /\ t[1] = "U" /\ t[2] = "L"
    BY <1>1
  <2> HIDE DEF t, n
  <2>2. IsSuffix(t, s) <=> 2 <= n /\ \A j \in 1 .. 2 : t[2 - j + 1] = s[n - j + 1]
    <3>1. t \in Seq(T) /\ s \in Seq(T)
      BY <1>2, <2>1
    <3>2. IsSuffix(t, s) <=> /\ Len(t) <= Len(s)
                             /\ \A j \in 1 .. Len(t) : t[Len(t) - j + 1] = s[Len(s) - j + 1]
      BY <3>1, SuffixOf
    <3>3. QED  BY <2>1, <3>2 DEF n
  <2>3. /\ \A j \in 1 .. 2 : j = 1 \/ j = 2
        /\ 1 \in 1 .. 2 /\ 2 \in 1 .. 2 /\ 2 - 1 + 1 = 2 /\ 2 - 2 + 1 = 1
        /\ n - 1 + 1 = n /\ n - 2 + 1 = n - 1
    BY <1>2 DEF n
  <2>4. (\A j \in 1 .. 2 : t[2 - j + 1] = s[n - j + 1]) <=> s[n] = "L" /\ s[n - 1] = "U"
    BY <2>1, <2>3
  <2>5. 2 <= n <=> n >= 2
    BY <1>2 DEF n
  <2>6. QED  BY <2>2, <2>4, <2>5 DEF t
<1>5. QED  BY <1>3, <1>4

\* The suffix is where the letters are.
LEMMA SuffixTypeIs ==
    ASSUME NEW s \in Text, NEW n \in 1 .. Len(s), Suffixed(s, n), Decimal(s, n)
    PROVE  SuffixType(s) = LetterType(s)
<1> DEFINE N == Len(s)
           UL == IsSuffix(<<"U", "L">>, s)
           L == IsSuffix(<<"L">>, s)
           U == IsSuffix(<<"U">>, s)
<1>1. N \in Nat /\ n \in 1 .. N /\ N >= 1
  BY DEF Text
<1>2. /\ L <=> s[N] = "L"
      /\ U <=> s[N] = "U"
      /\ UL <=> N >= 2 /\ s[N] = "L" /\ s[N - 1] = "U"
  BY <1>1, SuffixesAre
<1> HIDE DEF UL, L, U, N
<1>3. \A i \in 1 .. n : s[i] # "U" /\ s[i] # "L"
  BY WeightsAre DEF Decimal
<1>4. ASSUME NEW c PROVE Contains(s, c) <=> \E i \in 1 .. N : s[i] = c
  BY DEF Contains, N
<1>5. SuffixType(s) = IF UL THEN "unsigned long" ELSE IF L THEN "long" ELSE IF U THEN "unsigned int" ELSE "int"
  BY DEF SuffixType, UL, L, U
<1>6. CASE N = n
  <2>1. ~Contains(s, "U") /\ ~Contains(s, "L")
    BY <1>3, <1>4, <1>6
  <2>2. ~UL /\ ~L /\ ~U
    BY <1>1, <1>2, <1>3, <1>6
  <2>3. QED  BY <1>5, <2>1, <2>2 DEF LetterType
<1>7. CASE N = n + 1 /\ s[n + 1] = "U"
  <2>1. Contains(s, "U") /\ ~Contains(s, "L")
    <3>1. n + 1 \in 1 .. N /\ \A i \in 1 .. N : i \in 1 .. n \/ i = n + 1
      BY <1>1, <1>7
    <3>2. QED  BY <1>3, <1>4, <1>7, <3>1
  <2>2. ~UL /\ ~L /\ U
    BY <1>2, <1>7
  <2>3. QED  BY <1>5, <2>1, <2>2 DEF LetterType
<1>8. CASE N = n + 1 /\ s[n + 1] = "L"
  <2>1. Contains(s, "L") /\ ~Contains(s, "U")
    <3>1. n + 1 \in 1 .. N /\ \A i \in 1 .. N : i \in 1 .. n \/ i = n + 1
      BY <1>1, <1>8
    <3>2. QED  BY <1>3, <1>4, <1>8, <3>1
  <2>2. ~UL /\ L
    <3>1. N - 1 = n
      BY <1>1, <1>8
    <3>2. QED  BY <1>1, <1>2, <1>3, <1>8, <3>1
  <2>3. QED  BY <1>5, <2>1, <2>2 DEF LetterType
<1>9. CASE N = n + 2 /\ s[n + 1] = "U" /\ s[n + 2] = "L"
  <2>1. n + 1 \in 1 .. N /\ n + 2 \in 1 .. N /\ N - 1 = n + 1 /\ N >= 2
    BY <1>1, <1>9
  <2>2. Contains(s, "U") /\ Contains(s, "L")
    BY <1>4, <1>9, <2>1
  <2>3. UL
    BY <1>2, <1>9, <2>1
  <2>4. QED  BY <1>5, <2>2, <2>3 DEF LetterType
<1>10. QED  BY <1>6, <1>7, <1>8, <1>9 DEF Suffixed, N

\* The node of a decimal literal.
LEMMA DecimalNodeIs ==
    ASSUME NEW s \in Text, Integer(s), s[1] # "0"
    PROVE  IntegerNode(s) = IF Meaning(s) > LongMax THEN Throw ELSE <<LetterType(s), Meaning(s)>>
<1>1. PICK n \in 1 .. Len(s) : Suffixed(s, n) /\ (Decimal(s, n) \/ Prefixed(s, n) \/ Octal(s, n))
  BY IntegerForms
<1>2. Decimal(s, n)
  BY <1>1 DEF Prefixed, Octal
<1>3. Number(s, 10) = Meaning(s) /\ SuffixType(s) = LetterType(s)
  BY <1>1, <1>2, DecimalIs, SuffixTypeIs
<1>4. QED  BY <1>3 DEF IntegerNode

\* The integers are texts that the rule for integers accepts.
IntegersRead == \A t \in Integers_ : t.image \in Text /\ Integer(t.image)

\* A step adds no other token.
LEMMA IntegersStep ==
    ASSUME Typed, Listed, IntegersRead, [Next]_vars
    PROVE  IntegersRead'
<1>1. ASSUME NEW t, tokens' = Append(tokens, t), Reads(t) PROVE IntegersRead'
  <2>1. Range(tokens') = Range(tokens) \cup {t}
    BY <1>1, AppendedTo DEF Listed
  <2>2. t.kind = "integer" => t.image \in Text /\ Integer(t.image)
    BY <1>1 DEF Reads
  <2>3. QED  BY <2>1, <2>2 DEF IntegersRead, Integers_
<1>2. CASE tokens' = tokens
  BY <1>2 DEF IntegersRead, Integers_
<1>3. QED  BY <1>1, <1>2, TokensRead

\* What the images of the tokens are.
ReadInv == Named /\ ReadTwiceAsOnce /\ IntegersRead

\* Before the first token nothing is defined, and nothing is read.
LEMMA ReadInit == Init => ReadInv
<1> SUFFICES ASSUME Init PROVE ReadInv
  OBVIOUS
<1>1. Range(tokens) = {}
  BY DEF Init, Range
<1>2. QED  BY <1>1, NamedInit DEF ReadInv, ReadTwiceAsOnce, IntegersRead, Integers_

\* Every step keeps all three.
LEMMA ReadStep ==
    ASSUME ScanInv, ReadInv, [Next]_vars
    PROVE  ReadInv'
<1>1. Typed /\ Listed /\ Named /\ ReadTwiceAsOnce /\ IntegersRead
  BY DEF ScanInv, ReadInv
<1>2. Named' /\ ReadTwiceAsOnce' /\ IntegersRead'
  BY <1>1, NamedStep, ReadOnceStep, IntegersStep
<1>3. QED  BY <1>2 DEF ReadInv

-----------------------------------------------------------------------------
\* Every state of a scan of any text satisfies this invariant too.
THEOREM ReadingInvariant == Spec => []ReadInv
BY ScanningInvariant, ReadInit, ReadStep, PTL DEF Spec

\* A word is a TYPENAME exactly when the typedef of its name was read before it, in every
\* text: the parser inserts the name before the scanner reads the word (parser.y:519,
\* lexer.l:82).
THEOREM TypenamesHaveTypedefs == Spec => []TypenamesFollowTypedefs
<1>1. ScanInv /\ ReadInv => TypenamesFollowTypedefs
  BY NamedIs DEF ScanInv, ReadInv
<1>2. QED  BY <1>1, ScanningInvariant, ReadingInvariant, PTL

\* The second evaluation of a literal by the parser returns the value that the scanner gave
\* it, for every text: no escape stands for a backslash (parser.y:997, lexer.l:178).
THEOREM LiteralsReadOnce == Spec => []ReadTwiceAsOnce
<1>1. ReadInv => ReadTwiceAsOnce
  BY DEF ReadInv
<1>2. QED  BY <1>1, ReadingInvariant, PTL

\* The length of an array is the value of its literal in every base, or the largest long
\* (parser.y:583, lexer.l:161).
THEOREM ArrayLengthsAreExact == Spec => []LengthsExact
<1>1. ReadInv => LengthsExact
  BY LengthIs DEF ReadInv, IntegersRead, LengthsExact
<1>2. QED  BY <1>1, ReadingInvariant, PTL

\* A decimal literal in an expression becomes a node of its value and of the type that its
\* suffix asks for, or ends the parse if it does not fit (parser.y:1024).
THEOREM DecimalLiteralsAreExact == Spec => []DecimalNodesExact
<1>1. ReadInv => DecimalNodesExact
  BY DecimalNodeIs DEF ReadInv, IntegersRead, DecimalNodesExact
<1>2. QED  BY <1>1, ReadingInvariant, PTL

=============================================================================
