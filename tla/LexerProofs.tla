---------------------------- MODULE LexerProofs -----------------------------
(***************************************************************************)
(* The tokens of any source tile it: for every set of letters, any widths   *)
(* of symbols in bytes and a source of any length, what lies between two    *)
(* tokens is blanks and comments, and the byte span of a word is the word.  *)
(* The proof follows positions; a byte span leads back to the positions it  *)
(* was made from, because every symbol has a byte at least.                 *)
(***************************************************************************)
EXTENDS Lexer, NaturalsInduction, WellFoundedInduction, TLAPS

-----------------------------------------------------------------------------
(* Induction *)

\* A set of natural numbers has a least member.
LEMMA LeastNumber ==
    ASSUME NEW T \in SUBSET Nat, T # {}
    PROVE  \E m \in T : \A k \in T : m =< k
<1>1. IsWellFoundedOn(OpToRel(<, Nat), Nat)
    BY NatLessThanWellFounded
<1>2. PICK m \in T : \A k \in T : ~(<<k, m>> \in OpToRel(<, Nat))
    BY <1>1, WFMin
<1>3. \A k \in T : ~(k < m)
    BY <1>2, Zenon DEF OpToRel
<1> QED
    BY <1>3

\* Induction: a set with 0 and the successor of each of its numbers holds all.
LEMMA Induction ==
    ASSUME NEW T, 0 \in T, \A k \in Nat : k \in T => k + 1 \in T
    PROVE  Nat \subseteq T
<1> DEFINE Bad == {k \in Nat : k \notin T}
<1>1. SUFFICES ASSUME Bad # {} PROVE FALSE
    OBVIOUS
<1>2. PICK m \in Bad : \A k \in Bad : m =< k
    <2>1. Bad \in SUBSET Nat
        OBVIOUS
    <2> HIDE DEF Bad
    <2> QED
        BY <1>1, <2>1, LeastNumber
<1>3. m # 0 /\ m - 1 \in Nat /\ m - 1 \notin Bad
    BY <1>2
<1> QED
    BY <1>3

-----------------------------------------------------------------------------
(* Sources *)

\* There is a symbol at the positions of a source, and nowhere else.
LEMMA TextFacts ==
    ASSUME NEW s, IsText(s)
    PROVE  /\ Len(s) \in Nat /\ DOMAIN s = 1 .. Len(s)
           /\ \A i \in 1 .. Len(s) : s[i] \in STRING /\ s[i] # NoSymbol /\ At(s, i) = s[i]
           /\ \A i : i \notin 1 .. Len(s) => At(s, i) = NoSymbol
<1>1. s \in Seq(STRING) /\ \A i \in DOMAIN s : s[i] # NoSymbol
    BY DEF IsText
<1>2. Len(s) \in Nat /\ DOMAIN s = 1 .. Len(s)
    BY <1>1
<1>3. \A i \in 1 .. Len(s) : s[i] \in STRING /\ s[i] # NoSymbol
    BY <1>1
<1> QED
    BY <1>2, <1>3 DEF At

\* A run ends in the source or at its end, and is of its class.
LEMMA RunEndFacts ==
    ASSUME NEW s, IsText(s), NEW i \in 1 .. Len(s) + 1, NEW C, NoSymbol \notin C, NEW e, e = RunEnd(s, i, C)
    PROVE  e \in i .. Len(s) + 1 /\ \A j \in i .. e - 1 : j \in 1 .. Len(s) /\ s[j] \in C
<1> DEFINE L == Len(s)
           T == {d \in Nat : i =< d /\ At(s, d) \notin C}
           IsEnd(d) == At(s, d) \notin C /\ \A j \in i .. d - 1 : At(s, j) \in C
<1>1. L \in Nat /\ i \in Nat /\ i =< L + 1
    BY TextFacts
<1>2. L + 1 \in T
    <2>1. L + 1 \notin 1 .. L
        BY <1>1
    <2>2. At(s, L + 1) = NoSymbol
        BY <2>1, TextFacts
    <2> QED
        BY <1>1, <2>2
<1>3. PICK m \in T : \A d \in T : m =< d
    <2>1. T \in SUBSET Nat
        OBVIOUS
    <2> HIDE DEF T
    <2> QED
        BY <1>2, <2>1, LeastNumber
<1>4. m \in Nat /\ i =< m /\ m =< L + 1 /\ At(s, m) \notin C
    BY <1>2, <1>3
<1>5. ASSUME NEW j \in i .. m - 1 PROVE At(s, j) \in C
    <2>1. j \in Nat /\ i =< j /\ ~(m =< j)
        BY <1>1, <1>4
    <2>2. j \notin T
        BY <1>3, <2>1
    <2> QED
        BY <2>1, <2>2
<1>6. m \in i .. L + 1 /\ IsEnd(m)
    BY <1>1, <1>4, <1>5
<1>7. e = CHOOSE d \in i .. L + 1 : IsEnd(d)
    BY DEF RunEnd
<1>8. e \in i .. L + 1 /\ IsEnd(e)
    <2> HIDE DEF IsEnd, L
    <2> QED
        BY <1>6, <1>7
<1>9. ASSUME NEW j \in i .. e - 1 PROVE j \in 1 .. L /\ s[j] \in C
    <2>1. j \in 1 .. L
        BY <1>1, <1>8
    <2>2. At(s, j) \in C
        BY <1>8
    <2> QED
        BY <2>1, <2>2, TextFacts
<1> QED
    BY <1>8, <1>9

\* A line ends behind its newline, or with the source.
LEMMA LineEndFacts ==
    ASSUME NEW s, IsText(s), NEW i \in 1 .. Len(s) + 1, NEW e, e = LineEnd(s, i)
    PROVE  e \in i .. Len(s) + 1 /\ \A j \in i .. e - 2 : s[j] # "\n"
<1> DEFINE L == Len(s)
           ends == {j \in i .. L : s[j] = "\n"}
<1>1. L \in Nat /\ i \in Nat /\ i =< L + 1
    BY TextFacts
<1>2. e = IF ends = {} THEN L + 1 ELSE Min(ends) + 1
    BY DEF LineEnd
<1>3. CASE ends = {}
    <2>1. e = L + 1
        BY <1>2, <1>3
    <2>2. ASSUME NEW j \in i .. e - 2 PROVE s[j] # "\n"
        <3>1. j \in i .. L
            BY <1>1, <2>1
        <3> QED
            BY <1>3, <3>1
    <2> QED
        BY <1>1, <2>1, <2>2
<1>4. CASE ends # {}
    <2>1. ends \in SUBSET Nat
        BY <1>1
    <2>2. PICK m \in ends : \A d \in ends : m =< d
        <3> HIDE DEF ends
        <3> QED
            BY <1>4, <2>1, LeastNumber
    <2>3. Min(ends) \in ends /\ \A d \in ends : Min(ends) =< d
        <3> HIDE DEF ends
        <3> QED
            BY <2>2 DEF Min
    <2> DEFINE q == Min(ends)
    <2>4. e = q + 1
        BY <1>2, <1>4
    <2> HIDE DEF q
    <2>5. q \in i .. L /\ \A d \in ends : q =< d
        BY <2>3 DEF q
    <2>6. ASSUME NEW j \in i .. e - 2 PROVE s[j] # "\n"
        <3>1. j \in i .. L /\ ~(q =< j)
            BY <1>1, <2>4, <2>5
        <3> QED
            BY <2>5, <3>1
    <2> QED
        BY <1>1, <2>4, <2>5, <2>6
<1> QED
    BY <1>3, <1>4

-----------------------------------------------------------------------------
(* Blanks and comments *)

\* Position q is behind two dashes, on their line.
InComment(s, a, b, q) ==
    \E j \in a .. q : /\ j + 1 < b /\ s[j] = "-" /\ s[j + 1] = "-"
                      /\ \A k \in j .. q : s[k] # "\n"

\* The positions from a to below b hold blanks and comments.
Blanks(s, a, b) == \A q \in a .. b - 1 : s[q] \notin Blank => InComment(s, a, b, q)

\* Two such stretches are one.
LEMMA BlanksJoin ==
    ASSUME NEW s, NEW a \in Nat, NEW b \in Nat, NEW c \in Nat, a =< b, b =< c,
           Blanks(s, a, b), Blanks(s, b, c)
    PROVE  Blanks(s, a, c)
<1> SUFFICES ASSUME NEW q \in a .. c - 1, s[q] \notin Blank PROVE InComment(s, a, c, q)
    BY DEF Blanks
<1>1. CASE q < b
    <2>1. q \in a .. b - 1
        BY <1>1
    <2>2. PICK j \in a .. q : j + 1 < b /\ s[j] = "-" /\ s[j + 1] = "-" /\ \A k \in j .. q : s[k] # "\n"
        BY <2>1 DEF Blanks, InComment
    <2>3. j + 1 < c
        BY <2>2
    <2> QED
        BY <2>2, <2>3 DEF InComment
<1>2. CASE ~(q < b)
    <2>1. q \in b .. c - 1
        BY <1>2
    <2>2. PICK j \in b .. q : j + 1 < c /\ s[j] = "-" /\ s[j + 1] = "-" /\ \A k \in j .. q : s[k] # "\n"
        BY <2>1 DEF Blanks, InComment
    <2>3. j \in a .. q
        BY <2>1
    <2> QED
        BY <2>2, <2>3 DEF InComment
<1> QED
    BY <1>1, <1>2

\* A comment.
LEMMA BlanksComment ==
    ASSUME NEW s, IsText(s), NEW e \in 1 .. Len(s) + 1, At(s, e) = "-", At(s, e + 1) = "-", NEW f,
           f = LineEnd(s, e + 2)
    PROVE  f \in e + 2 .. Len(s) + 1 /\ Blanks(s, e, f)
<1> DEFINE L == Len(s)
<1>1. L \in Nat /\ e \in Nat
    BY TextFacts
<1>2. e \in 1 .. L /\ e + 1 \in 1 .. L
    <2>1. "-" # NoSymbol
        BY DEF NoSymbol
    <2> QED
        BY <2>1, TextFacts
<1>3. s[e] = "-" /\ s[e + 1] = "-"
    BY <1>2, TextFacts
<1>4. e + 2 \in 1 .. L + 1
    BY <1>1, <1>2
<1>5. f \in e + 2 .. L + 1 /\ \A j \in e + 2 .. f - 2 : s[j] # "\n"
    BY <1>4, LineEndFacts
<1>6. ASSUME NEW q \in e .. f - 1, s[q] \notin Blank PROVE InComment(s, e, f, q)
    <2>1. s[q] # "\n"
        BY <1>6 DEF Blank
    <2>2. f \in Nat /\ e + 1 < f /\ e \in e .. q
        BY <1>1, <1>5
    <2>3. ASSUME NEW k \in e .. q PROVE s[k] # "\n"
        <3>1. k = e \/ k = e + 1 \/ k = q \/ k \in e + 2 .. f - 2
            BY <1>1, <2>2
        <3>2. "-" # "\n"
            OBVIOUS
        <3> QED
            BY <1>3, <1>5, <2>1, <3>1, <3>2
    <2> QED
        BY <1>3, <2>2, <2>3 DEF InComment
<1> QED
    BY <1>5, <1>6 DEF Blanks

-----------------------------------------------------------------------------
(* skip_whitespace_and_comments *)

\* What the loop has at j: where the blanks end, or where the rest that follows a
\* comment goes on.
SkipBody(s, j, from) ==
    LET e == RunEnd(s, j, Blank)
    IN  IF At(s, e) = "-" /\ At(s, e + 1) = "-" THEN from[LineEnd(s, e + 2)] ELSE e

\* The end of the source is not blank.
LEMMA EndNotBlank == NoSymbol \notin Blank
BY DEF NoSymbol, Blank

\* The loop goes on behind j, or ends.
LEMMA SkipStep ==
    ASSUME NEW s, IsText(s), NEW j \in 1 .. Len(s) + 1
    PROVE  \/ /\ \A f : SkipBody(s, j, f) = RunEnd(s, j, Blank)
              /\ RunEnd(s, j, Blank) \in j .. Len(s) + 1 /\ Blanks(s, j, RunEnd(s, j, Blank))
           \/ \E k \in j + 1 .. Len(s) + 1 : (\A f : SkipBody(s, j, f) = f[k]) /\ Blanks(s, j, k)
<1> DEFINE L == Len(s)
           e == RunEnd(s, j, Blank)
<1>1. L \in Nat /\ j \in Nat
    BY TextFacts
<1>2. e \in j .. L + 1 /\ \A q \in j .. e - 1 : s[q] \in Blank
    BY EndNotBlank, RunEndFacts
<1>3. Blanks(s, j, e)
    BY <1>2 DEF Blanks
<1>4. CASE At(s, e) = "-" /\ At(s, e + 1) = "-"
    <2> DEFINE k == LineEnd(s, e + 2)
    <2>1. \A f : SkipBody(s, j, f) = f[k]
        BY <1>4 DEF SkipBody
    <2>2. e \in 1 .. L + 1 /\ e \in Nat /\ j =< e
        BY <1>1, <1>2
    <2> HIDE DEF e
    <2>3. k \in e + 2 .. L + 1 /\ Blanks(s, e, k)
        BY <1>4, <2>2, BlanksComment
    <2> HIDE DEF k
    <2>4. k \in j + 1 .. L + 1 /\ k \in Nat /\ e =< k
        BY <1>1, <2>2, <2>3
    <2>5. Blanks(s, j, k)
        BY <1>1, <1>3, <2>2, <2>3, <2>4, BlanksJoin
    <2> QED
        BY <2>1, <2>4, <2>5
<1>5. CASE ~(At(s, e) = "-" /\ At(s, e + 1) = "-")
    <2>1. \A f : SkipBody(s, j, f) = e
        BY <1>5 DEF SkipBody
    <2> QED
        BY <1>2, <1>3, <2>1
<1> QED
    BY <1>4, <1>5

\* The loop is defined: backwards from the end of the source.
LEMMA SkipDefined ==
    ASSUME NEW s, IsText(s)
    PROVE  \E g : g = [j \in 1 .. Len(s) + 1 |-> SkipBody(s, j, g)]
<1> DEFINE N == Len(s) + 1
           Is(g, m) == g = [j \in m .. N |-> SkipBody(s, j, g)]
           T == {d \in Nat : d =< N => \E g : Is(g, N + 1 - d)}
<1>1. N \in Nat /\ N >= 1
    BY TextFacts
<1> USE DEF T
<1>2. 0 \in T
    <2>1. Is([j \in N + 1 .. N |-> 0], N + 1 - 0)
        BY <1>1
    <2> HIDE DEF Is
    <2> QED
        BY <2>1
<1>3. ASSUME NEW d \in Nat, d \in T PROVE d + 1 \in T
    <2>1. SUFFICES ASSUME d + 1 =< N PROVE \E h : Is(h, N + 1 - (d + 1))
        BY DEF T
    <2> DEFINE m == N - d
    <2>2. m \in 1 .. N /\ m + 1 = N + 1 - d /\ m = N + 1 - (d + 1) /\ m \in Nat
        BY <1>1, <2>1
    <2>3. PICK g : Is(g, m + 1)
        BY <1>1, <1>3, <2>1, <2>2
    <2> HIDE DEF m
    <2> DEFINE h == [j \in m .. N |-> IF j = m THEN SkipBody(s, m, g) ELSE g[j]]
    <2>4. ASSUME NEW j \in m .. N PROVE h[j] = SkipBody(s, j, h)
        <3>1. j \in 1 .. Len(s) + 1
            BY <1>1, <2>2
        <3>2. h[j] = SkipBody(s, j, g)
            <4>1. CASE j = m
                BY <4>1
            <4>2. CASE j # m
                <5>1. j \in m + 1 .. N
                    BY <1>1, <2>2, <4>2
                <5>2. g[j] = SkipBody(s, j, g)
                    BY <2>3, <5>1
                <5> QED
                    BY <4>2, <5>2
            <4> QED
                BY <4>1, <4>2
        <3>3. ASSUME NEW k \in j + 1 .. Len(s) + 1 PROVE h[k] = g[k]
            BY <1>1, <2>2
        <3>4. SkipBody(s, j, h) = SkipBody(s, j, g)
            <4> HIDE DEF h, Is, N, T
            <4> QED
                BY <3>1, <3>3, SkipStep
        <3> QED
            BY <3>2, <3>4
    <2>5. Is(h, m)
        BY <2>4
    <2> HIDE DEF h, Is
    <2> QED
        BY <2>2, <2>5
<1>4. N \in T
    <2> HIDE DEF T
    <2> QED
        BY <1>1, <1>2, <1>3, Induction
<1>5. PICK g : Is(g, 1)
    <2>1. N + 1 - N = 1 /\ N =< N
        BY <1>1
    <2> HIDE DEF Is
    <2> QED
        BY <1>4, <2>1
<1> QED
    BY <1>5

\* What is skipped is blanks and comments.
LEMMA SkipFacts ==
    ASSUME NEW s, IsText(s), NEW i \in 1 .. Len(s) + 1
    PROVE  Skip(s, i) \in i .. Len(s) + 1 /\ Blanks(s, i, Skip(s, i))
<1> DEFINE N == Len(s) + 1
           from == CHOOSE g : g = [j \in 1 .. N |-> SkipBody(s, j, g)]
           T == {d \in Nat : \A j \in 1 .. N : N - j =< d => from[j] \in j .. N /\ Blanks(s, j, from[j])}
<1>1. N \in Nat /\ N >= 1
    BY TextFacts
<1>2. Skip(s, i) = from[i]
    BY DEF Skip, SkipBody
<1>3. from = [j \in 1 .. N |-> SkipBody(s, j, from)]
    BY SkipDefined
<1> HIDE DEF from
<1>4. ASSUME NEW j \in 1 .. N, \A k \in j + 1 .. N : from[k] \in k .. N /\ Blanks(s, k, from[k])
      PROVE  from[j] \in j .. N /\ Blanks(s, j, from[j])
    <2>1. from[j] = SkipBody(s, j, from)
        BY <1>3
    <2>2. CASE /\ \A f : SkipBody(s, j, f) = RunEnd(s, j, Blank)
               /\ RunEnd(s, j, Blank) \in j .. N /\ Blanks(s, j, RunEnd(s, j, Blank))
        BY <2>1, <2>2
    <2>3. CASE \E k \in j + 1 .. N : (\A f : SkipBody(s, j, f) = f[k]) /\ Blanks(s, j, k)
        <3>1. PICK k \in j + 1 .. N : (\A f : SkipBody(s, j, f) = f[k]) /\ Blanks(s, j, k)
            BY <2>3
        <3>2. from[j] = from[k]
            BY <2>1, <3>1
        <3>3. from[k] \in k .. N /\ Blanks(s, k, from[k])
            BY <1>4, <3>1
        <3>4. j \in Nat /\ k \in Nat /\ from[k] \in Nat /\ j =< k /\ k =< from[k] /\ from[k] \in j .. N
            BY <1>1, <3>1, <3>3
        <3>5. Blanks(s, j, from[k])
            BY <3>1, <3>3, <3>4, BlanksJoin
        <3> QED
            BY <3>2, <3>4, <3>5
    <2> QED
        BY <2>2, <2>3, SkipStep
<1>5. 0 \in T
    <2>1. ASSUME NEW j \in 1 .. N, N - j =< 0 PROVE from[j] \in j .. N /\ Blanks(s, j, from[j])
        <3>1. j + 1 .. N = {}
            BY <1>1, <2>1
        <3> QED
            BY <1>4, <3>1
    <2> QED
        BY <2>1
<1>6. ASSUME NEW d \in Nat, d \in T PROVE d + 1 \in T
    <2>1. ASSUME NEW j \in 1 .. N, N - j =< d + 1 PROVE from[j] \in j .. N /\ Blanks(s, j, from[j])
        <3>1. ASSUME NEW k \in j + 1 .. N PROVE k \in 1 .. N /\ N - k =< d
            BY <1>1, <2>1
        <3>2. \A k \in j + 1 .. N : from[k] \in k .. N /\ Blanks(s, k, from[k])
            BY <1>6, <3>1
        <3> QED
            BY <1>4, <3>2
    <2> QED
        BY <2>1
<1>7. N \in T
    <2> HIDE DEF T
    <2> QED
        BY <1>1, <1>5, <1>6, Induction
<1> QED
    BY <1>1, <1>2, <1>7

-----------------------------------------------------------------------------
(* lex_string *)

\* What the loop reads from j on.
StringBody(s, j, rest) ==
    IF At(s, j) = NoSymbol \/ (At(s, j) = "\\" /\ At(s, j + 1) = NoSymbol) THEN NoToken
    ELSE IF At(s, j) = "\"" THEN Read("String", <<>>, j + 1)
    ELSE IF At(s, j) = "\\" THEN Push(Unescape(At(s, j + 1)), rest[j + 2])
    ELSE Push(At(s, j), rest[j + 1])

\* One turn: the string ends, or goes on behind j.
LEMMA StringStep ==
    ASSUME NEW s, IsText(s), NEW j \in 1 .. Len(s) + 1
    PROVE  \/ \A f : StringBody(s, j, f) = NoToken
           \/ j =< Len(s) /\ \A f : StringBody(s, j, f) = Read("String", <<>>, j + 1)
           \/ \E k \in j + 1 .. Len(s) + 1 : \E c : \A f : StringBody(s, j, f) = Push(c, f[k])
<1> DEFINE L == Len(s)
<1>1. L \in Nat /\ j \in Nat
    BY TextFacts
<1>2. At(s, j) # NoSymbol => j =< L
    <2>1. At(s, j) # NoSymbol => j \in 1 .. L
        BY TextFacts
    <2> QED
        BY <1>1, <2>1
<1>3. At(s, j + 1) # NoSymbol => j + 1 =< L
    <2>1. At(s, j + 1) # NoSymbol => j + 1 \in 1 .. L
        BY TextFacts
    <2> QED
        BY <1>1, <2>1
<1>4. CASE At(s, j) = NoSymbol \/ (At(s, j) = "\\" /\ At(s, j + 1) = NoSymbol)
    BY <1>4 DEF StringBody
<1>5. CASE At(s, j) # NoSymbol /\ At(s, j) = "\""
    <2>1. At(s, j) # "\\"
        BY <1>5
    <2> QED
        BY <1>2, <1>5, <2>1 DEF StringBody
<1>6. CASE At(s, j) # NoSymbol /\ At(s, j) # "\"" /\ At(s, j) = "\\" /\ At(s, j + 1) # NoSymbol
    <2>1. \A f : StringBody(s, j, f) = Push(Unescape(At(s, j + 1)), f[j + 2])
        BY <1>6 DEF StringBody
    <2>2. j + 2 \in j + 1 .. L + 1
        BY <1>1, <1>3, <1>6
    <2> QED
        BY <2>1, <2>2
<1>7. CASE At(s, j) # NoSymbol /\ At(s, j) # "\"" /\ At(s, j) # "\\"
    <2>1. \A f : StringBody(s, j, f) = Push(At(s, j), f[j + 1])
        BY <1>7 DEF StringBody
    <2>2. j =< L
        BY <1>2, <1>7
    <2>3. j + 1 \in j + 1 .. L + 1
        BY <1>1, <2>2
    <2> QED
        BY <2>1, <2>3
<1> QED
    BY <1>4, <1>5, <1>6, <1>7

\* The loop is defined: backwards from the end of the source.
LEMMA StringDefined ==
    ASSUME NEW s, IsText(s)
    PROVE  \E g : g = [j \in 1 .. Len(s) + 1 |-> StringBody(s, j, g)]
<1> DEFINE N == Len(s) + 1
           Is(g, m) == g = [j \in m .. N |-> StringBody(s, j, g)]
           T == {d \in Nat : d =< N => \E g : Is(g, N + 1 - d)}
<1>1. N \in Nat /\ N >= 1
    BY TextFacts
<1> USE DEF T
<1>2. 0 \in T
    <2>1. Is([j \in N + 1 .. N |-> 0], N + 1 - 0)
        BY <1>1
    <2> HIDE DEF Is
    <2> QED
        BY <2>1
<1>3. ASSUME NEW d \in Nat, d \in T PROVE d + 1 \in T
    <2>1. SUFFICES ASSUME d + 1 =< N PROVE \E h : Is(h, N + 1 - (d + 1))
        BY DEF T
    <2> DEFINE m == N - d
    <2>2. m \in 1 .. N /\ m + 1 = N + 1 - d /\ m = N + 1 - (d + 1) /\ m \in Nat
        BY <1>1, <2>1
    <2>3. PICK g : Is(g, m + 1)
        BY <1>1, <1>3, <2>1, <2>2
    <2> HIDE DEF m
    <2> DEFINE h == [j \in m .. N |-> IF j = m THEN StringBody(s, m, g) ELSE g[j]]
    <2>4. ASSUME NEW j \in m .. N PROVE h[j] = StringBody(s, j, h)
        <3>1. j \in 1 .. Len(s) + 1
            BY <1>1, <2>2
        <3>2. h[j] = StringBody(s, j, g)
            <4>1. CASE j = m
                BY <4>1
            <4>2. CASE j # m
                <5>1. j \in m + 1 .. N
                    BY <1>1, <2>2, <4>2
                <5>2. g[j] = StringBody(s, j, g)
                    BY <2>3, <5>1
                <5> QED
                    BY <4>2, <5>2
            <4> QED
                BY <4>1, <4>2
        <3>3. ASSUME NEW k \in j + 1 .. Len(s) + 1 PROVE h[k] = g[k]
            BY <1>1, <2>2
        <3>4. StringBody(s, j, h) = StringBody(s, j, g)
            <4> HIDE DEF h, Is, N, T
            <4> QED
                BY <3>1, <3>3, StringStep
        <3> QED
            BY <3>2, <3>4
    <2>5. Is(h, m)
        BY <2>4
    <2> HIDE DEF h, Is
    <2> QED
        BY <2>2, <2>5
<1>4. N \in T
    <2> HIDE DEF T
    <2> QED
        BY <1>1, <1>2, <1>3, Induction
<1>5. PICK g : Is(g, 1)
    <2>1. N + 1 - N = 1 /\ N =< N
        BY <1>1
    <2> HIDE DEF Is
    <2> QED
        BY <1>4, <2>1
<1> QED
    BY <1>5

\* What lex_string returns: a string that ends in the source, or an error.
LEMMA LexStringFacts ==
    ASSUME NEW s, IsText(s), NEW i \in 1 .. Len(s) + 1
    PROVE  LexString(s, i) = NoToken \/ \E n \in i + 1 .. Len(s) + 1 : \E v : LexString(s, i) = Read("String", v, n)
<1> DEFINE N == Len(s) + 1
           rest == CHOOSE g : g = [j \in 1 .. N |-> StringBody(s, j, g)]
           OK(j) == rest[j] = NoToken \/ \E n \in j + 1 .. N : \E v : rest[j] = Read("String", v, n)
           T == {d \in Nat : \A j \in 1 .. N : N - j =< d => OK(j)}
<1>1. N \in Nat /\ N >= 1
    BY TextFacts
<1>2. LexString(s, i) = rest[i]
    BY DEF LexString, StringBody
<1>3. rest = [j \in 1 .. N |-> StringBody(s, j, rest)]
    BY StringDefined
<1> HIDE DEF rest
<1>4. ASSUME NEW j \in 1 .. N, \A k \in j + 1 .. N : OK(k) PROVE OK(j)
    <2>1. rest[j] = StringBody(s, j, rest)
        BY <1>3
    <2>2. CASE \A f : StringBody(s, j, f) = NoToken
        BY <2>1, <2>2
    <2>3. CASE j =< Len(s) /\ \A f : StringBody(s, j, f) = Read("String", <<>>, j + 1)
        <3>1. j + 1 \in j + 1 .. N
            BY <1>1, <2>3
        <3> QED
            BY <2>1, <2>3, <3>1
    <2>4. CASE \E k \in j + 1 .. N : \E c : \A f : StringBody(s, j, f) = Push(c, f[k])
        <3>0. PICK k \in j + 1 .. N : \E c : \A f : StringBody(s, j, f) = Push(c, f[k])
            BY <2>4
        <3>1. PICK c : \A f : StringBody(s, j, f) = Push(c, f[k])
            BY <3>0
        <3>2. rest[j] = Push(c, rest[k])
            BY <2>1, <3>1
        <3>3. CASE rest[k] = NoToken
            <4>1. rest[j] = NoToken
                BY <3>2, <3>3 DEF Push, NoToken
            <4> QED
                BY <4>1
        <3>4. CASE \E n \in k + 1 .. N : \E v : rest[k] = Read("String", v, n)
            <4>0. PICK n \in k + 1 .. N : \E v : rest[k] = Read("String", v, n)
                BY <3>4
            <4>1. PICK v : rest[k] = Read("String", v, n)
                BY <4>0
            <4>2. rest[j] = Read("String", <<c>> \o v, n)
                BY <3>2, <4>1 DEF Push, Read
            <4>3. n \in j + 1 .. N
                BY <1>1, <3>1, <4>1
            <4> QED
                BY <4>2, <4>3
        <3> QED
            BY <1>4, <3>1, <3>3, <3>4
    <2> QED
        BY <2>2, <2>3, <2>4, StringStep
<1> HIDE DEF OK
<1>5. 0 \in T
    <2>1. ASSUME NEW j \in 1 .. N, N - j =< 0 PROVE OK(j)
        <3>1. j + 1 .. N = {}
            BY <1>1, <2>1
        <3> QED
            BY <1>4, <3>1
    <2> QED
        BY <2>1
<1>6. ASSUME NEW d \in Nat, d \in T PROVE d + 1 \in T
    <2>1. ASSUME NEW j \in 1 .. N, N - j =< d + 1 PROVE OK(j)
        <3>1. ASSUME NEW k \in j + 1 .. N PROVE k \in 1 .. N /\ N - k =< d
            BY <1>1, <2>1
        <3>2. \A k \in j + 1 .. N : OK(k)
            BY <1>6, <3>1
        <3> QED
            BY <1>4, <3>2
    <2> QED
        BY <2>1
<1>7. N \in T
    <2> HIDE DEF T
    <2> QED
        BY <1>1, <1>5, <1>6, Induction
<1>8. OK(i)
    BY <1>1, <1>7
<1> QED
    BY <1>2, <1>8 DEF OK

-----------------------------------------------------------------------------
(* Bytes *)

\* Every symbol has a byte.
LEMMA WidthFacts ==
    ASSUME NEW c
    PROVE  WidthOf(c) \in Nat /\ WidthOf(c) > 0
<1>1. CASE c \in DOMAIN Width
    <2>1. WidthOf(c) = Width[c]
        BY <1>1 DEF WidthOf
    <2>2. Width[c] \in Nat /\ Width[c] > 1
        BY <1>1, LexerAssumption
    <2> QED
        BY <2>1, <2>2
<1>2. CASE c \notin DOMAIN Width
    BY <1>2 DEF WidthOf
<1> QED
    BY <1>1, <1>2

\* Sums of a function of the numbers up to N.
LEMMA SumDefined ==
    ASSUME NEW N \in Nat, NEW w
    PROVE  \E g : g = [n \in 0 .. N |-> IF n = 0 THEN 0 ELSE g[n - 1] + w[n]]
<1> DEFINE Is(g, m) == g = [n \in 0 .. m |-> IF n = 0 THEN 0 ELSE g[n - 1] + w[n]]
           T == {m \in Nat : \E g : Is(g, m)}
<1>1. 0 \in T
    <2>1. Is([n \in 0 .. 0 |-> 0], 0)
        OBVIOUS
    <2> HIDE DEF Is
    <2> QED
        BY <2>1
<1>2. ASSUME NEW m \in Nat, m \in T PROVE m + 1 \in T
    <2>1. PICK g : Is(g, m)
        BY <1>2
    <2> DEFINE h == [n \in 0 .. m + 1 |-> IF n = m + 1 THEN g[m] + w[m + 1] ELSE g[n]]
    <2>2. ASSUME NEW n \in 0 .. m + 1 PROVE h[n] = IF n = 0 THEN 0 ELSE h[n - 1] + w[n]
        <3>1. CASE n = m + 1
            <4>1. n # 0 /\ n - 1 = m /\ m \in 0 .. m + 1 /\ m # m + 1
                BY <3>1
            <4>2. h[n] = g[m] + w[m + 1] /\ h[n - 1] = g[m]
                BY <3>1, <4>1
            <4> HIDE DEF h, Is
            <4> QED
                BY <3>1, <4>1, <4>2
        <3>2. CASE n # m + 1
            <4>1. n \in 0 .. m /\ h[n] = g[n]
                BY <3>2
            <4>2. n # 0 => n - 1 \in 0 .. m + 1 /\ n - 1 # m + 1
                BY <4>1
            <4>3. n # 0 => h[n - 1] = g[n - 1]
                BY <4>2
            <4>4. g[n] = IF n = 0 THEN 0 ELSE g[n - 1] + w[n]
                BY <2>1, <4>1
            <4> HIDE DEF h, Is
            <4> QED
                BY <4>1, <4>3, <4>4
        <3> QED
            BY <3>1, <3>2
    <2>3. Is(h, m + 1)
        BY <2>2
    <2> HIDE DEF Is, h
    <2> QED
        BY <2>3
<1>3. N \in T
    <2> HIDE DEF T
    <2> QED
        BY <1>1, <1>2, Induction
<1> QED
    BY <1>3

\* The offsets of the symbols, and the number of bytes.
LEMMA OffsetFacts ==
    ASSUME NEW s, IsText(s), NEW o, o = CharIndices(s)
    PROVE  /\ o = [i \in 1 .. Len(s) + 1 |-> o[i]] /\ o[1] = 0
           /\ \A i \in 1 .. Len(s) + 1 : o[i] \in Nat
           /\ \A i \in 1 .. Len(s) : o[i + 1] = o[i] + WidthOf(s[i])
           /\ Bytes(s) = o[Len(s) + 1]
<1> DEFINE L == Len(s)
           w == [n \in 1 .. L |-> WidthOf(s[n])]
           sum == CHOOSE g : g = [n \in 0 .. L |-> IF n = 0 THEN 0 ELSE g[n - 1] + WidthOf(s[n])]
           start == CHOOSE g : g = [i \in 1 .. L + 1 |-> IF i = 1 THEN 0 ELSE g[i - 1] + WidthOf(s[i - 1])]
<1>1. L \in Nat
    BY TextFacts
<1>2. Bytes(s) = sum[L] /\ o = start
    BY DEF Bytes, CharIndices
<1> HIDE DEF L
<1>3. PICK f : f = [n \in 0 .. L |-> IF n = 0 THEN 0 ELSE f[n - 1] + w[n]]
    BY <1>1, SumDefined
<1>4. \A n \in 0 .. L : f[n] = IF n = 0 THEN 0 ELSE f[n - 1] + WidthOf(s[n])
    <2>1. ASSUME NEW n \in 0 .. L PROVE f[n] = IF n = 0 THEN 0 ELSE f[n - 1] + WidthOf(s[n])
        <3>1. f[n] = IF n = 0 THEN 0 ELSE f[n - 1] + w[n]
            <4> HIDE DEF w
            <4> QED
                BY <1>3
        <3>2. n # 0 => n \in 1 .. L
            BY <1>1
        <3>3. n # 0 => w[n] = WidthOf(s[n])
            BY <3>2
        <3> HIDE DEF w
        <3> QED
            BY <3>1, <3>3
    <2> QED
        BY <2>1
<1>5. f = [n \in 0 .. L |-> IF n = 0 THEN 0 ELSE f[n - 1] + WidthOf(s[n])]
    <2>1. f = [n \in 0 .. L |-> f[n]]
        <3> HIDE DEF w
        <3> QED
            BY <1>3
    <2> QED
        BY <1>4, <2>1
<1>6. sum = [n \in 0 .. L |-> IF n = 0 THEN 0 ELSE sum[n - 1] + WidthOf(s[n])]
    BY <1>5
<1> DEFINE h == [i \in 1 .. L + 1 |-> f[i - 1]]
<1>7. h = [i \in 1 .. L + 1 |-> IF i = 1 THEN 0 ELSE h[i - 1] + WidthOf(s[i - 1])]
    <2>1. ASSUME NEW i \in 1 .. L + 1 PROVE h[i] = IF i = 1 THEN 0 ELSE h[i - 1] + WidthOf(s[i - 1])
        <3>1. i - 1 \in 0 .. L /\ (i - 1 = 0 <=> i = 1)
            BY <1>1
        <3>2. h[i] = f[i - 1]
            OBVIOUS
        <3>3. i # 1 => i - 1 \in 1 .. L + 1
            BY <1>1
        <3>4. i # 1 => h[i - 1] = f[(i - 1) - 1]
            BY <3>3
        <3>5. f[i - 1] = IF i - 1 = 0 THEN 0 ELSE f[(i - 1) - 1] + WidthOf(s[i - 1])
            BY <1>4, <3>1
        <3> HIDE DEF h
        <3> QED
            BY <3>1, <3>2, <3>4, <3>5
    <2> QED
        BY <2>1
<1>8. start = [i \in 1 .. L + 1 |-> IF i = 1 THEN 0 ELSE start[i - 1] + WidthOf(s[i - 1])]
    <2> HIDE DEF h
    <2> QED
        BY <1>7
<1> HIDE DEF sum, start, h, w
<1>9. o = [i \in 1 .. L + 1 |-> o[i]] /\ o[1] = 0
    BY <1>1, <1>2, <1>8
<1>10. ASSUME NEW i \in 1 .. L PROVE o[i + 1] = o[i] + WidthOf(s[i])
    <2>1. i + 1 \in 1 .. L + 1 /\ i + 1 # 1 /\ (i + 1) - 1 = i
        BY <1>1
    <2> QED
        BY <1>2, <1>8, <2>1
<1> DEFINE T == {n \in Nat : n =< L => o[n + 1] \in Nat /\ sum[n] = o[n + 1]}
<1>11. 0 \in T
    BY <1>1, <1>6, <1>9
<1>12. ASSUME NEW n \in Nat, n \in T PROVE n + 1 \in T
    <2>1. SUFFICES ASSUME n + 1 =< L PROVE o[(n + 1) + 1] \in Nat /\ sum[n + 1] = o[(n + 1) + 1]
        OBVIOUS
    <2>2. n =< L /\ n + 1 \in 1 .. L /\ n + 1 \in 0 .. L /\ n + 1 # 0 /\ (n + 1) - 1 = n
        BY <1>1, <2>1
    <2>3. o[n + 1] \in Nat /\ sum[n] = o[n + 1]
        BY <1>12, <2>2
    <2>4. o[(n + 1) + 1] = o[n + 1] + WidthOf(s[n + 1])
        BY <1>10, <2>2
    <2>5. sum[n + 1] = sum[n] + WidthOf(s[n + 1])
        BY <1>6, <2>2
    <2>6. WidthOf(s[n + 1]) \in Nat
        BY WidthFacts
    <2> QED
        BY <2>3, <2>4, <2>5, <2>6
<1>13. Nat \subseteq T
    <2> HIDE DEF T
    <2> QED
        BY <1>11, <1>12, Induction
<1>14. sum[L] = o[L + 1]
    BY <1>1, <1>13
<1>15. ASSUME NEW i \in 1 .. L + 1 PROVE o[i] \in Nat
    <2>1. i - 1 \in Nat /\ i - 1 =< L /\ (i - 1) + 1 = i
        BY <1>1
    <2>2. o[(i - 1) + 1] \in Nat
        BY <1>13, <2>1
    <2> QED
        BY <2>1, <2>2
<1> QED
    BY <1>2, <1>9, <1>10, <1>14, <1>15 DEF L

\* Later symbols have larger offsets.
LEMMA OffsetsGrow ==
    ASSUME NEW s, IsText(s), NEW o, o = CharIndices(s)
    PROVE  \A i, j \in 1 .. Len(s) + 1 : i < j => o[i] < o[j]
<1> DEFINE L == Len(s)
           T == {n \in Nat : \A i, j \in 1 .. L + 1 : i < j /\ j =< i + n => o[i] < o[j]}
<1>1. L \in Nat
    BY TextFacts
<1>2. \A i \in 1 .. L + 1 : o[i] \in Nat
    BY OffsetFacts
<1>3. ASSUME NEW i \in 1 .. L PROVE o[i] < o[i + 1]
    <2>1. o[i + 1] = o[i] + WidthOf(s[i])
        BY OffsetFacts
    <2>2. o[i] \in Nat /\ WidthOf(s[i]) \in Nat /\ WidthOf(s[i]) > 0
        BY <1>1, <1>2, WidthFacts
    <2> QED
        BY <2>1, <2>2
<1> HIDE DEF L
<1>4. 0 \in T
    BY <1>1
<1>5. ASSUME NEW n \in Nat, n \in T PROVE n + 1 \in T
    <2>1. ASSUME NEW i \in 1 .. L + 1, NEW j \in 1 .. L + 1, i < j, j =< i + (n + 1) PROVE o[i] < o[j]
        <3>1. j - 1 \in 1 .. L /\ j - 1 \in 1 .. L + 1 /\ (j - 1) + 1 = j
            BY <1>1, <2>1
        <3>2. o[j - 1] < o[j]
            BY <1>3, <3>1
        <3>3. i = j - 1 \/ i < j - 1
            BY <1>1, <2>1
        <3>4. i < j - 1 => o[i] < o[j - 1]
            <4>1. j - 1 =< i + n
                BY <1>1, <2>1
            <4> QED
                BY <1>5, <3>1, <4>1
        <3>5. o[i] \in Nat /\ o[j - 1] \in Nat /\ o[j] \in Nat
            BY <1>2, <3>1 DEF L
        <3> QED
            BY <3>2, <3>3, <3>4, <3>5
    <2> QED
        BY <2>1
<1>6. L + 1 \in T
    <2> HIDE DEF T
    <2> QED
        BY <1>1, <1>4, <1>5, Induction
<1>7. ASSUME NEW i \in 1 .. L + 1, NEW j \in 1 .. L + 1, i < j PROVE o[i] < o[j]
    <2>1. j =< i + (L + 1)
        BY <1>1
    <2> QED
        BY <1>6, <1>7, <2>1
<1> QED
    BY <1>7 DEF L

-----------------------------------------------------------------------------
(* next_token *)

\* The classes of symbols do not hold the end of the source.
LEMMA ClassFacts ==
    /\ NoSymbol \notin Digit /\ NoSymbol \notin WordSymbol
    /\ NoSymbol \notin Single
<1>1. Digit = {"0", "1", "2", "3", "4", "5", "6", "7", "8", "9"}
    BY DEF Digit, NumberOf
<1>2. NoSymbol \notin Digit
    BY <1>1 DEF NoSymbol
<1>3. NoSymbol \notin Letter
    BY LexerAssumption
<1>4. NoSymbol \notin Single
    BY DEF NoSymbol, Single
<1> QED
    BY <1>2, <1>3, <1>4 DEF WordSymbol

\* Only words have the kind of a name.
LEMMA KindFacts ==
    /\ "Eof" \notin Name /\ "String" \notin Name /\ "Float" \notin Name /\ "Int" \notin Name
    /\ \A c \in Single : c \notin Name /\ c # "Eof"
    /\ \A d \in Double : d.k \notin Name /\ d.k # "Eof" /\ d.second # NoSymbol
<1>1. "Eof" \notin Name /\ "String" \notin Name /\ "Float" \notin Name /\ "Int" \notin Name
    BY DEF Name, Keywords
<1>2. ASSUME NEW c \in Single PROVE c \notin Name /\ c # "Eof"
    <2>1. /\ ";" \notin Name /\ "," \notin Name /\ ":" \notin Name /\ "*" \notin Name
          /\ "(" \notin Name /\ ")" \notin Name /\ "{" \notin Name /\ "}" \notin Name
          /\ "[" \notin Name /\ "]" \notin Name /\ "=" \notin Name /\ "." \notin Name /\ "-" \notin Name
        BY DEF Name, Keywords
    <2>2. c # "Eof"
        BY DEF Single
    <2> QED
        BY <2>1, <2>2 DEF Single
<1>3. ASSUME NEW d \in Double PROVE d.k \notin Name /\ d.k # "Eof" /\ d.second # NoSymbol
    <2>1. d.k \in {"!=", "..", "->", "<-"} /\ d.second \in {"=", ".", ">", "-"}
        BY DEF Double, Pair
    <2>2. \A c \in {"!=", "..", "->", "<-"} : c \notin Name /\ c # "Eof"
        BY DEF Name, Keywords
    <2>3. \A c \in {"=", ".", ">", "-"} : c # NoSymbol
        BY DEF NoSymbol
    <2> QED
        BY <2>1, <2>2, <2>3
<1> QED
    BY <1>1, <1>2, <1>3

\* A token read at i ends in the source, only the end of the source is Eof, and a
\* word is what was read.
Reads(s, i, t) ==
    t.ok => /\ t.next \in i .. Len(s) + 1
            /\ t.k = "Eof" => i = Len(s) + 1
            /\ t.k \in Name => t.v = SubSeq(s, i, t.next - 1)

\* A token that is neither the end nor a word.
LEMMA PlainToken ==
    ASSUME NEW s, NEW i, NEW k, NEW v, NEW n \in i .. Len(s) + 1, k \notin Name, k # "Eof"
    PROVE  Reads(s, i, Read(k, v, n))
BY DEF Reads, Read

\* No token.
LEMMA NothingRead ==
    ASSUME NEW s, NEW i
    PROVE  Reads(s, i, NoToken)
BY DEF Reads, NoToken

\* lex_string.
LEMMA StringReads ==
    ASSUME NEW s, IsText(s), NEW i \in 1 .. Len(s)
    PROVE  Reads(s, i, LexString(s, i + 1))
<1>1. Len(s) \in Nat
    BY TextFacts
<1>2. i + 1 \in 1 .. Len(s) + 1
    BY <1>1
<1>3. CASE LexString(s, i + 1) = NoToken
    BY <1>3, NothingRead
<1>4. CASE \E n \in (i + 1) + 1 .. Len(s) + 1 : \E v : LexString(s, i + 1) = Read("String", v, n)
    <2>1. PICK n \in (i + 1) + 1 .. Len(s) + 1 : \E v : LexString(s, i + 1) = Read("String", v, n)
        BY <1>4
    <2>2. PICK v : LexString(s, i + 1) = Read("String", v, n)
        BY <2>1
    <2>3. n \in i .. Len(s) + 1
        BY <1>1, <2>1
    <2> QED
        BY <2>2, <2>3, KindFacts, PlainToken
<1> QED
    BY <1>2, <1>3, <1>4, LexStringFacts

\* lex_number.
LEMMA NumberReads ==
    ASSUME NEW s, IsText(s), NEW i \in 1 .. Len(s)
    PROVE  Reads(s, i, LexNumber(s, i))
<1> DEFINE L == Len(s)
           e == RunEnd(s, i, Digit)
           f == RunEnd(s, e + 1, Digit)
           whole == NumberText(SubSeq(s, i, e - 1))
           float == Float(FALSE, whole, SubSeq(s, e + 1, f - 1))
<1>1. L \in Nat /\ i \in 1 .. L + 1
    BY TextFacts
<1>2. e \in i .. L + 1
    BY <1>1, ClassFacts, RunEndFacts
<1>3. LexNumber(s, i) = IF IsFloat(s, e) THEN Read("Float", float, f)
                        ELSE IF whole =< MaxInt THEN Read("Int", whole, e) ELSE NoToken
    BY DEF LexNumber
<1> HIDE DEF whole, float, e
<1>4. IsFloat(s, e) => f \in i .. L + 1
    <2>1. SUFFICES ASSUME At(s, e) = "." PROVE f \in i .. L + 1
        BY DEF IsFloat
    <2>2. "." # NoSymbol
        BY DEF NoSymbol
    <2>3. e \in 1 .. L
        BY <2>1, <2>2, TextFacts
    <2>4. e + 1 \in 1 .. L + 1
        BY <1>1, <2>3
    <2>5. f \in e + 1 .. L + 1
        BY <2>4, ClassFacts, RunEndFacts
    <2> HIDE DEF f
    <2> QED
        BY <1>1, <1>2, <2>3, <2>5
<1> HIDE DEF f
<1>5. CASE IsFloat(s, e)
    BY <1>3, <1>4, <1>5, KindFacts, PlainToken
<1>6. CASE ~IsFloat(s, e) /\ whole =< MaxInt
    BY <1>2, <1>3, <1>6, KindFacts, PlainToken
<1>7. CASE ~IsFloat(s, e) /\ ~(whole =< MaxInt)
    BY <1>3, <1>7, NothingRead
<1> QED
    BY <1>5, <1>6, <1>7

\* lex_ident_or_keyword.
LEMMA WordReads ==
    ASSUME NEW s, IsText(s), NEW i \in 1 .. Len(s)
    PROVE  Reads(s, i, LexIdentOrKeyword(s, i))
<1> DEFINE e == RunEnd(s, i, WordSymbol)
           text == SubSeq(s, i, e - 1)
           k == KeywordOrIdent(text)
<1>1. Len(s) \in Nat /\ i \in 1 .. Len(s) + 1
    BY TextFacts
<1>2. e \in i .. Len(s) + 1
    BY <1>1, ClassFacts, RunEndFacts
<1>3. LexIdentOrKeyword(s, i) = Read(k, text, e)
    BY DEF LexIdentOrKeyword
<1>4. k \in Name
    <2>1. PICK word : k = IF word \in Keywords THEN word ELSE "Ident"
        BY DEF KeywordOrIdent
    <2> HIDE DEF k
    <2> QED
        BY <2>1 DEF Name
<1> HIDE DEF k, e
<1>5. k # "Eof"
    BY <1>4, KindFacts
<1> QED
    BY <1>2, <1>3, <1>5 DEF Reads, Read

\* The symbols of next_token.
LEMMA SymbolReads ==
    ASSUME NEW s, IsText(s), NEW i \in 1 .. Len(s)
    PROVE  Reads(s, i, LexSymbol(s, i))
<1> DEFINE ds == {d \in Double : d.first = At(s, i) /\ d.second = At(s, i + 1)}
           d0 == CHOOSE d \in ds : TRUE
<1>1. Len(s) \in Nat /\ i \in Nat
    BY TextFacts
<1>2. LexSymbol(s, i) = IF ds # {} THEN Read(d0.k, <<>>, i + 2)
                        ELSE IF At(s, i) \in Single THEN Read(At(s, i), <<>>, i + 1) ELSE NoToken
    BY DEF LexSymbol
<1>3. CASE ds # {}
    <2>1. d0 \in ds
        BY <1>3
    <2>2. d0 \in Double /\ d0.second = At(s, i + 1)
        BY <2>1
    <2> HIDE DEF ds, d0
    <2>3. d0.k \notin Name /\ d0.k # "Eof" /\ At(s, i + 1) # NoSymbol
        BY <2>2, KindFacts
    <2>4. i + 1 \in 1 .. Len(s)
        BY <2>3, TextFacts
    <2>5. i + 2 \in i .. Len(s) + 1
        BY <1>1, <2>4
    <2> QED
        BY <1>2, <1>3, <2>3, <2>5, PlainToken
<1> HIDE DEF ds, d0
<1>4. CASE ds = {} /\ At(s, i) \in Single
    <2>1. At(s, i) \notin Name /\ At(s, i) # "Eof"
        BY <1>4, KindFacts
    <2>2. i + 1 \in i .. Len(s) + 1
        BY <1>1
    <2> QED
        BY <1>2, <1>4, <2>1, <2>2, PlainToken
<1>5. CASE ds = {} /\ At(s, i) \notin Single
    BY <1>2, <1>5, NothingRead
<1> QED
    BY <1>3, <1>4, <1>5

\* next_token, behind the blanks.
LEMMA LexAtReads ==
    ASSUME NEW s, IsText(s), NEW i \in 1 .. Len(s) + 1
    PROVE  Reads(s, i, LexAt(s, i))
<1>1. Len(s) \in Nat
    BY TextFacts
<1>2. CASE At(s, i) = NoSymbol
    <2>1. LexAt(s, i) = Read("Eof", <<>>, i)
        BY <1>2 DEF LexAt
    <2>2. i = Len(s) + 1
        <3>1. i \notin 1 .. Len(s)
            BY <1>2, TextFacts
        <3> QED
            BY <1>1, <3>1
    <2>3. i \in i .. Len(s) + 1
        BY <1>1, <2>2
    <2> QED
        BY <2>1, <2>2, <2>3, KindFacts DEF Reads, Read
<1>3. CASE At(s, i) # NoSymbol
    <2>1. i \in 1 .. Len(s)
        BY <1>3, TextFacts
    <2>2. LexAt(s, i) \in {LexString(s, i + 1), LexNumber(s, i), LexIdentOrKeyword(s, i), LexSymbol(s, i)}
        BY <1>3 DEF LexAt
    <2> QED
        BY <2>1, <2>2, StringReads, NumberReads, WordReads, SymbolReads
<1> QED
    BY <1>2, <1>3

-----------------------------------------------------------------------------
(* Spans *)

\* The bytes between two offsets are the symbols between two positions.
LEMMA SliceFacts ==
    ASSUME IsText(src), offsets = CharIndices(src), NEW a \in 1 .. Len(src) + 1, NEW b \in 1 .. Len(src) + 1
    PROVE  Slice(offsets[a], offsets[b]) = SubSeq(src, a, b - 1)
<1> DEFINE N == Len(src) + 1
<1>1. N \in Nat
    BY TextFacts
<1>2. DOMAIN offsets = 1 .. N
    BY OffsetFacts
<1>3. \A i \in 1 .. N : offsets[i] \in Nat
    BY OffsetFacts
<1>4. \A i, j \in 1 .. N : i < j => offsets[i] < offsets[j]
    BY OffsetsGrow
<1> HIDE DEF N
<1>5. ASSUME NEW i \in 1 .. N, NEW j \in 1 .. N, offsets[i] = offsets[j] PROVE i = j
    <2>1. ~(i < j) /\ ~(j < i)
        <3>1. offsets[i] \in Nat /\ offsets[j] \in Nat
            BY <1>3
        <3>2. ~(offsets[i] < offsets[j]) /\ ~(offsets[j] < offsets[i])
            BY <1>5, <3>1
        <3> QED
            BY <1>4, <3>2
    <2> QED
        BY <1>1, <2>1
<1>6. a \in 1 .. N /\ b \in 1 .. N
    BY DEF N
<1>7. (CHOOSE i \in DOMAIN offsets : offsets[i] = offsets[a]) = a
    BY <1>2, <1>5, <1>6
<1>8. (CHOOSE i \in DOMAIN offsets : offsets[i] = offsets[b]) = b
    BY <1>2, <1>5, <1>6
<1> QED
    BY <1>7, <1>8 DEF Slice

\* Blanks and comments, as a text of their own.
LEMMA OnlyBlanksOf ==
    ASSUME NEW s, IsText(s), NEW a \in 1 .. Len(s) + 1, NEW b \in a .. Len(s) + 1, Blanks(s, a, b)
    PROVE  OnlyBlanks(SubSeq(s, a, b - 1))
<1> DEFINE u == SubSeq(s, a, b - 1)
           m == b - a
<1>1. Len(s) \in Nat /\ a \in Nat /\ b \in Nat /\ m \in Nat /\ s \in Seq(STRING)
    BY TextFacts DEF IsText
<1>2. Len(u) = m /\ DOMAIN u = 1 .. m /\ \A i \in 1 .. m : u[i] = s[(a + i) - 1]
    BY <1>1
<1> HIDE DEF u
<1>3. ASSUME NEW i \in 1 .. m, u[i] \notin Blank
      PROVE  \E j \in 1 .. i : /\ At(u, j) = "-" /\ At(u, j + 1) = "-"
                               /\ \A k \in j .. i : u[k] # "\n"
    <2> DEFINE q == (a + i) - 1
    <2>1. q \in a .. b - 1 /\ s[q] \notin Blank
        BY <1>1, <1>2, <1>3
    <2>2. PICK p \in a .. q : p + 1 < b /\ s[p] = "-" /\ s[p + 1] = "-" /\ \A k \in p .. q : s[k] # "\n"
        BY <2>1 DEF Blanks, InComment
    <2> DEFINE j == (p - a) + 1
    <2>3. j \in 1 .. i /\ j \in 1 .. m /\ j + 1 \in 1 .. m /\ (a + j) - 1 = p /\ (a + (j + 1)) - 1 = p + 1
        BY <1>1, <2>1, <2>2
    <2> HIDE DEF j, q
    <2>4. At(u, j) = "-" /\ At(u, j + 1) = "-"
        BY <1>2, <2>2, <2>3 DEF At
    <2>5. ASSUME NEW k \in j .. i PROVE u[k] # "\n"
        <3>1. k \in 1 .. m /\ (a + k) - 1 \in p .. q
            BY <1>1, <2>2, <2>3 DEF q
        <3> QED
            BY <1>2, <2>2, <3>1
    <2> QED
        BY <2>3, <2>4, <2>5
<1> QED
    BY <1>2, <1>3 DEF OnlyBlanks, u

-----------------------------------------------------------------------------
(* tokenize *)

\* The last token begins at b, behind what begins at a, and ends at p.
LastToken(s, o, ts, p, a, b) ==
    LET t == ts[Len(ts)]
    IN  /\ (IF Len(ts) = 1 THEN 0 ELSE ts[Len(ts) - 1].end) = o[a]
        /\ t.offset = o[b] /\ t.end = o[p]
        /\ Blanks(s, a, b)
        /\ t.k = "Eof" => p = Len(s) + 1
        /\ t.k \in Name => t.v = SubSeq(s, b, p - 1)

\* The inductive invariant: the spans are those of positions of the source, and the
\* last one ends where the lexer stands.
LexInv ==
    /\ IsText(src) /\ offsets = CharIndices(src) /\ pos \in 1 .. Len(src) + 1
    /\ \E S : tokens \in Seq(S)
    /\ tokens = <<>> => pos = 1
    /\ tokens # <<>> => \E a \in 1 .. pos : \E b \in a .. pos : LastToken(src, offsets, tokens, pos, a, b)

\* A turn of the loop of tokenize.
LEMMA TokenInv ==
    ASSUME LexInv, NextToken
    PROVE  LexInv'
<1> DEFINE i == Skip(src, pos)
           t == LexAt(src, i)
           N == Len(src) + 1
<1>1. /\ IsText(src) /\ offsets = CharIndices(src) /\ pos \in 1 .. N
      /\ src' = src /\ offsets' = offsets
    BY DEF LexInv, NextToken
<1>2. N \in Nat /\ pos \in Nat
    BY <1>1, TextFacts
<1>3. i \in pos .. N /\ Blanks(src, pos, i)
    BY <1>1, SkipFacts
<1>4. i \in 1 .. N
    <2> HIDE DEF i, N
    <2> QED
        BY <1>1, <1>2, <1>3
<1>5. Reads(src, i, t)
    BY <1>1, <1>4, LexAtReads
<1>6. CASE ~t.ok
    <2>1. pos' = pos /\ tokens' = tokens
        BY <1>6 DEF NextToken
    <2> QED
        BY <1>1, <2>1 DEF LexInv
<1>7. CASE t.ok
    <2> DEFINE tk == [k |-> t.k, v |-> t.v, offset |-> offsets[i], end |-> offsets[t.next]]
    <2>1. tokens' = Append(tokens, tk) /\ pos' = t.next
        BY <1>7 DEF NextToken
    <2>2. /\ t.next \in i .. N
          /\ t.k = "Eof" => i = N
          /\ t.k \in Name => t.v = SubSeq(src, i, t.next - 1)
        BY <1>5, <1>7 DEF Reads
    <2> HIDE DEF i, t
    <2>3. /\ tk.k = t.k /\ tk.v = t.v /\ tk.offset = offsets[i] /\ tk.end = offsets[t.next]
        OBVIOUS
    <2> HIDE DEF tk
    <2>4. PICK S : tokens \in Seq(S)
        BY DEF LexInv
    <2> DEFINE m == Len(tokens)
    <2>5. /\ m \in Nat /\ tokens' \in Seq(S \cup {tk}) /\ Len(tokens') = m + 1
          /\ tokens'[m + 1] = tk /\ \A j \in 1 .. m : tokens'[j] = tokens[j]
        <3>1. tokens \in Seq(S \cup {tk}) /\ tk \in S \cup {tk} /\ m \in Nat
            BY <2>4
        <3>2. tokens' \in Seq(S \cup {tk}) /\ Len(tokens') = m + 1
            BY <2>1, <3>1
        <3>3. tokens'[m + 1] = tk
            BY <2>1, <3>1
        <3>4. ASSUME NEW j \in 1 .. m PROVE tokens'[j] = tokens[j]
            BY <2>1, <3>1
        <3> QED
            BY <3>1, <3>2, <3>3, <3>4
    <2>6. tokens = <<>> <=> m = 0
        BY <2>4
    <2>7. (IF m + 1 = 1 THEN 0 ELSE tokens'[m].end) = offsets[pos]
        <3>1. CASE m = 0
            <4>1. pos = 1
                BY <2>6, <3>1 DEF LexInv
            <4>2. offsets[1] = 0
                BY <1>1, OffsetFacts
            <4> QED
                BY <3>1, <4>1, <4>2
        <3>2. CASE m # 0
            <4>1. m \in 1 .. m /\ m + 1 # 1
                BY <2>5, <3>2
            <4>2. tokens[m].end = offsets[pos]
                BY <2>6, <3>2 DEF LexInv, LastToken
            <4>3. tokens'[m] = tokens[m]
                BY <2>5, <4>1
            <4> QED
                BY <4>1, <4>2, <4>3
        <3> QED
            BY <3>1, <3>2
    <2>8. t.k = "Eof" => t.next = N
        BY <1>2, <1>4, <2>2
    <2>9. LastToken(src, offsets, tokens', t.next, pos, i)
        <3>1. (m + 1) - 1 = m
            BY <2>5
        <3> HIDE DEF m
        <3> QED
            BY <1>3, <2>2, <2>3, <2>5, <2>7, <2>8, <3>1 DEF LastToken
    <2>10. pos \in 1 .. t.next /\ i \in pos .. t.next /\ t.next \in 1 .. N
        <3> HIDE DEF N
        <3> QED
            BY <1>1, <1>2, <1>3, <1>4, <2>2
    <2>11. tokens' # <<>>
        <3>1. Len(tokens') # 0
            BY <2>5
        <3> QED
            BY <3>1
    <2> HIDE DEF m
    <2>12. \E a \in 1 .. pos' : \E b \in a .. pos' : LastToken(src, offsets, tokens', pos', a, b)
        BY <2>1, <2>9, <2>10
    <2>13. \E U : tokens' \in Seq(U)
        BY <2>5
    <2> QED
        BY <1>1, <2>1, <2>10, <2>11, <2>12, <2>13 DEF LexInv
<1> QED
    BY <1>6, <1>7

\* The invariant says what SpansTileSource says.
LEMMA InvTiles ==
    ASSUME LexInv
    PROVE  SpansTileSource
<1> SUFFICES ASSUME tokens # <<>>
             PROVE  LET t      == Last(tokens)
                        before == IF Len(tokens) = 1 THEN 0 ELSE tokens[Len(tokens) - 1].end
                    IN  /\ before =< t.offset /\ t.offset =< t.end
                        /\ OnlyBlanks(Slice(before, t.offset))
                        /\ t.k = "Eof" => t.end = Bytes(src)
                        /\ t.k \in Name => Slice(t.offset, t.end) = t.v
    BY DEF SpansTileSource
<1> DEFINE t == Last(tokens)
           before == IF Len(tokens) = 1 THEN 0 ELSE tokens[Len(tokens) - 1].end
           N == Len(src) + 1
<1>1. IsText(src) /\ offsets = CharIndices(src) /\ pos \in 1 .. N
    BY DEF LexInv
<1>2. N \in Nat /\ pos \in Nat
    BY <1>1, TextFacts
<1>3. PICK a \in 1 .. pos : \E b \in a .. pos : LastToken(src, offsets, tokens, pos, a, b)
    BY DEF LexInv
<1>4. PICK b \in a .. pos : LastToken(src, offsets, tokens, pos, a, b)
    BY <1>3
<1>5. t = tokens[Len(tokens)]
    BY DEF Last
<1>6. /\ before = offsets[a] /\ t.offset = offsets[b] /\ t.end = offsets[pos] /\ Blanks(src, a, b)
      /\ t.k = "Eof" => pos = N
      /\ t.k \in Name => t.v = SubSeq(src, b, pos - 1)
    BY <1>4, <1>5 DEF LastToken
<1> HIDE DEF t, before
<1>7. a \in 1 .. N /\ b \in 1 .. N /\ b \in a .. N /\ a =< b /\ b =< pos
    BY <1>1, <1>2, <1>3, <1>4
<1>8. ASSUME NEW i \in 1 .. N, NEW j \in 1 .. N, i =< j PROVE offsets[i] =< offsets[j]
    <2>1. offsets[i] \in Nat /\ offsets[j] \in Nat
        BY <1>1, OffsetFacts
    <2>2. i < j => offsets[i] < offsets[j]
        BY <1>1, OffsetsGrow
    <2>3. i < j \/ i = j
        BY <1>2, <1>8
    <2> QED
        BY <2>1, <2>2, <2>3
<1>9. before =< t.offset /\ t.offset =< t.end
    BY <1>1, <1>6, <1>7, <1>8
<1>10. OnlyBlanks(Slice(before, t.offset))
    <2>1. Slice(before, t.offset) = SubSeq(src, a, b - 1)
        BY <1>1, <1>6, <1>7, SliceFacts
    <2>2. OnlyBlanks(SubSeq(src, a, b - 1))
        BY <1>1, <1>6, <1>7, OnlyBlanksOf
    <2> QED
        BY <2>1, <2>2
<1>11. t.k = "Eof" => t.end = Bytes(src)
    BY <1>1, <1>6, OffsetFacts
<1>12. t.k \in Name => Slice(t.offset, t.end) = t.v
    <2>1. Slice(t.offset, t.end) = SubSeq(src, b, pos - 1)
        BY <1>1, <1>6, <1>7, SliceFacts
    <2> QED
        BY <1>6, <2>1
<1> QED
    BY <1>9, <1>10, <1>11, <1>12 DEF t, before

\* Whatever the source, the spans of its tokens follow one another, leave out only
\* blanks and comments, reach the last byte, and hold the words that were read.
THEOREM TokensTileSource == LexSpec => []SpansTileSource
<1>1. IsText(src) /\ Open => LexInv
    <2>1. SUFFICES ASSUME IsText(src), Open PROVE LexInv
        OBVIOUS
    <2>2. offsets = CharIndices(src) /\ pos = 1 /\ tokens = <<>>
        BY <2>1 DEF Open
    <2>3. pos \in 1 .. Len(src) + 1
        <3>1. Len(src) \in Nat
            BY <2>1, TextFacts
        <3> QED
            BY <2>2, <3>1
    <2>4. \E S : tokens \in Seq(S)
        <3>1. tokens \in Seq({})
            BY <2>2
        <3> QED
            BY <3>1
    <2> QED
        BY <2>1, <2>2, <2>3, <2>4 DEF LexInv
<1>2. LexInv /\ [NextToken]_lexVars => LexInv'
    <2>1. CASE UNCHANGED lexVars
        BY <2>1 DEF lexVars, LexInv
    <2> QED
        BY <2>1, TokenInv
<1>3. LexInv => SpansTileSource
    BY InvTiles
<1> QED
    BY <1>1, <1>2, <1>3, PTL DEF LexSpec
=============================================================================
