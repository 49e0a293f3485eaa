------------------------------- MODULE Lexer --------------------------------
(***************************************************************************)
(* The EpochQL tokenizer (epochql/src/lexer.rs).                            *)
(*                                                                          *)
(* A source is a sequence of symbols.  A symbol is a character, or a run of *)
(* letters that no property looks into: a keyword or a name is then one     *)
(* symbol of several bytes.  A text (a name, the value of a string, a       *)
(* slice of the source) is a sequence of symbols as well.                   *)
(***************************************************************************)
EXTENDS Integers, Sequences, FiniteSets, FiniteSetsExt, SequencesExt

CONSTANTS
    Letter,   \* symbols of letters and underscores
    Upper,    \* the upper case of the symbols that are not in upper case
    Width,    \* the bytes of the symbols that have more than one
    MaxInt    \* i64::MAX

\* What peek finds at the end of the source: no symbol.
NoSymbol == "end of source"

ASSUME LexerAssumption ==
    /\ MaxInt \in Nat
    /\ \A c \in DOMAIN Width : Width[c] \in Nat /\ Width[c] > 1
    /\ DOMAIN Upper \subseteq Letter
    /\ NoSymbol \notin Letter

VARIABLES
    src,      \* the source
    offsets,  \* char_indices: the byte offset of every symbol, and of the end
    pos,      \* Lexer.pos: the next symbol
    tokens,   \* the tokens so far: kind, value, byte span
    phase     \* who works on the source: lex, parse, run; or done, error

lexVars == <<src, offsets, pos, tokens, phase>>

NumberOf == [c \in {"0", "1", "2", "3", "4", "5", "6", "7", "8", "9"} |->
    CHOOSE n \in 0..9 : ToString(n) = c]
Digit    == DOMAIN NumberOf
WordSymbol == Letter \cup Digit
Blank    == {" ", "\t", "\n", "\r"}
Single   == {";", ",", ":", "*", "(", ")", "{", "}", "[", "]", "=", ".", "-"}
Pair(k, first, second) == [k |-> k, first |-> first, second |-> second]
Double   == {Pair("!=", "!", "="), Pair("..", ".", "."), Pair("->", "-", ">"), Pair("<-", "<", "-")}

Keywords == {
    "USE", "BRANCH", "COMMIT", "TAG", "HEAD", "MATCH", "TRAVERSE", "MERGE_BASE",
    "SHORTEST_PATH", "ANCESTORS", "WHERE", "SELECT", "AS", "CREATE", "DELETE", "FROM",
    "CHECKOUT", "MERGE", "INTO", "STRATEGY", "FAST_FORWARD", "THREE_WAY", "SQUASH",
    "DIFF", "AND", "OR", "MESSAGE", "PARENTS", "PATH", "PARENT", "CHILD", "ANCESTOR",
    "DESCENDANT", "NULL", "TRUE", "FALSE", "COLLECTION", "INDEX", "KEY", "DROP", "ON",
    "TYPE", "STRING", "INT", "BOOL", "BYTES"}

Name == Keywords \cup {"Ident"}

-----------------------------------------------------------------------------
(* Symbols and bytes *)

IsText(s) == s \in Seq(STRING) /\ \A i \in DOMAIN s : s[i] # NoSymbol

At(s, i) == IF i \in DOMAIN s THEN s[i] ELSE NoSymbol

WidthOf(c) == IF c \in DOMAIN Width THEN Width[c] ELSE 1
UpperOf(c) == IF c \in DOMAIN Upper THEN Upper[c] ELSE c

\* The bytes of a text: source.len().
Bytes(s) ==
    LET sum[n \in 0 .. Len(s)] == IF n = 0 THEN 0 ELSE sum[n - 1] + WidthOf(s[n])
    IN  sum[Len(s)]

\* Mutant: characters are counted instead of bytes.
CountedCharacters(s) == [i \in 1 .. Len(s) + 1 |-> i - 1]

CharIndices(s) ==
    LET start[i \in 1 .. Len(s) + 1] == IF i = 1 THEN 0 ELSE start[i - 1] + WidthOf(s[i - 1])
    IN  start

\* source[from..to].
Slice(from, to) ==
    SubSeq(src, CHOOSE i \in DOMAIN offsets : offsets[i] = from,
           (CHOOSE i \in DOMAIN offsets : offsets[i] = to) - 1)

\* The first position from i on that is not in the class C.
RunEnd(s, i, C) ==
    CHOOSE e \in i .. Len(s) + 1 : At(s, e) \notin C /\ \A j \in i .. e - 1 : At(s, j) \in C

-----------------------------------------------------------------------------
(* next_token: what is read at position i, and where it ends *)

Read(k, v, next) == [ok |-> TRUE, k |-> k, v |-> v, next |-> next]
NoToken          == [ok |-> FALSE]

\* The first position after the line of i.
LineEnd(s, i) ==
    LET ends == {j \in i .. Len(s) : s[j] = "\n"} IN IF ends = {} THEN Len(s) + 1 ELSE Min(ends) + 1

\* skip_whitespace_and_comments: blanks, then a comment and what follows it.
Skip(s, i) ==
    LET from[j \in 1 .. Len(s) + 1] ==
            LET e == RunEnd(s, j, Blank)
            IN  IF At(s, e) = "-" /\ At(s, e + 1) = "-" THEN from[LineEnd(s, e + 2)] ELSE e
    IN  from[i]

LexSymbol(s, i) ==
    LET ds == {d \in Double : d.first = At(s, i) /\ d.second = At(s, i + 1)}
    IN  IF ds # {} THEN Read((CHOOSE d \in ds : TRUE).k, <<>>, i + 2)
        ELSE IF At(s, i) \in Single THEN Read(At(s, i), <<>>, i + 1)
        ELSE NoToken

Unescape(c) ==
    CASE c = "n" -> "\n" [] c = "t" -> "\t" [] c = "r" -> "\r" [] OTHER -> c

\* The character c of a string, and what the rest was read as.
Push(c, t) == IF t.ok THEN Read(t.k, <<c>> \o t.v, t.next) ELSE NoToken

\* lex_string, after the opening quote.
LexString(s, i) ==
    LET rest[j \in 1 .. Len(s) + 1] ==
            IF At(s, j) = NoSymbol \/ (At(s, j) = "\\" /\ At(s, j + 1) = NoSymbol) THEN NoToken
            ELSE IF At(s, j) = "\"" THEN Read("String", <<>>, j + 1)
            ELSE IF At(s, j) = "\\" THEN Push(Unescape(At(s, j + 1)), rest[j + 2])
            ELSE Push(At(s, j), rest[j + 1])
    IN  rest[i]

NumberText(digits) == FoldLeft(LAMBDA n, c : 10 * n + NumberOf[c], 0, digits)

\* A float keeps its sign, its whole part and its fraction; the zeros at the
\* end of the fraction make no difference to an f64.
Float(neg, whole, frac) ==
    LET kept == {j \in DOMAIN frac : frac[j] # "0"}
    IN  <<neg, whole, IF kept = {} THEN <<>> ELSE SubSeq(frac, 1, Max(kept))>>

IsFloat(s, e) == At(s, e) = "." /\ At(s, e + 1) \in Digit

LexNumber(s, i) ==
    LET e     == RunEnd(s, i, Digit)
        whole == NumberText(SubSeq(s, i, e - 1))
        f     == RunEnd(s, e + 1, Digit)
    IN  IF IsFloat(s, e) THEN Read("Float", Float(FALSE, whole, SubSeq(s, e + 1, f - 1)), f)
        ELSE IF whole =< MaxInt THEN Read("Int", whole, e)
        ELSE NoToken

KeywordOrIdent(text) ==
    LET word == FoldLeft(LAMBDA w, c : w \o UpperOf(c), "", text)
    IN  IF word \in Keywords THEN word ELSE "Ident"

LexIdentOrKeyword(s, i) ==
    LET e    == RunEnd(s, i, WordSymbol)
        text == SubSeq(s, i, e - 1)
    IN  Read(KeywordOrIdent(text), text, e)

LexAt(s, i) ==
    IF At(s, i) = NoSymbol THEN Read("Eof", <<>>, i)
    ELSE IF At(s, i) = "\"" THEN LexString(s, i + 1)
    ELSE IF At(s, i) \in Digit THEN LexNumber(s, i)
    ELSE IF At(s, i) \in Letter THEN LexIdentOrKeyword(s, i)
    ELSE LexSymbol(s, i)

\* Lexer::new.
Open ==
    /\ offsets = CharIndices(src)
    /\ pos = 1
    /\ tokens = <<>>
    /\ phase = "lex"

\* One turn of the loop of tokenize.
NextToken ==
    /\ phase = "lex"
    /\ LET i == Skip(src, pos)
           t == LexAt(src, i)
       IN  IF t.ok
           THEN /\ tokens' = Append(tokens, [k |-> t.k, v |-> t.v,
                                             offset |-> offsets[i],
                                             end    |-> offsets[t.next]])
                /\ pos' = t.next
                /\ phase' = IF t.k = "Eof" THEN "parse" ELSE "lex"
           ELSE /\ phase' = "error"
                /\ UNCHANGED <<pos, tokens>>
    /\ UNCHANGED <<src, offsets>>

\* The tokenizer alone, on any source.
LexSpec == IsText(src) /\ Open /\ [][NextToken]_lexVars

-----------------------------------------------------------------------------
(* Properties *)

\* Blanks and comments: every other symbol is behind two dashes on its line.
OnlyBlanks(s) ==
    \A i \in DOMAIN s : s[i] \notin Blank =>
        \E j \in 1 .. i : /\ At(s, j) = "-" /\ At(s, j + 1) = "-"
                          /\ \A k \in j .. i : s[k] # "\n"

\* The parser takes names from the source by the byte spans of their tokens
\* (expect_ident_or_keyword_as_ident, parser.rs:841) and the program is what
\* the tokens say.  So spans follow one another, cover every symbol that is
\* neither a blank nor in a comment, no matter how many bytes the symbols
\* before them have, and a word's span holds the word.
SpansTileSource ==
    tokens # <<>> =>
        LET t      == Last(tokens)
            before == IF Len(tokens) = 1 THEN 0 ELSE tokens[Len(tokens) - 1].end
        IN  /\ before =< t.offset /\ t.offset =< t.end
            /\ OnlyBlanks(Slice(before, t.offset))
            /\ t.k = "Eof" => t.end = Bytes(src)
            /\ t.k \in Name => Slice(t.offset, t.end) = t.v

=============================================================================
