------------------------------ MODULE Language ------------------------------
(***************************************************************************)
(* From a source text to its effects: the lexer, the parser of scripts or   *)
(* of migrations, the engine, and the script that `epochs commit --set`     *)
(* makes of its arguments (epochs-cli/src/main.rs).                         *)
(*                                                                          *)
(* The reference is a printer, which writes a statement the way             *)
(* LANGUAGE.md describes it, with as few parentheses as the precedence of   *)
(* the operators allows: what a program means is what it was printed from.  *)
(***************************************************************************)
EXTENDS Ddl, Exec

CONSTANT
    Jobs      \* [kind, src, want]: a source and what it was printed from

VARIABLES
    job,      \* the job that src comes from
    turns     \* the turns that the loops have made

vars == <<job, turns, src, offsets, pos, tokens, phase, at, stmts, store, answers>>

-----------------------------------------------------------------------------
(* epochs commit *)

\* str::replace.
Replace(text, c, by) ==
    FlattenSeq([i \in DOMAIN text |-> IF text[i] = c THEN by ELSE <<text[i]>>])

\* Mutant: the backslashes of the escaped quotes are escaped again.
EscapeSwapped(text) == Replace(Replace(text, "\"", <<"\\", "\"">>), "\\", <<"\\", "\\">>)

Escape(text) == Replace(Replace(text, "\\", <<"\\", "\\">>), "\"", <<"\\", "\"">>)

Quoted(text) == <<"\"">> \o Escape(text) \o <<"\"">>

\* split_once('='): the key and the value of --set, or nothing.
ParseKv(pair) ==
    LET eqs == {i \in DOMAIN pair : pair[i] = "="}
    IN  IF eqs = {} \/ Min(eqs) = 1 THEN <<>>
        ELSE <<SubSeq(pair, 1, Min(eqs) - 1), SubSeq(pair, Min(eqs) + 1, Len(pair))>>

\* The script of cmd_commit for the arguments --set and -m.
CommitScript(set, msg) ==
    LET entry(i) == ParseKv(set[i])[1] \o <<":", " ">> \o Quoted(ParseKv(set[i])[2])
        entries  == [i \in DOMAIN set |-> IF i = 1 THEN entry(i) ELSE <<",", " ">> \o entry(i)]
    IN  <<"COMMIT", " ", "{", " ">> \o FlattenSeq(entries) \o
        <<" ", "}", " ", "MESSAGE", " ">> \o Quoted(msg) \o <<";">>

-----------------------------------------------------------------------------
(* The printer: a statement as a sequence of words.  Where full is set, what  *)
(* may be left out is written.                                                *)

W(c)   == <<<<c>>>>
Str(t) ==
    <<<<"\"">> \o FlattenSeq([i \in DOMAIN t |->
                                IF t[i] \in {"\"", "\\"} THEN <<"\\", t[i]>> ELSE <<t[i]>>]) \o <<"\"">>>>

\* The words of list[1], comma, list[2] ...
List(P(_), list) ==
    FlattenSeq([i \in DOMAIN list |-> IF i = 1 THEN P(list[i]) ELSE W(",") \o P(list[i])])

Opt(k, P(_), o) == IF o = <<>> THEN <<>> ELSE W(k) \o P(o[1])

PTarget(t) ==
    CASE t[1] = "Head"   -> W("HEAD")
      [] t[1] = "Branch" -> W("BRANCH") \o <<t[2]>>
      [] t[1] = "Tag"    -> W("TAG") \o Str(t[2])
      [] t[1] = "Commit" -> W("COMMIT") \o Str(t[2])

Level(e) ==
    CASE e[1] # "Binary" -> 4 [] e[2] = "OR" -> 1 [] e[2] = "AND" -> 2 [] OTHER -> 3

RECURSIVE PExpr(_, _)
PMap(m) ==
    W("{") \o List(LAMBDA k : <<k>> \o W(":") \o PExpr(m[k], 1), SetToSeq(DOMAIN m)) \o W("}")

PExpr(e, min) ==
    LET number(neg, text) == (IF neg THEN W("-") ELSE <<>>) \o <<text>>
        words ==
            CASE e[1] = "Null"     -> W("NULL")
              [] e[1] = "Bool"     -> W(IF e[2] THEN "TRUE" ELSE "FALSE")
              [] e[1] = "Int"      -> number(e[2] < 0, Decimal(IF e[2] < 0 THEN -e[2] ELSE e[2]))
              [] e[1] = "Float"    -> number(e[2][1], Decimal(e[2][2]) \o <<".">> \o e[2][3])
              [] e[1] = "String"   -> Str(e[2])
              [] e[1] = "Map"      -> PMap(e[2])
              [] e[1] = "Variable" -> <<e[2]>>
              [] e[1] = "Property" -> PExpr(e[2], 4) \o W(".") \o <<e[3]>>
              [] e[1] = "Binary"   -> PExpr(e[3], Level(e)) \o (IF e[2] = "!=" THEN <<<<"!", "=">>>> ELSE W(e[2]))
                                          \o PExpr(e[4], Level(e) + 1)
    IN  IF Level(e) < min THEN W("(") \o words \o W(")") ELSE words

PHops(h) ==
    CASE h[1] = "Any"   -> W("*")
      [] h[1] = "Exact" -> W("*") \o <<Decimal(h[2])>>
      [] h[1] = "Range" -> W("*") \o (IF h[2] = <<>> THEN <<>> ELSE <<Decimal(h[2][1])>>) \o <<<<".", ".">>>>
                                  \o (IF h[3] = <<>> THEN <<>> ELSE <<Decimal(h[3][1])>>)

PEdge(e, full) ==
    LET out  == e.dir = "Outgoing"
        type == IF full THEN W(":") \o W(e.type)
                ELSE IF e.type = (IF out THEN "CHILD" ELSE "PARENT") THEN <<>> ELSE W(e.type)
        body == type \o (IF e.hops = <<>> THEN <<>> ELSE PHops(e.hops[1]))
    IN  CASE out /\ body = <<>>  -> <<<<"-", ">">>>>
          [] ~out /\ body = <<>> -> <<<<"<", "-">>>>
          [] out /\ body # <<>>  -> W("-") \o W("[") \o body \o W("]") \o <<<<"-", ">">>>>
          [] OTHER               -> <<<<"<", "-">>>> \o W("[") \o body \o W("]") \o W("-")

PNode(n) ==
    W("(") \o n.var \o (IF n.label = <<>> THEN <<>> ELSE W(":") \o n.label)
           \o (IF n.props = <<>> THEN <<>> ELSE PMap(n.props)) \o W(")")

PPattern(p, full) ==
    FlattenSeq([i \in DOMAIN p |-> IF i % 2 = 1 THEN PNode(p[i]) ELSE PEdge(p[i], full)])

PItem(i) == PExpr(i.expr, 1) \o Opt("AS", LAMBDA a : <<a>>, i.alias)

PField(f) == <<f[1]>> \o W(f[2])

Words(s, full) ==
    CASE s.s = "Query"    -> Opt("USE", PTarget, s.use)
                             \o Opt("MATCH", LAMBDA m : List(LAMBDA p : PPattern(p, full), m), s.match)
                             \o Opt("TRAVERSE", LAMBDA t : W(t[1]) \o W("(") \o List(PTarget, t[2]) \o W(")"), s.traverse)
                             \o Opt("WHERE", LAMBDA e : PExpr(e, 1), s.where)
                             \o Opt("SELECT", LAMBDA is : List(PItem, is), s.select)
      [] s.s = "Commit"   -> W("COMMIT") \o PMap(s.payload) \o Opt("MESSAGE", Str, s.message)
                             \o Opt("PARENTS", LAMBDA ps : W("[") \o List(PTarget, ps) \o W("]"), s.parents)
      [] s.s = "Create"   -> W("CREATE") \o W("BRANCH") \o <<s.name>> \o Opt("FROM", PTarget, s.from)
      [] s.s = "Delete"   -> W("DELETE") \o W("BRANCH") \o Str(s.name)
      [] s.s = "Checkout" -> W("CHECKOUT") \o PTarget(s.target)
      [] s.s = "Merge"    -> W("MERGE") \o PTarget(s.source) \o W("INTO") \o PTarget(s.into)
                             \o (IF ~full /\ s.strategy = "FAST_FORWARD" THEN <<>> ELSE W("STRATEGY") \o W(s.strategy))
      [] s.s = "Diff"     -> W("DIFF") \o PTarget(s.left) \o W("AND") \o PTarget(s.right)
                             \o Opt("PATH", Str, s.path)
      [] s.s = "CreateCollection" -> W("CREATE") \o W("COLLECTION") \o <<s.name>> \o W("KEY") \o List(PField, s.keys)
      [] s.s = "CreateIndex" -> W("CREATE") \o W("INDEX") \o W("ON") \o <<s.collection>> \o
                                (IF ~full /\ s.type = "STRING" THEN W("(") \o <<s.path>> \o W(")")
                                 ELSE W("PATH") \o Str(s.path) \o W("TYPE") \o W(s.type))
      [] s.s = "DropIndex" -> W("DROP") \o W("INDEX") \o W("ON") \o <<s.collection>> \o
                              (IF full THEN W("PATH") \o Str(s.path) ELSE W("(") \o <<s.path>> \o W(")"))

\* Words next to one another: with the separator sep or, where it is empty,
\* a blank between two words of letters and digits.
Spell(words, sep) ==
    LET wordy(c) == c \in WordSymbol
        join(text, w) ==
            IF text = <<>> THEN w
            ELSE IF sep # <<>> THEN text \o sep \o w
            ELSE IF wordy(Last(text)) /\ wordy(Head(w)) THEN text \o <<" ">> \o w
            ELSE text \o w
    IN  FoldLeft(join, <<>>, words)

\* Where no semicolon is needed: t begins with a clause that s cannot take.
FirstClause(t) == IF t.s # "Query" THEN 0 ELSE
    Min({i \in 1..5 : <<t.use, t.match, t.traverse, t.where, t.select>>[i] # <<>>})
LastClause(s) == IF s.s # "Query" THEN 5 ELSE
    Max({i \in 1..5 : <<s.use, s.match, s.traverse, s.where, s.select>>[i] # <<>>})
NeedsSemicolon(s, t) == FirstClause(t) > LastClause(s)

\* A script of the statements, with semicolons or with as few as possible.
Script(ss, full, semicolons, sep) ==
    Spell(FlattenSeq([i \in DOMAIN ss |->
              Words(ss[i], full) \o
              (IF semicolons \/ (i < Len(ss) /\ NeedsSemicolon(ss[i], ss[i + 1])) THEN W(";") ELSE <<>>)]), sep)

-----------------------------------------------------------------------------
(* The specification *)

Init ==
    /\ job \in Jobs
    /\ turns = 0
    /\ src = job.src
    /\ Open
    /\ at = 1
    /\ stmts = <<>>
    /\ store = InitStore
    /\ answers = <<>>

Turn == turns' = turns + 1

Lex == NextToken /\ Turn /\ UNCHANGED <<job, at, stmts, store, answers>>

ParseScriptStep ==
    /\ job.kind # "migration"
    /\ ParseScript(IF job.kind \in {"run", "cli"} THEN "run" ELSE "done")
    /\ Turn
    /\ UNCHANGED <<job, store, answers>>

ParseMigrationStep ==
    /\ job.kind = "migration"
    /\ ParseMigration
    /\ Turn
    /\ UNCHANGED <<job, store, answers>>

Run == Execute /\ Turn /\ UNCHANGED job

\* The answer has been given.
Finished == phase \in {"done", "error"} /\ UNCHANGED vars

Next == Lex \/ ParseScriptStep \/ ParseMigrationStep \/ Run \/ Finished

Spec == Init /\ [][Next]_vars

-----------------------------------------------------------------------------
(* Properties *)

\* Every source gets an answer: the loops of the lexer, the parsers and the
\* engine (lexer.rs:183, parser.rs:27, ddl.rs:65, engine.rs:75) take a symbol,
\* a token or a statement in every turn but their last, and so end in time.
EndsInTime ==
    turns =< (Len(src) + 1) + (Len(tokens) + 1) + (Len(stmts) + 1)

\* A script or a migration means the statements it was printed from, whatever
\* the spacing, the comments and the optional parts: precedence and
\* associativity, names that are keywords, numbers next to dots, and where a
\* statement ends when the semicolon is left out (parse_script, parser.rs:22;
\* parse_migration, ddl.rs:61).  A keyword is no name only behind the BRANCH or
\* TAG of a target, where parse_target_ref (parser.rs:652, 669) refuses every one
\* of them, although LANGUAGE.md promises them "when a name is expected".
SourceMeansItsStatements ==
    /\ job.kind \in {"script", "run", "migration"} =>
        /\ phase = "error" => job.kind = "run"
        /\ phase \in {"run", "done", "error"} => stmts = job.want
    /\ job.kind = "refused" => phase # "done"

\* What `epochs commit --set k=v -m m` was given is what is stored, to the
\* character: quotes, backslashes, newlines, dashes and keywords in a value or
\* in the message are not read as EpochQL (main.rs:218).
CommitIsVerbatim ==
    job.kind = "cli" =>
        /\ phase # "error"
        /\ phase = "done" =>
               LET c == store.commits[store.tips[Main]]
               IN  /\ c.message = job.want.message
                   /\ DOMAIN c.doc = {kv[1] : kv \in ToSet(job.want.set)}
                   /\ \A i \in DOMAIN job.want.set :
                          (\A j \in DOMAIN job.want.set : j > i => job.want.set[j][1] # job.want.set[i][1])
                              => c.doc[job.want.set[i][1]] = job.want.set[i][2]

Answer(n, field) == n \in DOMAIN answers /\ field \in DOMAIN answers[n]

Ask(use, match, where) ==
    [s |-> "Query", use |-> use, match |-> match, traverse |-> <<>>, where |-> where, select |-> <<>>]
PropertyIs(var, key, lit) == <<"Binary", "=", <<"Property", <<"Variable", var>>, key>>, lit>>

\* A text or a whole number that a COMMIT put under a name is found by that name
\* and that literal, although it is stored as text, and a FLOAT, BOOL or NULL
\* never is: no literal of these types equals a text (to_storage_bytes,
\* values_eq).  The names of the commit's own properties are taken.
CommittedIsFound ==
    \A n \in DOMAIN stmts : stmts[n].s = "Commit" /\ Answer(n, "commit") =>
        \A k \in DOMAIN stmts[n].payload \ Reserved :
            LET lit == stmts[n].payload[k]
            IN  lit[1] \in {"String", "Int", "Float", "Bool", "Null"} =>
                    EvalExpr(PropertyIs(<<"_">>, k, lit), [x \in {<<"_">>} |-> answers[n].commit])
                        = Value(Bool(lit[1] \in {"String", "Int"}))

\* The parts of a dotted key.
Parts(key) ==
    LET dots == {i \in DOMAIN key : key[i] = "."} \cup {0, Len(key) + 1}
        cuts == SetToSortSeq(dots, LAMBDA i, j : i < j)
    IN  [i \in 1 .. Len(cuts) - 1 |-> SubSeq(key, cuts[i] + 1, cuts[i + 1] - 1)]

\* The part of a document under a path.
Under(doc, path) ==
    [k \in {k \in DOMAIN doc : \A i \in DOMAIN path : IsPrefix(Parts(path[i]), Parts(k))} |-> doc[k]]

\* The lines of DIFF say all that differs under the path and nothing else:
\* applied to the left document they give the right one.
DiffIsExact ==
    LET n == Len(answers)
    IN  Answer(n, "lines") =>
        LET doc(t)  == Under(store.commits[ResolveTargetRef(t).v].doc, stmts[n].path)
            old     == doc(stmts[n].left)
            lines   == answers[n].lines
            changed == {l[1] : l \in lines}
            line(k) == CHOOSE l \in lines : l[1] = k
        IN  /\ \A l \in lines : l[2] = (IF l[1] \in DOMAIN old THEN <<old[l[1]]>> ELSE <<>>) /\ l[2] # l[3]
            /\ doc(stmts[n].right) =
                   [k \in (DOMAIN old \ changed) \cup {k \in changed : line(k)[3] # <<>>} |->
                       IF k \in changed THEN line(k)[3][1] ELSE old[k]]

\* What the COMMITs of the script put where.
Payloads == {stmts[n].payload : n \in {m \in DOMAIN stmts : stmts[m].s = "Commit"}}
Puts     == UNION {{<<k, m[k]>> : k \in DOMAIN m} : m \in Payloads}

\* The commits that the rows of a query are about.
FoundBy(ask) == UNION {DOMAIN r.v : r \in {r \in {ExecQuery(ask)} : r.ok}}

\* Three ways to ask for a property.  MATCH with a filter finds the commits
\* that USE with the same filter finds, a filter that fails (an unbound
\* variable) finding nothing; MATCH with the property in the pattern finds no
\* commit that the filter does not (exec_query, try_bind_node).
AsksAgree ==
    phase = "done" /\ job.kind = "run" => \A put \in Puts :
        LET x        == <<"n">>
            node(ps) == <<<<<<[var |-> <<x>>, label |-> <<>>, props |-> ps]>>>>>>
            matching(v) == Ask(<<>>, node(<<>>), <<PropertyIs(v, put[1], put[2])>>)
            using(c, v) == Ask(<<<<"Commit", HashText[c]>>>>, <<>>, <<PropertyIs(v, put[1], put[2])>>)
            pattern  == Ask(<<>>, node([k \in {put[1]} |-> put[2]]), <<>>)
            names    == {x, <<"_">>, <<"b">>}
            asks     == {pattern} \cup {matching(v) : v \in names}
                            \cup {using(c, v) : c \in DOMAIN store.commits, v \in names}
        IN  \A found \in {[ask \in asks |-> FoundBy(ask)]} :
            LET byUse(v) == {c \in DOMAIN store.commits : found[using(c, v)] # {}}
            IN  /\ found[matching(x)] = byUse(<<"_">>)
                /\ found[matching(<<"b">>)] = byUse(<<"b">>)
                /\ found[pattern] \subseteq found[matching(x)]

=============================================================================
