-------------------------------- MODULE Exec --------------------------------
(***************************************************************************)
(* What the EpochQL engine does with the values of a script                 *)
(* (epochql/src/exec/engine.rs, value.rs): COMMIT writes the literals of    *)
(* its payload as texts under dotted keys, WHERE, SELECT and the properties *)
(* of a pattern read them back, DIFF compares them.                         *)
(*                                                                          *)
(* A document is what the HAMT of a commit holds: a function from keys to   *)
(* texts.  HEAD names one branch here; the other version statements, paths  *)
(* of more than one node, traversals and indexes are the subjects of        *)
(* Server, DagQuery and Schema.                                             *)
(***************************************************************************)
EXTENDS Parser

CONSTANTS
    Main,       \* the branch HEAD names
    HashText    \* the hash of the n-th commit, in hexadecimal

VARIABLES
    store,      \* [commits, tips]: what is stored
    answers     \* the results of the statements executed so far

-----------------------------------------------------------------------------
(* Values.  A literal expression is the value it stands for. *)

Value(v) == [ok |-> TRUE, v |-> v]
Bool(b)  == <<"Bool", b>>
Text(t)  == <<"String", t>>
Null     == <<"Null">>

RECURSIVE IsLiteral(_)
IsLiteral(e) ==
    \/ e[1] \in {"Null", "Bool", "Int", "Float", "String"}
    \/ e[1] = "Map" /\ \A k \in DOMAIN e[2] : IsLiteral(e[2][k])

EvalLiteral(e) == IF IsLiteral(e) THEN Value(e) ELSE Fail

RECURSIVE Decimal(_)
Decimal(n) == IF n < 10 THEN <<ToString(n)>> ELSE Append(Decimal(n \div 10), ToString(n % 10))

Signed(neg, text) == IF neg THEN <<"-">> \o text ELSE text

\* to_storage_bytes; a map never gets here.
ToStorageBytes(v) ==
    CASE v[1] = "Null"   -> <<>>
      [] v[1] = "Bool"   -> <<IF v[2] THEN "true" ELSE "false">>
      [] v[1] = "Int"    -> Signed(v[2] < 0, Decimal(IF v[2] < 0 THEN -v[2] ELSE v[2]))
      [] v[1] = "Float"  -> LET f == v[2] IN Signed(f[1], Decimal(f[2]) \o
                                (IF f[3] = <<>> THEN <<>> ELSE <<".">> \o f[3]))
      [] v[1] = "String" -> v[2]

FromBytes(text) == Text(text)

IsTruthy(v) ==
    CASE v[1] = "Null"            -> FALSE
      [] v[1] = "Bool"            -> v[2]
      [] v[1] = "Int"             -> v[2] # 0
      [] v[1] = "Float"           -> v[2][2] # 0 \/ v[2][3] # <<>>
      [] v[1] \in {"String", "Map"} -> v[2] # <<>>

\* str::parse::<i64>, as a set of at most one number.
ParseI64(t) ==
    LET signed == t # <<>> /\ t[1] \in {"-", "+"}
        digits == IF signed THEN Tail(t) ELSE t
        n      == NumberText(digits)
        value  == IF signed /\ t[1] = "-" THEN -n ELSE n
    IN  IF digits # <<>> /\ ToSet(digits) \subseteq Digit
        THEN {value} \cap (-MaxInt - 1 .. MaxInt) ELSE {}

UpperText(t) == [i \in DOMAIN t |-> UpperOf(t[i])]

\* A short hash on one side: at least six bytes that begin the other side.
ShortHashOf(x, y) == Bytes(x) >= 6 /\ IsPrefix(UpperText(x), UpperText(y))

Zero(f) == f[2] = 0 /\ f[3] = <<>>

\* Mutant: a number is no text.
ValuesEqByType(a, b) == a = b

\* The tolerance of f64::EPSILON for two floats is below the digits that the
\* literals of the model have.
ValuesEq(a, b) ==
    \/ a = b /\ a[1] # "Map"
    \/ a[1] = "Float"  /\ b[1] = "Float"  /\ Zero(a[2]) /\ Zero(b[2])
    \/ a[1] = "String" /\ b[1] = "String" /\ (ShortHashOf(a[2], b[2]) \/ ShortHashOf(b[2], a[2]))
    \/ a[1] = "Int"    /\ b[1] = "String" /\ a[2] \in ParseI64(b[2])
    \/ a[1] = "String" /\ b[1] = "Int"    /\ b[2] \in ParseI64(a[2])

-----------------------------------------------------------------------------
(* Expressions over bindings, functions from variables to commits *)

Reserved == {<<"hash">>, <<"message">>, <<"timestamp">>, <<"root_hamt">>}

\* A commit's place in the history stands for its timestamp, and the text of
\* its document for the hash of its HAMT.
PropertyOf(n, key) ==
    LET c == store.commits[n]
    IN  CASE key = <<"hash">>      -> Text(HashText[n])
          [] key = <<"message">>   -> Text(c.message)
          [] key = <<"timestamp">> -> <<"Int", n>>
          [] key = <<"root_hamt">> -> Text(<<ToString(c.doc)>>)
          [] OTHER                 -> IF key \in DOMAIN c.doc THEN FromBytes(c.doc[key]) ELSE Null

Binary(op, l, r) ==
    CASE op = "="   -> Bool(ValuesEq(l, r))
      [] op = "!="  -> Bool(~ValuesEq(l, r))
      [] op = "AND" -> Bool(IsTruthy(l) /\ IsTruthy(r))
      [] op = "OR"  -> Bool(IsTruthy(l) \/ IsTruthy(r))

RECURSIVE EvalExpr(_, _)
EvalExpr(e, b) ==
    CASE e[1] \in {"Null", "Bool", "Int", "Float", "String"} -> Value(e)
      [] e[1] = "Map" ->
             LET vs == [k \in DOMAIN e[2] |-> EvalExpr(e[2][k], b)]
             IN  IF \A k \in DOMAIN vs : vs[k].ok
                 THEN Value(<<"Map", [k \in DOMAIN vs |-> vs[k].v]>>) ELSE Fail
      [] e[1] = "Variable" -> IF e[2] \in DOMAIN b THEN Value(Text(HashText[b[e[2]]])) ELSE Fail
      [] e[1] = "Property" /\ e[2][1] = "Variable" ->
             IF e[2][2] \in DOMAIN b THEN Value(PropertyOf(b[e[2][2]], e[3])) ELSE Fail
      [] e[1] = "Property" /\ e[2][1] # "Variable" ->
             Then(EvalExpr(e[2], b), LAMBDA o :
                 Value(IF o.v[1] = "Map" /\ e[3] \in DOMAIN o.v[2] THEN o.v[2][e[3]] ELSE Null))
      [] e[1] = "Binary" ->
             Then(EvalExpr(e[3], b), LAMBDA l :
             Then(EvalExpr(e[4], b), LAMBDA r : Value(Binary(e[2], l.v, r.v))))

-----------------------------------------------------------------------------
(* Queries.  A result is a function from the commit a row is about to the row. *)

ResolveTargetRef(t) ==
    CASE t[1] = "Head"   -> Value(store.tips[Main])
      [] t[1] = "Branch" -> IF t[2] \in DOMAIN store.tips THEN Value(store.tips[t[2]]) ELSE Fail
      [] t[1] = "Commit" -> LET ns == {n \in DOMAIN store.commits : HashText[n] = t[2]}
                            IN  IF ns = {} THEN Fail ELSE Value(Min(ns))
      [] t[1] = "Tag"    -> Fail

RECURSIVE Ancestors(_)
Ancestors(ns) ==
    LET more == ns \cup UNION {ToSet(store.commits[n].parents) : n \in ns}
    IN  IF more = ns THEN ns ELSE Ancestors(more)

\* Every commit that a branch or the context reaches.
Universe(context) == Ancestors({store.tips[x] : x \in DOMAIN store.tips} \cup {context})

\* project_rows, where select is present.
Project(items, b) ==
    LET vs == [i \in DOMAIN items |-> EvalExpr(items[i].expr, b)]
    IN  IF \A i \in DOMAIN vs : vs[i].ok THEN Value([i \in DOMAIN vs |-> vs[i].v]) ELSE Fail

Rows(found, Row(_)) ==
    IF \A n \in found : Row(n).ok THEN Value([n \in found |-> Row(n).v]) ELSE Fail

\* try_bind_node: the properties of the pattern are equal to the commit's as
\* values, which is stricter than `=`.
BindsNode(node, n) ==
    \A k \in DOMAIN node.props : PropertyOf(n, k) = node.props[k]

\* Mutant: a row whose filter fails is kept.
KeepsRowOnError(e, b) == LET r == EvalExpr(e, b) IN r.ok => IsTruthy(r.v)

\* A row of MATCH is kept where the filter says so; an error drops it.
KeepsRow(e, b) == LET r == EvalExpr(e, b) IN r.ok /\ IsTruthy(r.v)

\* MATCH of one pattern of one node with at most one property.
ExecMatch(q, context) ==
    LET node   == q.match[1][1][1]
        var    == IF node.var = <<>> THEN <<"_0">> ELSE node.var[1]
        b(n)   == [x \in {var} |-> n]
        found  == {n \in Universe(context) :
                     /\ BindsNode(node, n)
                     /\ \A i \in DOMAIN q.where : KeepsRow(q.where[i], b(n))}
    IN  IF \E k \in DOMAIN node.props : ~IsLiteral(node.props[k]) THEN Fail
        ELSE Rows(found, LAMBDA n : IF q.select = <<>> THEN Value(<<Text(HashText[n])>>)
                                    ELSE Project(q.select[1], b(n)))

\* Without MATCH the context commit is bound to _; an error of the filter is
\* the query's.
ExecContext(q, n) ==
    LET b == [x \in {<<"_">>} |-> n]
    IN  Then(IF q.where = <<>> THEN Value(Bool(TRUE)) ELSE EvalExpr(q.where[1], b), LAMBDA w :
            Rows(IF IsTruthy(w.v) THEN {n} ELSE {}, LAMBDA m :
                IF q.select # <<>> THEN Project(q.select[1], b)
                ELSE Value(<<Text(HashText[m]), Text(store.commits[m].message), <<"Int", m>>>>)))

ExecQuery(q) ==
    Then(ResolveTargetRef(IF q.use = <<>> THEN <<"Head">> ELSE q.use[1]), LAMBDA c :
        IF q.match # <<>> THEN ExecMatch(q, c.v) ELSE ExecContext(q, c.v))

-----------------------------------------------------------------------------
(* COMMIT, CREATE BRANCH and DIFF *)

\* push_payload_ops: the leaves of a value under dotted keys.
RECURSIVE Leaves(_, _)
Leaves(prefix, v) ==
    IF v[1] # "Map" THEN {<<prefix, ToStorageBytes(v)>>}
    ELSE UNION {Leaves(IF prefix = <<>> THEN k ELSE prefix \o <<".">> \o k, v[2][k]) : k \in DOMAIN v[2]}

\* The document with the leaves put over it.
PutLeaves(doc, leaves) ==
    [k \in DOMAIN doc \cup {l[1] : l \in leaves} |->
        IF \E l \in leaves : l[1] = k THEN (CHOOSE l \in leaves : l[1] = k)[2] ELSE doc[k]]

\* PARENTS [] is a panic, which ends the script as an error does.
ExecCommit(stmt) ==
    LET refs  == IF stmt.parents = <<>> THEN <<<<"Head">>>> ELSE stmt.parents[1]
        found == [i \in DOMAIN refs |-> ResolveTargetRef(refs[i])]
        ps    == [i \in DOMAIN found |-> found[i].v]
        doc   == PutLeaves(store.commits[ps[1]].doc, Leaves(<<>>, <<"Map", stmt.payload>>))
        msg   == IF stmt.message = <<>> THEN <<"commit">> ELSE stmt.message[1]
        n     == Len(store.commits) + 1
    IN  IF refs = <<>> \/ (\E i \in DOMAIN found : ~found[i].ok) \/ ~IsLiteral(<<"Map", stmt.payload>>)
        THEN Fail
        ELSE Value([out   |-> [commit |-> n],
                    store |-> [commits |-> Append(store.commits,
                                              [doc |-> doc, message |-> msg, parents |-> ps]),
                               tips    |-> [store.tips EXCEPT ![Main] = n]]])

ExecCreate(stmt) ==
    Then(ResolveTargetRef(IF stmt.from = <<>> THEN <<"Head">> ELSE stmt.from[1]), LAMBDA t :
        IF stmt.name \in DOMAIN store.tips THEN Fail
        ELSE Value([out   |-> [commit |-> t.v],
                    store |-> [store EXCEPT !.tips = Insert(@, stmt.name, t.v)]]))

\* Mutant: a path is a prefix of letters.
InPathByLetters(key, path) == IsPrefix(path, key)

InPath(key, path) == key = path \/ IsPrefix(path \o <<".">>, key)

\* The lines of a diff: the key, its old and its new text.
DiffLines(old, new, path) ==
    LET get(doc, k) == IF k \in DOMAIN doc THEN <<doc[k]>> ELSE <<>>
    IN  {<<k, get(old, k), get(new, k)>> :
            k \in {k \in DOMAIN old \cup DOMAIN new :
                      /\ \A i \in DOMAIN path : InPath(k, path[i])
                      /\ get(old, k) # get(new, k)}}

ExecDiff(stmt) ==
    Then(ResolveTargetRef(stmt.left), LAMBDA l :
    Then(ResolveTargetRef(stmt.right), LAMBDA r :
        Value([out   |-> [lines |-> DiffLines(store.commits[l.v].doc, store.commits[r.v].doc, stmt.path)],
               store |-> store])))

-----------------------------------------------------------------------------
(* Engine::execute: the statements in turn, until one fails *)

ExecStatement(stmt) ==
    CASE stmt.s = "Query"  -> Then(ExecQuery(stmt), LAMBDA r : Value([out |-> [rows |-> r.v], store |-> store]))
      [] stmt.s = "Commit" -> ExecCommit(stmt)
      [] stmt.s = "Create" -> ExecCreate(stmt)
      [] stmt.s = "Diff"   -> ExecDiff(stmt)

InitStore ==
    [commits |-> <<[doc |-> <<>>, message |-> <<"root">>, parents |-> <<>>]>>,
     tips    |-> [x \in {Main} |-> 1]]

Execute ==
    /\ phase = "run"
    /\ IF Len(answers) = Len(stmts) THEN phase' = "done" /\ UNCHANGED <<store, answers>>
       ELSE LET r == ExecStatement(stmts[Len(answers) + 1])
            IN  IF r.ok
                THEN answers' = Append(answers, r.v.out) /\ store' = r.v.store /\ UNCHANGED phase
                ELSE phase' = "error" /\ UNCHANGED <<store, answers>>
    /\ UNCHANGED <<src, offsets, pos, tokens, at, stmts>>

=============================================================================
