----------------------------- MODULE MCLanguage -----------------------------
(* Sources for Language: every short text over the characters that the lexer *)
(* treats differently, and programs printed from statements.                 *)
EXTENDS Language

MCWidth  == ("ee" :> 2) @@ ("abcdef" :> 6) @@ ("ABCDEFA" :> 7) @@ ("c1" :> 64) @@ ("c2" :> 64)
                @@ ("c3" :> 64) @@ ("c4" :> 64) @@ [k \in Keywords |-> 2]
MCUpper  == ("o" :> "O") @@ ("n" :> "N") @@ ("commit" :> "COMMIT") @@ ("abcdef" :> "ABCDEF")
MCLetter == Keywords \cup DOMAIN MCUpper \cup
            {"O", "N", "a", "b", "_", "main", "true", "false", "root", "hash", "ABCDEF", "ABCDEFA", "c1", "c2", "c3", "c4"}
MCHex    == {"a", "b", "abcdef", "ABCDEF", "ABCDEFA", "c1", "c2", "c3", "c4"}
MCHash   == <<<<"c1">>, <<"c2">>, <<"c3">>, <<"c4">>>>
MCMain   == <<"main">>

a == <<"a">>
b == <<"b">>
n == <<"n">>

-----------------------------------------------------------------------------
(* Characters *)

CharBound == 4
Chars == {"o", "n", "1", " ", "\n", "-", ">", "<", ".", "\"", "\\", "ee", ";", "!", "="}

LexJobs == {[kind |-> "lex", src |-> s, want |-> <<>>] : s \in UNION {[1..k -> Chars] : k \in 0..CharBound}}

-----------------------------------------------------------------------------
(* Expressions, to the third level of nesting *)

Ops   == {"OR", "AND", "=", "!="}
Bin(op, l, r) == <<"Binary", op, l, r>>
Atoms == {<<"Variable", a>>, <<"Int", 1>>}
Small == Atoms \cup {Bin(op, l, r) : op \in Ops, l \in Atoms, r \in Atoms}
Exprs == {Bin(op, l, r) : op \in Ops, l \in Small, r \in Small}
         \cup {<<"Null">>, <<"Bool", TRUE>>, <<"Bool", FALSE>>, <<"Int", -1>>, <<"Float", <<FALSE, 1, <<"1">>>>>>,
               <<"Float", <<TRUE, 0, <<"1">>>>>>, <<"String", <<>>>>, <<"String", <<"\"", "\\", "n", "\n", "ee">>>>,
               <<"Map", <<>>>>, <<"Variable", <<"commit">>>>,
               <<"Property", <<"Property", <<"Int", 1>>, <<"PATH">>>>, a>>,
               <<"Property", Bin("=", <<"Int", 1>>, <<"Int", 1>>), a>>,
               <<"Map", (a :> <<"Int", 1>>) @@ (b :> <<"Map", <<"HEAD">> :> Bin("OR", <<"Int", 1>>, <<"Variable", n>>)>>)>>}

Query(use, match, traverse, where, select) ==
    [s |-> "Query", use |-> use, match |-> match, traverse |-> traverse, where |-> where, select |-> select]
Where(e) == Query(<<>>, <<>>, <<>>, <<e>>, <<>>)

-----------------------------------------------------------------------------
(* Patterns and targets *)

HopSet == {<<>>, <<<<"Any">>>>, <<<<"Exact", 0>>>>}
          \cup {<<<<"Range", <<>>, <<11>>>>>>, <<<<"Range", <<1>>, <<>>>>>>, <<<<"Range", <<1>>, <<11>>>>>>}
Node(var, label, props) == [var |-> var, label |-> label, props |-> props]
Nodes == {Node(<<>>, <<>>, <<>>), Node(<<<<"CHILD">>>>, <<<<"commit">>>>, <<>>), Node(<<a>>, <<>>, b :> <<"Int", -1>>)}
Edges == {Edge(d, t, h) : d \in {"Outgoing", "Incoming"}, t \in EdgeTypes, h \in HopSet}
Patterns == {<<<<x>>>> : x \in Nodes}
            \cup {<<<<x, e, Node(<<n>>, <<>>, <<>>)>>>> : x \in Nodes, e \in Edges}
            \cup {<<<<Node(<<a>>, <<>>, <<>>), e, Node(<<>>, <<>>, <<>>), f, Node(<<b>>, <<>>, <<>>)>>, <<Node(<<a>>, <<>>, <<>>)>>>> :
                     e \in {Edge("Outgoing", "CHILD", <<>>), Edge("Incoming", "ANCESTOR", <<<<"Exact", 1>>>>)},
                     f \in {Edge("Incoming", "PARENT", <<>>), Edge("Outgoing", "CHILD", <<<<"Range", <<1>>, <<>>>>>>)}}
Targets == {<<"Head">>, <<"Branch", a>>, <<"Tag", <<"HEAD">>>>, <<"Commit", <<"c1">>>>, <<"Commit", <<"1", "a">>>>}

Queries ==
    {Query(<<t>>, <<>>, <<>>, <<>>, <<>>) : t \in Targets}
    \cup {Query(<<>>, <<p>>, <<>>, <<>>, <<>>) : p \in Patterns}
    \cup {Query(<<>>, <<>>, <<<<k, [i \in 1..Traversals[k] |-> t]>>>>, <<>>, <<>>) : k \in DOMAIN Traversals, t \in Targets}
    \cup {Query(<<>>, <<>>, <<>>, <<>>, <<<<[expr |-> e, alias |-> al], [expr |-> <<"Variable", b>>, alias |-> <<>>]>>>>) :
             e \in Small, al \in {<<>>, <<<<"SELECT">>>>}}

Versions ==
    {[s |-> "Commit", payload |-> m, message |-> msg, parents |-> ps] :
        m \in {<<>>, (a :> <<"Int", 1>>) @@ (<<"KEY">> :> <<"String", a>>)}, msg \in {<<>>, <<<<"\"", ";">>>>},
        ps \in {<<>>, <<<<>>>>, <<<<<<"Head">>, <<"Branch", b>>>>>>}}
    \cup {[s |-> "Create", name |-> x, from |-> f] : x \in {a, <<"PATH">>}, f \in {<<>>} \cup {<<t>> : t \in Targets}}
    \cup {[s |-> "Delete", name |-> x] : x \in {a, <<"a", " ", "b">>}}
    \cup {[s |-> "Checkout", target |-> t] : t \in Targets}
    \cup {[s |-> "Merge", source |-> t, into |-> <<"Branch", b>>, strategy |-> st] : t \in Targets, st \in Strategies}
    \cup {[s |-> "Diff", left |-> t, right |-> <<"Head">>, path |-> p] : t \in Targets, p \in {<<>>, <<<<"a", ".", "b">>>>}}

Singles == {<<s>> : s \in Queries \cup Versions \cup {Where(e) : e \in Exprs}}

\* Every kind of statement behind every other.
Kinds ==
    {Query(<<<<"Head">>>>, <<>>, <<>>, <<>>, <<>>), Query(<<>>, <<<<<<Node(<<a>>, <<>>, <<>>)>>>>>>, <<>>, <<>>, <<>>),
     Query(<<>>, <<>>, <<<<"ANCESTORS", <<<<"Head">>>>>>>>, <<>>, <<>>), Where(<<"Variable", a>>),
     Query(<<>>, <<>>, <<>>, <<>>, <<<<[expr |-> <<"Variable", a>>, alias |-> <<>>]>>>>),
     Query(<<<<"Head">>>>, <<>>, <<>>, <<<<"Variable", a>>>>, <<>>),
     [s |-> "Commit", payload |-> <<>>, message |-> <<>>, parents |-> <<>>],
     [s |-> "Create", name |-> a, from |-> <<>>], [s |-> "Delete", name |-> a], [s |-> "Checkout", target |-> <<"Head">>],
     [s |-> "Merge", source |-> <<"Head">>, into |-> <<"Head">>, strategy |-> "SQUASH"],
     [s |-> "Diff", left |-> <<"Head">>, right |-> <<"Head">>, path |-> <<>>]}
Pairs == {<<s, t>> : s \in Kinds, t \in Kinds}

Comment == <<"\n", "-", "-", "ee", "\"", ";", "\n">>
ScriptJobs ==
    {[kind |-> "script", src |-> Script(ss, f, FALSE, <<>>), want |-> ss] : ss \in Singles \cup Pairs, f \in BOOLEAN}
    \cup {[kind |-> "script", src |-> Script(ss, TRUE, TRUE, Comment), want |-> ss] : ss \in Pairs}

-----------------------------------------------------------------------------
(* Migrations *)

Ddls == {[s |-> "CreateCollection", name |-> x, keys |-> ks] : x \in {a, <<"KEY">>},
            ks \in {<<<<b, t>>>> : t \in Types} \cup {<<<<<<"a", ".", "b">>, "INT">>, <<<<"INDEX">>, "BOOL">>>>}}
        \cup {[s |-> "CreateIndex", collection |-> a, path |-> p, type |-> t] : p \in {b, <<"b", ".", "PATH">>}, t \in Types}
        \cup {[s |-> "DropIndex", collection |-> a, path |-> p] : p \in {b, <<"b", ".", "PATH">>}}
MigrationJobs ==
    {[kind |-> "migration", src |-> Script(<<s, t>>, f, sc, <<>>), want |-> <<s, t>>] :
        s \in Ddls, t \in Ddls, f \in BOOLEAN, sc \in BOOLEAN}

-----------------------------------------------------------------------------
(* epochs commit: every short value *)

ValueBound == 3
Values == UNION {[1..k -> {"n", "\"", "\\", "\n", "ee", "-", "="}] : k \in 0..ValueBound}
ShortValues == {v \in Values : Len(v) =< 1}
CliJob(kvs, msg) ==
    [kind |-> "cli", want |-> [set |-> kvs, message |-> msg],
     src |-> CommitScript([i \in DOMAIN kvs |-> kvs[i][1] \o <<"=">> \o kvs[i][2]], msg)]
CliJobs == {CliJob(<<<<a, v>>>>, v) : v \in Values}
           \cup {CliJob(<<<<<<"PATH">>, v>>, <<k, w>>>>, v) : k \in {b, <<"PATH">>}, v \in ShortValues, w \in ShortValues}

-----------------------------------------------------------------------------
(* Programs that are executed *)

Payload == {<<>>, a :> <<"String", <<"abcdef">>>>, a :> <<"String", <<"ABCDEFA">>>>, a :> <<"Int", -12>>,
            a :> <<"Bool", FALSE>>, a :> <<"Null">>, a :> <<"Float", <<FALSE, 1, <<"1">>>>>>,
            (a :> <<"Map", b :> <<"Int", 0>>>>) @@ (<<"a", "b">> :> <<"Int", 30>>),
            <<"MESSAGE">> :> <<"Variable", a>>}
Puts1 == {[s |-> "Commit", payload |-> m, message |-> <<>>, parents |-> <<>>] : m \in Payload}
Asks  == {Query(<<>>, <<>>, <<>>, <<>>, <<<<[expr |-> <<"Property", <<"Variable", <<"_">>>>, a>>, alias |-> <<>>]>>>>),
          Query(<<<<"Branch", b>>>>, <<<<<<Node(<<n>>, <<>>, <<>>)>>>>>>, <<>>,
                <<Bin("OR", <<"Property", <<"Variable", n>>, a>>, <<"Null">>)>>, <<<<[expr |-> <<"Map", a :> <<"Variable", n>>>>, alias |-> <<>>]>>>>),
          Query(<<<<"Tag", b>>>>, <<>>, <<>>, <<>>, <<>>)}
Diffs == {[s |-> "Diff", left |-> l, right |-> r, path |-> p] :
            l \in {<<"Branch", b>>, <<"Commit", <<"c1">>>>}, r \in {<<"Head">>}, p \in {<<>>, <<a>>}}
Branch == [s |-> "Create", name |-> b, from |-> <<>>]
RunJobs == {[kind |-> "run", src |-> Script(ss, FALSE, TRUE, <<>>), want |-> ss] :
                ss \in {<<p, Branch, q, x>> : p \in Puts1, q \in Puts1, x \in Asks \cup Diffs}}

-----------------------------------------------------------------------------
(* Every keyword as a name: of a branch that is created, a variable and a      *)
(* label, and behind BRANCH and TAG in a target                                *)

NameJobs ==
    {[kind |-> "script", src |-> Script(<<s>>, FALSE, FALSE, <<>>), want |-> <<s>>] :
        s \in {[s |-> "Create", name |-> <<k>>, from |-> <<>>] : k \in Keywords}
              \cup {Query(<<>>, <<<<<<Node(<<<<k>>>>, <<<<k>>>>, <<>>)>>>>>>, <<>>, <<>>, <<>>) : k \in Keywords}}
    \cup {[kind |-> "refused", src |-> Spell(<<<<w>>, <<t>>, <<k>>>>, <<>>), want |-> <<>>] :
              w \in {"USE", "CHECKOUT"}, t \in {"BRANCH", "TAG"}, k \in Keywords}

MCJobs == LexJobs \cup ScriptJobs \cup MigrationJobs \cup CliJobs \cup RunJobs \cup NameJobs
=============================================================================
