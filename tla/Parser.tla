------------------------------- MODULE Parser -------------------------------
(***************************************************************************)
(* The EpochQL parser (epochql/src/parser.rs, ast.rs): recursive descent    *)
(* over the tokens of the lexer.                                            *)
(*                                                                          *)
(* A parser is an operator that takes the index of the current token and    *)
(* returns [ok, v, p]: the tree and the index of the next token.  Errors    *)
(* carry nothing: their message and place are left out.  An Option is a     *)
(* sequence of at most one element.  Expressions and targets are tuples     *)
(* that begin with the name of their variant, statements are records.       *)
(***************************************************************************)
EXTENDS Lexer

CONSTANTS
    MaxU32,   \* u32::MAX
    HexWord   \* the symbols of hexadecimal digits that are no digits

VARIABLES
    at,       \* Parser.pos: the current token
    stmts     \* the statements parsed so far

-----------------------------------------------------------------------------
(* Tokens *)

K(p) == tokens[p].k
V(p) == tokens[p].v

\* bump: the last token, Eof, is never left.
Bump(p) == IF p < Len(tokens) THEN p + 1 ELSE p

Ok(v, p)     == [ok |-> TRUE, v |-> v, p |-> p]
Fail         == [ok |-> FALSE]
Then(r, F(_)) == IF r.ok THEN F(r) ELSE r
Return(r, v) == IF r.ok THEN Ok(v, r.p) ELSE r

Expect(k, p) == IF K(p) = k THEN Ok(V(p), Bump(p)) ELSE Fail

\* The kinds of ks in this order, with the parsers between them left out.
ExpectAll(ks, p) ==
    FoldLeft(LAMBDA r, k : Then(r, LAMBDA q : Expect(k, q.p)), Ok(<<>>, p), ks)

LooksLikeIdent(p) == K(p) \in Name

\* expect_ident and expect_ident_or_keyword_as_ident: the source's spelling.
ExpectIdent(p) ==
    IF LooksLikeIdent(p) THEN Ok(Slice(tokens[p].offset, tokens[p].end), Bump(p)) ELSE Fail
ExpectString(p) == Expect("String", p)
ExpectName(p)   == IF K(p) = "String" THEN ExpectString(p) ELSE ExpectIdent(p)
ExpectU32(p)    == IF K(p) = "Int" /\ V(p) =< MaxU32 THEN Expect("Int", p) ELSE Fail

\* An element, and more of them as long as commas follow.
RECURSIVE Commas(_, _, _)
Commas(P(_), p, list) ==
    Then(P(p), LAMBDA r :
        IF K(r.p) = "," THEN Commas(P, Bump(r.p), Append(list, r.v))
        ELSE Ok(Append(list, r.v), r.p))

\* Some, and P behind the token k or nothing.
One(r) == Then(r, LAMBDA q : Ok(<<q.v>>, q.p))
Optional(k, P(_), p) == IF K(p) = k THEN One(P(Bump(p))) ELSE Ok(<<>>, p)

-----------------------------------------------------------------------------
(* Targets *)

ValidHexHash(h) ==
    /\ h # <<>>
    /\ Bytes(h) =< 64
    /\ \A i \in DOMAIN h : h[i] \in HexWord \cup Digit

RefName(p) == IF K(p) \in {"Ident", "String"} THEN ExpectName(p) ELSE Fail

ParseTargetRef(p) ==
    CASE K(p) = "HEAD"   -> Ok(<<"Head">>, Bump(p))
      [] K(p) = "BRANCH" -> Then(RefName(Bump(p)), LAMBDA r : Ok(<<"Branch", r.v>>, r.p))
      [] K(p) = "TAG"    -> Then(RefName(Bump(p)), LAMBDA r : Ok(<<"Tag", r.v>>, r.p))
      [] K(p) = "COMMIT" -> Then(ExpectString(Bump(p)), LAMBDA r :
                                IF ValidHexHash(r.v) THEN Ok(<<"Commit", r.v>>, r.p) ELSE Fail)
      [] OTHER           -> Fail

-----------------------------------------------------------------------------
(* Expressions *)

\* A map with k set to v: a later entry with the same key replaces it.
Insert(map, k, v) == [x \in DOMAIN map \cup {k} |-> IF x = k THEN v ELSE map[x]]

Number(p, neg) ==
    CASE K(p) = "Int"   -> Ok(<<"Int", IF neg THEN -V(p) ELSE V(p)>>, Bump(p))
      [] K(p) = "Float" -> Ok(<<"Float", <<neg, V(p)[2], V(p)[3]>>>>, Bump(p))
      [] OTHER          -> Fail

RECURSIVE ParseOr(_), ParsePrimary(_), ParseMapEntries(_, _), Postfixes(_, _)

\* left op right op right ..., where Operand parses an operand, from the left.
RECURSIVE ParseLevel(_, _, _, _)
ParseLevel(ops, Operand(_), p, left) ==
    Then(Operand(p), LAMBDA r :
        LET tree == IF left = <<>> THEN r.v ELSE Append(left, r.v)
        IN  IF K(r.p) \in ops THEN ParseLevel(ops, Operand, Bump(r.p), <<"Binary", K(r.p), tree>>)
            ELSE Ok(tree, r.p))

ParseExpression(p) == ParseOr(p)

ParsePostfix(p)  == Then(ParsePrimary(p), LAMBDA r : Postfixes(r.v, r.p))
ParseEquality(p) == ParseLevel({"=", "!="}, ParsePostfix, p, <<>>)
ParseAnd(p)      == ParseLevel({"AND"}, ParseEquality, p, <<>>)
ParseOr(p)       == ParseLevel({"OR"}, ParseAnd, p, <<>>)

Postfixes(e, p) ==
    IF K(p) = "." THEN Then(ExpectIdent(Bump(p)), LAMBDA r : Postfixes(<<"Property", e, r.v>>, r.p))
    ELSE Ok(e, p)

ParseMapLiteral(p) ==
    Then(Expect("{", p), LAMBDA open :
        IF K(open.p) = "}" THEN Ok(<<>>, Bump(open.p))
        ELSE Then(ParseMapEntries(<<>>, open.p), LAMBDA r : Return(Expect("}", r.p), r.v)))

ParseMapEntries(map, p) ==
    Then(ExpectIdent(p), LAMBDA key :
    Then(Expect(":", key.p), LAMBDA colon :
    Then(ParseExpression(colon.p), LAMBDA e :
        LET m == Insert(map, key.v, e.v)
        IN  IF K(e.p) = "," THEN ParseMapEntries(m, Bump(e.p)) ELSE Ok(m, e.p))))

ParsePrimary(p) ==
    CASE K(p) = "NULL"   -> Ok(<<"Null">>, Bump(p))
      [] K(p) = "TRUE"   -> Ok(<<"Bool", TRUE>>, Bump(p))
      [] K(p) = "FALSE"  -> Ok(<<"Bool", FALSE>>, Bump(p))
      [] K(p) \in {"Int", "Float"} -> Number(p, FALSE)
      [] K(p) = "-"      -> Number(Bump(p), TRUE)
      [] K(p) = "String" -> Ok(<<"String", V(p)>>, Bump(p))
      [] K(p) = "{"      -> Then(ParseMapLiteral(p), LAMBDA r : Ok(<<"Map", r.v>>, r.p))
      [] K(p) = "("      -> Then(ParseExpression(Bump(p)), LAMBDA r : Return(Expect(")", r.p), r.v))
      [] OTHER           -> Then(ExpectIdent(p), LAMBDA r : Ok(<<"Variable", r.v>>, r.p))

-----------------------------------------------------------------------------
(* Patterns *)

EdgeTypes == {"PARENT", "CHILD", "ANCESTOR", "DESCENDANT"}

Edge(dir, type, hops) == [dir |-> dir, type |-> type, hops |-> hops]

ParseEdgeType(p) == IF K(p) \in EdgeTypes THEN Ok(K(p), Bump(p)) ELSE Fail

\* * | *N | *N..M | *..M | *N..
OptU32(p) == IF K(p) = "Int" THEN One(ExpectU32(p)) ELSE Ok(<<>>, p)
ParseHopMultiplier(p) ==
    Then(OptU32(p), LAMBDA n :
        IF K(n.p) # ".." THEN Ok(IF n.v = <<>> THEN <<"Any">> ELSE <<"Exact", n.v[1]>>, n.p)
        ELSE Then(OptU32(Bump(n.p)), LAMBDA m :
                 Ok(IF n.v = <<>> /\ m.v = <<>> THEN <<"Any">> ELSE <<"Range", n.v, m.v>>, m.p)))

\* [ TYPE? MULTI? ], and what closes the edge.
ParseBracketEdge(dir, default, closing, p) ==
    Then(Expect("[", p), LAMBDA open :
    Then(CASE K(open.p) = ":"         -> ParseEdgeType(Bump(open.p))
           [] K(open.p) \in EdgeTypes -> ParseEdgeType(open.p)
           [] OTHER                   -> Ok(default, open.p), LAMBDA type :
    Then(Optional("*", ParseHopMultiplier, type.p), LAMBDA hops :
    Return(ExpectAll(<<"]", closing>>, hops.p), Edge(dir, type.v, hops.v)))))

ParseEdgePattern(p) ==
    CASE K(p) = "->" -> Ok(Edge("Outgoing", "CHILD", <<>>), Bump(p))
      [] K(p) = "<-" -> IF K(Bump(p)) = "[" THEN ParseBracketEdge("Incoming", "PARENT", "-", Bump(p))
                        ELSE Ok(Edge("Incoming", "PARENT", <<>>), Bump(p))
      [] OTHER       -> ParseBracketEdge("Outgoing", "CHILD", "->", Bump(p))

ParseNodePattern(p) ==
    Then(Expect("(", p), LAMBDA open :
    Then(IF LooksLikeIdent(open.p) THEN One(ExpectIdent(open.p)) ELSE Ok(<<>>, open.p), LAMBDA var :
    Then(Optional(":", ExpectIdent, var.p), LAMBDA label :
    Then(IF K(label.p) = "{" THEN ParseMapLiteral(label.p) ELSE Ok(<<>>, label.p), LAMBDA props :
    Return(Expect(")", props.p), [var |-> var.v, label |-> label.v, props |-> props.v])))))

RECURSIVE ParseElements(_, _)
ParseElements(p, elements) ==
    Then(ParseNodePattern(p), LAMBDA node :
        IF K(node.p) \in {"->", "<-", "-"}
        THEN Then(ParseEdgePattern(node.p), LAMBDA edge :
                 ParseElements(edge.p, elements \o <<node.v, edge.v>>))
        ELSE Ok(Append(elements, node.v), node.p))

ParsePattern(p) == ParseElements(p, <<>>)

-----------------------------------------------------------------------------
(* Queries.  The clauses come in this order, each at most once. *)

ParseTargets(closing, p) ==
    Then(Commas(ParseTargetRef, p, <<>>), LAMBDA r : Return(Expect(closing, r.p), r.v))

Traversals == ("MERGE_BASE" :> 2) @@ ("SHORTEST_PATH" :> 2) @@ ("ANCESTORS" :> 1)

ParseTraversal(p) ==
    IF K(p) \notin DOMAIN Traversals THEN Fail
    ELSE Then(Expect("(", Bump(p)), LAMBDA open :
         Then(ParseTargets(")", open.p), LAMBDA r :
             IF Len(r.v) = Traversals[K(p)] THEN Ok(<<K(p), r.v>>, r.p) ELSE Fail))

ParseProjectionItem(p) ==
    Then(ParseExpression(p), LAMBDA e :
    Then(Optional("AS", ExpectIdent, e.p), LAMBDA alias :
        Ok([expr |-> e.v, alias |-> alias.v], alias.p)))

ParseMatch(p)  == Commas(ParsePattern, p, <<>>)
ParseSelect(p) == Commas(ParseProjectionItem, p, <<>>)

ParseQueryStatement(p) ==
    Then(Optional("USE", ParseTargetRef, p), LAMBDA u :
    Then(Optional("MATCH", ParseMatch, u.p), LAMBDA m :
    Then(Optional("TRAVERSE", ParseTraversal, m.p), LAMBDA t :
    Then(Optional("WHERE", ParseExpression, t.p), LAMBDA w :
    Then(Optional("SELECT", ParseSelect, w.p), LAMBDA s :
        IF s.p = p THEN Fail
        ELSE Ok([s |-> "Query", use |-> u.v, match |-> m.v, traverse |-> t.v,
                 where |-> w.v, select |-> s.v], s.p))))))

-----------------------------------------------------------------------------
(* Version statements *)

\* MESSAGE and PARENTS in any order; the last of each counts.
RECURSIVE ParseCommitOptions(_, _)
ParseCommitOptions(stmt, p) ==
    CASE K(p) = "MESSAGE" ->
             Then(ExpectString(Bump(p)), LAMBDA r :
                 ParseCommitOptions([stmt EXCEPT !.message = <<r.v>>], r.p))
      [] K(p) = "PARENTS" ->
             Then(Expect("[", Bump(p)), LAMBDA open :
             Then(IF K(open.p) = "]" THEN Ok(<<>>, Bump(open.p)) ELSE ParseTargets("]", open.p), LAMBDA r :
                 ParseCommitOptions([stmt EXCEPT !.parents = <<r.v>>], r.p)))
      [] OTHER -> Ok(stmt, p)

ParseCommitStmt(p) ==
    Then(ParseMapLiteral(p), LAMBDA r :
        ParseCommitOptions([s |-> "Commit", payload |-> r.v, message |-> <<>>, parents |-> <<>>], r.p))

ParseCreate(p) ==
    Then(Expect("BRANCH", p), LAMBDA b :
    Then(ExpectName(b.p), LAMBDA name :
    Then(Optional("FROM", ParseTargetRef, name.p), LAMBDA from :
        Ok([s |-> "Create", name |-> name.v, from |-> from.v], from.p))))

ParseDelete(p) ==
    Then(Expect("BRANCH", p), LAMBDA b :
    Then(ExpectName(b.p), LAMBDA name : Ok([s |-> "Delete", name |-> name.v], name.p)))

Strategies == {"FAST_FORWARD", "THREE_WAY", "SQUASH"}
ParseStrategy(p) == IF K(p) \in Strategies THEN Ok(K(p), Bump(p)) ELSE Fail

ParseMergeStmt(p) ==
    Then(ParseTargetRef(p), LAMBDA source :
    Then(Expect("INTO", source.p), LAMBDA i :
    Then(ParseTargetRef(i.p), LAMBDA into :
    Then(Optional("STRATEGY", ParseStrategy, into.p), LAMBDA how :
        Ok([s |-> "Merge", source |-> source.v, into |-> into.v,
            strategy |-> IF how.v = <<>> THEN "FAST_FORWARD" ELSE how.v[1]], how.p)))))

ParseDiffStmt(p) ==
    Then(ParseTargetRef(p), LAMBDA left :
    Then(Expect("AND", left.p), LAMBDA a :
    Then(ParseTargetRef(a.p), LAMBDA right :
    Then(Optional("PATH", ExpectString, right.p), LAMBDA path :
        Ok([s |-> "Diff", left |-> left.v, right |-> right.v, path |-> path.v], path.p)))))

ParseStatement(p) ==
    CASE K(p) = "COMMIT"   -> ParseCommitStmt(Bump(p))
      [] K(p) = "CREATE"   -> ParseCreate(Bump(p))
      [] K(p) = "DELETE"   -> ParseDelete(Bump(p))
      [] K(p) = "CHECKOUT" -> Then(ParseTargetRef(Bump(p)), LAMBDA r :
                                  Ok([s |-> "Checkout", target |-> r.v], r.p))
      [] K(p) = "MERGE"    -> ParseMergeStmt(Bump(p))
      [] K(p) = "DIFF"     -> ParseDiffStmt(Bump(p))
      [] OTHER             -> ParseQueryStatement(p)

StatementStart ==
    {"USE", "MATCH", "TRAVERSE", "WHERE", "SELECT",
     "COMMIT", "CREATE", "DELETE", "CHECKOUT", "MERGE", "DIFF"}
CanStartStatement(p) == K(p) \in StatementStart

-----------------------------------------------------------------------------
(* parse_script *)

\* Mutant: a statement ends at a semicolon only.
AfterStatementStrict(p) == Then(Expect(";", p), LAMBDA r : Ok(<<>>, r.p))

\* An optional semicolon, and then the end or another statement.
AfterStatement(p) ==
    LET q == IF K(p) = ";" THEN Bump(p) ELSE p
    IN  IF K(q) = "Eof" \/ CanStartStatement(q) THEN Ok(<<>>, q) ELSE Fail

\* One turn of the loop; next is the phase that follows the last statement.
ParseScript(next) ==
    /\ phase = "parse"
    /\ IF K(at) = "Eof"
       THEN phase' = next /\ UNCHANGED <<at, stmts>>
       ELSE LET r == Then(ParseStatement(at), LAMBDA s : Return(AfterStatement(s.p), s.v))
            IN  IF r.ok
                THEN stmts' = Append(stmts, r.v) /\ at' = r.p /\ UNCHANGED phase
                ELSE phase' = "error" /\ UNCHANGED <<at, stmts>>
    /\ UNCHANGED <<src, offsets, pos, tokens>>

=============================================================================
