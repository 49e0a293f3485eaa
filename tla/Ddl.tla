-------------------------------- MODULE Ddl ---------------------------------
(***************************************************************************)
(* The parser of .eql migration files (epochql/src/schema/ddl.rs), which    *)
(* shares the lexer and not the statements of Parser.  What the statements  *)
(* do to the schema is the subject of Schema.                               *)
(***************************************************************************)
EXTENDS Parser

Types == {"STRING", "INT", "BOOL", "BYTES"}

\* The keywords that may be names: fewer than in Parser.
NameKinds == {"Ident", "COLLECTION", "INDEX", "KEY", "PATH"}

DdlName(p) ==
    CASE K(p) = "String"    -> ExpectString(p)
      [] K(p) \in NameKinds -> ExpectIdent(p)
      [] OTHER              -> Fail

ExpectType(p) == IF K(p) \in Types THEN Ok(K(p), Bump(p)) ELSE Fail

\* Names joined by dots.
RECURSIVE DottedNames(_, _)
DottedNames(p, path) ==
    Then(DdlName(p), LAMBDA r :
        IF K(r.p) = "." THEN DottedNames(Bump(r.p), path \o r.v \o <<".">>)
        ELSE Ok(path \o r.v, r.p))

ExpectPath(p) == DottedNames(p, <<>>)

\* PATH takes a string for the whole path.
PathAfterKeyword(p) == IF K(p) = "String" THEN ExpectString(p) ELSE ExpectPath(p)

KeyField(p) ==
    Then(ExpectPath(p), LAMBDA path : Then(ExpectType(path.p), LAMBDA t : Ok(<<path.v, t.v>>, t.p)))

ParseCreateCollection(p) ==
    Then(DdlName(p), LAMBDA name :
    Then(Expect("KEY", name.p), LAMBDA k :
    Then(Commas(KeyField, k.p, <<>>), LAMBDA keys :
        Ok([s |-> "CreateCollection", name |-> name.v, keys |-> keys.v], keys.p))))

\* CREATE INDEX ON c (path) is an index of strings.
ShorthandType == "STRING"

\* ON collection, and the path in one of its two forms; Typed parses what
\* follows PATH path.
ParseIndex(p, Typed(_), Make(_, _, _)) ==
    Then(Expect("ON", p), LAMBDA on :
    Then(DdlName(on.p), LAMBDA c :
        CASE K(c.p) = "("    -> Then(ExpectPath(Bump(c.p)), LAMBDA path :
                                Return(Expect(")", path.p), Make(c.v, path.v, ShorthandType)))
          [] K(c.p) = "PATH" -> Then(PathAfterKeyword(Bump(c.p)), LAMBDA path :
                                Then(Typed(path.p), LAMBDA t : Ok(Make(c.v, path.v, t.v), t.p)))
          [] OTHER           -> Fail))

CreateIndexStmt(c, path, type) ==
    [s |-> "CreateIndex", collection |-> c, path |-> path, type |-> type]
DropIndexStmt(c, path, type) == [s |-> "DropIndex", collection |-> c, path |-> path]

ParseCreateIndex(p) ==
    ParseIndex(p, LAMBDA q : Then(Expect("TYPE", q), LAMBDA r : ExpectType(r.p)), CreateIndexStmt)
ParseDropIndex(p) == ParseIndex(p, LAMBDA q : Ok(<<>>, q), DropIndexStmt)

ParseDdlStatement(p) ==
    CASE K(p) = "CREATE" /\ K(Bump(p)) = "COLLECTION" -> ParseCreateCollection(Bump(Bump(p)))
      [] K(p) = "CREATE" /\ K(Bump(p)) = "INDEX"      -> ParseCreateIndex(Bump(Bump(p)))
      [] K(p) = "DROP"   /\ K(Bump(p)) = "INDEX"      -> ParseDropIndex(Bump(Bump(p)))
      [] OTHER                                        -> Fail

\* Mutant: a semicolon between statements is seen and not taken.
ParseMigrationStuck ==
    /\ phase = "parse"
    /\ IF K(at) = "Eof" THEN phase' = "done" /\ UNCHANGED <<at, stmts>>
       ELSE IF K(at) = ";" THEN UNCHANGED <<at, stmts, phase>>
       ELSE LET r == ParseDdlStatement(at)
            IN  IF r.ok
                THEN stmts' = Append(stmts, r.v) /\ at' = r.p /\ UNCHANGED phase
                ELSE phase' = "error" /\ UNCHANGED <<at, stmts>>
    /\ UNCHANGED <<src, offsets, pos, tokens>>

\* parse_migration: statements with any number of semicolons around them; one
\* turn of the loop.  The semicolon behind a statement is skipped by the next
\* turn as well as by its own.
ParseMigration ==
    /\ phase = "parse"
    /\ IF K(at) = "Eof" THEN phase' = "done" /\ UNCHANGED <<at, stmts>>
       ELSE IF K(at) = ";" THEN at' = Bump(at) /\ UNCHANGED <<stmts, phase>>
       ELSE LET r == ParseDdlStatement(at)
            IN  IF r.ok
                THEN stmts' = Append(stmts, r.v) /\ at' = r.p /\ UNCHANGED phase
                ELSE phase' = "error" /\ UNCHANGED <<at, stmts>>
    /\ UNCHANGED <<src, offsets, pos, tokens>>

=============================================================================
