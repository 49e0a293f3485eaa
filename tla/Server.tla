------------------------------- MODULE Server -------------------------------
(***************************************************************************)
(* epochs-server: connections that speak the Epoch Protocol (epx.rs), one   *)
(* DiskStore behind a mutex (state.rs), and the scripts of version          *)
(* statements that the engine executes while it holds the mutex             *)
(* (epochql/src/exec/engine.rs).                                            *)
(*                                                                          *)
(* Every connection is a task: it reads a frame, takes the mutex where the  *)
(* method needs the store, runs, drops the guard and writes the answer.     *)
(* Clients send frames without waiting for answers: what a connection will  *)
(* carry is there from the start.  They may stop reading answers and may go *)
(* away.  Crashes of the process are the subject of DiskStore.              *)
(***************************************************************************)
EXTENDS Integers, Sequences, FiniteSets, SequencesExt

CONSTANTS
    Conn,        \* connections
    Name,        \* branch names
    Main,        \* the branch HEAD names at first
    Frames       \* Frames[c]: the sequences of frames that may arrive on c

NoConn == "nobody"

\* What the parser makes of a target, of a statement and of a frame.
TargetOK(t) ==
    /\ t[1] \in {"head", "branch", "commit", "tag"}
    /\ t[1] = "branch" => t[2] \in Name

StatementOK(stmt) ==
    /\ stmt.op \in {"commit", "create", "delete", "checkout", "merge", "query", "syntax"}
    /\ stmt.op = "commit" => /\ stmt.parents \in Seq(ToSet(stmt.parents))
                             /\ \A t \in ToSet(stmt.parents) : TargetOK(t)
    /\ stmt.op \in {"create", "delete"} => stmt.name \in Name
    /\ stmt.op = "create" => TargetOK(stmt.from)
    /\ stmt.op \in {"checkout", "query"} => TargetOK(stmt.target)
    /\ stmt.op = "merge" => TargetOK(stmt.source) /\ TargetOK(stmt.into)

FrameOK(r) ==
    /\ r.method \in {"bad", "hello", "invalid", "query", "get", "refs"}
    /\ r.method = "query" => /\ r.script \in Seq(ToSet(r.script))
                             /\ \A stmt \in ToSet(r.script) : StatementOK(stmt)

ASSUME ServerAssumption ==
    /\ Main \in Name /\ IsFiniteSet(Name)
    /\ NoConn \notin Conn
    /\ DOMAIN Frames = Conn
    /\ \A c \in Conn : \A f \in Frames[c] : f \in Seq(ToSet(f)) /\ \A r \in ToSet(f) : FrameOK(r)

VARIABLES
    up,      \* the server has not been told to stop
    conn,    \* where the task of a connection is
    sent,    \* the frames its client sends
    nread,   \* how many of them the task has read
    gone,    \* the client has closed its end
    job,     \* the request in progress: next statement, results so far
    resp,    \* the answer to be written
    wire,    \* the answers in the socket: room for one
    answers, \* the answers the client has read
    queue,   \* tasks that wait for the mutex, first come first served
    holder,  \* the task that holds the guard
    store    \* [head, tip, commits]; tip[n] = 0 where there is no branch n

clients == <<sent, gone, answers>>
lock    == <<queue, holder>>
vars    == <<up, conn, nread, job, resp, wire, store, clients, lock>>

NoJob  == [pc |-> 0, out |-> <<>>]

Request(c)  == sent[c][nread[c]]
Unread(c)   == nread[c] < Len(sent[c])

\* The answer to the request that c works on: ok with one result for every
\* statement, or a message that does not say which statement failed.
Ok(c, out)   == [id |-> nread[c], ok |-> TRUE, out |-> out]
Err(c)       == [id |-> nread[c], ok |-> FALSE, out |-> <<>>]
NoAnswer     == [id |-> 0, ok |-> FALSE, out |-> <<>>]

-----------------------------------------------------------------------------
(* The engine.  A target is <<"head">>, <<"branch", n>>, <<"commit", k>> or    *)
(* <<"tag", n>>; commits are numbered as they are made.                        *)

\* resolve_target_ref; 0 for an error.
Resolve(s, t) ==
    CASE t[1] = "head"   -> s.tip[s.head]
      [] t[1] = "branch" -> s.tip[t[2]]
      [] t[1] = "commit" -> IF t[2] \in DOMAIN s.commits THEN t[2] ELSE 0
      [] t[1] = "tag"    -> 0

\* is_ancestor(a, d)
IsAncestor(s, a, d) ==
    LET up2[n \in DOMAIN s.commits] == {n} \cup UNION {up2[p] : p \in ToSet(s.commits[n].parents)}
    IN  a \in up2[d]

Fails(s)         == [store |-> s, ok |-> FALSE, hash |-> 0]
Succeeds(s, hash) == [store |-> s, ok |-> TRUE, hash |-> hash]

\* exec_commit: the branch of HEAD moves to the new commit, whatever its parents.
ExecCommit(s, stmt, by) ==
    LET ps == IF stmt.parents = <<>> THEN <<s.tip[s.head]>>
              ELSE [i \in DOMAIN stmt.parents |-> Resolve(s, stmt.parents[i])]
        n  == Len(s.commits) + 1
    IN  IF 0 \in ToSet(ps) THEN Fails(s)
        ELSE Succeeds([s EXCEPT !.commits = Append(@, [parents |-> ps, by |-> by]),
                                !.tip[s.head] = n], n)

\* exec_branch
ExecCreate(s, stmt) ==
    LET t == Resolve(s, stmt.from)
    IN  IF t = 0 \/ s.tip[stmt.name] # 0 THEN Fails(s)
        ELSE Succeeds([s EXCEPT !.tip[stmt.name] = t], t)

\* Mutant: the branch of HEAD may be deleted.
DeletesHead(s, stmt) ==
    IF s.tip[stmt.name] = 0 THEN Fails(s) ELSE Succeeds([s EXCEPT !.tip[stmt.name] = 0], 0)

ExecDelete(s, stmt) ==
    IF stmt.name = s.head \/ s.tip[stmt.name] = 0 THEN Fails(s)
    ELSE Succeeds([s EXCEPT !.tip[stmt.name] = 0], 0)

\* exec_checkout: only a branch moves HEAD.
ExecCheckout(s, stmt) ==
    LET t == Resolve(s, stmt.target)
    IN  IF t = 0 THEN Fails(s)
        ELSE IF stmt.target[1] = "branch" THEN Succeeds([s EXCEPT !.head = stmt.target[2]], t)
        ELSE Succeeds(s, t)

\* exec_merge with FAST_FORWARD; the other strategies always fail.
ExecMerge(s, stmt) ==
    LET src  == Resolve(s, stmt.source)
        into == Resolve(s, stmt.into)
        name == IF stmt.into[1] = "head" THEN s.head ELSE stmt.into[2]
    IN  IF \/ src = 0 \/ into = 0
           \/ stmt.into[1] \notin {"head", "branch"}
           \/ stmt.strategy # "fast_forward"
        THEN Fails(s)
        ELSE IF ~IsAncestor(s, into, src) THEN Fails(s)
        ELSE Succeeds([s EXCEPT !.tip[name] = src], src)

\* execute_statement; a query only reads.
Exec(s, stmt, by) ==
    CASE stmt.op = "commit"   -> ExecCommit(s, stmt, by)
      [] stmt.op = "create"   -> ExecCreate(s, stmt)
      [] stmt.op = "delete"   -> ExecDelete(s, stmt)
      [] stmt.op = "checkout" -> ExecCheckout(s, stmt)
      [] stmt.op = "merge"    -> ExecMerge(s, stmt)
      [] stmt.op = "query"    -> IF Resolve(s, stmt.target) = 0 THEN Fails(s) ELSE Succeeds(s, 0)

\* parse_script accepts the whole script.
Parses(script) == \A i \in DOMAIN script : script[i].op # "syntax"

\* The answer does not fit into a frame.
TooLarge(c) ==
    /\ resp[c].ok /\ Request(c).method = "query"
    /\ \E i \in DOMAIN Request(c).script : Request(c).script[i].op = "query" /\ Request(c).script[i].large

-----------------------------------------------------------------------------
(* Clients *)

Receive(c) ==
    /\ ~gone[c] /\ wire[c] # NoAnswer
    /\ answers' = [answers EXCEPT ![c] = Append(@, wire[c])]
    /\ wire' = [wire EXCEPT ![c] = NoAnswer]
    /\ UNCHANGED <<up, conn, nread, job, resp, store, sent, gone, lock>>

Leave(c) ==
    /\ ~gone[c]
    /\ gone' = [gone EXCEPT ![c] = TRUE]
    /\ UNCHANGED <<up, conn, nread, job, resp, wire, store, sent, answers, lock>>

-----------------------------------------------------------------------------
(* The task of a connection *)

\* serve_listener: a connection is accepted and its task spawned.
Accept(c) ==
    /\ up /\ conn[c] = "new"
    /\ conn' = [conn EXCEPT ![c] = "read"]
    /\ UNCHANGED <<up, nread, job, resp, wire, store, clients, lock>>

\* Mutant: refs reads the files without the mutex.
QueriesNeedStore(r) == r.method \in {"query", "get"}

\* The methods that lock the store: query and get once their parameters are
\* there, and refs.
NeedsStore(r) == r.method \in {"query", "get", "refs"}

\* Mutant: a frame that cannot be parsed is skipped.
SkipFrame(c) == UNCHANGED conn

\* from_slice fails on a frame (or read_frame finds it too large, or cut off):
\* the connection ends without an answer.
BadFrame(c) == conn' = [conn EXCEPT ![c] = "closed"]

\* read_frame, from_slice, and dispatch up to the lock: hello, an unknown
\* method, a missing parameter and a hash that is none are answered at once.
ReadFrame(c) ==
    /\ up /\ conn[c] = "read" /\ Unread(c)
    /\ nread' = [nread EXCEPT ![c] = @ + 1]
    /\ LET r == sent[c][nread[c] + 1]
       IN  \/ /\ r.method = "bad"
              /\ BadFrame(c)
              /\ UNCHANGED <<resp, job, queue>>
           \/ /\ r.method \in {"hello", "invalid"}
              /\ conn' = [conn EXCEPT ![c] = "write"]
              /\ resp' = [resp EXCEPT ![c] = [id |-> nread'[c], ok |-> r.method = "hello",
                                              out |-> <<>>]]
              /\ UNCHANGED <<job, queue>>
           \/ /\ r.method \in {"query", "get", "refs"}
              /\ job' = [job EXCEPT ![c] = [pc |-> 1, out |-> <<>>]]
              /\ IF NeedsStore(r)
                 THEN conn' = [conn EXCEPT ![c] = "lock"] /\ queue' = Append(queue, c)
                 ELSE conn' = [conn EXCEPT ![c] = "run"] /\ UNCHANGED queue
              /\ UNCHANGED resp
    /\ UNCHANGED <<up, wire, store, clients, holder>>

\* read_frame at the end of the stream.
ReadEof(c) ==
    /\ up /\ conn[c] = "read" /\ ~Unread(c) /\ gone[c]
    /\ conn' = [conn EXCEPT ![c] = "closed"]
    /\ UNCHANGED <<up, nread, job, resp, wire, store, clients, lock>>

\* state.store.lock().await
Acquire(c) ==
    /\ up /\ conn[c] = "lock"
    /\ holder = NoConn /\ Head(queue) = c
    /\ holder' = c
    /\ queue' = Tail(queue)
    /\ conn' = [conn EXCEPT ![c] = "run"]
    /\ UNCHANGED <<up, nread, job, resp, wire, store, clients>>

\* The guard, if the task has it.
Release(c) == holder' = IF holder = c THEN NoConn ELSE holder

\* Mutant: the guard lives until the answer has been written.
KeepGuard(c) == UNCHANGED holder

\* The guard is dropped at the end of the arm of the match, before the answer is
\* written.
DropGuard(c) == Release(c)

Reply(c, a) ==
    /\ resp' = [resp EXCEPT ![c] = a]
    /\ conn' = [conn EXCEPT ![c] = "write"]
    /\ job' = [job EXCEPT ![c] = NoJob]
    /\ DropGuard(c)
    /\ UNCHANGED queue

\* Mutant: the store is locked for every statement.
UnlockBetween(c) ==
    /\ holder' = NoConn
    /\ queue' = Append(queue, c)
    /\ conn' = [conn EXCEPT ![c] = "lock"]

\* The guard is held from the first statement of a script to the last.
AfterStatement(c) == UNCHANGED <<conn, lock>>

\* Mutant: the statements after one that fails are executed.
FailAtEnd(c) ==
    /\ job' = [job EXCEPT ![c].pc = @ + 1]
    /\ UNCHANGED <<conn, resp, lock>>

\* The first error ends the script; what came before it stays.
FailStatement(c) == Reply(c, Err(c))

Running(c, method) == conn[c] = "run" /\ Request(c).method = method

\* run_query: one statement, without an await.
Statement(c) ==
    /\ Running(c, "query")
    /\ LET script == Request(c).script
           at     == job[c].pc
       IN  \/ /\ ~Parses(script)
              /\ Reply(c, Err(c))
              /\ UNCHANGED store
           \/ /\ Parses(script) /\ at =< Len(script)
              /\ LET e == Exec(store, script[at], <<c, nread[c], at>>)
                 IN  /\ store' = e.store
                     /\ IF e.ok
                        THEN /\ job' = [job EXCEPT ![c] = [pc |-> at + 1, out |-> Append(@.out, e.hash)]]
                             /\ AfterStatement(c)
                             /\ UNCHANGED resp
                        ELSE FailStatement(c)
           \/ /\ Parses(script) /\ at > Len(script)
              /\ Reply(c, Ok(c, job[c].out))
              /\ UNCHANGED store
    /\ UNCHANGED <<up, nread, wire, clients>>

\* list_branch_tips: the directory is listed, then every branch is read, which
\* fails when its file is gone.
ListBranches(c) ==
    /\ Running(c, "refs") /\ job[c].pc = 1
    /\ job' = [job EXCEPT ![c] = [pc |-> 2, out |-> SetToSeq({n \in Name : store.tip[n] # 0})]]
    /\ UNCHANGED <<up, conn, nread, resp, wire, store, clients, lock>>

ReadTips(c) ==
    /\ Running(c, "refs") /\ job[c].pc = 2
    /\ LET names == job[c].out
           tips  == [i \in DOMAIN names |-> store.tip[names[i]]]
       IN  Reply(c, IF 0 \in ToSet(tips) THEN Err(c) ELSE Ok(c, tips))
    /\ UNCHANGED <<up, nread, wire, store, clients>>

\* get_cas_object
GetObject(c) ==
    /\ Running(c, "get")
    /\ Reply(c, IF Request(c).hash \in DOMAIN store.commits THEN Ok(c, <<Request(c).hash>>)
                ELSE Err(c))
    /\ UNCHANGED <<up, nread, wire, store, clients>>

\* write_frame: it fails when the answer is too large, and waits when the client
\* does not read.  When the client has gone it fails, or the socket takes the
\* answer and nobody ever reads it.  A task that is being dropped may get to write
\* or not.
WriteFrame(c) ==
    /\ conn[c] = "write"
    /\ \/ /\ TooLarge(c) \/ gone[c] \/ ~up
          /\ conn' = [conn EXCEPT ![c] = "closed"]
          /\ UNCHANGED wire
       \/ /\ ~TooLarge(c) /\ gone[c] /\ up
          /\ conn' = [conn EXCEPT ![c] = "read"]
          /\ UNCHANGED wire
       \/ /\ ~TooLarge(c) /\ ~gone[c] /\ wire[c] = NoAnswer
          /\ wire' = [wire EXCEPT ![c] = resp[c]]
          /\ conn' = [conn EXCEPT ![c] = IF up THEN "read" ELSE "closed"]
    /\ resp' = [resp EXCEPT ![c] = NoAnswer]
    /\ Release(c)
    /\ UNCHANGED <<up, nread, job, store, clients, queue>>

\* SIGINT or SIGTERM: serve is dropped and the runtime shut down.  It drops the
\* tasks where they wait; one that executes a script first runs to its next await.
Shutdown ==
    /\ up
    /\ up' = FALSE
    /\ conn' = [c \in Conn |-> IF conn[c] = "run" THEN "run" ELSE "closed"]
    /\ queue' = <<>>
    /\ UNCHANGED <<nread, job, resp, wire, store, clients, holder>>

-----------------------------------------------------------------------------
Init ==
    /\ up = TRUE
    /\ conn = [c \in Conn |-> "new"]
    /\ sent \in {f \in [Conn -> UNION {Frames[c] : c \in Conn}] : \A c \in Conn : f[c] \in Frames[c]}
    /\ nread = [c \in Conn |-> 0]
    /\ gone = [c \in Conn |-> FALSE]
    /\ job = [c \in Conn |-> NoJob]
    /\ resp = [c \in Conn |-> NoAnswer] /\ wire = [c \in Conn |-> NoAnswer]
    /\ answers = [c \in Conn |-> <<>>]
    /\ queue = <<>> /\ holder = NoConn
    /\ store = [head |-> Main, tip |-> [n \in Name |-> IF n = Main THEN 1 ELSE 0],
                commits |-> <<[parents |-> <<>>, by |-> <<>>]>>]

\* A step of the task that does not depend on the client.
Work(c) ==
    \/ Accept(c) \/ ReadFrame(c) \/ ReadEof(c) \/ Acquire(c)
    \/ Statement(c) \/ ListBranches(c) \/ ReadTips(c) \/ GetObject(c)

Next ==
    \/ \E c \in Conn : Work(c) \/ WriteFrame(c) \/ Receive(c) \/ Leave(c)
    \/ Shutdown

\* The runtime polls every task that can go on.  Nothing is assumed of clients:
\* an answer may wait in WriteFrame for ever.
Spec == Init /\ [][Next]_vars /\ \A c \in Conn : WF_vars(Work(c))

-----------------------------------------------------------------------------
(* Properties *)

States == {"new", "read", "lock", "run", "write", "closed"}

\* The types of the variables; the tasks that wait for the mutex are the ones in
\* its queue, each of them once, and the branch of HEAD exists.
TypeOK ==
    /\ up \in BOOLEAN /\ conn \in [Conn -> States]
    /\ \A c \in Conn : sent[c] \in Frames[c] /\ nread[c] \in 0..Len(sent[c])
    /\ IsInjective(queue) /\ ToSet(queue) = {c \in Conn : conn[c] = "lock"}
    /\ holder \in Conn \cup {NoConn}
    /\ store.head \in Name /\ store.tip \in [Name -> 0..Len(store.commits)]
    /\ store.tip[store.head] # 0

Given(c) == answers[c] \o (IF wire[c] = NoAnswer THEN <<>> ELSE <<wire[c]>>)

\* The answers of a connection are for its frames, one by one and in order: a
\* client that counts them needs no id.  No answer is left out because a
\* connection ends at a frame it cannot answer.
AnswersInOrder == \A c \in Conn : \A i \in DOMAIN Given(c) : Given(c)[i].id = i

MadeBy(c, i) == {n \in DOMAIN store.commits : n > 1 /\ <<store.commits[n].by[1], store.commits[n].by[2]>> = <<c, i>>}

\* What holds of two commits of one script.
SerialPair(n, m) ==
    LET a == store.commits[n].by
        b == store.commits[m].by
    IN  n < m /\ a[1] = b[1] /\ a[2] = b[2] =>
            /\ a[3] < b[3]
            /\ \A k \in n..m : k \in MadeBy(a[1], a[2])
            /\ b[3] = a[3] + 1 /\ sent[b[1]][b[2]].script[b[3]].parents = <<>> =>
                    store.commits[m].parents = <<n>>

\* No other connection's statements come between two statements of a script: its
\* commits are consecutive, in the order of the script, and each one without
\* PARENTS that follows another directly is its child.
ScriptsAreSerial == \A n, m \in 2..Len(store.commits) : SerialPair(n, m)

\* The statements of the request i of c that have left a commit behind.
CommittedBy(c, i) == {store.commits[n].by[3] : n \in MadeBy(c, i)}

\* What the answer a to a script r of c says of the store: ok, that every
\* statement was executed, and which commits were made; an error, that for some
\* statement (the answer does not say which) the COMMITs before it and no others
\* have left their commit behind.
AnswerIsTrue(c, a, script) ==
    IF a.ok
    THEN /\ Len(a.out) = Len(script)
         /\ MadeBy(c, a.id) = {a.out[i] : i \in {j \in DOMAIN script : script[j].op = "commit"}}
    ELSE \E k \in DOMAIN script : CommittedBy(c, a.id) = {j \in 1..k - 1 : script[j].op = "commit"}

\* An answer tells what happened: after ok the whole script was executed and the
\* results name its commits; after an error exactly a prefix of the script was,
\* and what it committed stays (run_query and execute_script stop at the first
\* error and undo nothing).
AnswersTellTheTruth ==
    \A c \in Conn : \A a \in ToSet(Given(c)) :
        sent[c][a.id].method = "query" => AnswerIsTrue(c, a, sent[c][a.id].script)

\* refs never fails: no branch is deleted between the listing and the reading.
RefsAlwaysAnswer ==
    \A c \in Conn : \A a \in ToSet(Given(c)) : sent[c][a.id].method = "refs" => a.ok

\* A request that has arrived on a connection is handled to the end of its
\* script, also while another client does not read its answers and while the
\* server is being stopped; or the connection is closed.
EveryRequestIsHandled ==
    \A c \in Conn :
        (conn[c] \in {"lock", "run"} \/ (conn[c] = "read" /\ Unread(c)))
            ~> conn[c] \in {"write", "closed"}

-----------------------------------------------------------------------------
(* The inductive invariant behind the safety properties *)

Answer    == [id : Nat, ok : BOOLEAN, out : Seq(Nat)]
CommitRec == [parents : Seq(Nat), by : (Conn \X Nat \X Nat) \cup {<<>>}]

Types ==
    /\ TypeOK
    /\ DOMAIN sent = Conn /\ nread \in [Conn -> Nat] /\ gone \in [Conn -> BOOLEAN]
    /\ job = [c \in Conn |-> job[c]]
    /\ resp \in [Conn -> Answer] /\ wire \in [Conn -> Answer]
    /\ answers \in [Conn -> Seq(Answer)]
    /\ queue \in Seq(Conn)
    /\ store \in [head : Name, tip : [Name -> Nat], commits : Seq(CommitRec)]

\* The guard is held exactly by the task that runs a request.
Mutex == \A c \in Conn : holder = c <=> conn[c] = "run"

\* As many answers as frames, less the one that is being worked on; fewer once the
\* client has gone.
ConnInStep(c) ==
    /\ conn[c] \in {"lock", "run"} => /\ nread[c] > 0
                                      /\ Request(c).method \in {"query", "get", "refs"}
    /\ conn[c] = "lock" => job[c] = [pc |-> 1, out |-> <<>>]
    /\ conn[c] = "write" => nread[c] > 0 /\ resp[c].id = nread[c]
    /\ conn[c] \in {"new", "read"} /\ ~gone[c] => Len(Given(c)) = nread[c]
    /\ conn[c] \in {"lock", "run", "write"} =>
            /\ Len(Given(c)) =< nread[c] - 1
            /\ ~gone[c] => Len(Given(c)) = nread[c] - 1
    /\ Len(Given(c)) =< nread[c]

InStep == \A c \in Conn : ConnInStep(c)

\* A commit was made for a frame that was read, and not before the task had the
\* guard.
TagsOK ==
    \A n \in 2..Len(store.commits) :
        LET b == store.commits[n].by
        IN  /\ b \in Conn \X Nat \X Nat
            /\ b[2] > 0 /\ b[2] =< nread[b[1]]
            /\ b[2] = nread[b[1]] => conn[b[1]] # "lock"

\* The commits of a script that is being executed are the last of the store,
\* its results name them, and if its last statement was a commit then HEAD is
\* there.
ScriptInStep(c) ==
    LET script == Request(c).script
        pc     == job[c].pc
        out    == job[c].out
        made   == MadeBy(c, nread[c])
    IN  /\ pc \in 1..Len(script) + 1 /\ Len(out) = pc - 1 /\ out \in Seq(Nat)
        /\ pc > 1 => Parses(script)
        /\ made = {out[i] : i \in {j \in DOMAIN out : script[j].op = "commit"}}
        /\ \A i \in DOMAIN out : script[i].op = "commit" => store.commits[out[i]].by[3] = i
        /\ \A n \in made :
            /\ store.commits[n].by[3] < pc
            /\ \A k \in n..Len(store.commits) : k \in made
            /\ store.commits[n].by[3] = pc - 1 => n = Len(store.commits) /\ store.tip[store.head] = n

\* The branches that refs has listed are there.
ListingInStep(c) ==
    \/ job[c].pc = 1
    \/ job[c].out \in Seq(Name) /\ \A i \in DOMAIN job[c].out : store.tip[job[c].out[i]] # 0

RequestInStep(c) ==
    conn[c] = "run" => /\ Request(c).method = "query" => ScriptInStep(c)
                       /\ Request(c).method = "refs" => ListingInStep(c)

RunInStep == \A c \in Conn : RequestInStep(c)

\* The answer a to a request of c tells what happened.
TrueAnswer(c, a) ==
    LET r == sent[c][a.id]
    IN  /\ r.method = "refs" => a.ok
        /\ r.method = "query" => AnswerIsTrue(c, a, r.script)

AnswersTrue ==
    \A c \in Conn : /\ \A i \in DOMAIN Given(c) : TrueAnswer(c, Given(c)[i])
                    /\ conn[c] = "write" => TrueAnswer(c, resp[c])

ServerInv ==
    /\ Types /\ Mutex /\ InStep /\ AnswersInOrder
    /\ TagsOK /\ RunInStep /\ ScriptsAreSerial /\ AnswersTrue
=============================================================================
