---------------------------- MODULE ServerProofs ----------------------------
(***************************************************************************)
(* What epochs-server promises its clients, for any number of connections,  *)
(* branches, frames and statements: answers come in the order of the frames *)
(* and tell the truth, and scripts are executed one after the other.        *)
(*                                                                          *)
(* The argument: the task that runs a request is the one that holds the     *)
(* guard (Mutex), so that the store changes only by statements of one task  *)
(* from the first statement of its script to the last (RunInStep), and the  *)
(* commits carry the frame they were made for (TagsOK).                     *)
(***************************************************************************)
EXTENDS Server, FiniteSetTheorems, SequenceTheorems, TLAPS

-----------------------------------------------------------------------------
(* The engine *)

\* What every statement is executed on: branches at commits that exist, and HEAD
\* on one of them.
GoodStore(s) ==
    /\ s \in [head : Name, tip : [Name -> Nat], commits : Seq(CommitRec)]
    /\ \A n \in Name : s.tip[n] =< Len(s.commits)
    /\ s.tip[s.head] # 0

\* resolve_target_ref yields a commit of the store, or fails.
LEMMA ResolveOK ==
    ASSUME NEW s, GoodStore(s), NEW t, TargetOK(t)
    PROVE  Resolve(s, t) \in 0..Len(s.commits)
<1>1. s.head \in Name /\ s.tip \in [Name -> Nat] /\ s.commits \in Seq(CommitRec)
    BY DEF GoodStore
<1>2. DOMAIN s.commits = 1..Len(s.commits) /\ Len(s.commits) \in Nat
    BY <1>1
<1>3. t[1] \in {"head", "branch", "commit", "tag"}
    BY DEF TargetOK
<1>4. CASE t[1] = "head"
    <2>1. Resolve(s, t) = s.tip[s.head]
        BY <1>4 DEF Resolve
    <2> QED
        BY <2>1, <1>1, <1>2 DEF GoodStore
<1>5. CASE t[1] = "branch"
    <2>1. Resolve(s, t) = s.tip[t[2]] /\ t[2] \in Name
        BY <1>5 DEF Resolve, TargetOK
    <2> QED
        BY <2>1, <1>1, <1>2 DEF GoodStore
<1>6. CASE t[1] = "commit"
    <2>1. Resolve(s, t) = IF t[2] \in DOMAIN s.commits THEN t[2] ELSE 0
        BY <1>6 DEF Resolve
    <2> QED
        BY <2>1, <1>2
<1>7. CASE t[1] = "tag"
    <2>1. Resolve(s, t) = 0
        BY <1>7 DEF Resolve
    <2> QED
        BY <2>1, <1>2
<1> QED
    BY <1>3, <1>4, <1>5, <1>6, <1>7

\* What a statement may do to the store.
Outcome(s, stmt, by, e) ==
    \/ ~e.ok /\ e.store = s
    \/ e.ok /\ stmt.op # "commit" /\ e.store.commits = s.commits
    \/ /\ e.ok /\ stmt.op = "commit"
       /\ e.hash = Len(s.commits) + 1 /\ e.store.tip[e.store.head] = e.hash
       /\ \E ps \in Seq(Nat) :
            /\ e.store.commits = Append(s.commits, [parents |-> ps, by |-> by])
            /\ stmt.parents = <<>> => ps = <<s.tip[s.head]>>

GoodOutcome(s, stmt, by, e) ==
    /\ GoodStore(e.store) /\ e.ok \in BOOLEAN /\ e.hash \in Nat
    /\ Outcome(s, stmt, by, e)

\* A change of one branch keeps the store good.
LEMMA TipOK ==
    ASSUME NEW s, GoodStore(s), NEW n \in Name, NEW k \in 0..Len(s.commits),
           n = s.head => k # 0
    PROVE  /\ GoodStore([s EXCEPT !.tip[n] = k])
           /\ [s EXCEPT !.tip[n] = k].commits = s.commits
<1> DEFINE CR == CommitRec
<1>1. s \in [head : Name, tip : [Name -> Nat], commits : Seq(CR)]
    BY DEF GoodStore
<1>2. Len(s.commits) \in Nat /\ k \in Nat
    BY <1>1
<1> HIDE DEF CR
<1>3. /\ [s EXCEPT !.tip[n] = k].head = s.head
      /\ [s EXCEPT !.tip[n] = k].tip = [s.tip EXCEPT ![n] = k]
      /\ [s EXCEPT !.tip[n] = k].commits = s.commits
    BY <1>1
<1>5. [s EXCEPT !.tip[n] = k] \in [head : Name, tip : [Name -> Nat], commits : Seq(CR)]
    BY <1>1, <1>2
<1>6. \A m \in Name : [s.tip EXCEPT ![n] = k][m] =< Len(s.commits)
    BY <1>1, <1>2 DEF GoodStore
<1>7. [s.tip EXCEPT ![n] = k][s.head] # 0
    BY <1>1, <1>2 DEF GoodStore
<1> QED
    BY <1>3, <1>5, <1>6, <1>7 DEF GoodStore, CR

\* exec_commit moves the branch of HEAD to the commit it appends.
LEMMA CommitOK ==
    ASSUME NEW s, GoodStore(s), NEW stmt, StatementOK(stmt), stmt.op = "commit",
           NEW by \in Conn \X Nat \X Nat
    PROVE  GoodOutcome(s, stmt, by, ExecCommit(s, stmt, by))
<1> DEFINE ps == IF stmt.parents = <<>> THEN <<s.tip[s.head]>>
                 ELSE [i \in DOMAIN stmt.parents |-> Resolve(s, stmt.parents[i])]
           n  == Len(s.commits) + 1
           CR == CommitRec
           r  == [parents |-> ps, by |-> by]
           s2 == [s EXCEPT !.commits = Append(@, r), !.tip[s.head] = n]
           e  == ExecCommit(s, stmt, by)
<1>1. s \in [head : Name, tip : [Name -> Nat], commits : Seq(CR)]
    BY DEF GoodStore
<1>2. Len(s.commits) \in Nat
    BY <1>1
<1>3. ps \in Seq(Nat)
    <2>1. CASE stmt.parents = <<>>
        BY <2>1, <1>1
    <2>2. CASE stmt.parents # <<>>
        <3>1. stmt.parents \in Seq(ToSet(stmt.parents)) /\ \A t \in ToSet(stmt.parents) : TargetOK(t)
            BY DEF StatementOK
        <3>2. DOMAIN stmt.parents = 1..Len(stmt.parents) /\ Len(stmt.parents) \in Nat
            BY <3>1
        <3>3. \A i \in DOMAIN stmt.parents : TargetOK(stmt.parents[i])
            BY <3>1 DEF ToSet
        <3>4. \A i \in DOMAIN stmt.parents : Resolve(s, stmt.parents[i]) \in Nat
            BY <3>3, <1>2, ResolveOK
        <3> QED
            BY <2>2, <3>2, <3>4
    <2> QED
        BY <2>1, <2>2
<1>4. r \in CR
    BY <1>3 DEF CommitRec
<1>5. CASE 0 \in ToSet(ps)
    <2>1. e = Fails(s)
        BY <1>5 DEF ExecCommit
    <2> QED
        BY <2>1 DEF Fails, Outcome, GoodOutcome
<1>6. CASE 0 \notin ToSet(ps)
    <2>1. e = Succeeds(s2, n)
        BY <1>6 DEF ExecCommit
    <2>2. e.store = s2 /\ e.ok = TRUE /\ e.hash = n
        BY <2>1 DEF Succeeds
    <2> HIDE DEF CR, r, ps, e
    <2>3. s2.head = s.head /\ s2.tip = [s.tip EXCEPT ![s.head] = n] /\ s2.commits = Append(s.commits, r)
        BY <1>1
    <2>4. Append(s.commits, r) \in Seq(CR) /\ Len(Append(s.commits, r)) = n
        BY <1>1, <1>4
    <2>5. n \in Nat
        BY <1>2
    <2>6. s2 \in [head : Name, tip : [Name -> Nat], commits : Seq(CR)]
        <3> HIDE DEF n
        <3>1. ASSUME NEW cs \in Seq(CR)
              PROVE  [s EXCEPT !.commits = cs, !.tip[s.head] = n]
                        \in [head : Name, tip : [Name -> Nat], commits : Seq(CR)]
            BY <1>1, <2>5
        <3> QED
            BY <2>4, <3>1
    <2>7. \A m \in Name : [s.tip EXCEPT ![s.head] = n][m] =< n
        BY <1>1, <1>2 DEF GoodStore
    <2>8. [s.tip EXCEPT ![s.head] = n][s.head] = n /\ n # 0
        BY <1>1, <1>2
    <2>9. GoodStore(s2)
        BY <2>3, <2>4, <2>6, <2>7, <2>8 DEF GoodStore, CR
    <2>10. s2.commits = Append(s.commits, r) /\ s2.tip[s2.head] = n
        BY <2>3, <2>8
    <2>11. stmt.parents = <<>> => ps = <<s.tip[s.head]>>
        BY DEF ps
    <2>12. Outcome(s, stmt, by, e)
        BY <1>3, <2>2, <2>10, <2>11 DEF Outcome, r
    <2> HIDE DEF s2
    <2>13. GoodStore(e.store) /\ e.ok \in BOOLEAN
        BY <2>2, <2>9, Zenon
    <2>14. e.hash \in Nat
        BY <1>2, <2>2
    <2> QED
        <3>1. GoodOutcome(s, stmt, by, e)
            BY <2>12, <2>13, <2>14 DEF GoodOutcome
        <3> QED
            BY <3>1 DEF e
<1> QED
    BY <1>5, <1>6

\* Every statement the parser accepts keeps the store good, and leaves it alone
\* when it fails; only a commit adds a commit, for the frame it is executed for.
LEMMA ExecOK ==
    ASSUME NEW s, GoodStore(s), NEW stmt, StatementOK(stmt), stmt.op # "syntax",
           NEW by \in Conn \X Nat \X Nat
    PROVE  GoodOutcome(s, stmt, by, Exec(s, stmt, by))
<1> DEFINE e    == Exec(s, stmt, by)
           Good == GoodOutcome(s, stmt, by, e)
<1>0. s \in [head : Name, tip : [Name -> Nat], commits : Seq(CommitRec)] /\ Len(s.commits) \in Nat
    BY DEF GoodStore
<1>1. ASSUME e = Fails(s) PROVE Good
    BY <1>1 DEF Fails, Outcome, GoodOutcome
<1>2. ASSUME NEW s2, NEW h \in Nat, e = Succeeds(s2, h), GoodStore(s2), s2.commits = s.commits,
             stmt.op # "commit"
      PROVE  Good
    BY <1>2 DEF Succeeds, Outcome, GoodOutcome
<1>3. ASSUME NEW t, TargetOK(t) PROVE Resolve(s, t) \in 0..Len(s.commits) /\ Resolve(s, t) \in Nat
    BY <1>0, <1>3, ResolveOK
<1>4. CASE stmt.op = "commit"
    <2>1. e = ExecCommit(s, stmt, by)
        BY <1>4 DEF Exec
    <2> QED
        BY <1>4, <2>1, CommitOK
<1>5. CASE stmt.op = "create"
    <2>1. e = ExecCreate(s, stmt)
        BY <1>5 DEF Exec
    <2>2. stmt.name \in Name /\ TargetOK(stmt.from)
        BY <1>5 DEF StatementOK
    <2> DEFINE t == Resolve(s, stmt.from)
    <2>3. t \in 0..Len(s.commits) /\ t \in Nat
        BY <1>3, <2>2
    <2>4. CASE t = 0 \/ s.tip[stmt.name] # 0
        BY <1>1, <2>1, <2>4 DEF ExecCreate
    <2>5. CASE ~(t = 0 \/ s.tip[stmt.name] # 0)
        <3>1. e = Succeeds([s EXCEPT !.tip[stmt.name] = t], t)
            BY <2>1, <2>5 DEF ExecCreate
        <3> HIDE DEF t
        <3>2. GoodStore([s EXCEPT !.tip[stmt.name] = t]) /\ [s EXCEPT !.tip[stmt.name] = t].commits = s.commits
            BY <2>2, <2>3, <2>5, TipOK
        <3> QED
            BY <1>2, <1>5, <2>3, <3>1, <3>2
    <2> QED
        BY <2>4, <2>5
<1>6. CASE stmt.op = "delete"
    <2>1. e = ExecDelete(s, stmt)
        BY <1>6 DEF Exec
    <2>2. stmt.name \in Name
        BY <1>6 DEF StatementOK
    <2>3. CASE stmt.name = s.head \/ s.tip[stmt.name] = 0
        BY <1>1, <2>1, <2>3 DEF ExecDelete
    <2>4. CASE ~(stmt.name = s.head \/ s.tip[stmt.name] = 0)
        <3>1. e = Succeeds([s EXCEPT !.tip[stmt.name] = 0], 0)
            BY <2>1, <2>4 DEF ExecDelete
        <3>2. GoodStore([s EXCEPT !.tip[stmt.name] = 0]) /\ [s EXCEPT !.tip[stmt.name] = 0].commits = s.commits
            <4>1. 0 \in 0..Len(s.commits)
                BY <1>0
            <4> QED
                BY <2>2, <2>4, <4>1, TipOK
        <3> QED
            BY <1>2, <1>6, <3>1, <3>2
    <2> QED
        BY <2>3, <2>4
<1>7. CASE stmt.op = "checkout"
    <2>1. e = ExecCheckout(s, stmt)
        BY <1>7 DEF Exec
    <2>2. TargetOK(stmt.target)
        BY <1>7 DEF StatementOK
    <2> DEFINE t == Resolve(s, stmt.target)
    <2>3. t \in 0..Len(s.commits) /\ t \in Nat
        BY <1>3, <2>2
    <2>4. CASE t = 0
        BY <1>1, <2>1, <2>4 DEF ExecCheckout
    <2>5. CASE t # 0 /\ stmt.target[1] = "branch"
        <3>1. e = Succeeds([s EXCEPT !.head = stmt.target[2]], t)
            BY <2>1, <2>5 DEF ExecCheckout
        <3>2. stmt.target[2] \in Name /\ t = s.tip[stmt.target[2]]
            BY <2>2, <2>5 DEF TargetOK, Resolve
        <3>3. [s EXCEPT !.head = stmt.target[2]] = [head |-> stmt.target[2], tip |-> s.tip, commits |-> s.commits]
            BY <1>0
        <3>4. GoodStore([s EXCEPT !.head = stmt.target[2]])
            BY <1>0, <2>5, <3>2, <3>3 DEF GoodStore
        <3> QED
            BY <1>2, <1>7, <2>3, <3>1, <3>3, <3>4
    <2>6. CASE t # 0 /\ stmt.target[1] # "branch"
        <3>1. e = Succeeds(s, t)
            BY <2>1, <2>6 DEF ExecCheckout
        <3> QED
            BY <1>2, <1>7, <2>3, <3>1
    <2> QED
        BY <2>4, <2>5, <2>6
<1>8. CASE stmt.op = "merge"
    <2> DEFINE src  == Resolve(s, stmt.source)
               into == Resolve(s, stmt.into)
               name == IF stmt.into[1] = "head" THEN s.head ELSE stmt.into[2]
               no   == \/ src = 0 \/ into = 0
                       \/ stmt.into[1] \notin {"head", "branch"}
                       \/ stmt.strategy # "fast_forward"
    <2>1. e = ExecMerge(s, stmt)
        BY <1>8 DEF Exec
    <2>2. TargetOK(stmt.source) /\ TargetOK(stmt.into)
        BY <1>8 DEF StatementOK
    <2>3. src \in 0..Len(s.commits) /\ src \in Nat
        BY <1>3, <2>2
    <2>4. CASE no \/ ~IsAncestor(s, into, src)
        <3>1. e = Fails(s)
            BY <2>1, <2>4 DEF ExecMerge
        <3> QED
            BY <1>1, <3>1
    <2>5. CASE ~no /\ IsAncestor(s, into, src)
        <3>1. e = Succeeds([s EXCEPT !.tip[name] = src], src)
            BY <2>1, <2>5 DEF ExecMerge
        <3>2. name \in Name /\ src # 0
            BY <1>0, <2>2, <2>5 DEF TargetOK
        <3> HIDE DEF src, name
        <3>3. GoodStore([s EXCEPT !.tip[name] = src]) /\ [s EXCEPT !.tip[name] = src].commits = s.commits
            BY <2>3, <3>2, TipOK
        <3> QED
            BY <1>2, <1>8, <2>3, <3>1, <3>3
    <2> QED
        BY <2>4, <2>5
<1>9. CASE stmt.op = "query"
    <2>1. e = IF Resolve(s, stmt.target) = 0 THEN Fails(s) ELSE Succeeds(s, 0)
        BY <1>9 DEF Exec
    <2> QED
        BY <1>1, <1>2, <1>9, <2>1
<1> QED
    BY <1>4, <1>5, <1>6, <1>7, <1>8, <1>9 DEF StatementOK

-----------------------------------------------------------------------------
(* The parts of the type invariant, for the proofs below *)

Plain ==
    /\ up \in BOOLEAN /\ conn \in [Conn -> States]
    /\ DOMAIN sent = Conn /\ \A c \in Conn : sent[c] \in Frames[c] /\ nread[c] =< Len(sent[c])
    /\ nread \in [Conn -> Nat] /\ gone \in [Conn -> BOOLEAN]
    /\ job = [c \in Conn |-> job[c]]
    /\ resp \in [Conn -> Answer] /\ wire \in [Conn -> Answer]
    /\ answers \in [Conn -> Seq(Answer)]
    /\ holder \in Conn \cup {NoConn}

QueueOK ==
    /\ queue \in Seq(Conn)
    /\ IsInjective(queue) /\ ToSet(queue) = {c \in Conn : conn[c] = "lock"}

\* The type invariant in parts.
LEMMA TypesSplit == Types <=> Plain /\ QueueOK /\ GoodStore(store)
<1>1. ASSUME Types PROVE Plain
    <2>1. \A c \in Conn : nread[c] =< Len(sent[c])
        BY <1>1 DEF Types, TypeOK
    <2> QED
        BY <1>1, <2>1 DEF Types, TypeOK, Plain
<1>2. ASSUME Types PROVE QueueOK
    BY <1>2 DEF Types, TypeOK, QueueOK
<1>3. ASSUME Types PROVE GoodStore(store)
    <2>1. store.tip \in [Name -> 0..Len(store.commits)]
        BY <1>3 DEF Types, TypeOK
    <2>2. \A n \in Name : store.tip[n] =< Len(store.commits)
        BY <2>1
    <2> QED
        BY <1>3, <2>2 DEF Types, TypeOK, GoodStore
<1>4. ASSUME Plain, QueueOK, GoodStore(store) PROVE Types
    <2>1. store.head \in Name /\ store.tip \in [Name -> Nat] /\ store.commits \in Seq(CommitRec)
        BY <1>4 DEF GoodStore
    <2>2. Len(store.commits) \in Nat
        BY <2>1
    <2>3. store.tip \in [Name -> 0..Len(store.commits)]
        BY <1>4, <2>1, <2>2 DEF GoodStore
    <2>4. \A c \in Conn : Len(sent[c]) \in Nat
        BY <1>4, ServerAssumption DEF Plain
    <2>5. \A c \in Conn : nread[c] \in 0..Len(sent[c])
        BY <1>4, <2>4 DEF Plain
    <2>6. TypeOK
        BY <1>4, <2>1, <2>3, <2>5 DEF Plain, QueueOK, GoodStore, TypeOK
    <2> QED
        BY <1>4, <2>6 DEF Types, Plain, QueueOK, GoodStore
<1> QED
    BY <1>1, <1>2, <1>3, <1>4

\* What a frame that has been read asks for.
LEMMA RequestOK ==
    ASSUME Plain, NEW c \in Conn, NEW k \in 1..Len(sent[c])
    PROVE  FrameOK(sent[c][k])
<1>1. sent[c] \in Seq(ToSet(sent[c])) /\ \A r \in ToSet(sent[c]) : FrameOK(r)
    BY ServerAssumption DEF Plain
<1>2. k \in DOMAIN sent[c]
    BY <1>1
<1> QED
    BY <1>1, <1>2 DEF ToSet

\* The answers a connection was given are answers.
LEMMA GivenType ==
    ASSUME Plain, NEW c \in Conn
    PROVE  /\ Given(c) \in Seq(Answer) /\ Len(Given(c)) \in Nat
           /\ wire[c] = NoAnswer => Given(c) = answers[c]
           /\ wire[c] # NoAnswer => Given(c) = Append(answers[c], wire[c])
<1> DEFINE A == Answer
<1>1. answers[c] \in Seq(A) /\ wire[c] \in A
    BY DEF Plain
<1> HIDE DEF A
<1>2. answers[c] \o <<>> = answers[c] /\ answers[c] \o <<wire[c]>> = Append(answers[c], wire[c])
    BY <1>1
<1>3. Append(answers[c], wire[c]) \in Seq(A)
    BY <1>1
<1>4. /\ wire[c] = NoAnswer => Given(c) = answers[c]
      /\ wire[c] # NoAnswer => Given(c) = Append(answers[c], wire[c])
    BY <1>2 DEF Given
<1>5. Given(c) \in Seq(A)
    BY <1>1, <1>3, <1>4
<1> QED
    BY <1>4, <1>5 DEF A

\* A step that leaves the store alone changes nothing that was said about commits.
LEMMA StoreKept ==
    ASSUME store' = store, sent' = sent
    PROVE  /\ \A c, i : MadeBy(c, i)' = MadeBy(c, i)
           /\ \A c, a : TrueAnswer(c, a)' <=> TrueAnswer(c, a)
           /\ ScriptsAreSerial => ScriptsAreSerial'
<1>1. \A c, i : MadeBy(c, i)' = MadeBy(c, i)
    BY DEF MadeBy
<1>2. ASSUME NEW c, NEW a PROVE TrueAnswer(c, a)' <=> TrueAnswer(c, a)
    BY <1>1 DEF TrueAnswer, AnswerIsTrue, CommittedBy
<1>3. ScriptsAreSerial => ScriptsAreSerial'
    <2>1. ASSUME NEW n, NEW m PROVE SerialPair(n, m)' <=> SerialPair(n, m)
        BY <1>1 DEF SerialPair
    <2> QED
        BY <2>1, Zenon DEF ScriptsAreSerial
<1> QED
    BY <1>1, <1>2, <1>3

\* The same for a request that is being executed.
LEMMA RequestKept ==
    ASSUME store' = store, sent' = sent,
           NEW c \in Conn, nread'[c] = nread[c], job'[c] = job[c]
    PROVE  /\ Request(c)' = Request(c)
           /\ ScriptInStep(c)' <=> ScriptInStep(c)
           /\ ListingInStep(c)' <=> ListingInStep(c)
<1>1. Request(c)' = Request(c)
    BY DEF Request
<1>2. MadeBy(c, nread[c])' = MadeBy(c, nread[c])
    BY DEF MadeBy
<1>3. ScriptInStep(c)' <=> ScriptInStep(c)
    BY <1>1, <1>2 DEF ScriptInStep
<1>4. ListingInStep(c)' <=> ListingInStep(c)
    BY DEF ListingInStep
<1> QED
    BY <1>1, <1>3, <1>4

-----------------------------------------------------------------------------
(* Steps of one task that leave the store, the socket and the client alone *)

\* Such a step keeps the invariant if it does so for its own connection.
LEMMA QuietStep ==
    ASSUME ServerInv, NEW c \in Conn,
           store' = store, sent' = sent, answers' = answers, wire' = wire,
           \A d \in Conn \ {c} : /\ conn'[d] = conn[d] /\ nread'[d] = nread[d]
                                 /\ job'[d] = job[d] /\ resp'[d] = resp[d]
                                 /\ gone'[d] = gone[d],
           Plain', QueueOK', Mutex',
           \/ nread'[c] = nread[c] /\ (conn'[c] = "lock" => conn[c] = "lock")
           \/ nread'[c] = nread[c] + 1,
           ConnInStep(c)', RequestInStep(c)',
           conn'[c] = "write" => TrueAnswer(c, resp'[c])
    PROVE  ServerInv'
<1>1. /\ \A d, i : MadeBy(d, i)' = MadeBy(d, i)
      /\ \A d, a : TrueAnswer(d, a)' <=> TrueAnswer(d, a)
      /\ ScriptsAreSerial'
    BY StoreKept DEF ServerInv
<1>2. \A d \in Conn : Given(d)' = Given(d)
    BY DEF Given
<1>3. Types'
    <2>1. GoodStore(store)
        BY TypesSplit DEF ServerInv
    <2>2. GoodStore(store)'
        BY <2>1
    <2>3. (Types <=> Plain /\ QueueOK /\ GoodStore(store))'
        BY TypesSplit, PTL
    <2> QED
        BY <2>2, <2>3
<1>4. InStep'
    <2>1. ASSUME NEW d \in Conn \ {c} PROVE ConnInStep(d)'
        <3>1. ConnInStep(d) /\ Given(d)' = Given(d) /\ Request(d)' = Request(d)
            BY <1>2 DEF ServerInv, InStep, Request
        <3> QED
            BY <3>1 DEF ConnInStep
    <2> QED
        BY <2>1 DEF InStep
<1>5. AnswersInOrder'
    BY <1>2 DEF ServerInv, AnswersInOrder
<1>6. TagsOK'
    <2> SUFFICES ASSUME NEW n \in 2..Len(store.commits)
                 PROVE  LET b == store.commits[n].by
                        IN  /\ b \in Conn \X Nat \X Nat
                            /\ b[2] > 0 /\ b[2] =< nread'[b[1]]
                            /\ b[2] = nread'[b[1]] => conn'[b[1]] # "lock"
        BY DEF TagsOK
    <2> DEFINE b == store.commits[n].by
    <2>1. /\ b \in Conn \X Nat \X Nat
          /\ b[2] > 0 /\ b[2] =< nread[b[1]]
          /\ b[2] = nread[b[1]] => conn[b[1]] # "lock"
        BY DEF ServerInv, TagsOK
    <2> HIDE DEF b
    <2>2. b[1] \in Conn /\ b[2] \in Nat /\ nread[b[1]] \in Nat
        BY <2>1 DEF ServerInv, Types
    <2>3. b[2] =< nread'[b[1]] /\ (b[2] = nread'[b[1]] => conn'[b[1]] # "lock")
        BY <2>1, <2>2
    <2> QED
        BY <2>1, <2>3 DEF b
<1>7. RunInStep'
    <2>1. ASSUME NEW d \in Conn \ {c} PROVE RequestInStep(d)'
        <3>1. RequestInStep(d)
            BY DEF ServerInv, RunInStep
        <3>2. /\ Request(d)' = Request(d) /\ conn'[d] = conn[d]
              /\ ScriptInStep(d)' <=> ScriptInStep(d)
              /\ ListingInStep(d)' <=> ListingInStep(d)
            BY RequestKept
        <3> QED
            BY <3>1, <3>2 DEF RequestInStep
    <2> QED
        BY <2>1 DEF RunInStep
<1>8. AnswersTrue'
    <2>1. ASSUME NEW d \in Conn, NEW i \in DOMAIN Given(d)' PROVE TrueAnswer(d, Given(d)[i])'
        <3>1. i \in DOMAIN Given(d) /\ TrueAnswer(d, Given(d)[i])
            BY <1>2 DEF ServerInv, AnswersTrue
        <3>2. TrueAnswer(d, Given(d)[i])' <=> TrueAnswer(d, Given(d)[i])
            <4>1. \A e : MadeBy(d, e)' = MadeBy(d, e)
                BY <1>1
            <4>2. PICK b : b = Given(d)[i]
                OBVIOUS
            <4>3. Given(d)[i]' = b
                BY <1>2, <4>2
            <4>4. TrueAnswer(d, b)' <=> TrueAnswer(d, b)
                BY <4>1, SMTT(30) DEF TrueAnswer, AnswerIsTrue, CommittedBy
            <4>5. TrueAnswer(d, Given(d)[i])' <=> TrueAnswer(d, b)'
                BY <4>3, SMTT(30) DEF TrueAnswer, AnswerIsTrue, CommittedBy
            <4> QED
                BY <4>2, <4>4, <4>5
        <3> QED
            BY <3>1, <3>2
    <2>2. ASSUME NEW d \in Conn, conn'[d] = "write" PROVE TrueAnswer(d, resp[d])'
        <3>1. TrueAnswer(d, resp'[d])
            BY <2>2 DEF ServerInv, AnswersTrue
        <3>2. TrueAnswer(d, resp[d])' <=> TrueAnswer(d, resp'[d])
            BY <1>1 DEF TrueAnswer, AnswerIsTrue, CommittedBy
        <3> QED
            BY <3>1, <3>2
    <2> QED
        BY <2>1, <2>2 DEF AnswersTrue
<1> QED
    BY <1>1, <1>3, <1>4, <1>5, <1>6, <1>7, <1>8 DEF ServerInv

\* What the invariant says of one connection.
LEMMA InvFacts ==
    ASSUME ServerInv, NEW c \in Conn
    PROVE  /\ Plain /\ QueueOK /\ GoodStore(store) /\ Mutex
           /\ ConnInStep(c) /\ RequestInStep(c)
           /\ Given(c) \in Seq(Answer) /\ Len(Given(c)) \in Nat /\ nread[c] \in Nat
<1>1. Plain /\ QueueOK /\ GoodStore(store)
    BY TypesSplit DEF ServerInv
<1>2. Mutex /\ ConnInStep(c) /\ RequestInStep(c)
    BY DEF ServerInv, InStep, RunInStep
<1> QED
    BY <1>1, <1>2, GivenType DEF Plain

\* The queue stays right when nobody starts or stops waiting.
LEMMA QueueKept ==
    ASSUME QueueOK, queue' = queue, \A d \in Conn : conn'[d] = "lock" <=> conn[d] = "lock"
    PROVE  QueueOK'
BY DEF QueueOK

\* serve_listener accepts a connection.
LEMMA AcceptOK ==
    ASSUME ServerInv, NEW c \in Conn, Accept(c)
    PROVE  ServerInv'
<1>1. /\ Plain /\ QueueOK /\ Mutex /\ ConnInStep(c) /\ Len(Given(c)) \in Nat
    BY InvFacts
<1>2. /\ conn[c] = "new" /\ conn' = [conn EXCEPT ![c] = "read"]
      /\ UNCHANGED <<up, nread, job, resp, wire, store, sent, gone, answers, queue, holder>>
    BY DEF Accept, clients, lock
<1>3. conn \in [Conn -> States]
    BY <1>1 DEF Plain
<1>4. Plain'
    BY <1>1, <1>2 DEF Plain, States
<1>5. QueueOK'
    BY <1>1, <1>2, <1>3, QueueKept
<1>6. Mutex'
    BY <1>1, <1>2, <1>3 DEF Mutex
<1>7. Given(c)' = Given(c)
    BY <1>2 DEF Given
<1>8. ConnInStep(c)'
    BY <1>1, <1>2, <1>3, <1>7 DEF ConnInStep
<1>9. RequestInStep(c)'
    BY <1>2, <1>3 DEF RequestInStep
<1> QED
    BY <1>2, <1>3, <1>4, <1>5, <1>6, <1>8, <1>9, QuietStep

\* read_frame at the end of the stream closes the connection.
LEMMA ReadEofOK ==
    ASSUME ServerInv, NEW c \in Conn, ReadEof(c)
    PROVE  ServerInv'
<1>1. /\ Plain /\ QueueOK /\ Mutex /\ ConnInStep(c) /\ Len(Given(c)) \in Nat
    BY InvFacts
<1>2. /\ conn[c] = "read" /\ conn' = [conn EXCEPT ![c] = "closed"]
      /\ UNCHANGED <<up, nread, job, resp, wire, store, sent, gone, answers, queue, holder>>
    BY DEF ReadEof, clients, lock
<1>3. conn \in [Conn -> States]
    BY <1>1 DEF Plain
<1>4. Plain'
    BY <1>1, <1>2 DEF Plain, States
<1>5. QueueOK'
    BY <1>1, <1>2, <1>3, QueueKept
<1>6. Mutex'
    BY <1>1, <1>2, <1>3 DEF Mutex
<1>7. Given(c)' = Given(c)
    BY <1>2 DEF Given
<1>8. ConnInStep(c)'
    BY <1>1, <1>2, <1>3, <1>7 DEF ConnInStep
<1>9. RequestInStep(c)'
    BY <1>2, <1>3 DEF RequestInStep
<1> QED
    BY <1>2, <1>3, <1>4, <1>5, <1>6, <1>8, <1>9, QuietStep

\* A client goes away.
LEMMA LeaveOK ==
    ASSUME ServerInv, NEW c \in Conn, Leave(c)
    PROVE  ServerInv'
<1>1. /\ Plain /\ QueueOK /\ Mutex /\ ConnInStep(c) /\ RequestInStep(c)
    BY InvFacts
<1>2. /\ gone' = [gone EXCEPT ![c] = TRUE]
      /\ UNCHANGED <<up, conn, nread, job, resp, wire, store, sent, answers, queue, holder>>
    BY DEF Leave, lock
<1>3. Plain'
    BY <1>1, <1>2 DEF Plain
<1>4. QueueOK'
    BY <1>1, <1>2, QueueKept
<1>5. Mutex'
    BY <1>1, <1>2 DEF Mutex
<1>6. Given(c)' = Given(c) /\ Request(c)' = Request(c)
    BY <1>2 DEF Given, Request
<1>7. ConnInStep(c)'
    BY <1>1, <1>2, <1>6 DEF ConnInStep
<1>8. RequestInStep(c)'
    BY <1>1, <1>2, RequestKept DEF RequestInStep
<1>9. conn'[c] = "write" => TrueAnswer(c, resp'[c])
    BY <1>2 DEF ServerInv, AnswersTrue
<1>10. \A d \in Conn \ {c} : gone'[d] = gone[d]
    BY <1>1, <1>2 DEF Plain
<1> QED
    BY <1>2, <1>3, <1>4, <1>5, <1>7, <1>8, <1>9, <1>10, QuietStep

\* read_frame: the frame is now the one that is worked on.
LEMMA ReadFrameOK ==
    ASSUME ServerInv, NEW c \in Conn, ReadFrame(c)
    PROVE  ServerInv'
<1> DEFINE r == sent[c][nread[c] + 1]
<1>1. /\ Plain /\ QueueOK /\ Mutex /\ ConnInStep(c) /\ Len(Given(c)) \in Nat /\ nread[c] \in Nat
    BY InvFacts
<1>2. /\ conn[c] = "read" /\ nread[c] < Len(sent[c])
      /\ nread' = [nread EXCEPT ![c] = @ + 1]
      /\ UNCHANGED <<up, wire, store, sent, gone, answers, holder>>
    BY DEF ReadFrame, clients, Unread
<1>3. conn \in [Conn -> States] /\ resp \in [Conn -> Answer] /\ nread \in [Conn -> Nat]
      /\ job = [d \in Conn |-> job[d]]
    BY <1>1 DEF Plain
<1>4. nread'[c] = nread[c] + 1 /\ \A d \in Conn \ {c} : nread'[d] = nread[d]
    BY <1>2, <1>3
<1>5. /\ nread' \in [Conn -> Nat]
      /\ \A d \in Conn : nread'[d] =< Len(sent'[d])
    <2>1. \A d \in Conn : Len(sent[d]) \in Nat
        BY <1>1, ServerAssumption DEF Plain
    <2> QED
        BY <1>1, <1>2, <1>3, <1>4, <2>1 DEF Plain
<1>6. /\ Given(c)' = Given(c) /\ Len(Given(c)) =< nread[c] /\ Request(c)' = r
      /\ ~gone[c] => Len(Given(c)) = nread[c]
    BY <1>1, <1>2, <1>4 DEF Given, ConnInStep, Request
<1> HIDE DEF r
<1>7. CASE /\ r.method = "bad" /\ conn' = [conn EXCEPT ![c] = "closed"]
           /\ UNCHANGED <<resp, job, queue>>
    <2>1. Plain'
        BY <1>1, <1>2, <1>5, <1>7 DEF Plain, States
    <2>2. QueueOK'
        BY <1>1, <1>2, <1>3, <1>7, QueueKept
    <2>3. Mutex'
        BY <1>1, <1>2, <1>3, <1>7 DEF Mutex
    <2>4. ConnInStep(c)' /\ RequestInStep(c)'
        BY <1>1, <1>3, <1>4, <1>6, <1>7 DEF ConnInStep, RequestInStep
    <2> QED
        BY <1>2, <1>3, <1>4, <1>7, <2>1, <2>2, <2>3, <2>4, QuietStep
<1>8. CASE /\ r.method \in {"hello", "invalid"} /\ conn' = [conn EXCEPT ![c] = "write"]
           /\ resp' = [resp EXCEPT ![c] = [id |-> nread'[c], ok |-> r.method = "hello",
                                           out |-> <<>>]]
           /\ UNCHANGED <<job, queue>>
    <2> DEFINE a == [id |-> nread'[c], ok |-> r.method = "hello", out |-> <<>>]
    <2>0. a \in Answer /\ a.id = nread[c] + 1
        BY <1>1, <1>4 DEF Answer
    <2> HIDE DEF a
    <2>1. Plain'
        <3>1. resp' \in [Conn -> Answer]
            BY <1>3, <1>8, <2>0 DEF a
        <3> QED
            BY <1>1, <1>2, <1>5, <1>8, <3>1 DEF Plain, States
    <2>2. QueueOK'
        BY <1>1, <1>2, <1>3, <1>8, QueueKept
    <2>3. Mutex'
        BY <1>1, <1>2, <1>3, <1>8 DEF Mutex
    <2>4. resp'[c] = a
        BY <1>3, <1>8 DEF a
    <2>5. ConnInStep(c)' /\ RequestInStep(c)'
        BY <1>1, <1>2, <1>3, <1>4, <1>6, <1>8, <2>0, <2>4 DEF ConnInStep, RequestInStep
    <2>6. TrueAnswer(c, resp'[c])
        BY <1>8, <2>0, <2>4 DEF TrueAnswer, AnswerIsTrue, CommittedBy, r
    <2> QED
        BY <1>2, <1>3, <1>4, <1>8, <2>1, <2>2, <2>3, <2>5, <2>6, QuietStep
<1>9. CASE /\ r.method \in {"query", "get", "refs"}
           /\ job' = [job EXCEPT ![c] = [pc |-> 1, out |-> <<>>]]
           /\ conn' = [conn EXCEPT ![c] = "lock"] /\ queue' = Append(queue, c)
           /\ UNCHANGED resp
    <2>0. job' = [d \in Conn |-> job'[d]] /\ job'[c] = [pc |-> 1, out |-> <<>>]
          /\ \A d \in Conn \ {c} : job'[d] = job[d]
        BY <1>3, <1>9
    <2>1. Plain'
        BY <1>1, <1>2, <1>5, <1>9, <2>0 DEF Plain, States
    <2>2. QueueOK'
        <3>1. queue \in Seq(Conn) /\ ToSet(queue) = {d \in Conn : conn[d] = "lock"} /\ IsInjective(queue)
            BY <1>1 DEF QueueOK
        <3>2. queue' \in Seq(Conn) /\ Len(queue') = Len(queue) + 1 /\ Len(queue) \in Nat
              /\ DOMAIN queue' = 1..Len(queue) + 1 /\ DOMAIN queue = 1..Len(queue)
            BY <1>9, <3>1
        <3>3. \A i \in 1..Len(queue) + 1 : queue'[i] = IF i = Len(queue) + 1 THEN c ELSE queue[i]
            BY <1>9, <3>1
        <3>4. c \notin ToSet(queue)
            BY <1>2, <3>1
        <3>5. \A i \in 1..Len(queue) : queue[i] # c
            BY <3>2, <3>4 DEF ToSet
        <3>6. IsInjective(queue')
            BY <3>1, <3>2, <3>3, <3>5 DEF IsInjective
        <3>7. ToSet(queue') = ToSet(queue) \cup {c}
            BY <3>2, <3>3 DEF ToSet
        <3>8. {d \in Conn : conn'[d] = "lock"} = {d \in Conn : conn[d] = "lock"} \cup {c}
            BY <1>3, <1>9
        <3> QED
            BY <3>1, <3>2, <3>6, <3>7, <3>8 DEF QueueOK
    <2>3. Mutex'
        BY <1>1, <1>2, <1>3, <1>9 DEF Mutex
    <2>4. ConnInStep(c)' /\ RequestInStep(c)'
        BY <1>1, <1>2, <1>3, <1>4, <1>6, <1>9, <2>0 DEF ConnInStep, RequestInStep
    <2> QED
        BY <1>2, <1>3, <1>4, <1>9, <2>0, <2>1, <2>2, <2>3, <2>4, QuietStep
<1> QED
    BY <1>7, <1>8, <1>9 DEF ReadFrame, BadFrame, NeedsStore, r

\* The task that gets the guard starts at the first statement, and has made no
\* commit yet.
LEMMA AcquireOK ==
    ASSUME ServerInv, NEW c \in Conn, Acquire(c)
    PROVE  ServerInv'
<1>1. /\ Plain /\ QueueOK /\ Mutex /\ ConnInStep(c) /\ GoodStore(store)
      /\ Len(Given(c)) \in Nat /\ nread[c] \in Nat
    BY InvFacts
<1>2. /\ conn[c] = "lock" /\ holder = NoConn /\ Head(queue) = c
      /\ holder' = c /\ queue' = Tail(queue) /\ conn' = [conn EXCEPT ![c] = "run"]
      /\ UNCHANGED <<up, nread, job, resp, wire, store, sent, gone, answers>>
    BY DEF Acquire, clients
<1>3. conn \in [Conn -> States]
    BY <1>1 DEF Plain
<1>4. Plain'
    BY <1>1, <1>2 DEF Plain, States
<1>5. QueueOK'
    <2>1. queue \in Seq(Conn) /\ ToSet(queue) = {d \in Conn : conn[d] = "lock"} /\ IsInjective(queue)
        BY <1>1 DEF QueueOK
    <2>2. queue # <<>>
        BY <1>2, <2>1 DEF ToSet
    <2>3. queue' \in Seq(Conn) /\ Len(queue') = Len(queue) - 1 /\ Len(queue) \in Nat /\ Len(queue) > 0
          /\ DOMAIN queue' = 1..Len(queue) - 1 /\ DOMAIN queue = 1..Len(queue)
        BY <1>2, <2>1, <2>2
    <2>4. \A i \in 1..Len(queue) - 1 : queue'[i] = queue[i + 1]
        BY <1>2, <2>1, <2>2
    <2>5. queue[1] = c
        BY <1>2, <2>1, <2>2
    <2>6. IsInjective(queue')
        <3> SUFFICES ASSUME NEW i \in 1..Len(queue) - 1, NEW j \in 1..Len(queue) - 1, queue'[i] = queue'[j]
                     PROVE  i = j
            BY <2>3 DEF IsInjective
        <3>1. i + 1 \in DOMAIN queue /\ j + 1 \in DOMAIN queue /\ queue[i + 1] = queue[j + 1]
            BY <2>3, <2>4
        <3>2. i + 1 = j + 1
            BY <2>1, <3>1 DEF IsInjective
        <3> QED
            BY <3>2
    <2>7. ToSet(queue') = ToSet(queue) \ {c}
        <3>1. ASSUME NEW x \in ToSet(queue') PROVE x \in ToSet(queue) \ {c}
            <4>1. PICK i \in 1..Len(queue) - 1 : queue'[i] = x
                BY <2>3 DEF ToSet
            <4>2. i + 1 \in DOMAIN queue /\ 1 \in DOMAIN queue /\ i + 1 # 1 /\ queue[i + 1] = x
                BY <2>3, <2>4, <4>1
            <4>3. x # c
                BY <2>1, <2>5, <4>2 DEF IsInjective
            <4> QED
                BY <4>2, <4>3 DEF ToSet
        <3>2. ASSUME NEW x \in ToSet(queue) \ {c} PROVE x \in ToSet(queue')
            <4>1. PICK i \in 1..Len(queue) : queue[i] = x
                BY <2>3 DEF ToSet
            <4>2. i # 1
                BY <2>5, <4>1
            <4>3. i - 1 \in DOMAIN queue' /\ queue'[i - 1] = x
                BY <2>3, <2>4, <4>1, <4>2
            <4> QED
                BY <4>3 DEF ToSet
        <3> QED
            BY <3>1, <3>2
    <2>8. {d \in Conn : conn'[d] = "lock"} = {d \in Conn : conn[d] = "lock"} \ {c}
        BY <1>2, <1>3
    <2> QED
        BY <2>1, <2>3, <2>6, <2>7, <2>8 DEF QueueOK
<1>6. Mutex'
    BY <1>1, <1>2, <1>3, ServerAssumption DEF Mutex
<1>7. Given(c)' = Given(c) /\ Request(c)' = Request(c)
    BY <1>2 DEF Given, Request
<1>8. ConnInStep(c)'
    BY <1>1, <1>2, <1>3, <1>7 DEF ConnInStep
<1>9. MadeBy(c, nread[c]) = {}
    <2> SUFFICES ASSUME NEW n \in DOMAIN store.commits, n > 1,
                        <<store.commits[n].by[1], store.commits[n].by[2]>> = <<c, nread[c]>>
                 PROVE  FALSE
        BY DEF MadeBy
    <2>1. store.commits \in Seq(CommitRec)
        BY <1>1 DEF GoodStore
    <2>2. n \in 2..Len(store.commits)
        BY <2>1
    <2>3. store.commits[n].by[1] = c /\ store.commits[n].by[2] = nread[c]
        OBVIOUS
    <2> QED
        BY <1>2, <2>2, <2>3 DEF ServerInv, TagsOK
<1>10. job[c] = [pc |-> 1, out |-> <<>>]
    BY <1>1, <1>2 DEF ConnInStep
<1>11. nread[c] > 0 /\ nread[c] =< Len(sent[c])
    BY <1>1, <1>2 DEF ConnInStep, Plain
<1>12. Request(c).method = "query" => ScriptInStep(c)
    <2> SUFFICES ASSUME Request(c).method = "query" PROVE ScriptInStep(c)
        OBVIOUS
    <2>1. FrameOK(Request(c))
        <3>1. Len(sent[c]) \in Nat
            BY <1>1, ServerAssumption DEF Plain
        <3>2. nread[c] \in 1..Len(sent[c])
            BY <1>1, <1>11, <3>1
        <3> QED
            BY <1>1, <3>2, RequestOK DEF Request
    <2>2. Len(Request(c).script) \in Nat
        BY <2>1 DEF FrameOK
    <2> QED
        BY <1>9, <1>10, <2>2 DEF ScriptInStep
<1>13. Request(c).method = "refs" => ListingInStep(c)
    BY <1>10 DEF ListingInStep
<1>14. RequestInStep(c)'
    BY <1>2, <1>7, <1>12, <1>13, RequestKept DEF RequestInStep
<1> QED
    BY <1>2, <1>3, <1>4, <1>5, <1>6, <1>8, <1>14, QuietStep

\* A request ends with a true answer and without the guard.
LEMMA ReplyOK ==
    ASSUME ServerInv, NEW c \in Conn, conn[c] = "run",
           NEW a \in Answer, a.id = nread[c], TrueAnswer(c, a), Reply(c, a),
           UNCHANGED <<up, nread, wire, store, sent, gone, answers>>
    PROVE  ServerInv'
<1>1. /\ Plain /\ QueueOK /\ Mutex /\ ConnInStep(c)
      /\ Len(Given(c)) \in Nat /\ nread[c] \in Nat
    BY InvFacts
<1>2. /\ resp' = [resp EXCEPT ![c] = a] /\ conn' = [conn EXCEPT ![c] = "write"]
      /\ job' = [job EXCEPT ![c] = NoJob] /\ queue' = queue
    BY DEF Reply
<1>3. conn \in [Conn -> States] /\ resp \in [Conn -> Answer] /\ job = [d \in Conn |-> job[d]]
    BY <1>1 DEF Plain
<1>4. holder = c
    BY <1>1 DEF Mutex
<1>5. holder' = NoConn
    BY <1>4 DEF Reply, DropGuard, Release
<1>6. resp' \in [Conn -> Answer] /\ resp'[c] = a
    BY <1>2, <1>3
<1>7. Plain'
    BY <1>1, <1>2, <1>3, <1>5, <1>6 DEF Plain, States
<1>8. QueueOK'
    BY <1>1, <1>2, <1>3, QueueKept
<1>9. Mutex'
    BY <1>1, <1>2, <1>3, <1>4, <1>5, ServerAssumption DEF Mutex
<1>10. Given(c)' = Given(c)
    BY DEF Given
<1>11. ConnInStep(c)' /\ RequestInStep(c)'
    BY <1>1, <1>2, <1>3, <1>6, <1>10 DEF ConnInStep, RequestInStep
<1>12. /\ conn'[c] # "lock"
       /\ \A d \in Conn \ {c} : conn'[d] = conn[d] /\ job'[d] = job[d] /\ resp'[d] = resp[d]
    BY <1>2, <1>3
<1> QED
    BY <1>6, <1>7, <1>8, <1>9, <1>11, <1>12, QuietStep

\* list_branch_tips lists branches that are there.
LEMMA ListBranchesOK ==
    ASSUME ServerInv, NEW c \in Conn, ListBranches(c)
    PROVE  ServerInv'
<1> DEFINE B == {n \in Name : store.tip[n] # 0}
<1>1. /\ Plain /\ QueueOK /\ Mutex /\ ConnInStep(c) /\ RequestInStep(c)
    BY InvFacts
<1>2. /\ conn[c] = "run" /\ Request(c).method = "refs"
      /\ job' = [job EXCEPT ![c] = [pc |-> 2, out |-> SetToSeq(B)]]
      /\ UNCHANGED <<up, conn, nread, resp, wire, store, sent, gone, answers, queue, holder>>
    BY DEF ListBranches, Running, clients, lock
<1>3. SetToSeq(B) \in Seq(B)
    <2> HIDE DEF B
    <2>1. IsFiniteSet(B)
        BY ServerAssumption, FS_Subset DEF B
    <2>2. PICK f : f \in [1..Cardinality(B) -> B] /\ IsInjective(f)
        <3>1. Cardinality(B) \in Nat /\ \E f : ExistsBijection(1..Cardinality(B), B)
            BY <2>1, FS_CardinalityType
        <3>2. PICK f : f \in Bijection(1..Cardinality(B), B)
            BY <3>1 DEF ExistsBijection
        <3> QED
            BY <3>2 DEF Bijection, Injection, Surjection, IsInjective
    <2>3. SetToSeq(B) \in [1..Cardinality(B) -> B]
        BY <2>2 DEF SetToSeq
    <2>4. Cardinality(B) \in Nat
        BY <2>1, FS_CardinalityType
    <2> QED
        BY <2>3, <2>4
<1> DEFINE names == SetToSeq(B)
<1>4. names \in Seq(Name) /\ \A i \in DOMAIN names : store.tip[names[i]] # 0
    <2> HIDE DEF names
    <2>1. names \in Seq(B)
        BY <1>3 DEF names
    <2>2. DOMAIN names = 1..Len(names) /\ Len(names) \in Nat /\ \A i \in DOMAIN names : names[i] \in B
        BY <2>1
    <2>3. \A i \in DOMAIN names : names[i] \in Name /\ store.tip[names[i]] # 0
        BY <2>2
    <2>4. names \in Seq(Name)
        BY <2>1, <2>2, <2>3
    <2> QED
        BY <2>3, <2>4
<1> HIDE DEF names, B
<1>5. job = [d \in Conn |-> job[d]]
    BY <1>1 DEF Plain
<1>6. /\ job' = [d \in Conn |-> job'[d]] /\ job'[c].out = names
      /\ \A d \in Conn \ {c} : job'[d] = job[d]
    BY <1>2, <1>5 DEF names
<1>7. Plain'
    BY <1>1, <1>2, <1>6 DEF Plain
<1>8. QueueOK' /\ Mutex'
    BY <1>1, <1>2, QueueKept DEF Mutex
<1>9. Given(c)' = Given(c) /\ Request(c)' = Request(c)
    BY <1>2 DEF Given, Request
<1>10. ConnInStep(c)'
    BY <1>1, <1>2, <1>9 DEF ConnInStep
<1>11. ListingInStep(c)'
    BY <1>2, <1>4, <1>6 DEF ListingInStep
<1>12. RequestInStep(c)'
    BY <1>2, <1>9, <1>11 DEF RequestInStep
<1> QED
    BY <1>2, <1>6, <1>7, <1>8, <1>10, <1>12, QuietStep

\* Every branch that was listed is still there when it is read.
LEMMA ReadTipsOK ==
    ASSUME ServerInv, NEW c \in Conn, ReadTips(c)
    PROVE  ServerInv'
<1> DEFINE names == job[c].out
           tips  == [i \in DOMAIN names |-> store.tip[names[i]]]
<1>1. /\ GoodStore(store) /\ RequestInStep(c) /\ nread[c] \in Nat
    BY InvFacts
<1>2. /\ conn[c] = "run" /\ Request(c).method = "refs" /\ job[c].pc = 2
      /\ Reply(c, IF 0 \in ToSet(tips) THEN Err(c) ELSE Ok(c, tips))
      /\ UNCHANGED <<up, nread, wire, store, sent, gone, answers>>
    BY DEF ReadTips, Running, clients
<1>3. names \in Seq(Name) /\ \A i \in DOMAIN names : store.tip[names[i]] # 0
    BY <1>1, <1>2 DEF RequestInStep, ListingInStep
<1>4. store.tip \in [Name -> Nat]
    BY <1>1 DEF GoodStore
<1>5. tips \in Seq(Nat) /\ 0 \notin ToSet(tips)
    <2> HIDE DEF names
    <2>1. DOMAIN names = 1..Len(names) /\ Len(names) \in Nat /\ \A i \in DOMAIN names : names[i] \in Name
        BY <1>3
    <2>2. tips \in Seq(Nat)
        BY <1>4, <2>1
    <2> QED
        BY <1>3, <2>2 DEF ToSet
<1>6. Reply(c, Ok(c, tips))
    BY <1>2, <1>5
<1> HIDE DEF tips
<1>7. Ok(c, tips) \in Answer /\ Ok(c, tips).id = nread[c] /\ Ok(c, tips).ok = TRUE
    BY <1>1, <1>5 DEF Ok, Answer
<1>8. TrueAnswer(c, Ok(c, tips))
    BY <1>2, <1>7 DEF TrueAnswer, AnswerIsTrue, CommittedBy, Request
<1> QED
    BY <1>2, <1>6, <1>7, <1>8, ReplyOK

\* get_cas_object answers with the object or an error.
LEMMA GetObjectOK ==
    ASSUME ServerInv, NEW c \in Conn, GetObject(c)
    PROVE  ServerInv'
<1> DEFINE h == Request(c).hash
           a == IF h \in DOMAIN store.commits THEN Ok(c, <<h>>) ELSE Err(c)
<1>1. /\ GoodStore(store) /\ nread[c] \in Nat
    BY InvFacts
<1>2. /\ conn[c] = "run" /\ Request(c).method = "get" /\ Reply(c, a)
      /\ UNCHANGED <<up, nread, wire, store, sent, gone, answers>>
    BY DEF GetObject, Running, clients
<1>3. DOMAIN store.commits = 1..Len(store.commits)
    BY <1>1 DEF GoodStore
<1>4. a \in Answer /\ a.id = nread[c]
    <2> HIDE DEF h
    <2>1. CASE h \in DOMAIN store.commits
        <3>1. h \in Nat
            BY <1>3, <2>1
        <3> QED
            BY <1>1, <2>1, <3>1 DEF Ok, Answer
    <2>2. CASE h \notin DOMAIN store.commits
        BY <1>1, <2>2 DEF Err, Answer
    <2> QED
        BY <2>1, <2>2
<1> HIDE DEF a
<1>5. TrueAnswer(c, a)
    BY <1>2, <1>4 DEF TrueAnswer, AnswerIsTrue, CommittedBy, Request
<1> QED
    BY <1>2, <1>4, <1>5, ReplyOK

-----------------------------------------------------------------------------
(* Steps between the task and its client, and the end of the server *)

\* What a step needs to show when it leaves the store alone.
LEMMA StoreSameStep ==
    ASSUME ServerInv, store' = store, sent' = sent, nread' = nread, job' = job,
           Plain', QueueOK', Mutex', InStep', AnswersInOrder',
           \A d \in Conn : conn'[d] \in {"lock", "run"} => conn'[d] = conn[d],
           \A d \in Conn : /\ \A i \in DOMAIN Given(d)' : TrueAnswer(d, Given(d)'[i])
                           /\ conn'[d] = "write" => TrueAnswer(d, resp'[d])
    PROVE  ServerInv'
<1>1. /\ \A d, i : MadeBy(d, i)' = MadeBy(d, i)
      /\ ScriptsAreSerial'
    BY StoreKept DEF ServerInv
<1>2. Types'
    <2>1. GoodStore(store)
        BY TypesSplit DEF ServerInv
    <2>2. GoodStore(store)'
        BY <2>1
    <2>3. (Types <=> Plain /\ QueueOK /\ GoodStore(store))'
        BY TypesSplit, PTL
    <2> QED
        BY <2>2, <2>3
<1>3. TagsOK'
    <2> SUFFICES ASSUME NEW n \in 2..Len(store.commits)
                 PROVE  LET b == store.commits[n].by
                        IN  /\ b \in Conn \X Nat \X Nat
                            /\ b[2] > 0 /\ b[2] =< nread[b[1]]
                            /\ b[2] = nread[b[1]] => conn'[b[1]] # "lock"
        BY DEF TagsOK
    <2> DEFINE b == store.commits[n].by
    <2>1. /\ b \in Conn \X Nat \X Nat
          /\ b[2] > 0 /\ b[2] =< nread[b[1]]
          /\ b[2] = nread[b[1]] => conn[b[1]] # "lock"
        BY DEF ServerInv, TagsOK
    <2> HIDE DEF b
    <2>2. b[1] \in Conn
        BY <2>1
    <2>3. b[2] = nread[b[1]] => conn'[b[1]] # "lock"
        BY <2>1, <2>2
    <2> QED
        BY <2>1, <2>3 DEF b
<1>4. RunInStep'
    <2> SUFFICES ASSUME NEW d \in Conn PROVE RequestInStep(d)'
        BY DEF RunInStep
    <2>1. RequestInStep(d)
        BY DEF ServerInv, RunInStep
    <2>2. /\ Request(d)' = Request(d)
          /\ conn'[d] = "run" => conn[d] = "run"
          /\ ScriptInStep(d)' <=> ScriptInStep(d)
          /\ ListingInStep(d)' <=> ListingInStep(d)
        BY RequestKept
    <2> QED
        BY <2>1, <2>2 DEF RequestInStep
<1>5. AnswersTrue'
    <2>1. ASSUME NEW d \in Conn, NEW i \in DOMAIN Given(d)' PROVE TrueAnswer(d, Given(d)[i])'
        <3>1. TrueAnswer(d, Given(d)'[i])
            OBVIOUS
        <3> QED
            BY <1>1, <3>1 DEF TrueAnswer, AnswerIsTrue, CommittedBy
    <2>2. ASSUME NEW d \in Conn, conn'[d] = "write" PROVE TrueAnswer(d, resp[d])'
        <3>1. TrueAnswer(d, resp'[d])
            BY <2>2
        <3> QED
            BY <1>1, <3>1 DEF TrueAnswer, AnswerIsTrue, CommittedBy
    <2> QED
        BY <2>1, <2>2 DEF AnswersTrue
<1> QED
    BY <1>1, <1>2, <1>3, <1>4, <1>5 DEF ServerInv

\* The answers of a connection after a step that did not concern them.
LEMMA GivenKept ==
    ASSUME ServerInv, NEW d \in Conn, Given(d)' = Given(d), nread' = nread, sent' = sent,
           conn'[d] = conn[d] \/ conn'[d] = "closed", job' = job, resp'[d] = resp[d],
           gone'[d] = gone[d]
    PROVE  /\ ConnInStep(d)'
           /\ \A i \in DOMAIN Given(d)' : Given(d)'[i].id = i /\ TrueAnswer(d, Given(d)'[i])
           /\ conn'[d] = "write" => TrueAnswer(d, resp'[d])
<1>1. ConnInStep(d) /\ Request(d)' = Request(d)
    BY InvFacts DEF Request
<1>2. ConnInStep(d)'
    <2>1. CASE conn'[d] = conn[d]
        BY <1>1, <2>1 DEF ConnInStep
    <2>2. CASE conn'[d] = "closed"
        BY <1>1, <2>2 DEF ConnInStep
    <2> QED
        BY <2>1, <2>2
<1>3. \A i \in DOMAIN Given(d)' : Given(d)'[i].id = i /\ TrueAnswer(d, Given(d)'[i])
    BY DEF ServerInv, AnswersInOrder, AnswersTrue
<1>4. conn'[d] = "write" => TrueAnswer(d, resp'[d])
    BY DEF ServerInv, AnswersTrue
<1> QED
    BY <1>2, <1>3, <1>4

\* The client takes the answer out of the socket: it was given before.
LEMMA ReceiveOK ==
    ASSUME ServerInv, NEW c \in Conn, Receive(c)
    PROVE  ServerInv'
<1>1. /\ Plain /\ QueueOK /\ Mutex
    BY InvFacts
<1>2. /\ wire[c] # NoAnswer
      /\ answers' = [answers EXCEPT ![c] = Append(@, wire[c])]
      /\ wire' = [wire EXCEPT ![c] = NoAnswer]
      /\ UNCHANGED <<up, conn, nread, job, resp, store, sent, gone, queue, holder>>
    BY DEF Receive, lock
<1> DEFINE A == Answer
<1>3. answers \in [Conn -> Seq(A)] /\ wire \in [Conn -> A] /\ NoAnswer \in A
    BY <1>1, SMTT(30) DEF Plain, Answer, NoAnswer
<1>4. answers' \in [Conn -> Seq(A)] /\ wire' \in [Conn -> A]
    <2> HIDE DEF A
    <2>1. Append(answers[c], wire[c]) \in Seq(A)
        BY <1>3
    <2> QED
        BY <1>2, <1>3, <2>1
<1>5. Plain'
    BY <1>1, <1>2, <1>4 DEF Plain
<1>6. QueueOK' /\ Mutex'
    BY <1>1, <1>2, QueueKept DEF Mutex
<1>7. ASSUME NEW d \in Conn PROVE Given(d)' = Given(d)
    <2>1. CASE d = c
        <3>1. wire'[c] = NoAnswer /\ answers'[c] = Append(answers[c], wire[c])
            BY <1>2, <1>3
        <3>2. Append(answers[c], wire[c]) \o <<>> = Append(answers[c], wire[c])
              /\ answers[c] \o <<wire[c]>> = Append(answers[c], wire[c])
            <4> HIDE DEF A
            <4>1. answers[c] \in Seq(A) /\ wire[c] \in A
                BY <1>3
            <4> QED
                BY <4>1
        <3> QED
            BY <1>2, <2>1, <3>1, <3>2 DEF Given
    <2>2. CASE d # c
        <3>1. wire'[d] = wire[d] /\ answers'[d] = answers[d]
            BY <1>2, <1>3, <2>2
        <3> QED
            BY <3>1 DEF Given
    <2> QED
        BY <2>1, <2>2
<1>8. \A d \in Conn : /\ ConnInStep(d)'
                      /\ \A i \in DOMAIN Given(d)' : Given(d)'[i].id = i /\ TrueAnswer(d, Given(d)'[i])
                      /\ conn'[d] = "write" => TrueAnswer(d, resp'[d])
    BY <1>2, <1>7, GivenKept
<1>9. InStep' /\ AnswersInOrder'
    BY <1>8 DEF InStep, AnswersInOrder
<1> QED
    BY <1>2, <1>5, <1>6, <1>8, <1>9, StoreSameStep

\* SIGINT or SIGTERM: no answer is made up for a request that is dropped.
LEMMA ShutdownOK ==
    ASSUME ServerInv, Shutdown, Plain, QueueOK, Mutex
    PROVE  ServerInv'
<1>1. /\ up' = FALSE
      /\ conn' = [c \in Conn |-> IF conn[c] = "run" THEN "run" ELSE "closed"]
      /\ queue' = <<>>
      /\ UNCHANGED <<nread, job, resp, wire, store, sent, gone, answers, holder>>
    BY DEF Shutdown, clients
<1>2. Plain'
    BY <1>1 DEF Plain, States
<1>3. QueueOK'
    <2>1. queue' \in Seq(Conn) /\ DOMAIN queue' = {} /\ ToSet(queue') = {}
        BY <1>1 DEF ToSet
    <2>2. IsInjective(queue')
        BY <2>1 DEF IsInjective
    <2>3. {c \in Conn : conn'[c] = "lock"} = {}
        BY <1>1
    <2> QED
        BY <2>1, <2>2, <2>3 DEF QueueOK
<1>4. Mutex'
    BY <1>1 DEF Mutex
<1>5. ASSUME NEW d \in Conn
      PROVE  /\ ConnInStep(d)'
             /\ \A i \in DOMAIN Given(d)' : Given(d)'[i].id = i /\ TrueAnswer(d, Given(d)'[i])
             /\ conn'[d] = "write" => TrueAnswer(d, resp'[d])
    <2>1. Given(d)' = Given(d)
        BY <1>1 DEF Given
    <2>2. conn'[d] = conn[d] \/ conn'[d] = "closed"
        BY <1>1
    <2> QED
        BY <1>1, <2>1, <2>2, GivenKept
<1>6. InStep' /\ AnswersInOrder'
    BY <1>5 DEF InStep, AnswersInOrder
<1> QED
    BY <1>1, <1>2, <1>3, <1>4, <1>5, <1>6, StoreSameStep

\* write_frame puts the answer to the frame that is worked on after the others,
\* or ends the connection.
LEMMA WriteFrameOK ==
    ASSUME ServerInv, NEW c \in Conn, WriteFrame(c)
    PROVE  ServerInv'
<1> DEFINE A == Answer
<1>1. /\ Plain /\ QueueOK /\ Mutex /\ ConnInStep(c)
      /\ Len(Given(c)) \in Nat /\ nread[c] \in Nat
    BY InvFacts
<1>2. /\ conn[c] = "write"
      /\ resp' = [resp EXCEPT ![c] = NoAnswer]
      /\ UNCHANGED <<up, nread, job, store, sent, gone, answers, queue>>
    BY DEF WriteFrame, clients
<1>3. /\ conn \in [Conn -> States] /\ resp \in [Conn -> A] /\ wire \in [Conn -> A]
      /\ answers \in [Conn -> Seq(A)] /\ NoAnswer \in A
    <2>1. NoAnswer \in A
        BY DEF Answer, NoAnswer
    <2> QED
        BY <1>1, <2>1 DEF Plain
<1>4. holder' = holder
    BY <1>1, <1>2 DEF WriteFrame, Release, Mutex
<1>5. resp' \in [Conn -> A] /\ \A d \in Conn \ {c} : resp'[d] = resp[d]
    BY <1>2, <1>3
<1>6. /\ nread[c] > 0 /\ resp[c].id = nread[c] /\ Len(Given(c)) =< nread[c] - 1
      /\ ~gone[c] => Len(Given(c)) = nread[c] - 1
    BY <1>1, <1>2 DEF ConnInStep
<1> HIDE DEF A
\* The connection ends, or the client has gone and the answer is lost.
<1>7. ASSUME NEW end \in {"closed", "read"}, conn' = [conn EXCEPT ![c] = end],
             end = "read" => gone[c], UNCHANGED wire
      PROVE  ServerInv'
    <2>1. Plain'
        BY <1>1, <1>2, <1>4, <1>5, <1>7 DEF Plain, States, A
    <2>2. QueueOK'
        BY <1>1, <1>2, <1>3, <1>7, QueueKept
    <2>3. Mutex'
        BY <1>1, <1>2, <1>3, <1>4, <1>7 DEF Mutex
    <2>4. \A d \in Conn : Given(d)' = Given(d)
        BY <1>2, <1>7 DEF Given
    <2>5. ASSUME NEW d \in Conn
          PROVE  /\ ConnInStep(d)'
                 /\ \A i \in DOMAIN Given(d)' : Given(d)'[i].id = i /\ TrueAnswer(d, Given(d)'[i])
                 /\ conn'[d] = "write" => TrueAnswer(d, resp'[d])
        <3>1. CASE d = c
            <4>1. conn'[c] = end
                BY <1>3, <1>7
            <4>2. ConnInStep(c)'
                BY <1>1, <1>2, <1>7, <2>4, <4>1 DEF ConnInStep
            <4>3. \A i \in DOMAIN Given(c)' : Given(c)'[i].id = i /\ TrueAnswer(c, Given(c)'[i])
                BY <2>4 DEF ServerInv, AnswersInOrder, AnswersTrue
            <4> QED
                BY <3>1, <4>1, <4>2, <4>3
        <3>2. CASE d # c
            <4>1. conn'[d] = conn[d]
                BY <1>3, <1>7, <3>2
            <4> QED
                BY <1>2, <1>5, <2>4, <3>2, <4>1, GivenKept
        <3> QED
            BY <3>1, <3>2
    <2>6. InStep' /\ AnswersInOrder'
        BY <2>5 DEF InStep, AnswersInOrder
    <2>7. \A d \in Conn : conn'[d] \in {"lock", "run"} => conn'[d] = conn[d]
        BY <1>3, <1>7
    <2> QED
        BY <1>2, <2>1, <2>2, <2>3, <2>5, <2>6, <2>7, StoreSameStep
<1>8. CASE /\ ~gone[c] /\ wire[c] = NoAnswer /\ wire' = [wire EXCEPT ![c] = resp[c]]
           /\ conn' = [conn EXCEPT ![c] = IF up THEN "read" ELSE "closed"]
    <2>0. /\ conn'[c] \in {"read", "closed"} /\ conn' \in [Conn -> States]
          /\ \A d \in Conn \ {c} : conn'[d] = conn[d]
        BY <1>3, <1>8 DEF States
    <2>00. /\ wire' \in [Conn -> A] /\ wire'[c] = resp[c]
           /\ \A d \in Conn \ {c} : wire'[d] = wire[d]
        BY <1>3, <1>8
    <2>1. Plain'
        BY <1>1, <1>2, <1>4, <1>5, <2>0, <2>00 DEF Plain, A
    <2>2. QueueOK'
        <3>1. \A d \in Conn : conn'[d] = "lock" <=> conn[d] = "lock"
            BY <1>2, <2>0
        <3> QED
            BY <1>1, <1>2, <3>1, QueueKept
    <2>3. Mutex'
        BY <1>1, <1>2, <1>4, <2>0 DEF Mutex
    <2>4. Given(c) = answers[c]
        BY <1>1, <1>8, GivenType
    <2>5. Given(c)' = Append(Given(c), resp[c])
        <3>1. resp[c] # NoAnswer
            BY <1>1, <1>6 DEF NoAnswer
        <3>2. answers[c] \o <<resp[c]>> = Append(answers[c], resp[c])
            <4>1. answers[c] \in Seq(A) /\ resp[c] \in A
                BY <1>3
            <4> QED
                BY <4>1
        <3>3. wire'[c] # NoAnswer
            BY <2>00, <3>1
        <3> QED
            BY <1>2, <2>00, <2>4, <3>2, <3>3 DEF Given
    <2>6. Given(c) \in Seq(A) /\ resp[c] \in A
        BY <1>3, <2>4
    <2>7. /\ DOMAIN Given(c) = 1..Len(Given(c))
          /\ Len(Given(c)') = nread[c] /\ DOMAIN Given(c)' = 1..nread[c]
          /\ \A i \in 1..Len(Given(c)) : Given(c)'[i] = Given(c)[i]
          /\ Given(c)'[nread[c]] = resp[c]
        BY <1>1, <1>6, <1>8, <2>5, <2>6
    <2>8. \A i \in DOMAIN Given(c)' : Given(c)'[i].id = i /\ TrueAnswer(c, Given(c)'[i])
        <3> SUFFICES ASSUME NEW i \in DOMAIN Given(c)'
                     PROVE  Given(c)'[i].id = i /\ TrueAnswer(c, Given(c)'[i])
            OBVIOUS
        <3>1. CASE i = nread[c]
            <4>1. Given(c)'[i] = resp[c] /\ TrueAnswer(c, resp[c])
                BY <1>2, <2>7, <3>1 DEF ServerInv, AnswersTrue
            <4> QED
                BY <1>6, <3>1, <4>1
        <3>2. CASE i # nread[c]
            <4>1. i \in DOMAIN Given(c) /\ Given(c)'[i] = Given(c)[i]
                BY <1>1, <1>6, <1>8, <2>7, <3>2
            <4> QED
                BY <4>1 DEF ServerInv, AnswersInOrder, AnswersTrue
        <3> QED
            BY <3>1, <3>2
    <2>9. ConnInStep(c)'
        BY <1>1, <1>2, <2>0, <2>7 DEF ConnInStep
    <2>10. ASSUME NEW d \in Conn
           PROVE  /\ ConnInStep(d)'
                  /\ \A i \in DOMAIN Given(d)' : Given(d)'[i].id = i /\ TrueAnswer(d, Given(d)'[i])
                  /\ conn'[d] = "write" => TrueAnswer(d, resp'[d])
        <3>1. CASE d = c
            BY <2>0, <2>8, <2>9, <3>1
        <3>2. CASE d # c
            <4>1. Given(d)' = Given(d)
                BY <1>2, <2>00, <3>2 DEF Given
            <4> QED
                BY <1>2, <1>5, <2>0, <3>2, <4>1, GivenKept
        <3> QED
            BY <3>1, <3>2
    <2>11. InStep' /\ AnswersInOrder'
        BY <2>10 DEF InStep, AnswersInOrder
    <2>12. \A d \in Conn : conn'[d] \in {"lock", "run"} => conn'[d] = conn[d]
        BY <2>0
    <2> QED
        BY <1>2, <2>1, <2>2, <2>3, <2>10, <2>11, <2>12, StoreSameStep
<1> QED
    BY <1>7, <1>8 DEF WriteFrame

-----------------------------------------------------------------------------
(* Statements *)

\* What a statement that succeeds needs to show: the commits of every other
\* request are the same as before.
LEMMA ProgressStep ==
    ASSUME ServerInv, NEW c \in Conn, conn[c] = "run", Request(c).method = "query",
           UNCHANGED <<up, conn, nread, resp, wire, sent, gone, answers, queue, holder>>,
           job' = [d \in Conn |-> job'[d]], \A d \in Conn \ {c} : job'[d] = job[d],
           GoodStore(store'), TagsOK', ScriptsAreSerial', ScriptInStep(c)',
           \A n \in DOMAIN store.commits : store'.commits[n] = store.commits[n],
           \A d \in Conn, k \in Nat : d # c \/ k # nread[c] => MadeBy(d, k)' = MadeBy(d, k)
    PROVE  ServerInv'
<1>1. /\ Plain /\ QueueOK /\ Mutex /\ ConnInStep(c)
      /\ Len(Given(c)) \in Nat /\ nread[c] \in Nat
    BY InvFacts
<1>2. Plain'
    BY <1>1 DEF Plain
<1>3. QueueOK' /\ Mutex'
    BY <1>1, QueueKept DEF Mutex
<1>4. Types'
    <2>1. (Types <=> Plain /\ QueueOK /\ GoodStore(store))'
        BY TypesSplit, PTL
    <2> QED
        BY <1>2, <1>3, <2>1
<1>5. \A d \in Conn : Given(d)' = Given(d) /\ Request(d)' = Request(d)
    BY DEF Given, Request
<1>6. \A d \in Conn \ {c} : conn[d] # "run"
    BY <1>1 DEF Mutex
<1>7. InStep'
    <2> SUFFICES ASSUME NEW d \in Conn PROVE ConnInStep(d)'
        BY DEF InStep
    <2>1. ConnInStep(d)
        BY DEF ServerInv, InStep
    <2>2. conn[d] = "lock" => job'[d] = job[d]
        OBVIOUS
    <2> QED
        BY <1>5, <2>1, <2>2 DEF ConnInStep
<1>8. AnswersInOrder'
    BY <1>5 DEF ServerInv, AnswersInOrder
<1>9. RunInStep'
    BY <1>5, <1>6 DEF RunInStep, RequestInStep
<1>10. ASSUME NEW d \in Conn, NEW a, a.id \in Nat, d # c \/ a.id # nread[c], TrueAnswer(d, a)
       PROVE  TrueAnswer(d, a)'
    <2>1. MadeBy(d, a.id)' = MadeBy(d, a.id)
        BY <1>10
    <2>2. \A n \in MadeBy(d, a.id) : store'.commits[n] = store.commits[n]
        BY DEF MadeBy
    <2>3. CommittedBy(d, a.id)' = CommittedBy(d, a.id)
        BY <2>1, <2>2 DEF CommittedBy
    <2> QED
        BY <1>10, <2>1, <2>3 DEF TrueAnswer, AnswerIsTrue
<1>11. AnswersTrue'
    <2>1. ASSUME NEW d \in Conn, NEW i \in DOMAIN Given(d)' PROVE TrueAnswer(d, Given(d)[i])'
        <3> DEFINE a == Given(d)[i]
        <3>1. i \in DOMAIN Given(d) /\ TrueAnswer(d, a) /\ a.id = i
            BY <1>5 DEF ServerInv, AnswersTrue, AnswersInOrder
        <3>2. Given(d) \in Seq(Answer)
            BY InvFacts
        <3>3. i \in 1..Len(Given(d)) /\ i \in Nat
            BY <3>1, <3>2
        <3>4. d # c \/ i # nread[c]
            BY <1>1, <3>3 DEF ConnInStep
        <3>5. PICK b : b = Given(d)[i]
            OBVIOUS
        <3>6. TrueAnswer(d, b)'
            BY <1>10, <3>1, <3>3, <3>4, <3>5
        <3>7. Given(d)[i]' = b
            BY <1>5, <3>5
        <3> QED
            BY <3>6, <3>7 DEF TrueAnswer, AnswerIsTrue, CommittedBy
    <2>2. ASSUME NEW d \in Conn, conn'[d] = "write" PROVE TrueAnswer(d, resp[d])'
        <3>1. PICK b : b = resp[d]
            OBVIOUS
        <3>2. b.id \in Nat /\ d # c /\ TrueAnswer(d, b)
            <4>1. resp[d] \in Answer
                BY <1>1 DEF Plain
            <4> QED
                BY <2>2, <3>1, <4>1 DEF ServerInv, AnswersTrue, Answer
        <3>3. TrueAnswer(d, b)'
            BY <1>10, <3>2
        <3> QED
            BY <3>1, <3>3, SMTT(30) DEF TrueAnswer, AnswerIsTrue, CommittedBy
    <2> QED
        BY <2>1, <2>2 DEF AnswersTrue
<1> QED
    BY <1>4, <1>3, <1>7, <1>8, <1>9, <1>11 DEF ServerInv

\* A statement has succeeded with the result h.
Succeeded(c, h) ==
    /\ conn[c] = "run" /\ Request(c).method = "query"
    /\ job' = [job EXCEPT ![c] = [pc |-> job[c].pc + 1, out |-> Append(job[c].out, h)]]
    /\ UNCHANGED <<up, conn, nread, resp, wire, sent, gone, answers, queue, holder>>
    /\ Parses(Request(c).script) /\ job[c].pc =< Len(Request(c).script)
    /\ Len(Request(c).script) \in Nat
    /\ GoodStore(store')

\* A statement that succeeds without making a commit.
NoCommit(c) ==
    /\ Request(c).script[job[c].pc].op # "commit"
    /\ store'.commits = store.commits

\* A statement other than COMMIT keeps the invariant.
LEMMA PlainStatement ==
    ASSUME ServerInv, NEW c \in Conn, NEW h \in Nat, Succeeded(c, h), NoCommit(c)
    PROVE  ServerInv'
<1> DEFINE script == Request(c).script
           pc     == job[c].pc
           out    == job[c].out
           out2   == Append(out, h)
<1>0. /\ conn[c] = "run" /\ Request(c).method = "query"
      /\ UNCHANGED <<up, conn, nread, resp, wire, sent, gone, answers, queue, holder>>
      /\ Parses(script) /\ pc =< Len(script) /\ Len(script) \in Nat
      /\ GoodStore(store') /\ store'.commits = store.commits
      /\ script[pc].op # "commit"
    BY DEF Succeeded, NoCommit
<1>1. Plain /\ RequestInStep(c) /\ GoodStore(store)
    BY InvFacts
<1>2. ScriptInStep(c)
    BY <1>0, <1>1 DEF RequestInStep
<1>3. job = [d \in Conn |-> job[d]]
    BY <1>1 DEF Plain
<1>4. /\ job' = [d \in Conn |-> job'[d]] /\ job'[c].pc = pc + 1 /\ job'[c].out = out2
      /\ \A d \in Conn \ {c} : job'[d] = job[d]
    BY <1>3 DEF Succeeded
<1>5. \A d, k : MadeBy(d, k)' = MadeBy(d, k)
    BY <1>0 DEF MadeBy
<1>6. TagsOK'
    BY <1>0 DEF ServerInv, TagsOK
<1>7. ScriptsAreSerial'
    <2>1. \A n, m : SerialPair(n, m)' <=> SerialPair(n, m)
        BY <1>0 DEF SerialPair, MadeBy
    <2> QED
        BY <1>0, <2>1 DEF ServerInv, ScriptsAreSerial
<1>8. /\ pc \in 1..Len(script) + 1 /\ Len(out) = pc - 1 /\ out \in Seq(Nat)
      /\ MadeBy(c, nread[c]) = {out[i] : i \in {j \in DOMAIN out : script[j].op = "commit"}}
      /\ \A n \in MadeBy(c, nread[c]) :
            /\ store.commits[n].by[3] < pc
            /\ \A k \in n..Len(store.commits) : k \in MadeBy(c, nread[c])
      /\ \A i \in DOMAIN out : script[i].op = "commit" => store.commits[out[i]].by[3] = i
    BY <1>2 DEF ScriptInStep
<1>9. ScriptInStep(c)'
    <2> HIDE DEF pc, out, script
    <2>1. /\ pc \in Nat /\ pc + 1 \in 1..Len(script) + 1
        BY <1>0, <1>8
    <2>2. /\ out2 \in Seq(Nat) /\ Len(out2) = pc /\ DOMAIN out2 = 1..pc /\ DOMAIN out = 1..pc - 1
          /\ \A i \in 1..pc - 1 : out2[i] = out[i]
        BY <1>8, <2>1
    <2>3. script[pc].op # "commit"
        BY <1>0
    <2>4. {j \in DOMAIN out2 : script[j].op = "commit"} = {j \in DOMAIN out : script[j].op = "commit"}
        BY <2>1, <2>2, <2>3
    <2>5. {out2[i] : i \in {j \in DOMAIN out2 : script[j].op = "commit"}}
            = {out[i] : i \in {j \in DOMAIN out : script[j].op = "commit"}}
        BY <2>1, <2>2, <2>4
    <2>6. Request(c)'.script = script /\ Parses(script)
        BY <1>0 DEF Request, script
    <2>7. \A n \in MadeBy(c, nread[c]) : store.commits[n].by[3] \in Nat
        <3> SUFFICES ASSUME NEW n \in MadeBy(c, nread[c]) PROVE store.commits[n].by[3] \in Nat
            OBVIOUS
        <3>1. store.commits \in Seq(CommitRec)
            BY <1>1 DEF GoodStore
        <3>2. n \in 2..Len(store.commits)
            BY <3>1 DEF MadeBy
        <3> QED
            BY <3>2 DEF ServerInv, TagsOK
    <2>8. \A n \in MadeBy(c, nread[c]) : store.commits[n].by[3] < pc + 1 /\ store.commits[n].by[3] # pc
        BY <1>8, <2>1, <2>7, SMTT(30)
    <2>9. (pc + 1) - 1 = pc
        BY <2>1
    <2>10. MadeBy(c, nread[c])' = {out2[i] : i \in {j \in DOMAIN out2 : script[j].op = "commit"}}
        <3>1. MadeBy(c, nread[c])' = MadeBy(c, nread[c])
            BY <1>0 DEF MadeBy
        <3> QED
            BY <1>8, <2>5, <3>1
    <2>11. \A n \in MadeBy(c, nread[c])' :
                /\ store'.commits[n].by[3] < pc + 1
                /\ \A k \in n..Len(store'.commits) : k \in MadeBy(c, nread[c])'
                /\ store'.commits[n].by[3] # pc
        <3>1. MadeBy(c, nread[c])' = MadeBy(c, nread[c])
            BY <1>0 DEF MadeBy
        <3> QED
            BY <1>0, <1>8, <2>8, <3>1
    <2>12. \A i \in DOMAIN out2 : script[i].op = "commit" => store'.commits[out2[i]].by[3] = i
        <3> SUFFICES ASSUME NEW i \in DOMAIN out2, script[i].op = "commit"
                     PROVE  store'.commits[out2[i]].by[3] = i
            OBVIOUS
        <3>1. i \in DOMAIN out /\ out2[i] = out[i]
            BY <2>1, <2>2, <2>3
        <3> QED
            BY <1>0, <1>8, <3>1
    <2> HIDE DEF out2
    <2> QED
        <3>1. \A n \in MadeBy(c, nread[c])' :
                 /\ store'.commits[n].by[3] < job'[c].pc
                 /\ \A k \in n..Len(store'.commits) : k \in MadeBy(c, nread[c])'
                 /\ store'.commits[n].by[3] # job'[c].pc - 1
            BY <1>4, <2>9, <2>11
        <3>2. /\ job'[c].pc \in 1..Len(Request(c)'.script) + 1 /\ Parses(Request(c)'.script)
              /\ Len(job'[c].out) = job'[c].pc - 1 /\ job'[c].out \in Seq(Nat)
            BY <1>4, <2>1, <2>2, <2>6, <2>9
        <3>3. MadeBy(c, nread[c])' = {job'[c].out[i] : i \in {j \in DOMAIN job'[c].out :
                                                                Request(c)'.script[j].op = "commit"}}
            BY <1>4, <2>6, <2>10
        <3>4. \A i \in DOMAIN job'[c].out : Request(c)'.script[i].op = "commit" =>
                    store'.commits[job'[c].out[i]].by[3] = i
            BY <1>4, <2>6, <2>12
        <3> QED
            BY <3>1, <3>2, <3>3, <3>4 DEF ScriptInStep
<1> QED
    BY <1>0, <1>4, <1>5, <1>6, <1>7, <1>9, ProgressStep

\* A statement that makes a commit.
Committed(c, ps) ==
    /\ Request(c).script[job[c].pc].op = "commit"
    /\ store'.tip[store'.head] = Len(store.commits) + 1
    /\ store'.commits = Append(store.commits, [parents |-> ps, by |-> <<c, nread[c], job[c].pc>>])
    /\ Request(c).script[job[c].pc].parents = <<>> => ps = <<store.tip[store.head]>>

\* A COMMIT keeps the invariant.
LEMMA CommitStatement ==
    ASSUME ServerInv, NEW c \in Conn, NEW ps \in Seq(Nat),
           Succeeded(c, Len(store.commits) + 1), Committed(c, ps)
    PROVE  ServerInv'
<1> DEFINE script == Request(c).script
           pc     == job[c].pc
           out    == job[c].out
           N      == Len(store.commits)
           out2   == Append(out, N + 1)
           made   == MadeBy(c, nread[c])
           r      == [parents |-> ps, by |-> <<c, nread[c], pc>>]
<1>0. /\ conn[c] = "run" /\ Request(c).method = "query"
      /\ UNCHANGED <<up, conn, nread, resp, wire, sent, gone, answers, queue, holder>>
      /\ Parses(script) /\ pc =< Len(script) /\ Len(script) \in Nat
      /\ GoodStore(store') /\ store'.tip[store'.head] = N + 1
      /\ script[pc].op = "commit"
      /\ script[pc].parents = <<>> => ps = <<store.tip[store.head]>>
    BY DEF Succeeded, Committed
<1>1. Plain /\ RequestInStep(c) /\ ConnInStep(c) /\ GoodStore(store) /\ nread[c] \in Nat
    BY InvFacts
<1>2. ScriptInStep(c)
    BY <1>0, <1>1 DEF RequestInStep
<1>3. job = [d \in Conn |-> job[d]]
    BY <1>1 DEF Plain
<1>4. /\ job' = [d \in Conn |-> job'[d]] /\ job'[c].pc = pc + 1 /\ job'[c].out = out2
      /\ \A d \in Conn \ {c} : job'[d] = job[d]
    BY <1>3 DEF Succeeded
<1>5. /\ pc \in 1..Len(script) + 1 /\ Len(out) = pc - 1 /\ out \in Seq(Nat)
      /\ made = {out[i] : i \in {j \in DOMAIN out : script[j].op = "commit"}}
      /\ \A n \in made :
            /\ store.commits[n].by[3] < pc
            /\ \A k \in n..N : k \in made
            /\ store.commits[n].by[3] = pc - 1 => n = N /\ store.tip[store.head] = n
      /\ \A i \in DOMAIN out : script[i].op = "commit" => store.commits[out[i]].by[3] = i
    BY <1>2 DEF ScriptInStep
<1>6. pc \in Nat /\ pc > 0
    BY <1>5
<1> DEFINE CR == CommitRec
<1>7. store.commits \in Seq(CR)
    BY <1>1 DEF GoodStore
<1>8. r \in CR
    BY <1>1, <1>6 DEF CommitRec
<1>9. /\ N \in Nat /\ DOMAIN store.commits = 1..N
      /\ Len(store'.commits) = N + 1 /\ DOMAIN store'.commits = 1..N + 1
      /\ \A n \in 1..N : store'.commits[n] = store.commits[n]
      /\ store'.commits[N + 1] = r
    <2> HIDE DEF CR, r, pc
    <2>1. store'.commits = Append(store.commits, r)
        BY DEF Committed, r, pc
    <2> QED
        BY <1>7, <1>8, <2>1
<1>10. N > 0
    \* There is a branch at a commit.
    <2>1. store.tip \in [Name -> Nat] /\ store.head \in Name
        BY <1>1 DEF GoodStore
    <2>2. store.tip[store.head] \in Nat /\ store.tip[store.head] # 0 /\ store.tip[store.head] =< N
        BY <1>1, <2>1 DEF GoodStore
    <2> QED
        BY <1>9, <2>2
<1>11. r.by = <<c, nread[c], pc>> /\ r.parents = ps
    OBVIOUS
<1>12. \A n \in 2..N : store.commits[n].by \in Conn \X Nat \X Nat
    BY DEF ServerInv, TagsOK
<1> HIDE DEF CR, r, pc, N, out, script
<1>13. /\ r.by[1] = c /\ r.by[2] = nread[c] /\ r.by[3] = pc /\ r.by \in Conn \X Nat \X Nat
    BY <1>1, <1>6, <1>11
<1>14. \A n : n \in made <=> n \in 2..N /\ store.commits[n].by[1] = c /\ store.commits[n].by[2] = nread[c]
    BY <1>9 DEF MadeBy
<1>15. ASSUME NEW d, NEW k, NEW n
       PROVE  n \in MadeBy(d, k)' <=>
                 \/ n \in MadeBy(d, k)
                 \/ n = N + 1 /\ d = c /\ k = nread[c]
    <2>1. n \in MadeBy(d, k)' <=> n \in 1..N + 1 /\ n > 1 /\
                                  <<store'.commits[n].by[1], store'.commits[n].by[2]>> = <<d, k>>
        BY <1>9 DEF MadeBy
    <2>2. n \in MadeBy(d, k) <=> n \in 1..N /\ n > 1 /\
                                  <<store.commits[n].by[1], store.commits[n].by[2]>> = <<d, k>>
        BY <1>9 DEF MadeBy
    <2>3. CASE n = N + 1
        BY <1>9, <1>10, <1>13, <2>1, <2>2, <2>3
    <2>4. CASE n # N + 1
        BY <1>9, <2>1, <2>2, <2>4
    <2> QED
        BY <2>3, <2>4
<1>16. MadeBy(c, nread[c])' = made \cup {N + 1}
    <2>1. PICK k \in Nat : k = nread[c]
        BY <1>1
    <2>2. MadeBy(c, nread[c])' = MadeBy(c, k)'
        BY <1>0, <2>1 DEF MadeBy
    <2>3. \A n : n \in MadeBy(c, k)' <=> n \in made \/ n = N + 1
        BY <1>15, <2>1
    <2>4. \A n : n \in MadeBy(c, nread[c])' <=> n \in made \cup {N + 1}
        BY <2>2, <2>3
    <2> QED
        BY <2>4
<1>17. ASSUME NEW d \in Conn, NEW k \in Nat, d # c \/ k # nread[c]
       PROVE  MadeBy(d, k)' = MadeBy(d, k)
    <2>1. \A n : n \in MadeBy(d, k)' <=> n \in MadeBy(d, k)
        BY <1>15, <1>17
    <2> QED
        BY <2>1
<1>18. TagsOK'
    <2> SUFFICES ASSUME NEW n \in 2..N + 1
                 PROVE  LET b == store'.commits[n].by
                        IN  /\ b \in Conn \X Nat \X Nat
                            /\ b[2] > 0 /\ b[2] =< nread[b[1]]
                            /\ b[2] = nread[b[1]] => conn[b[1]] # "lock"
        BY <1>0, <1>9 DEF TagsOK
    <2>1. CASE n = N + 1
        <3>1. nread[c] > 0
            BY <1>0, <1>1 DEF ConnInStep
        <3> QED
            BY <1>0, <1>1, <1>9, <1>13, <2>1, <3>1, SMTT(30)
    <2>2. CASE n # N + 1
        <3>1. n \in 2..N /\ store'.commits[n] = store.commits[n]
            BY <1>9, <2>2
        <3> QED
            BY <3>1 DEF ServerInv, TagsOK, N
    <2> QED
        BY <2>1, <2>2
<1>19. ScriptsAreSerial'
    <2>0. ASSUME NEW n \in 2..N + 1, NEW m \in 2..N + 1 PROVE SerialPair(n, m)'
        <3> SUFFICES ASSUME n < m, store'.commits[n].by[1] = store'.commits[m].by[1],
                            store'.commits[n].by[2] = store'.commits[m].by[2]
                     PROVE  LET a == store'.commits[n].by
                                b == store'.commits[m].by
                            IN  /\ a[3] < b[3]
                                /\ \A k \in n..m :
                                        /\ k \in DOMAIN store'.commits /\ k > 1
                                        /\ <<store'.commits[k].by[1], store'.commits[k].by[2]>> = <<a[1], a[2]>>
                                /\ b[3] = a[3] + 1 /\ sent[b[1]][b[2]].script[b[3]].parents = <<>> =>
                                        store'.commits[m].parents = <<n>>
            BY <1>0 DEF SerialPair, MadeBy
        <3>1. n \in 2..N /\ store'.commits[n] = store.commits[n]
            BY <1>9
        <3> DEFINE x == store.commits[n].by[3]
        <3>2. CASE m = N + 1
            <4>1. store'.commits[m] = r /\ store.commits[n].by[1] = c /\ store.commits[n].by[2] = nread[c]
                BY <1>9, <1>13, <3>1, <3>2
            <4>2. n \in made
                BY <1>14, <3>1, <4>1
            <4>3. x < pc /\ x \in Nat
                BY <1>5, <1>12, <3>1, <4>2
            <4>4. \A k \in n..N : k \in made
                BY <1>5, <4>2
            <4>5. \A k \in n..m : /\ k \in 2..N + 1
                                  /\ store'.commits[k].by[1] = c /\ store'.commits[k].by[2] = nread[c]
                <5> SUFFICES ASSUME NEW k \in n..m
                             PROVE  /\ k \in 2..N + 1
                                    /\ store'.commits[k].by[1] = c /\ store'.commits[k].by[2] = nread[c]
                    OBVIOUS
                <5>1. CASE k = N + 1
                    BY <1>9, <1>10, <1>13, <5>1
                <5>2. CASE k # N + 1
                    <6>1. k \in n..N /\ k \in 1..N
                        BY <1>9, <3>1, <3>2, <5>2
                    <6>2. k \in made /\ store'.commits[k] = store.commits[k]
                        BY <1>9, <4>4, <6>1
                    <6> QED
                        BY <1>9, <1>14, <6>2
                <5> QED
                    BY <5>1, <5>2
            <4>6. ASSUME pc = x + 1, script[pc].parents = <<>>
                  PROVE  store'.commits[m].parents = <<n>>
                <5>1. x = pc - 1
                    <6> HIDE DEF x
                    <6> QED
                        BY <1>6, <4>3, <4>6
                <5>2. store.tip[store.head] = n
                    BY <1>5, <4>2, <5>1
                <5>3. ps = <<store.tip[store.head]>>
                    BY <1>0, <4>6
                <5> QED
                    BY <1>11, <4>1, <5>2, <5>3
            <4>7. sent[c][nread[c]].script = script
                BY DEF script, Request
            <4>8. /\ store'.commits[n].by[1] = c /\ store'.commits[n].by[2] = nread[c]
                  /\ store'.commits[n].by[3] = x
                  /\ store'.commits[m].by[1] = c /\ store'.commits[m].by[2] = nread[c]
                  /\ store'.commits[m].by[3] = pc
                BY <1>13, <3>1, <4>1
            <4> HIDE DEF x
            <4>9. store'.commits[n].by[3] < store'.commits[m].by[3]
                BY <4>3, <4>8
            <4>10. ASSUME NEW k \in n..m
                   PROVE  /\ k \in DOMAIN store'.commits /\ k > 1
                          /\ store'.commits[k].by[1] = store'.commits[n].by[1]
                          /\ store'.commits[k].by[2] = store'.commits[n].by[2]
                <5>1. k \in 2..N + 1 /\ N \in Nat
                    BY <1>9, <4>5
                <5>2. k \in DOMAIN store'.commits /\ k > 1
                    BY <1>9, <5>1
                <5> QED
                    BY <4>5, <4>8, <5>2
            <4> DEFINE b == store'.commits[m].by
            <4>11. b[3] = store'.commits[n].by[3] + 1 /\ sent[b[1]][b[2]].script[b[3]].parents = <<>>
                        => store'.commits[m].parents = <<n>>
                BY <4>6, <4>7, <4>8
            <4> QED
                BY <4>9, <4>10, <4>11
        <3>3. CASE m # N + 1
            <4>1. m \in 2..N /\ store'.commits[m] = store.commits[m]
                BY <1>9, <3>3
            <4> DEFINE a == store.commits[n].by
                       b == store.commits[m].by
            <4>2. /\ a[3] < b[3]
                  /\ \A k \in n..m : k \in MadeBy(a[1], a[2])
                  /\ b[3] = a[3] + 1 /\ sent[b[1]][b[2]].script[b[3]].parents = <<>> =>
                            store.commits[m].parents = <<n>>
                BY <3>1, <4>1 DEF ServerInv, ScriptsAreSerial, SerialPair, N
            <4>3. \A k \in n..m : k \in 1..N /\ k > 1 /\ store.commits[k].by[1] = a[1] /\ store.commits[k].by[2] = a[2]
                BY <1>9, <4>2 DEF MadeBy
            <4>4. ASSUME NEW k \in n..m
                  PROVE  /\ k \in DOMAIN store'.commits /\ k > 1
                         /\ store'.commits[k].by[1] = a[1] /\ store'.commits[k].by[2] = a[2]
                <5>1. k \in 1..N /\ k > 1 /\ store.commits[k].by[1] = a[1] /\ store.commits[k].by[2] = a[2]
                    BY <4>3
                <5>2. store'.commits[k] = store.commits[k] /\ k \in DOMAIN store'.commits
                    BY <1>9, <5>1
                <5> QED
                    BY <5>1, <5>2
            <4>5. store'.commits[n].by = a /\ store'.commits[m].by = b
                BY <3>1, <4>1
            <4>6. store'.commits[m].parents = store.commits[m].parents
                BY <4>1
            <4> HIDE DEF a, b
            <4> QED
                BY <4>2, <4>4, <4>5, <4>6
        <3> QED
            BY <3>2, <3>3
    <2> QED
        BY <1>9, <2>0 DEF ScriptsAreSerial
<1>20. ScriptInStep(c)'
    <2>1. /\ pc + 1 \in 1..Len(script) + 1 /\ (pc + 1) - 1 = pc
        BY <1>0, <1>5, <1>6
    <2>2. /\ out2 \in Seq(Nat) /\ Len(out2) = pc /\ DOMAIN out2 = 1..pc /\ DOMAIN out = 1..pc - 1
          /\ \A i \in 1..pc - 1 : out2[i] = out[i]
          /\ out2[pc] = N + 1
        BY <1>5, <1>6, <1>9
    <2>3. script[pc].op = "commit"
        BY <1>0
    <2> HIDE DEF out2
    <2>4. {out2[i] : i \in {j \in DOMAIN out2 : script[j].op = "commit"}} = made \cup {N + 1}
        <3> DEFINE C  == {j \in DOMAIN out : script[j].op = "commit"}
                   C2 == {j \in DOMAIN out2 : script[j].op = "commit"}
        <3>1. \A i : i \in C2 <=> i \in C \/ i = pc
            BY <1>6, <2>2, <2>3
        <3>2. \A i \in C : out2[i] = out[i]
            BY <2>2
        <3>3. made = {out[i] : i \in C}
            BY <1>5
        <3> HIDE DEF C, C2
        <3>4. {out2[i] : i \in C2} = {out[i] : i \in C} \cup {N + 1}
            BY <2>2, <3>1, <3>2
        <3> QED
            BY <3>3, <3>4 DEF C2
    <2>5. Request(c)'.script = script /\ Parses(script)
        BY <1>0 DEF Request, script
    <2>6. ASSUME NEW n \in made \cup {N + 1}
          PROVE  /\ store'.commits[n].by[3] < pc + 1
                 /\ \A k \in n..N + 1 : k \in made \cup {N + 1}
                 /\ store'.commits[n].by[3] = pc => n = N + 1 /\ store'.tip[store'.head] = n
        <3>1. CASE n = N + 1
            BY <1>0, <1>6, <1>9, <1>13, <3>1
        <3>2. CASE n # N + 1
            <4>1. n \in made /\ n \in 2..N
                BY <1>14, <3>2
            <4>2. store'.commits[n] = store.commits[n] /\ store.commits[n].by[3] \in Nat
                BY <1>9, <1>12, <4>1
            <4>3. store.commits[n].by[3] < pc /\ \A k \in n..N : k \in made
                BY <1>5, <4>1
            <4>4. \A k \in n..N + 1 : k \in made \cup {N + 1}
                <5> SUFFICES ASSUME NEW k \in n..N + 1, k # N + 1 PROVE k \in made
                    OBVIOUS
                <5>1. k \in n..N
                    BY <1>9, <4>1
                <5> QED
                    BY <4>3, <5>1
            <4>5. PICK x \in Nat : x = store'.commits[n].by[3]
                BY <4>2
            <4>6. x < pc
                BY <4>2, <4>3, <4>5
            <4>7. x < pc + 1 /\ x # pc
                BY <1>6, <4>6
            <4> QED
                BY <4>4, <4>5, <4>7
        <3> QED
            BY <3>1, <3>2
    <2>7. MadeBy(c, nread[c])' = {out2[i] : i \in {j \in DOMAIN out2 : script[j].op = "commit"}}
        BY <1>16, <2>4
    <2>8. \A n \in MadeBy(c, nread[c])' :
                 /\ store'.commits[n].by[3] < pc + 1
                 /\ \A k \in n..Len(store'.commits) : k \in MadeBy(c, nread[c])'
                 /\ store'.commits[n].by[3] = pc => n = Len(store'.commits) /\ store'.tip[store'.head] = n
        BY <1>9, <1>16, <2>6
    <2>9. Len(out2) = (pc + 1) - 1
        BY <2>1, <2>2
    <2>10. \A i \in DOMAIN out2 : script[i].op = "commit" => store'.commits[out2[i]].by[3] = i
        <3> SUFFICES ASSUME NEW i \in DOMAIN out2, script[i].op = "commit"
                     PROVE  store'.commits[out2[i]].by[3] = i
            OBVIOUS
        <3>1. CASE i = pc
            BY <1>0, <1>9, <1>13, <2>2, <3>1
        <3>2. CASE i # pc
            <4>1. i \in DOMAIN out /\ out2[i] = out[i]
                BY <1>6, <2>2, <3>2
            <4>2. out[i] \in made
                BY <1>5, <4>1
            <4>3. out[i] \in 2..N
                BY <1>14, <4>2
            <4>4. store'.commits[out[i]] = store.commits[out[i]]
                BY <1>9, <1>12, <4>3
            <4> QED
                BY <1>5, <4>1, <4>4
        <3> QED
            BY <3>1, <3>2
    <2> QED
        <3>1. \A n \in MadeBy(c, nread[c])' :
                 /\ store'.commits[n].by[3] < job'[c].pc
                 /\ \A k \in n..Len(store'.commits) : k \in MadeBy(c, nread[c])'
                 /\ store'.commits[n].by[3] = job'[c].pc - 1 =>
                        n = Len(store'.commits) /\ store'.tip[store'.head] = n
            BY <1>4, <2>1, <2>8
        <3>2. /\ job'[c].pc \in 1..Len(Request(c)'.script) + 1 /\ Parses(Request(c)'.script)
              /\ Len(job'[c].out) = job'[c].pc - 1 /\ job'[c].out \in Seq(Nat)
            BY <1>4, <2>1, <2>2, <2>5, <2>9
        <3>3. MadeBy(c, nread[c])' = {job'[c].out[i] : i \in {j \in DOMAIN job'[c].out :
                                                                Request(c)'.script[j].op = "commit"}}
            BY <1>4, <2>5, <2>7
        <3>4. \A i \in DOMAIN job'[c].out : Request(c)'.script[i].op = "commit" =>
                    store'.commits[job'[c].out[i]].by[3] = i
            BY <1>4, <2>5, <2>10
        <3> QED
            BY <3>1, <3>2, <3>3, <3>4 DEF ScriptInStep
<1> QED
    BY <1>0, <1>4, <1>9, <1>17, <1>18, <1>19, <1>20, ProgressStep

\* run_query: every way a statement, or the script, can end.
LEMMA StatementStep ==
    ASSUME ServerInv, NEW c \in Conn, Statement(c)
    PROVE  ServerInv'
<1> DEFINE script == Request(c).script
           pc     == job[c].pc
           out    == job[c].out
           made   == MadeBy(c, nread[c])
<1>1. /\ Plain /\ RequestInStep(c) /\ ConnInStep(c) /\ GoodStore(store) /\ nread[c] \in Nat
    BY InvFacts
<1>2. /\ conn[c] = "run" /\ Request(c).method = "query"
      /\ UNCHANGED <<up, nread, wire, sent, gone, answers>>
    BY DEF Statement, Running, clients
<1>3. ScriptInStep(c)
    BY <1>1, <1>2 DEF RequestInStep
<1>4. /\ pc \in 1..Len(script) + 1 /\ Len(out) = pc - 1 /\ out \in Seq(Nat)
      /\ pc > 1 => Parses(script)
      /\ made = {out[i] : i \in {j \in DOMAIN out : script[j].op = "commit"}}
      /\ \A i \in DOMAIN out : script[i].op = "commit" => store.commits[out[i]].by[3] = i
    BY <1>3 DEF ScriptInStep
<1>5. /\ script \in Seq(ToSet(script)) /\ \A stmt \in ToSet(script) : StatementOK(stmt)
    <2>1. nread[c] > 0 /\ nread[c] =< Len(sent[c]) /\ Len(sent[c]) \in Nat
        BY <1>1, <1>2, ServerAssumption DEF ConnInStep, Plain
    <2>2. nread[c] \in 1..Len(sent[c])
        BY <1>1, <2>1
    <2>3. FrameOK(Request(c))
        BY <1>1, <2>2, RequestOK DEF Request
    <2> QED
        BY <1>2, <2>3 DEF FrameOK
<1>6. Len(script) \in Nat /\ DOMAIN script = 1..Len(script)
    BY <1>5
<1>7. pc \in Nat
    BY <1>4, <1>6
<1>8. sent[c][nread[c]] = Request(c)
    BY DEF Request
<1> DEFINE no == Err(c)
\* What the statements before pc have committed.
<1>9. CommittedBy(c, nread[c]) = {j \in 1..pc - 1 : script[j].op = "commit"}
    <2> DEFINE C == {j \in DOMAIN out : script[j].op = "commit"}
    <2>1. DOMAIN out = 1..pc - 1
        BY <1>4, <1>7
    <2>2. made = {out[i] : i \in C} /\ \A i \in C : store.commits[out[i]].by[3] = i
        BY <1>4
    <2> HIDE DEF C, out
    <2>3. {store.commits[n].by[3] : n \in made} = C
        BY <2>2
    <2> QED
        BY <2>1, <2>3 DEF CommittedBy, C
<1>9a. ASSUME pc \in DOMAIN script, Reply(c, no), store' = store
      PROVE  ServerInv'
    <2>1. no \in Answer /\ no.id = nread[c] /\ no.ok = FALSE
        BY <1>1 DEF Err, Answer
    <2> HIDE DEF no
    <2>2. TrueAnswer(c, no)
        BY <1>2, <1>8, <1>9, <1>9a, <2>1 DEF TrueAnswer, AnswerIsTrue
    <2> QED
        BY <1>2, <1>9a, <2>1, <2>2, ReplyOK
<1>10. CASE ~Parses(script) /\ Reply(c, Err(c)) /\ UNCHANGED store
    <2>1. pc = 1
        BY <1>4, <1>6, <1>10
    <2>2. \E i : i \in DOMAIN script
        BY <1>10 DEF Parses
    <2>3. pc \in DOMAIN script
        BY <1>6, <2>1, <2>2
    <2> QED
        BY <1>10, <1>9a, <2>3
<1>11. CASE Parses(script) /\ pc > Len(script) /\ Reply(c, Ok(c, out)) /\ UNCHANGED store
    <2> DEFINE a == Ok(c, out)
    <2>1. a \in Answer /\ a.id = nread[c] /\ a.ok = TRUE /\ a.out = out
        BY <1>1, <1>4 DEF Ok, Answer
    <2>2. Len(out) = Len(script)
        BY <1>4, <1>6, <1>7, <1>11
    <2>3. DOMAIN out = DOMAIN script
        BY <1>4, <1>6, <2>2
    <2>4. Reply(c, a)
        BY <1>11
    <2> HIDE DEF a
    <2>5. TrueAnswer(c, a)
        <3> HIDE DEF out
        <3>1. MadeBy(c, a.id) = {a.out[i] : i \in {j \in DOMAIN script : script[j].op = "commit"}}
            BY <1>4, <2>1, <2>3
        <3>2. sent[c][a.id] = Request(c) /\ Len(a.out) = Len(script) /\ a.ok
            BY <1>8, <2>1, <2>2
        <3> QED
            BY <1>2, <3>1, <3>2 DEF TrueAnswer, AnswerIsTrue, CommittedBy
    <2> QED
        BY <1>2, <1>11, <2>1, <2>4, <2>5, ReplyOK
<1> DEFINE stmt == script[pc]
           by   == <<c, nread[c], pc>>
           e    == Exec(store, stmt, by)
<1>12. CASE /\ Parses(script) /\ pc =< Len(script) /\ store' = e.store
            /\ IF e.ok
               THEN /\ job' = [job EXCEPT ![c] = [pc |-> pc + 1, out |-> Append(@.out, e.hash)]]
                    /\ AfterStatement(c)
                    /\ UNCHANGED resp
               ELSE FailStatement(c)
    <2>1. pc \in DOMAIN script
        BY <1>4, <1>6, <1>12
    <2>2. StatementOK(stmt) /\ stmt.op # "syntax"
        BY <1>5, <1>12, <2>1 DEF ToSet, Parses
    <2>3. by \in Conn \X Nat \X Nat
        BY <1>1, <1>7
    <2>4. GoodOutcome(store, stmt, by, e)
        <3> HIDE DEF stmt, by
        <3> QED
            BY <1>1, <2>2, <2>3, ExecOK
    <2> HIDE DEF e
    <2>5. GoodStore(store') /\ e.ok \in BOOLEAN /\ e.hash \in Nat /\ Outcome(store, stmt, by, e)
        BY <1>12, <2>4 DEF GoodOutcome
    <2>6. CASE ~e.ok
        <3>1. store' = store
            BY <1>12, <2>5, <2>6 DEF Outcome
        <3>2. Reply(c, no)
            BY <1>12, <2>6 DEF FailStatement
        <3> QED
            BY <1>9a, <2>1, <3>1, <3>2
    <2>7. ASSUME e.ok PROVE Succeeded(c, e.hash)
        <3>1. UNCHANGED <<up, conn, nread, resp, wire, sent, gone, answers, queue, holder>>
            BY <1>2, <1>12, <2>7 DEF AfterStatement, lock
        <3>2. job' = [job EXCEPT ![c] = [pc |-> pc + 1, out |-> Append(@.out, e.hash)]]
            BY <1>12, <2>7
        <3> QED
            BY <1>2, <1>6, <1>12, <2>5, <3>1, <3>2 DEF Succeeded
    <2>8. CASE e.ok /\ stmt.op # "commit"
        <3>1. store'.commits = store.commits
            BY <1>12, <2>5, <2>8 DEF Outcome
        <3>2. NoCommit(c)
            BY <2>8, <3>1 DEF NoCommit
        <3> QED
            BY <2>5, <2>7, <2>8, <3>2, PlainStatement
    <2>9. CASE e.ok /\ stmt.op = "commit"
        <3> HIDE DEF by, stmt
        <3>1. /\ e.hash = Len(store.commits) + 1 /\ e.store.tip[e.store.head] = e.hash
              /\ \E ps \in Seq(Nat) :
                    /\ e.store.commits = Append(store.commits, [parents |-> ps, by |-> by])
                    /\ stmt.parents = <<>> => ps = <<store.tip[store.head]>>
            BY <2>5, <2>9 DEF Outcome
        <3>2. PICK ps \in Seq(Nat) :
                    /\ e.store.commits = Append(store.commits, [parents |-> ps, by |-> by])
                    /\ stmt.parents = <<>> => ps = <<store.tip[store.head]>>
            BY <3>1
        <3>3. store' = e.store
            BY <1>12
        <3>4. Committed(c, ps)
            BY <2>9, <3>1, <3>2, <3>3 DEF Committed, by, stmt
        <3>5. Succeeded(c, Len(store.commits) + 1)
            BY <2>7, <2>9, <3>1
        <3> QED
            BY <3>4, <3>5, CommitStatement
    <2> QED
        BY <2>6, <2>8, <2>9
<1> QED
    BY <1>10, <1>11, <1>12 DEF Statement

-----------------------------------------------------------------------------
(* The theorems *)

\* The invariant holds when the server starts.
LEMMA InitServerInv == Init => ServerInv
<1> SUFFICES ASSUME Init PROVE ServerInv
    OBVIOUS
<1> DEFINE F == UNION {Frames[c] : c \in Conn}
<1>1. /\ sent \in [Conn -> F] /\ \A c \in Conn : sent[c] \in Frames[c]
    BY DEF Init
<1>2. NoAnswer \in Answer /\ NoAnswer.id = 0
    BY DEF NoAnswer, Answer
<1> HIDE DEF F
<1>3. \A c \in Conn : Len(sent[c]) \in Nat
    BY <1>1, ServerAssumption
<1>4. Plain
    BY <1>1, <1>2, <1>3 DEF Init, Plain, States
<1>5. QueueOK
    BY DEF Init, QueueOK, IsInjective, ToSet
<1>6. store.head = Main /\ store.tip = [n \in Name |-> IF n = Main THEN 1 ELSE 0]
      /\ store.commits = <<[parents |-> <<>>, by |-> <<>>]>>
    BY DEF Init
<1>7. Len(store.commits) = 1
    BY <1>6
<1>8. GoodStore(store)
    <2> DEFINE CR == CommitRec
    <2>1. [parents |-> <<>>, by |-> <<>>] \in CR
        BY DEF CommitRec
    <2>2. store.commits \in Seq(CR)
        <3> DEFINE r == [parents |-> <<>>, by |-> <<>>]
        <3>1. r \in CR /\ store.commits = <<r>>
            BY <1>6, <2>1
        <3> HIDE DEF CR, r
        <3> QED
            BY <3>1
    <2>3. store.tip \in [Name -> Nat]
        BY <1>6
    <2> HIDE DEF CR
    <2>4. store \in [head : Name, tip : [Name -> Nat], commits : Seq(CR)]
        <3>1. store = [head |-> store.head, tip |-> store.tip, commits |-> store.commits]
            BY DEF Init
        <3>2. store.head \in Name
            BY <1>6, ServerAssumption
        <3> QED
            BY <2>2, <2>3, <3>1, <3>2
    <2>5. \A n \in Name : store.tip[n] =< Len(store.commits)
        BY <1>6, <1>7
    <2>6. store.tip[store.head] # 0
        BY <1>6, ServerAssumption
    <2> QED
        BY <2>4, <2>5, <2>6 DEF GoodStore, CR
<1>9. Types
    BY <1>4, <1>5, <1>8, TypesSplit
<1>10. Mutex
    BY ServerAssumption DEF Init, Mutex
<1>11. \A c \in Conn : Given(c) = <<>>
    <2>1. \A c \in Conn : answers[c] = <<>> /\ wire[c] = NoAnswer
        BY DEF Init
    <2> QED
        BY <1>4, <2>1, GivenType
<1>12. InStep /\ AnswersInOrder
    BY <1>11 DEF Init, InStep, ConnInStep, AnswersInOrder
<1>13. TagsOK /\ ScriptsAreSerial
    BY <1>7 DEF TagsOK, ScriptsAreSerial
<1>14. RunInStep /\ AnswersTrue
    BY <1>11 DEF Init, RunInStep, RequestInStep, AnswersTrue
<1> QED
    BY <1>9, <1>10, <1>12, <1>13, <1>14 DEF ServerInv

\* The invariant is a state predicate of the variables.
LEMMA StutterServerInv ==
    ASSUME ServerInv, UNCHANGED vars
    PROVE  ServerInv'
<1>1. UNCHANGED <<up, conn, nread, job, resp, wire, store, sent, gone, answers, queue, holder>>
    BY DEF vars, clients, lock
<1>2. Plain /\ QueueOK /\ Mutex
    BY TypesSplit DEF ServerInv
<1>3. Plain'
    BY <1>1, <1>2 DEF Plain
<1>4. QueueOK' /\ Mutex'
    BY <1>1, <1>2, QueueKept DEF Mutex
<1>5. ASSUME NEW d \in Conn
      PROVE  /\ ConnInStep(d)'
             /\ \A i \in DOMAIN Given(d)' : Given(d)'[i].id = i /\ TrueAnswer(d, Given(d)'[i])
             /\ conn'[d] = "write" => TrueAnswer(d, resp'[d])
    <2>1. Given(d)' = Given(d)
        BY <1>1 DEF Given
    <2> QED
        BY <1>1, <2>1, GivenKept
<1>6. InStep' /\ AnswersInOrder'
    BY <1>5 DEF InStep, AnswersInOrder
<1> QED
    BY <1>1, <1>3, <1>4, <1>5, <1>6, StoreSameStep

\* Every step of the server and of its clients keeps the invariant.
LEMMA StepServerInv == ServerInv /\ [Next]_vars => ServerInv'
<1> SUFFICES ASSUME ServerInv, [Next]_vars PROVE ServerInv'
    OBVIOUS
<1>1. ASSUME NEW c \in Conn, Work(c) PROVE ServerInv'
    BY <1>1, AcceptOK, ReadFrameOK, ReadEofOK, AcquireOK, StatementStep, ListBranchesOK,
       ReadTipsOK, GetObjectOK DEF Work
<1>2. ASSUME NEW c \in Conn, WriteFrame(c) PROVE ServerInv'
    BY <1>2, WriteFrameOK
<1>3. ASSUME NEW c \in Conn, Receive(c) PROVE ServerInv'
    BY <1>3, ReceiveOK
<1>4. ASSUME NEW c \in Conn, Leave(c) PROVE ServerInv'
    BY <1>4, LeaveOK
<1>5. CASE Shutdown
    <2>1. Plain /\ QueueOK /\ Mutex
        BY TypesSplit DEF ServerInv
    <2> QED
        BY <1>5, <2>1, ShutdownOK
<1>6. CASE UNCHANGED vars
    BY <1>6, StutterServerInv
<1> QED
    BY <1>1, <1>2, <1>3, <1>4, <1>5, <1>6 DEF Next

\* The inductive invariant: the task that runs a request is the one that holds the
\* guard, commits carry the frame they were made for, and what a task has done
\* of a script is what the store and the answers say.
THEOREM ServerInvariant == Spec => []ServerInv
BY InitServerInv, StepServerInv, PTL DEF Spec

\* Tasks wait in the queue once each, and HEAD is always on a branch that exists.
THEOREM ServerTypeCorrect == Spec => []TypeOK
<1>1. ServerInv => TypeOK
    BY DEF ServerInv, Types
<1> QED
    BY <1>1, ServerInvariant, PTL

\* epx.rs answers the frames of a connection one by one and in order.
THEOREM AnswersComeInOrder == Spec => []AnswersInOrder
<1>1. ServerInv => AnswersInOrder
    BY DEF ServerInv
<1> QED
    BY <1>1, ServerInvariant, PTL

\* The guard is held for the whole of a script: the commits of a script are
\* consecutive, in its order, and each is the child of the one before.
THEOREM ScriptsRunSerially == Spec => []ScriptsAreSerial
<1>1. ServerInv => ScriptsAreSerial
    BY DEF ServerInv
<1> QED
    BY <1>1, ServerInvariant, PTL

\* After an ok answer the whole script was executed and its results name the
\* commits that were made; after an error exactly a prefix of it was executed.
THEOREM AnswersAreTrue == Spec => []AnswersTellTheTruth
<1>1. ServerInv => AnswersTellTheTruth
    BY SMTT(30) DEF ServerInv, AnswersTrue, TrueAnswer, AnswersTellTheTruth, ToSet
<1> QED
    BY <1>1, ServerInvariant, PTL

\* refs never meets a branch that was deleted after it was listed.
THEOREM RefsNeverFails == Spec => []RefsAlwaysAnswer
<1>1. ServerInv => RefsAlwaysAnswer
    BY DEF ServerInv, AnswersTrue, TrueAnswer, RefsAlwaysAnswer, ToSet
<1> QED
    BY <1>1, ServerInvariant, PTL
=============================================================================
