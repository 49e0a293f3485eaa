---------------------------- MODULE DurableStore ----------------------------
(***************************************************************************)
(* What the content-addressed store promises its callers, without segments, *)
(* buffers, an index file or caches: a store that is open answers for a set *)
(* of objects, loses none of them while it stays open, and answers for      *)
(* everything that was ever flushed whenever it is opened again.            *)
(***************************************************************************)
EXTENDS FiniteSets

CONSTANT Obj

VARIABLES
    open,     \* a process has the store open
    good,     \* the objects for which get returns the payload that was put
    wrote,    \* objects written by this process since its last flush
    durable   \* objects that were in wrote when a flush returned

vars == <<open, good, wrote, durable>>

Init ==
    /\ open = FALSE
    /\ good = {} /\ wrote = {} /\ durable = {}

\* CasStore::open, after a drop or a crash.
Open ==
    /\ ~open /\ open'
    /\ durable \subseteq good' /\ good' \subseteq Obj
    /\ UNCHANGED <<wrote, durable>>

\* put of an object the store did not know.
Store(o) ==
    /\ open
    /\ wrote' = wrote \cup {o}
    /\ good' = good \cup {o}
    /\ UNCHANGED <<open, durable>>

Flush ==
    /\ open
    /\ durable' = durable \cup wrote
    /\ wrote' = {}
    /\ UNCHANGED <<open, good>>

\* Drop for CasStore flushes.
Close ==
    /\ open /\ ~open'
    /\ durable' = durable \cup wrote
    /\ wrote' = {} /\ good' = {}

Crash ==
    /\ open /\ ~open'
    /\ wrote' = {} /\ good' = {}
    /\ UNCHANGED durable

Next == Open \/ (\E o \in Obj : Store(o)) \/ Flush \/ Close \/ Crash

Spec == Init /\ [][Next]_vars
=============================================================================
