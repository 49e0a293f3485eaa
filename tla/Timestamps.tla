----------------------------- MODULE Timestamps -----------------------------
(***************************************************************************)
(* next_timestamp of epochs-core/src/store/disk.rs: "Monotonic timestamps   *)
(* without a syscall on every commit".  A static counter is shared by all   *)
(* threads of the process; the call that finds it at 0 reads the clock and  *)
(* stores it, in two steps other threads may come between.                  *)
(***************************************************************************)
EXTENDS Integers, Sequences

CONSTANTS
    Thread,     \* the threads of the process
    Clock,      \* the values now_millis can return
    MaxCalls    \* bound on the calls of one behaviour

\* The clock reads later than the first MaxCalls milliseconds of 1970.
ASSUME ClockAssumption ==
    /\ MaxCalls \in Nat
    /\ Clock \subseteq Nat /\ Clock # {}
    /\ \A c \in Clock : c > MaxCalls

VARIABLES
    TS,      \* the static counter
    clock,   \* what now_millis returns
    call,    \* the call of each thread: its next step, n, and how many had returned when it began
    issued   \* the timestamps returned, in order, each with that number

tsVars == <<TS, clock, call, issued>>

Pcs    == {"idle", "first", "store", "got"}
Call   == [pc : Pcs, n : Nat, after : Nat]
NoCall == [pc |-> "idle", n |-> 0, after |-> 0]

\* The calls that have taken their number.
Taken == Len(issued) + IF \E t \in Thread : call[t].pc \in {"first", "store"} THEN 1 ELSE 0

Return(t, n, after) ==
    /\ call' = [call EXCEPT ![t] = [pc |-> "got", n |-> n, after |-> after]]
    /\ issued' = Append(issued, [n |-> n, after |-> after])

\* TS.fetch_add(1): the number is the timestamp unless it is 0.
FetchAdd(t) ==
    /\ call[t].pc = "idle"
    /\ Taken < MaxCalls
    /\ TS' = TS + 1
    /\ IF TS = 0
       THEN /\ call' = [call EXCEPT ![t] = [pc |-> "first", n |-> 0, after |-> Len(issued)]]
            /\ UNCHANGED issued
       ELSE Return(t, TS, Len(issued))
    /\ UNCHANGED clock

ReadClock(t) ==
    /\ call[t].pc = "first"
    /\ call' = [call EXCEPT ![t].pc = "store", ![t].n = clock]
    /\ UNCHANGED <<TS, clock, issued>>

\* Mutant: the counter is left at the timestamp itself.
StoreSame(t) ==
    /\ call[t].pc = "store"
    /\ TS' = call[t].n
    /\ Return(t, call[t].n, call[t].after)
    /\ UNCHANGED clock

\* TS.store(n + 1)
StoreNext(t) ==
    /\ call[t].pc = "store"
    /\ TS' = call[t].n + 1
    /\ Return(t, call[t].n, call[t].after)
    /\ UNCHANGED clock

\* The caller goes on with its timestamp.
Done(t) ==
    /\ call[t].pc = "got"
    /\ call' = [call EXCEPT ![t] = NoCall]
    /\ UNCHANGED <<TS, clock, issued>>

\* The system clock is no monotonic clock: it may be set back.
Tick ==
    /\ clock' \in Clock
    /\ UNCHANGED <<TS, call, issued>>

TsInit ==
    /\ TS = 0
    /\ clock \in Clock
    /\ call = [t \in Thread |-> NoCall]
    /\ issued = <<>>

TsNext ==
    \/ \E t \in Thread : FetchAdd(t) \/ ReadClock(t) \/ StoreNext(t) \/ Done(t)
    \/ Tick

TsSpec == TsInit /\ [][TsNext]_tsVars

\* "Monotonic timestamps": a call that begins after another has returned gets a
\* larger timestamp, in whichever threads they run and however the first calls
\* race for the clock; no timestamp is given twice.
TimestampsGrow ==
    /\ \A i \in DOMAIN issued : \A j \in 1 .. issued[i].after : issued[j].n < issued[i].n
    /\ \A i, j \in DOMAIN issued : issued[i].n = issued[j].n => i = j
=============================================================================
