--------------------------- MODULE RecoverWorkload ---------------------------
(***************************************************************************)
(* The recovery demonstrations (cxlalloc-recover): threads put objects into    *)
(* a persistent queue, or into the table of clevel, and take them out again,    *)
(* while one of them, the victim, panics every now and then and is started       *)
(* anew.  With an allocator that collects garbage the victim then stops the       *)
(* others: they meet at a barrier before the collection and after it.            *)
(*                                                                         *)
(* The data structures and the restart of the victim belong to memento, and    *)
(* are taken to be what they promise: an operation that a checkpoint recorded    *)
(* is not done twice.                                                         *)
(***************************************************************************)
EXTENDS Integers, FiniteSets, FiniteSetsExt

CONSTANTS
    Workload,       \* "queue" or "clevel"
    ThreadCount,
    Victim,         \* CRASH_VICTIM
    ObjectCount,
    CrashCount,
    Block           \* BLOCK: the allocator collects garbage

HarnessAssumption ==
    /\ Workload \in {"queue", "clevel"}
    /\ Victim \in 1..ThreadCount /\ (Workload = "clevel" => Victim # 1)
    /\ ObjectCount > CrashCount     \* otherwise CRASH is 0, and `i % crash` panics
    /\ Block \in BOOLEAN

VARIABLES
    pc, phase,      \* where a thread is, and in which of its loops
    i,              \* the loop counter
    crashes,        \* crash_count, the crashes a thread has still to wait for
    saved,          \* what the checkpoint of a thread holds
    items,          \* the objects in the queue or the table
    local, global,  \* LOCAL and GLOBAL: sums of what was dequeued
    stop,           \* STOP
    arrived,        \* the threads inside BARRIER.wait
    detect,         \* CRASH_DETECT, and whether it is poisoned
    poisoned

vars == <<pc, phase, i, crashes, saved, items, local, global, stop, arrived, detect, poisoned>>

Workers == 1..ThreadCount
Resizer == IF Workload = "clevel" THEN {1} ELSE {}

\* Config::run; crash_count 0 stands for a period that is never reached
Period == IF CrashCount = 0 THEN ObjectCount + 1 ELSE ObjectCount \div (CrashCount + 1)
Sum(n) == SumSet(0..(n - 1))
Final == Sum(ObjectCount) * ThreadCount
BarrierSize == ThreadCount - Cardinality(Resizer)

Init ==
    /\ pc = [t \in Workers |-> IF t \in Resizer THEN "receive" ELSE "start"]
    /\ phase = [t \in Workers |-> "insert"]
    /\ i = [t \in Workers |-> 0]
    /\ crashes = [t \in Workers |-> CrashCount]
    /\ saved = [t \in Workers |-> 0]
    /\ items = {} /\ local = [t \in Workers |-> 0] /\ global = 0
    /\ stop = FALSE /\ arrived = {} /\ detect = 0 /\ poisoned = FALSE

Goto(t, l) == pc' = [pc EXCEPT ![t] = l]

-----------------------------------------------------------------------------
(* A run of a thread, from its start or its restart.                         *)

Start(t) ==
    /\ pc[t] = "start"
    /\ i' = [i EXCEPT ![t] = 0]
    /\ phase' = [phase EXCEPT ![t] = "insert"]
    /\ local' = [local EXCEPT ![t] = 0]
    /\ Goto(t, IF t = Victim /\ poisoned /\ Block THEN "stop" ELSE "op")
    /\ poisoned' = (poisoned /\ t # Victim)
    /\ UNCHANGED <<crashes, saved, items, global, stop, arrived, detect>>

Stop ==
    /\ pc[Victim] = "stop"
    /\ stop' = TRUE
    /\ Goto(Victim, "wait1")
    /\ UNCHANGED <<phase, i, crashes, saved, items, local, global, arrived, detect, poisoned>>

GcKeepsStop ==
    /\ pc[Victim] = "gc"
    /\ Goto(Victim, "wait2")
    /\ UNCHANGED <<phase, i, crashes, saved, items, local, global, stop, arrived, detect, poisoned>>

\* The collection ends.
Gc ==
    /\ pc[Victim] = "gc"
    /\ stop' = FALSE
    /\ Goto(Victim, "wait2")
    /\ UNCHANGED <<phase, i, crashes, saved, items, local, global, arrived, detect, poisoned>>

\* BARRIER.wait: the last to arrive lets all go on.  A thread that was stopped
\* counts the crash.
Wait(t) ==
    LET met == Cardinality(arrived) + 1 = BarrierSize
        all == arrived \union {t}
        next(u) == IF pc[u] = "wait1" THEN IF u = Victim THEN "gc" ELSE "wait2" ELSE "op"
    IN
    /\ pc[t] \in {"wait1", "wait2"} /\ t \notin arrived
    /\ arrived' = IF met THEN {} ELSE all
    /\ pc' = IF met THEN [u \in Workers |-> IF u \in all THEN next(u) ELSE pc[u]] ELSE pc
    /\ crashes' = IF met THEN [u \in Workers |-> IF u \in all \ {Victim} /\ pc[u] = "wait2"
                                                THEN crashes[u] - 1 ELSE crashes[u]]
                         ELSE crashes
    /\ UNCHANGED <<phase, i, saved, items, local, global, stop, detect, poisoned>>

-----------------------------------------------------------------------------
(* The loops.                                                                *)

InsertAgain(t) ==
    /\ pc[t] = "op" /\ phase[t] = "insert" /\ i[t] < ObjectCount
    /\ i' = [i EXCEPT ![t] = @ + 1]
    /\ items' = items \union {<<t, i[t] + 1>>}
    /\ Goto(t, "check")
    /\ UNCHANGED <<phase, crashes, saved, local, global, stop, arrived, detect, poisoned>>

\* The first call of `checkpoint` after a restart returns what was recorded, and
\* the insertion that follows finds that it was done.
Insert(t) ==
    LET replay == i[t] = 0 /\ saved[t] > 0
        n == IF replay THEN saved[t] ELSE i[t] + 1
    IN
    /\ pc[t] = "op" /\ phase[t] = "insert" /\ i[t] < ObjectCount
    /\ i' = [i EXCEPT ![t] = n]
    /\ saved' = [saved EXCEPT ![t] = n]
    /\ items' = IF replay THEN items ELSE items \union {<<t, n>>}
    /\ Goto(t, "check")
    /\ UNCHANGED <<phase, crashes, local, global, stop, arrived, detect, poisoned>>

InsertEnds(t) ==
    /\ pc[t] = "op" /\ phase[t] = "insert" /\ i[t] = ObjectCount
    /\ phase' = [phase EXCEPT ![t] = "remove"]
    /\ i' = [i EXCEPT ![t] = 0]
    /\ UNCHANGED <<pc, crashes, saved, items, local, global, stop, arrived, detect, poisoned>>

\* What a thread other than the victim does after each operation
Check(t) ==
    /\ pc[t] = "check" /\ t # Victim
    /\ Goto(t, IF stop THEN "wait1" ELSE "op")
    /\ UNCHANGED <<phase, i, crashes, saved, items, local, global, stop, arrived, detect, poisoned>>

\* What the victim does: panic, while it holds the lock of CRASH_DETECT
Panics ==
    /\ phase[Victim] = "insert" /\ i[Victim] % Period = 0
    /\ i[Victim] > detect /\ detect \div Period < CrashCount

Panic ==
    /\ pc[Victim] = "check" /\ Panics
    /\ detect' = i[Victim]
    /\ poisoned' = TRUE
    /\ Goto(Victim, "start")
    /\ UNCHANGED <<phase, i, crashes, saved, items, local, global, stop, arrived>>

GoOn ==
    /\ pc[Victim] = "check" /\ ~Panics
    /\ Goto(Victim, "op")
    /\ UNCHANGED <<phase, i, crashes, saved, items, local, global, stop, arrived, detect, poisoned>>

\* dequeue returns an object (any object: the order plays no role)
Dequeue(t) ==
    /\ pc[t] = "op" /\ phase[t] = "remove" /\ Workload = "queue"
    /\ \E o \in items :
          /\ items' = items \ {o}
          /\ local' = [local EXCEPT ![t] = @ + (o[2] - 1)]
    /\ Goto(t, "check")
    /\ UNCHANGED <<phase, i, crashes, saved, global, stop, arrived, detect, poisoned>>

\* dequeue returns None
Empty(t) ==
    /\ pc[t] = "op" /\ phase[t] = "remove" /\ Workload = "queue"
    /\ items = {}
    /\ IF local[t] = 0 /\ global = Final
       THEN phase' = [phase EXCEPT ![t] = "drain"] /\ UNCHANGED pc
       ELSE Goto(t, "check") /\ UNCHANGED phase
    /\ global' = global + local[t]
    /\ local' = [local EXCEPT ![t] = 0]
    /\ UNCHANGED <<i, crashes, saved, items, stop, arrived, detect, poisoned>>

\* The second loop of clevel
Delete(t) ==
    /\ pc[t] = "op" /\ phase[t] = "remove" /\ Workload = "clevel"
    /\ IF i[t] < ObjectCount
       THEN /\ i' = [i EXCEPT ![t] = @ + 1]
            /\ items' = items \ {<<t, i[t] + 1>>}
            /\ Goto(t, "check") /\ UNCHANGED phase
       ELSE /\ phase' = [phase EXCEPT ![t] = "drain"]
            /\ UNCHANGED <<pc, i, items>>
    /\ UNCHANGED <<crashes, saved, local, global, stop, arrived, detect, poisoned>>

\* A thread that is through still meets the victim once for each crash to come.
Drain(t) ==
    /\ pc[t] = "op" /\ phase[t] = "drain"
    /\ Goto(t, IF t # Victim /\ Block /\ crashes[t] > 0 THEN "wait1" ELSE "done")
    /\ UNCHANGED <<phase, i, crashes, saved, items, local, global, stop, arrived, detect, poisoned>>

\* Thread 1 of clevel receives requests to resize until all senders are gone;
\* an insertion that is under way or done may have sent one.
Resize(t) ==
    /\ t \in Resizer
    /\ \/ pc[t] = "receive" /\ \E u \in Workers \ Resizer : phase[u] = "insert" /\ i[u] > 0
          /\ Goto(t, "resize")
       \/ pc[t] = "resize" /\ Goto(t, "receive")
       \/ pc[t] = "receive" /\ (\A u \in Workers \ Resizer : pc[u] = "done")
          /\ Goto(t, "done")
    /\ UNCHANGED <<phase, i, crashes, saved, items, local, global, stop, arrived, detect, poisoned>>

Finished == (\A t \in Workers : pc[t] = "done") /\ UNCHANGED vars

Act(t) == Start(t) \/ Wait(t) \/ Insert(t) \/ InsertEnds(t) \/ Check(t) \/ Dequeue(t) \/ Empty(t)
          \/ Delete(t) \/ Drain(t) \/ Resize(t)
Step == (\E t \in Workers : Act(t)) \/ Stop \/ Gc \/ Panic \/ GoOn
Next == Step \/ Finished

Spec == Init /\ [][Next]_vars

\* Every thread runs; the threads that spin do so on data that others change.
LiveSpec ==
    /\ Spec
    /\ \A t \in Workers : WF_vars(Act(t))
    /\ WF_vars(Stop) /\ WF_vars(Gc) /\ WF_vars(Panic) /\ WF_vars(GoOn)

-----------------------------------------------------------------------------
(***************************************************************************)
(* "Block for garbage collection" (worker.rs): while the victim collects,      *)
(* every other thread is between the two barriers, and none is inside an        *)
(* operation that may use the allocator.                                      *)
(***************************************************************************)
GcAlone == pc[Victim] = "gc" => \A t \in Workers \ {Victim} : pc[t] \in {"wait2", "receive", "done"}

(***************************************************************************)
(* Every object is counted once, whatever the crashes: what was summed up, what *)
(* is in the queue and what is still to be put into it make FINAL (the final     *)
(* assertion of Config::run); and no thread counts down below zero crashes.     *)
(***************************************************************************)
Conserved ==
    /\ \A t \in Workers : crashes[t] >= 0
    /\ Workload = "queue" =>
         global + MapThenSumSet(LAMBDA t : local[t], Workers)
                + MapThenSumSet(LAMBDA o : o[2] - 1, items)
                + MapThenSumSet(LAMBDA t : Sum(ObjectCount) - Sum(saved[t]), Workers) = Final

(***************************************************************************)
(* What every behaviour comes to: no thread is left behind at the barrier, and *)
(* the victim always finds all others there (the code counts crash_count down  *)
(* in three loops to make it so).                                            *)
(***************************************************************************)
Ended == \A t \in Workers : pc[t] = "done"
=============================================================================
