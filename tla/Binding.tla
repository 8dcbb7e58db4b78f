------------------------------- MODULE Binding -------------------------------
(***************************************************************************)
(* How threads are bound to the per-thread state of the heap: the static     *)
(* and the global bindings (cxlalloc-static, cxlalloc-global).  A process    *)
(* has one RAW, set by the first initialisation.  A thread has a THREAD_ID,  *)
(* 0 until it is set, and an ALLOCATOR made at its first use, which focuses   *)
(* the heap on owned[THREAD_ID] and recovers it.  The handler of SIGSEGV      *)
(* focuses on owned[THREAD_ID] again, without recovery, whatever the thread   *)
(* was doing.                                                                *)
(*                                                                           *)
(* The application keeps to the contract of the bindings: an id belongs to    *)
(* one live thread, and a thread that calls the allocator is initialised      *)
(* first.  Readers only dereference pointers into the heap.                   *)
(***************************************************************************)
EXTENDS Integers, FiniteSets

CONSTANTS
    Threads,
    Processes,
    ProcessOf,  \* the process of each thread
    Readers,    \* threads that never call the allocator
    Ids,        \* thread ids the application hands out
    Numas,      \* the values of heap_numa the application passes
    Eager,      \* initialize_thread makes the ALLOCATOR (cxlalloc-global)
    MaxCrashes  \* bound on process crashes

NoId == -1
Nobody == "nobody"

ASSUME BindingAssumption ==
    /\ Ids \subseteq Nat
    /\ ProcessOf \in [Threads -> Processes]
    /\ Readers \subseteq Threads
    /\ Nobody \notin Threads
    /\ Eager \in BOOLEAN
    /\ MaxCrashes \in Nat

VARIABLES
    raw,        \* RAW: the NUMA node asked for and the one bound, by process
    tid,        \* THREAD_ID
    alloc,      \* the id the ALLOCATOR is focused on, or NoId
    pc,
    log,        \* the thread whose unfinished operation owned[id].state describes, or Nobody
    given,      \* the ids the application has given to live threads
    crashes

vars == <<raw, tid, alloc, pc, log, given, crashes>>

NoRaw == [asked |-> -1, bound |-> -2]

Init ==
    /\ raw = [p \in Processes |-> NoRaw]
    /\ tid = [t \in Threads |-> 0]
    /\ alloc = [t \in Threads |-> NoId]
    /\ pc = [t \in Threads |-> IF t \in Readers THEN "out" ELSE "new"]
    /\ log = [i \in Ids |-> Nobody]
    /\ given = [i \in Ids |-> Nobody]
    /\ crashes = 0

Goto(t, from, to) == pc[t] = from /\ pc' = [pc EXCEPT ![t] = to]

HasRaw(t) == raw[ProcessOf[t]] # NoRaw

Give(t, i) == given[i] = Nobody /\ given' = [given EXCEPT ![i] = t]

FocusUnrecovered(t, i) ==
    /\ alloc' = [alloc EXCEPT ![t] = i]
    /\ UNCHANGED log

\* Raw::allocator: focus on owned[id] and recover what its log describes
Focus(t, i) ==
    /\ alloc' = [alloc EXCEPT ![t] = i]
    /\ log' = [log EXCEPT ![i] = Nobody]

\* heap_numa.is_positive().then_some(Bind)
Bound(numa) == IF numa > 0 THEN numa ELSE -1

InitProcess(t, i, numa) ==
    /\ Goto(t, "new", "out")
    /\ Give(t, i)
    /\ raw' = IF HasRaw(t) THEN raw
              ELSE [raw EXCEPT ![ProcessOf[t]] = [asked |-> numa, bound |-> Bound(numa)]]
    /\ tid' = [tid EXCEPT ![t] = i]
    /\ Focus(t, i)
    /\ UNCHANGED crashes

InitThreadForgets(t, i) ==
    /\ Goto(t, "new", "out")
    /\ HasRaw(t)
    /\ Give(t, i)
    /\ IF Eager THEN Focus(t, tid[t]) ELSE UNCHANGED <<alloc, log>>
    /\ UNCHANGED <<raw, tid, crashes>>

InitThread(t, i) ==
    /\ Goto(t, "new", "out")
    /\ HasRaw(t)
    /\ Give(t, i)
    /\ tid' = [tid EXCEPT ![t] = i]
    /\ IF Eager THEN Focus(t, i) ELSE UNCHANGED <<alloc, log>>
    /\ UNCHANGED <<raw, crashes>>

\* The first use of ALLOCATOR in the thread
Create(t) ==
    /\ pc[t] = "out" /\ t \notin Readers
    /\ alloc[t] = NoId
    /\ Focus(t, tid[t])
    /\ UNCHANGED <<raw, tid, pc, given, crashes>>

\* malloc, free or realloc, up to the log of one of its steps
Operate(t) ==
    /\ Goto(t, "out", "op")
    /\ alloc[t] # NoId
    /\ log' = [log EXCEPT ![alloc[t]] = t]
    /\ UNCHANGED <<raw, tid, alloc, given, crashes>>

Finish(t) ==
    /\ Goto(t, "op", "out")
    /\ log' = [log EXCEPT ![alloc[t]] = Nobody]
    /\ UNCHANGED <<raw, tid, alloc, given, crashes>>

\* handle_sigsegv: in the application, or in the allocator itself
Fault(t) ==
    /\ HasRaw(t)
    /\ Goto(t, "out", "fault") \/ Goto(t, "op", "opfault")
    /\ UNCHANGED <<raw, tid, alloc, log, given, crashes>>

Return(t) ==
    /\ Goto(t, "fault", "out") \/ Goto(t, "opfault", "op")
    /\ UNCHANGED <<raw, tid, alloc, log, given, crashes>>

\* The thread ends and its thread-locals are destroyed.  A cxlalloc_free from
\* the destructor of another thread-local finds no ALLOCATOR and does nothing.
Exit(t) ==
    /\ pc[t] = "out" /\ t \notin Readers
    /\ pc' = [pc EXCEPT ![t] = "new"]
    /\ tid' = [tid EXCEPT ![t] = 0]
    /\ alloc' = [alloc EXCEPT ![t] = NoId]
    /\ given' = [i \in Ids |-> IF given[i] = t THEN Nobody ELSE given[i]]
    /\ UNCHANGED <<raw, log, crashes>>

\* A process dies wherever its threads are; its ids may be given again.
Crash(p) ==
    /\ crashes < MaxCrashes
    /\ crashes' = crashes + 1
    /\ LET dead == {t \in Threads : ProcessOf[t] = p} IN
       /\ raw' = [raw EXCEPT ![p] = NoRaw]
       /\ pc' = [t \in Threads |-> IF t \in dead THEN (IF t \in Readers THEN "out" ELSE "new") ELSE pc[t]]
       /\ tid' = [t \in Threads |-> IF t \in dead THEN 0 ELSE tid[t]]
       /\ alloc' = [t \in Threads |-> IF t \in dead THEN NoId ELSE alloc[t]]
       /\ given' = [i \in Ids |-> IF given[i] \in dead THEN Nobody ELSE given[i]]
    /\ UNCHANGED log

Next ==
    \/ \E p \in Processes : Crash(p)
    \/ \E t \in Threads :
          \/ \E i \in Ids : InitThread(t, i) \/ \E numa \in Numas : InitProcess(t, i, numa)
          \/ Create(t) \/ Operate(t) \/ Finish(t) \/ Fault(t) \/ Return(t) \/ Exit(t)

Spec == Init /\ [][Next]_vars

-----------------------------------------------------------------------------
\* The ids whose state a thread is working on
Acts(t) == (IF pc[t] \in {"op", "opfault"} THEN {alloc[t]} ELSE {})
           \union (IF pc[t] \in {"fault", "opfault"} THEN {tid[t]} ELSE {})

(***************************************************************************)
(* No two threads, of one process or of two, work on the state of the same    *)
(* id at the same time: `thread_id` is unique for each thread, and both the   *)
(* ALLOCATOR and the handler of SIGSEGV take the thread's own.                *)
(***************************************************************************)
OneUser == \A t, u \in Threads : t # u => Acts(t) \intersect Acts(u) = {}

(***************************************************************************)
(* An unfinished operation is finished by its own thread, or by the          *)
(* recovery of the next thread with its id before that does anything else:    *)
(* the ALLOCATOR is made on first use, when the log of a crashed thread may   *)
(* still be there, and a fault in the middle of an operation does not         *)
(* recover it.                                                                *)
(***************************************************************************)
LogIsRecovered ==
    [][\A i \in Ids : log[i] # Nobody /\ log'[i] # log[i] =>
          \/ pc[log[i]] = "op" /\ pc'[log[i]] = "out" /\ alloc[log[i]] = i
          \/ \E t \in Threads : alloc[t] = NoId /\ alloc'[t] = i]_vars

(***************************************************************************)
(* heap_numa "is -1 or else a NUMA node to bind heap memory to": the heap is   *)
(* bound to the node that was asked for.  This fails for node 0, which          *)
(* is_positive drops.                                                         *)
(***************************************************************************)
NumaBound == \A p \in Processes : raw[p] # NoRaw => raw[p].bound = raw[p].asked
=============================================================================
