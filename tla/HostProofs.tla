------------------------------ MODULE HostProofs ------------------------------
(***************************************************************************)
(* The parts of Hosts, for every number of processes, threads, ids,        *)
(* brackets, words, cells and crashes: the bindings of threads to ids, the *)
(* handler that maps memory, the device that swaps words, the detectable   *)
(* compare-exchange and the array of hazard pointers.  Each has an         *)
(* invariant of its own, and no statement mentions two of them.            *)
(***************************************************************************)
EXTENDS Hosts, TLAPS

\* The invariant of the bindings ties a thread's ALLOCATOR to its THREAD_ID, the
\* THREAD_ID to the contract of the application, and the log of an id to the one
\* thread that is in an operation on it.
Types ==
    /\ tid \in [Threads -> Nat]
    /\ alloc \in [Threads -> Ids \union {NoId}]
    /\ pc \in [Threads -> {"new", "out", "op", "fault", "opfault"}]
    /\ log \in [Ids -> Threads \union {Nobody}]
    /\ given \in [Ids -> Threads \union {Nobody}]

Bind(t) ==
    /\ t \in Readers => pc[t] \in {"out", "fault"} /\ alloc[t] = NoId
    /\ pc[t] = "new" => alloc[t] = NoId
    /\ t \notin Readers /\ pc[t] # "new" => tid[t] \in Ids /\ given[tid[t]] = t
    /\ alloc[t] # NoId => alloc[t] = tid[t]
    /\ pc[t] \in {"op", "opfault"} => alloc[t] # NoId /\ log[alloc[t]] = t
    /\ pc[t] \in {"out", "fault"} /\ alloc[t] # NoId => log[alloc[t]] = Nobody

IInv == Types /\ \A t \in Threads : Bind(t)

-----------------------------------------------------------------------------
\* A thread with an ALLOCATOR was given its id.
LEMMA AllocIsGiven ==
  ASSUME IInv, NEW t \in Threads, alloc[t] # NoId
  PROVE  /\ t \notin Readers /\ pc[t] # "new" /\ alloc[t] = tid[t]
         /\ alloc[t] \in Ids /\ given[alloc[t]] = t
<1>1. Bind(t) /\ alloc[t] \in Ids
  BY Zenon DEF IInv, Types
<1> QED
  BY <1>1, Zenon DEF Bind

\* A step that leaves a thread, its id and the log of its id alone keeps its
\* part of the invariant.
LEMMA Frame ==
  ASSUME IInv, NEW u \in Threads,
         pc'[u] = pc[u], tid'[u] = tid[u], alloc'[u] = alloc[u],
         \A i \in Ids : given[i] = u => given'[i] = u,
         alloc[u] # NoId => log'[alloc[u]] = log[alloc[u]]
  PROVE  Bind(u)'
<1>1. Bind(u)
  BY Zenon DEF IInv
<1> QED
  BY <1>1, Zenon DEF Bind

\* The start of an id: nobody had it, so nobody else's log is touched.
LEMMA StartStep ==
  ASSUME IInv, NEW t \in Threads, NEW i \in Ids, Goto(t, "new", "out"), Give(t, i),
         tid' = [tid EXCEPT ![t] = i],
         Focus(t, i) \/ UNCHANGED <<alloc, log>>
  PROVE  IInv'
<1> USE DEF IInv
<1>1. /\ pc[t] = "new" /\ pc' = [pc EXCEPT ![t] = "out"]
      /\ given[i] = Nobody /\ given' = [given EXCEPT ![i] = t]
  BY Zenon DEF Goto, Give
<1>2. t \notin Readers /\ alloc[t] = NoId /\ NoId \notin Ids /\ i \in Nat
  BY <1>1, BindingAssumption DEF Bind, NoId
<1>3. Types'
  BY <1>1, <1>2 DEF Types, Focus
<1>4. Bind(t)'
  <2>1. pc'[t] = "out" /\ tid'[t] = i /\ given'[i] = t
    BY <1>1, Zenon DEF Types
  <2>2. CASE Focus(t, i)
    <3>1. alloc'[t] = i /\ log'[i] = Nobody
      BY <2>2, Zenon DEF Focus, Types
    <3> QED
      BY <2>1, <3>1, <1>2 DEF Bind
  <2>3. CASE UNCHANGED <<alloc, log>>
    BY <2>1, <2>3, <1>2 DEF Bind
  <2> QED
    BY Zenon, <2>2, <2>3
<1>5. ASSUME NEW u \in Threads, u # t PROVE Bind(u)'
  <2>1. pc'[u] = pc[u] /\ tid'[u] = tid[u] /\ alloc'[u] = alloc[u]
    BY <1>1, <1>5, Zenon DEF Types, Focus
  <2>2. \A j \in Ids : given[j] = u => given'[j] = u
    BY <1>1, BindingAssumption, Zenon DEF Types
  <2>3. alloc[u] # NoId => alloc[u] # i /\ alloc[u] \in Ids
    BY <1>1, AllocIsGiven, BindingAssumption
  <2>4. alloc[u] # NoId => log'[alloc[u]] = log[alloc[u]]
    BY <2>3, Zenon DEF Types, Focus
  <2> QED
    BY Zenon, <2>1, <2>2, <2>4, Frame
<1> QED
  BY Zenon, <1>3, <1>4, <1>5

\* The first use: the ALLOCATOR is that of the thread's own id.
LEMMA CreateStep ==
  ASSUME IInv, NEW t \in Threads, Create(t)
  PROVE  IInv' /\ tid[t] \in Ids
<1> USE DEF IInv
<1> DEFINE i == tid[t]
<1>1. /\ pc[t] = "out" /\ t \notin Readers /\ alloc[t] = NoId
      /\ alloc' = [alloc EXCEPT ![t] = i] /\ log' = [log EXCEPT ![i] = Nobody]
      /\ UNCHANGED <<tid, pc, given>>
  BY Zenon DEF Create, Focus
<1>2. i \in Ids /\ given[i] = t
  BY <1>1, Zenon DEF Bind
<1>3. Types'
  BY <1>1, <1>2, Zenon DEF Types
<1>4. Bind(t)'
  <2>1. alloc'[t] = i /\ log'[i] = Nobody
    BY <1>1, <1>2, Zenon DEF Types
  <2> QED
    BY <1>1, <1>2, <2>1, Zenon DEF Bind
<1>5. ASSUME NEW u \in Threads, u # t PROVE Bind(u)'
  <2>1. alloc[u] # NoId => alloc[u] # i /\ alloc[u] \in Ids
    BY Zenon, <1>2, <1>5, AllocIsGiven
  <2>2. alloc'[u] = alloc[u]
    BY <1>1, <1>5, Zenon DEF Types
  <2>3. alloc[u] # NoId => log'[alloc[u]] = log[alloc[u]]
    BY <1>1, <2>1, Zenon DEF Types
  <2> QED
    BY Zenon, <1>1, <2>2, <2>3, Frame
<1> QED
  BY Zenon, <1>2, <1>3, <1>4, <1>5

\* A thread starts or ends an operation: the log is that of its own id.
LEMMA LogStep ==
  ASSUME IInv, NEW t \in Threads, Operate(t) \/ Finish(t)
  PROVE  IInv'
<1> USE DEF IInv
<1> DEFINE i == alloc[t]
<1>1. i # NoId /\ UNCHANGED <<tid, alloc, given>>
  BY Zenon DEF Operate, Finish, Goto, Bind
<1>2. i \in Ids /\ given[i] = t /\ t \notin Readers /\ i = tid[t]
  BY Zenon, <1>1, AllocIsGiven
<1>3. /\ \/ pc' = [pc EXCEPT ![t] = "op"] /\ log' = [log EXCEPT ![i] = t]
         \/ pc' = [pc EXCEPT ![t] = "out"] /\ log' = [log EXCEPT ![i] = Nobody]
  BY Zenon DEF Operate, Finish, Goto
<1>4. Types'
  BY <1>1, <1>2, <1>3 DEF Types
<1>5. Bind(t)'
  <2>1. \/ pc'[t] = "op" /\ log'[i] = t
        \/ pc'[t] = "out" /\ log'[i] = Nobody
    BY <1>2, <1>3, Zenon DEF Types
  <2> QED
    BY <1>1, <1>2, <2>1, Zenon DEF Bind
<1>6. ASSUME NEW u \in Threads, u # t PROVE Bind(u)'
  <2>1. alloc[u] # NoId => alloc[u] # i /\ alloc[u] \in Ids
    BY Zenon, <1>2, <1>6, AllocIsGiven
  <2>2. pc'[u] = pc[u]
    BY <1>3, <1>6, Zenon DEF Types
  <2>3. alloc[u] # NoId => log'[alloc[u]] = log[alloc[u]]
    BY <1>3, <2>1, Zenon DEF Types
  <2> QED
    BY Zenon, <1>1, <2>2, <2>3, Frame
<1> QED
  BY Zenon, <1>4, <1>5, <1>6

\* The handler of SIGSEGV changes no binding and no log.
LEMMA FaultStep ==
  ASSUME IInv, NEW t \in Threads, Fault(t) \/ Return(t)
  PROVE  IInv'
<1> USE DEF IInv
<1>1. UNCHANGED <<tid, alloc, log, given>>
  BY Zenon DEF Fault, Return
<1>2. \/ pc[t] = "out" /\ pc' = [pc EXCEPT ![t] = "fault"]
      \/ pc[t] = "op" /\ pc' = [pc EXCEPT ![t] = "opfault"]
      \/ pc[t] = "fault" /\ pc' = [pc EXCEPT ![t] = "out"]
      \/ pc[t] = "opfault" /\ pc' = [pc EXCEPT ![t] = "op"]
  BY Zenon DEF Fault, Return, Goto
<1>3. Types'
  BY <1>1, <1>2, Zenon DEF Types
<1>4. Bind(t)'
  <2>1. \/ pc[t] \in {"out", "fault"} /\ pc'[t] \in {"out", "fault"}
        \/ pc[t] \in {"op", "opfault"} /\ pc'[t] \in {"op", "opfault"}
    BY <1>2, Zenon DEF Types
  <2>2. Bind(t)
    BY Zenon
  <2> QED
    BY <1>1, <2>1, <2>2, Zenon DEF Bind
<1>5. ASSUME NEW u \in Threads, u # t PROVE Bind(u)'
  <2>1. pc'[u] = pc[u]
    BY <1>2, <1>5, Zenon DEF Types
  <2> QED
    BY Zenon, <1>1, <2>1, Frame
<1> QED
  BY Zenon, <1>3, <1>4, <1>5

\* Threads end, one by one or with their process; the logs stay.
LEMMA EndStep ==
  ASSUME IInv, NEW dead \in SUBSET Threads, log' = log,
         pc' = [t \in Threads |-> IF t \in dead THEN (IF t \in Readers THEN "out" ELSE "new") ELSE pc[t]],
         tid' = [t \in Threads |-> IF t \in dead THEN 0 ELSE tid[t]],
         alloc' = [t \in Threads |-> IF t \in dead THEN NoId ELSE alloc[t]],
         given' = [i \in Ids |-> IF given[i] \in dead THEN Nobody ELSE given[i]]
  PROVE  IInv'
<1> USE DEF IInv
<1>1. Types'
  BY Zenon DEF Types
<1>2. ASSUME NEW t \in dead PROVE Bind(t)'
  <2>1. t \in Threads /\ alloc'[t] = NoId /\ pc'[t] = IF t \in Readers THEN "out" ELSE "new"
    BY Zenon
  <2> QED
    BY <2>1, Zenon DEF Bind
<1>3. ASSUME NEW u \in Threads, u \notin dead PROVE Bind(u)'
  BY <1>3, Frame, Zenon DEF Types
<1> QED
  BY Zenon, <1>1, <1>2, <1>3

\* Init and every step keep the invariant.
LEMMA Inductive ==
  /\ Init => IInv
  /\ IInv /\ [Next]_vars => IInv'
<1>1. ASSUME Init PROVE IInv
  <2>1. Types
    BY <1>1, Zenon DEF Init, Types
  <2> QED
    BY <1>1, <2>1, Zenon DEF Init, IInv, Bind
<1>2. ASSUME IInv, UNCHANGED vars PROVE IInv'
  BY <1>2, Zenon DEF IInv, vars, Types, Bind
<1>3. ASSUME IInv, NEW p \in Processes, Crash(p) PROVE IInv'
  BY <1>3, EndStep, Zenon DEF Crash
<1>4. ASSUME IInv, NEW t \in Threads, Exit(t) PROVE IInv'
  <2>1. /\ t \notin Readers /\ log' = log /\ pc' = [pc EXCEPT ![t] = "new"]
        /\ tid' = [tid EXCEPT ![t] = 0] /\ alloc' = [alloc EXCEPT ![t] = NoId]
        /\ given' = [i \in Ids |-> IF given[i] = t THEN Nobody ELSE given[i]]
    BY <1>4, Zenon DEF Exit
  <2> DEFINE dead == {t}
  <2>2. pc' = [u \in Threads |-> IF u \in dead THEN (IF u \in Readers THEN "out" ELSE "new") ELSE pc[u]]
    BY <1>4, <2>1, Zenon DEF IInv, Types
  <2>3. tid' = [u \in Threads |-> IF u \in dead THEN 0 ELSE tid[u]]
    BY <1>4, <2>1, Zenon DEF IInv, Types
  <2>4. alloc' = [u \in Threads |-> IF u \in dead THEN NoId ELSE alloc[u]]
    BY <1>4, <2>1, Zenon DEF IInv, Types
  <2>5. given' = [i \in Ids |-> IF given[i] \in dead THEN Nobody ELSE given[i]]
    BY Zenon, <2>1
  <2>6. dead \in SUBSET Threads
    BY Zenon
  <2> HIDE DEF dead
  <2> QED
    BY <1>4, <2>1, <2>2, <2>3, <2>4, <2>5, <2>6, EndStep, Zenon
<1>5. ASSUME IInv, NEW t \in Threads, NEW i \in Ids, InitThread(t, i) PROVE IInv'
  BY <1>5, StartStep, Zenon DEF InitThread
<1>6. ASSUME IInv, NEW t \in Threads, NEW i \in Ids, NEW numa \in Numas, InitProcess(t, i, numa)
      PROVE  IInv'
  BY <1>6, StartStep, Zenon DEF InitProcess
<1> QED
  BY <1>1, <1>2, <1>3, <1>4, <1>5, <1>6, CreateStep, LogStep, FaultStep, Zenon DEF Next

\* The invariant holds throughout.
LEMMA Invariance == Spec => []IInv
BY Inductive, PTL DEF Spec

-----------------------------------------------------------------------------
\* As long as every thread that may fault is one that was initialised, no two
\* threads, of one process or of two, ever work on the state of the same id,
\* through the ALLOCATOR or in the handler of SIGSEGV.
THEOREM IdsHaveOneUser ==
  ASSUME Readers = {}
  PROVE  Spec => []OneUser
<1>1. IInv => OneUser
  <2> SUFFICES ASSUME IInv, NEW t \in Threads, NEW u \in Threads, t # u
               PROVE  Acts(t) \intersect Acts(u) = {}
    BY Zenon DEF OneUser
  <2>1. ASSUME NEW v \in Threads, NEW i \in Acts(v) PROVE i \in Ids /\ given[i] = v
    <3>1. Bind(v)
      BY Zenon DEF IInv
    <3>2. CASE pc[v] \in {"op", "opfault"} /\ i = alloc[v]
      BY <3>1, <3>2, AllocIsGiven, Zenon DEF Bind
    <3>3. CASE pc[v] \in {"fault", "opfault"} /\ i = tid[v]
      BY <3>1, <3>3, Zenon DEF Bind
    <3> QED
      BY <3>2, <3>3, Zenon DEF Acts
  <2> QED
    BY Zenon, <2>1
<1> QED
  BY <1>1, Invariance, PTL

\* The log of an unfinished operation disappears only at the end of that
\* operation, or in the recovery of an ALLOCATOR that is made for its id.
THEOREM LogsAreRecovered == Spec => LogIsRecovered
<1> DEFINE Step == \A i \in Ids : log[i] # Nobody /\ log'[i] # log[i] =>
                     \/ pc[log[i]] = "op" /\ pc'[log[i]] = "out" /\ alloc[log[i]] = i
                     \/ \E t \in Threads : alloc[t] = NoId /\ alloc'[t] = i
<1>1. IInv /\ [Next]_vars => [Step]_vars
  <2> SUFFICES ASSUME IInv, Next, NEW i \in Ids, log[i] # Nobody, log'[i] # log[i]
               PROVE  \/ pc[log[i]] = "op" /\ pc'[log[i]] = "out" /\ alloc[log[i]] = i
                      \/ \E t \in Threads : alloc[t] = NoId /\ alloc'[t] = i
    BY Zenon
  <2>1. ASSUME NEW t \in Threads, NEW j \in Ids, pc[t] = "new" \/ alloc[t] = NoId, Focus(t, j)
        PROVE  alloc[t] = NoId /\ alloc'[t] = i
    <3>1. alloc[t] = NoId
      BY <2>1, Zenon DEF IInv, Bind
    <3>2. i = j /\ alloc'[t] = j
      BY <2>1, Zenon DEF Focus, IInv, Types
    <3> QED
      BY Zenon, <3>1, <3>2
  <2>2. ASSUME NEW t \in Threads, NEW j \in Ids, InitThread(t, j)
        PROVE  alloc[t] = NoId /\ alloc'[t] = i
    BY <2>1, <2>2, Zenon DEF InitThread, Goto
  <2>3. ASSUME NEW t \in Threads, NEW j \in Ids, NEW numa \in Numas, InitProcess(t, j, numa)
        PROVE  alloc[t] = NoId /\ alloc'[t] = i
    BY <2>1, <2>3, Zenon DEF InitProcess, Goto
  <2>4. ASSUME NEW t \in Threads, Create(t)
        PROVE  alloc[t] = NoId /\ alloc'[t] = i
    BY <2>1, <2>4, CreateStep, Zenon DEF Create
  <2>5. ASSUME NEW t \in Threads, Operate(t) PROVE FALSE
    <3>1. alloc[t] # NoId /\ pc[t] = "out" /\ log' = [log EXCEPT ![alloc[t]] = t]
      BY <2>5, Zenon DEF Operate, Goto
    <3>2. log[alloc[t]] = Nobody
      BY <3>1, Zenon DEF IInv, Bind
    <3> QED
      BY <3>1, <3>2, Zenon DEF IInv, Types
  <2>6. ASSUME NEW t \in Threads, Finish(t)
        PROVE  pc[log[i]] = "op" /\ pc'[log[i]] = "out" /\ alloc[log[i]] = i
    <3>1. /\ pc[t] = "op" /\ pc' = [pc EXCEPT ![t] = "out"]
          /\ log' = [log EXCEPT ![alloc[t]] = Nobody]
      BY <2>6, Zenon DEF Finish, Goto
    <3>2. i = alloc[t]
      BY <3>1, Zenon DEF IInv, Types
    <3>3. log[i] = t
      BY <3>1, <3>2, Zenon DEF IInv, Bind
    <3> QED
      BY <3>1, <3>2, <3>3, Zenon DEF IInv, Types
  <2>7. ASSUME NEW t \in Threads, Fault(t) \/ Return(t) \/ Exit(t) PROVE FALSE
    BY <2>7, Zenon DEF Fault, Return, Exit
  <2>8. ASSUME NEW p \in Processes, Crash(p) PROVE FALSE
    BY <2>8, Zenon DEF Crash
  <2> QED
    BY <2>2, <2>3, <2>4, <2>5, <2>6, <2>7, <2>8, Zenon DEF Next
<1> QED
  BY <1>1, Invariance, PTL DEF Spec, LogIsRecovered

-----------------------------------------------------------------------------
\* The handler of SIGSEGV and the chunks that it maps.

RegionTypes ==
  /\ first \in [Brackets -> Nat]
  /\ mapped \in [Process -> SUBSET (Brackets \X Region!Regions \X Nat)]
  /\ at \in [Thread -> Region!Location \union {Region!NoWhere}]
  /\ step \in [Thread -> {"run", "Small", "Large", "unknown"} \union Region!Regions]
  /\ written \subseteq Region!Location

\* An access of a process that was never wild is to a slab below the length, and
\* the handler has passed over its bracket in no case.
Handled(t) ==
  /\ step[t] # "run" => at[t] # Region!NoWhere
  /\ at[t] # Region!NoWhere /\ HomeOf[t] \notin wild =>
       /\ at[t][3] < first[at[t][1]]
       /\ step[t] = "Large" => at[t][1] = "Large"
       /\ step[t] # "unknown"

Sparing == killed \subseteq wild /\ \A t \in Thread : Handled(t)

RegionInv == RegionTypes /\ Sparing

\* A location is a bracket, a region and a slab.
LEMMA LocationFields ==
  ASSUME Region!RegionMapAssumption, NEW l \in Region!Location
  PROVE  /\ l[1] \in Brackets /\ l[2] \in Region!Regions /\ l[3] \in Nat /\ l # Region!NoWhere
         /\ l = <<l[1], l[2], l[3]>>
         /\ \A r \in Region!Regions : Region!Chunk(r, l[3]) \in Nat
<1>1. l[1] \in Brackets /\ l[2] \in Region!Regions /\ l[3] \in Nat /\ l[1] # "None" /\ l = <<l[1], l[2], l[3]>>
  BY DEF Region!Location, Region!Slab, Region!RegionMapAssumption
<1>2. ASSUME NEW r \in Region!Regions PROVE Region!Chunk(r, l[3]) \in Nat
  BY <1>1, <1>2 DEF Region!Chunk, Region!RegionMapAssumption
<1> QED
  BY <1>1, <1>2 DEF Region!NoWhere

\* The invariant holds before any access.
LEMMA RegionInit ==
  ASSUME Region!RegionMapAssumption, Region!Init
  PROVE  RegionInv
BY DEF Region!Init, Region!FirstChunks, RegionInv, RegionTypes, Sparing, Handled, Region!RegionMapAssumption

\* The steps of the handler keep the types
LEMMA RegionNext ==
  ASSUME Region!RegionMapAssumption, RegionInv, [Region!Next]_(Region!vars)
  PROVE  RegionInv'
<1> USE DEF RegionInv
<1>1. CASE UNCHANGED Region!vars
  BY <1>1, Zenon DEF Region!vars, RegionTypes, Sparing, Handled
<1>2. ASSUME NEW t \in Thread, Region!Touch(t) PROVE RegionInv'
  <2>1. at[t] \in Region!Location /\ step[t] = "run"
    BY <1>2, Zenon DEF Region!Touch, RegionTypes
  <2>2. RegionTypes'
    BY <1>2, <2>1 DEF Region!Touch, Region!Goto, RegionTypes
  <2>3. ASSUME NEW u \in Thread PROVE Handled(u)'
    BY <1>2, <2>1 DEF Region!Touch, Region!Goto, RegionTypes, Sparing, Handled
  <2> QED
    BY <1>2, <2>2, <2>3, Zenon DEF Region!Touch, Sparing
<1>3. ASSUME NEW t \in Thread, NEW b \in {"Small", "Large"}, NEW n \in {"Large", "unknown"},
             b = "Small" <=> n = "Large", Region!TryMap(t, b, n) PROVE RegionInv'
  <2>1. /\ step[t] = b /\ UNCHANGED <<first, mapped, written, erased, at, wild, killed, restarts>>
        /\ step' = [step EXCEPT ![t] = IF b \in Brackets /\ Region!InBounds(b, at[t]) THEN "local" ELSE n]
    BY <1>3, Zenon DEF Region!TryMap, Region!Goto
  <2>2. RegionTypes'
    BY <2>1, Zenon DEF RegionTypes, Region!Regions
  <2>3. /\ \A u \in Thread : u # t => step'[u] = step[u]
        /\ step'[t] = IF b \in Brackets /\ Region!InBounds(b, at[t]) THEN "local" ELSE n
    BY <2>1, Zenon DEF RegionTypes
  <2>4. at[t] \in Region!Location /\ at[t][1] \in Brackets /\ at[t][1] \in {"Small", "Large"}
    BY <2>1, LocationFields DEF RegionTypes, Sparing, Handled, Region!RegionMapAssumption
  <2>5. Handled(t)'
    BY <1>3, <2>1, <2>3, <2>4 DEF Sparing, Handled, Region!InBounds
  <2>6. ASSUME NEW u \in Thread, u # t PROVE Handled(u)'
    BY <2>1, <2>3, <2>6, Zenon DEF Sparing, Handled
  <2> QED
    BY <2>1, <2>2, <2>5, <2>6, Zenon DEF Sparing
<1>4. ASSUME NEW t \in Thread, Region!Kill(t) PROVE RegionInv'
  <2>1. HomeOf[t] \in wild
    BY <1>4, Zenon DEF Region!Kill, Sparing, Handled
  <2>2. Sparing'
    BY <1>4, <2>1, Zenon DEF Region!Kill, Sparing, Handled
  <2> QED
    BY <1>4, <2>2, Zenon DEF Region!Kill, RegionTypes
<1>5. ASSUME NEW t \in Thread, NEW r \in Region!Regions, NEW n \in {"remote", "data", "run"},
             Region!Map(t, r, n) PROVE RegionInv'
  <2>1. at[t] \in Region!Location
    BY <1>5, Zenon DEF Region!Map, RegionTypes, Sparing, Handled, Region!Regions
  <2>2. <<at[t][1], r, Region!Chunk(r, at[t][3])>> \in Brackets \X Region!Regions \X Nat
    BY Zenon, <2>1, LocationFields
  <2>3. step' = [step EXCEPT ![t] = n] /\ UNCHANGED <<first, written, at, wild, killed>>
    BY <1>5, Zenon DEF Region!Map, Region!Goto
  <2>4. mapped' \in [Process -> SUBSET (Brackets \X Region!Regions \X Nat)]
    BY <1>5, <2>2, Zenon DEF Region!Map, RegionTypes
  <2>5. RegionTypes'
    BY <2>3, <2>4, Zenon DEF RegionTypes, Region!Regions
  <2>6. ASSUME NEW u \in Thread PROVE Handled(u)'
    BY <2>1, <2>3, LocationFields, Zenon DEF RegionTypes, Sparing, Handled
  <2> QED
    BY <2>3, <2>5, <2>6, Zenon DEF Sparing
<1>6. ASSUME NEW t \in Thread, NEW b \in Brackets, Region!Bump(t, b) PROVE RegionInv'
  <2>1. first' = [first EXCEPT ![b] = @ + 1] /\ UNCHANGED <<mapped, written, at, step, wild, killed>>
    BY <1>6, Zenon DEF Region!Bump
  <2>2. RegionTypes'
    BY <2>1 DEF RegionTypes
  <2>3. ASSUME NEW u \in Thread PROVE Handled(u)'
    <3>1. CASE at[u] = Region!NoWhere
      BY <2>1, <3>1, Zenon DEF Sparing, Handled
    <3>2. CASE at[u] # Region!NoWhere
      <4>1. at[u][1] \in Brackets /\ at[u][3] \in Nat
        BY <3>2, LocationFields, Zenon DEF RegionTypes
      <4>2. first'[at[u][1]] >= first[at[u][1]] /\ first'[at[u][1]] \in Nat /\ first[at[u][1]] \in Nat
        BY <2>1, <4>1 DEF RegionTypes
      <4> QED
        BY <2>1, <4>1, <4>2 DEF Sparing, Handled
    <3> QED
      BY Zenon, <3>1, <3>2
  <2> QED
    BY <2>1, <2>2, <2>3, Zenon DEF Sparing
<1>7. ASSUME NEW t \in Thread, NEW l \in Region!Location, Region!Access(t, l) PROVE RegionInv'
  <2>1. /\ at' = [at EXCEPT ![t] = l] /\ step[t] = "run"
        /\ wild' = IF l[3] < first[l[1]] THEN wild ELSE wild \union {HomeOf[t]}
        /\ UNCHANGED <<first, mapped, written, step, killed>>
    BY <1>7, Zenon DEF Region!Access
  <2>2. RegionTypes'
    BY <2>1, Zenon DEF RegionTypes
  <2>3. l # Region!NoWhere
    BY Zenon, LocationFields
  <2>4. ASSUME NEW u \in Thread PROVE Handled(u)'
    BY <2>1, <2>3, Zenon DEF RegionTypes, Sparing, Handled
  <2> QED
    BY <2>1, <2>2, <2>4, Zenon DEF Sparing
<1>8. ASSUME NEW p \in Process, Region!Restart(p) PROVE RegionInv'
  <2>1. RegionTypes'
    BY <1>8 DEF Region!Restart, Region!FirstChunks, RegionTypes
  <2>2. ASSUME NEW u \in Thread PROVE Handled(u)'
    BY <1>8, Zenon DEF Region!Restart, RegionTypes, Sparing, Handled
  <2>3. killed' \subseteq wild'
    BY <1>8, Zenon DEF Region!Restart, Sparing
  <2> QED
    BY <2>1, <2>2, <2>3, Zenon DEF Sparing
<1> QED
  BY <1>1, <1>2, <1>3, <1>4, <1>5, <1>6, <1>7, <1>8, Zenon DEF Region!Next, Region!Step, Region!Regions

-----------------------------------------------------------------------------
\* Chunks are files, or one thread has them in chunks that cover the same slabs.
Apart ==
  \/ ~Anonymous
  \/ (\A t, u \in Thread : t = u) /\ \A r, s \in Region!Regions : Cover[r] = Cover[s]

Has(t, b, r, k) == <<b, r, k>> \in mapped[HomeOf[t]]

\* The chunk, of every region, that the thread's access is to
Key(t) == Region!Chunk("data", at[t][3])
Mapping(t) == step[t] \in {"remote", "data"}

\* The chunks of a slab are mapped in all regions or in none, but for those that
\* the handler is busy with.
Even(t) ==
  \A b \in Brackets, k \in Nat : (Mapping(t) => <<b, k>> # <<at[t][1], Key(t)>>) =>
    \A r, s \in Region!Regions : Has(t, b, r, k) => Has(t, b, s, k)

\* The handler only runs when the chunk is missing, and maps local, remote, data.
Stage(t) ==
  /\ step[t] \in {"Small", "Large", "unknown", "local"} => ~Has(t, at[t][1], at[t][2], Key(t))
  /\ Mapping(t) => Has(t, at[t][1], "local", Key(t)) /\ ~Has(t, at[t][1], "data", Key(t))
  /\ step[t] = "remote" => ~Has(t, at[t][1], "remote", Key(t))
  /\ step[t] = "data" => Has(t, at[t][1], "remote", Key(t))

Backed(t) == \A l \in written : Region!ChunkOf(l) \in mapped[HomeOf[t]]

KeepInv ==
  /\ erased = {}
  /\ IF Anonymous THEN \A t \in Thread : Even(t) /\ Stage(t) /\ Backed(t) ELSE written = {}

\* Where all regions have equally large chunks, a slab has one number in all of them.
LEMMA SameChunk ==
  ASSUME Region!RegionMapAssumption, Apart, Anonymous, NEW t \in Thread, at[t] \in Region!Location,
         NEW r \in Region!Regions
  PROVE  Region!Chunk(r, at[t][3]) = Key(t) /\ Key(t) \in Nat
<1>1. Cover[r] = Cover["data"]
  BY Zenon DEF Apart, Region!Regions
<1> QED
  BY <1>1, LocationFields, Zenon DEF Key, Region!Chunk, Region!Regions

\* Nothing is written before the first access.
LEMMA KeepInit ==
  ASSUME Region!RegionMapAssumption, Region!Init
  PROVE  KeepInv
<1> SUFFICES ASSUME NEW t \in Thread PROVE Even(t) /\ Stage(t) /\ Backed(t)
  BY Zenon DEF Region!Init, KeepInv
<1>1. HomeOf[t] \in Process
  BY Zenon DEF Region!RegionMapAssumption
<1> QED
  BY <1>1, Zenon DEF Region!Init, Region!FirstChunks, Even, Stage, Backed, Has, Mapping

\* A step of the handler from region r to the next maps a chunk that was missing
LEMMA KeepMap ==
  ASSUME Region!RegionMapAssumption, Apart, Anonymous, RegionInv, KeepInv, NEW t \in Thread, 
         NEW r \in Region!Regions, NEW n \in {"remote", "data", "run"},
         <<r, n>> \in {<<"local", "remote">>, <<"remote", "data">>, <<"data", "run">>},
         Region!Map(t, r, n)
  PROVE  KeepInv'
<1>1. PICK b \in Brackets, k \in Nat : at[t] \in Region!Location /\ b = at[t][1] /\ k = Key(t)
  BY LocationFields, SameChunk, Zenon DEF Region!Map, RegionInv, RegionTypes, Sparing, Handled, Region!Regions
<1>2. /\ step[t] = r /\ step' = [step EXCEPT ![t] = n] /\ UNCHANGED <<written, at>>
      /\ mapped' = [mapped EXCEPT ![HomeOf[t]] = @ \union {<<b, r, k>>}]
      /\ erased' = erased \union {l \in written : Region!ChunkOf(l) = <<b, r, k>>}
  BY <1>1, SameChunk, Zenon DEF Region!Map, Region!Goto
<1>3. HomeOf[t] \in Process
  BY Zenon DEF Region!RegionMapAssumption
<1>4. mapped'[HomeOf[t]] = mapped[HomeOf[t]] \union {<<b, r, k>>} /\ step'[t] = n
  BY <1>2, <1>3, Zenon DEF RegionInv, RegionTypes
<1>5. /\ \A c \in Brackets, j \in Nat, s \in Region!Regions :
           Has(t, c, s, j)' <=> Has(t, c, s, j) \/ <<c, s, j>> = <<b, r, k>>
      /\ Key(t)' = k /\ at'[t][1] = b
  BY <1>1, <1>2, <1>4, Zenon DEF Has, Key
<1>6. Even(t) /\ Stage(t) /\ Backed(t) /\ erased = {}
  BY Zenon DEF KeepInv
<1>7. ~Has(t, b, r, k)
  <2>1. CASE r = "local"
    <3>1. ~Has(t, b, at[t][2], k) /\ at[t][2] \in Region!Regions
      BY <1>1, <1>2, <1>6, <2>1, LocationFields, Zenon DEF Stage
    <3>2. ~Mapping(t)
      BY <1>2, <2>1, Zenon DEF Mapping
    <3> QED
      BY <1>6, <3>1, <3>2, Zenon DEF Even
  <2> QED
    BY <1>1, <1>2, <1>6, <2>1, Zenon DEF Stage, Region!Regions, Mapping
<1>8. erased' = {}
  BY <1>2, <1>6, <1>7, Zenon DEF Backed, Has
<1>9. Backed(t)'
  BY <1>2, <1>4, <1>6, Zenon DEF Backed
<1>10. Stage(t)'
  <2>1. CASE r = "local"
    <3>1. ~Has(t, b, "remote", k) /\ ~Has(t, b, "data", k)
      BY <1>1, <1>2, <1>6, <1>7, <2>1, Zenon DEF Even, Mapping, Region!Regions
    <3> QED
      BY <1>4, <1>5, <2>1, <3>1, Zenon DEF Stage, Mapping, Region!Regions
  <2>2. CASE r # "local"
    BY <1>1, <1>2, <1>4, <1>5, <1>6, <2>2 DEF Stage, Mapping, Region!Regions
  <2> QED
    BY Zenon, <2>1, <2>2
<1>11. Even(t)'
  <2> SUFFICES ASSUME NEW c \in Brackets, NEW j \in Nat, Mapping(t)' => <<c, j>> # <<b, k>>,
                      NEW s \in Region!Regions, NEW q \in Region!Regions, Has(t, c, s, j)'
               PROVE  Has(t, c, q, j)'
    BY <1>5, Zenon DEF Even
  <2>1. CASE <<c, j>> # <<b, k>>
    BY <1>1, <1>5, <1>6, <2>1, Zenon DEF Even
  <2>2. CASE <<c, j>> = <<b, k>>
    <3>1. r = "data"
      BY <1>4, <2>2, Zenon DEF Mapping, Region!Regions
    <3>2. Has(t, b, "local", k) /\ Has(t, b, "remote", k)
      BY <1>1, <1>2, <1>6, <3>1, Zenon DEF Stage, Mapping
    <3> QED
      BY <1>5, <2>2, <3>1, <3>2 DEF Region!Regions
  <2> QED
    BY Zenon, <2>1, <2>2
<1> QED
  BY <1>8, <1>9, <1>10, <1>11, Zenon DEF KeepInv, Apart

\* Every step of an access, of the handler and of a restart keeps the invariant.
LEMMA KeepNext ==
  ASSUME Region!RegionMapAssumption, Apart, RegionInv, KeepInv, [Region!Next]_(Region!vars)
  PROVE  KeepInv'
<1>1. CASE ~Anonymous
  <2>1. written' = {}
    BY <1>1, Zenon DEF KeepInv, Region!Next, Region!Step, Region!Touch, Region!TryMap, Region!Kill, Region!Map,
       Region!Bump, Region!Access, Region!Restart, Region!vars
  <2>2. erased' = {}
    BY <1>1, Zenon DEF KeepInv, Region!Next, Region!Step, Region!Touch, Region!TryMap, Region!Kill, Region!Map,
       Region!Bump, Region!Access, Region!Restart, Region!vars
  <2> QED
    BY <1>1, <2>1, <2>2, Zenon DEF KeepInv
<1>2. CASE Anonymous
  <2>1. CASE UNCHANGED Region!vars
    BY <1>2, <2>1, Zenon DEF Region!vars, KeepInv, Even, Stage, Backed, Has, Mapping, Key
  <2>2. ASSUME NEW t \in Thread, Region!Touch(t) PROVE KeepInv'
    <3>1. /\ at[t] \in Region!Location /\ step[t] = "run" /\ Even(t) /\ Stage(t) /\ Backed(t)
          /\ UNCHANGED <<mapped, erased>> /\ erased = {}
      BY <1>2, <2>2, Zenon DEF Region!Touch, RegionInv, RegionTypes, KeepInv
    <3>2. CASE Region!ChunkOf(at[t]) \in mapped[HomeOf[t]]
      <4>1. written' = written \union {at[t]} /\ at' = [at EXCEPT ![t] = Region!NoWhere] /\ step' = step
        BY <1>2, <2>2, <3>2, Zenon DEF Region!Touch
      <4>2. Even(t)' /\ Stage(t)'
        BY <3>1, <4>1, Zenon DEF Even, Stage, Has, Mapping
      <4>3. Backed(t)'
        BY <3>1, <3>2, <4>1, Zenon DEF Backed
      <4> QED
        BY <1>2, <3>1, <4>2, <4>3, Zenon DEF KeepInv, Apart
    <3>3. CASE Region!ChunkOf(at[t]) \notin mapped[HomeOf[t]]
      <4>1. written' = written /\ at' = at /\ step' = [step EXCEPT ![t] = "Small"]
        BY <2>2, <3>3, Zenon DEF Region!Touch, Region!Goto
      <4>2. step'[t] = "Small"
        BY <4>1, Zenon DEF RegionInv, RegionTypes
      <4>3. ~Has(t, at[t][1], at[t][2], Key(t))
        BY <1>2, <3>1, <3>3, SameChunk, LocationFields, Zenon DEF Has, Region!ChunkOf
      <4>4. Even(t)' /\ Stage(t)' /\ Backed(t)'
        BY <3>1, <4>1, <4>2, <4>3, Zenon DEF Even, Stage, Backed, Has, Mapping, Key
      <4> QED
        BY <1>2, <3>1, <4>4, Zenon DEF KeepInv, Apart
    <3> QED
      BY Zenon, <3>2, <3>3
  <2>3. ASSUME NEW t \in Thread, NEW b \in {"Small", "Large"}, NEW n \in {"Large", "unknown"},
               Region!TryMap(t, b, n) PROVE KeepInv'
    <3>1. /\ step[t] = b /\ step'[t] \in {"local", n} /\ UNCHANGED <<mapped, written, erased, at>>
      BY <2>3, Zenon DEF Region!TryMap, Region!Goto, RegionInv, RegionTypes
    <3>2. Even(t)' /\ Stage(t)' /\ Backed(t)'
      BY <1>2, <3>1, Zenon DEF KeepInv, Even, Stage, Backed, Has, Mapping, Key
    <3> QED
      BY <1>2, <3>1, <3>2, Zenon DEF KeepInv, Apart
  <2>4. ASSUME NEW t \in Thread, NEW l \in Region!Location, Region!Access(t, l) PROVE KeepInv'
    <3>1. step[t] = "run" /\ UNCHANGED <<mapped, written, erased, step>>
      BY <2>4, Zenon DEF Region!Access
    <3>2. Even(t)' /\ Stage(t)' /\ Backed(t)'
      BY <1>2, <3>1, Zenon DEF KeepInv, Even, Stage, Backed, Has, Mapping
    <3> QED
      BY <1>2, <3>1, <3>2, Zenon DEF KeepInv, Apart
  <2>5. ASSUME NEW t \in Thread, Region!Kill(t) \/ \E b \in Brackets : Region!Bump(t, b) PROVE KeepInv'
    BY <1>2, <2>5, Zenon DEF Region!Kill, Region!Bump, KeepInv, Even, Stage, Backed, Has, Mapping, Key
  <2> QED
    BY <1>2, <2>1, <2>2, <2>3, <2>4, <2>5, KeepMap, Zenon DEF Region!Next, Region!Step, Region!Restart, Region!Regions
<1> QED
  BY Zenon, <1>1, <1>2

\* For every number of processes, threads, brackets and slabs: the handler of SIGSEGV
\* kills a process only for an access beyond the lengths, never for one to a slab
\* that some process has made, however the accesses and extensions interleave.
THEOREM AccessesAreSpared ==
  ASSUME Region!RegionMapAssumption
  PROVE  Region!Spec => []Region!NoneKilled
<1>1. Region!Init => RegionInv
  BY Zenon, RegionInit
<1>2. RegionInv /\ [Region!Next]_(Region!vars) => RegionInv'
  BY Zenon, RegionNext
<1>3. RegionInv => Region!NoneKilled
  BY Zenon DEF RegionInv, Sparing, Region!NoneKilled
<1> QED
  BY <1>1, <1>2, <1>3, PTL DEF Region!Spec

\* The handler never maps over what was written.  Memory is shared, or is anonymous
\* with a mapping per process that one thread faults on, with chunks of one
\* size: MappingKeeps is what the runs check of it.
THEOREM MappingLosesNothing ==
  ASSUME Region!RegionMapAssumption, Apart
  PROVE  Region!Spec => []MappingKeeps
<1>1. Region!Init => RegionInv /\ KeepInv
  BY Zenon, RegionInit, KeepInit
<1>2. RegionInv /\ KeepInv /\ [Region!Next]_(Region!vars) => RegionInv' /\ KeepInv'
  BY Zenon, RegionNext, KeepNext
<1>3. RegionInv /\ KeepInv => MappingKeeps
  BY Zenon DEF RegionInv, Sparing, KeepInv, MappingKeeps, Region!NoneKilled, Region!NothingErased
<1> QED
  BY <1>1, <1>2, <1>3, PTL DEF Region!Spec

-----------------------------------------------------------------------------
\* The device that compares and swaps.

\* The device never has to give up a write for another
Single == Ready \/ \A u, w \in Words : u = w

Request == [cmp : Nat, swap : Nat, word : Words, status : {0, 1, 2}]

McasTypes ==
  /\ mem \in [Words -> Nat]
  /\ slot \in [Requester -> Request]
  /\ pending = Device!NoWrite \/ pending \in [word : Words, swap : Nat]
  /\ state \in [Requester -> {"idle", "load", "call", "written", "flight", "served"}]
  /\ call \in [Requester -> [kind : {"none", "store", "add"}, word : Words, old : Nat, new : Nat]]
  /\ value \in [Requester -> Nat]
  /\ seen \in [Requester -> SUBSET Nat]

\* The request that the device holds is the one that the thread made; a read in
\* flight is for its target.
Held(t) ==
  /\ slot[t].status = 1 => state[t] = "written" /\ t < Window
  /\ slot[t].status = 2 => state[t] \in {"flight", "served"}
  /\ state[t] \in {"flight", "served"} \/ slot[t].status = 1 =>
       /\ slot[t].word = call[t].word
       /\ slot[t].cmp = call[t].old /\ slot[t].swap = call[t].new

\* A request that nobody cancelled has no write before it, and the answer is
\* the value of the word.
Fresh(t) ==
  slot[t].status = 2 =>
    /\ pending.word # slot[t].word
    /\ state[t] = "served" => value[t] = mem[slot[t].word]

\* What the thread may go on with, the word has held.
Known(t) ==
  /\ state[t] # "idle" => Device!Word(call[t].word) \in seen[t]
  /\ state[t] = "flight" => mem[call[t].word] \in seen[t]
  /\ state[t] = "served" => value[t] \in seen[t]
  /\ state[t] \in {"call", "written", "flight", "served"} => call[t].old \in seen[t]

McasInv == McasTypes /\ \A t \in Requester : Held(t) /\ Fresh(t) /\ Known(t)

\* The values that mark an idle thread and an empty slot have the types of the others.
LEMMA IdleTypes ==
  ASSUME Device!McasAssumption
  PROVE  /\ Device!Idle.word \in Words
         /\ Device!Idle \in [kind : {"none", "store", "add"}, word : Words, old : Nat, new : Nat]
         /\ Device!Empty \in Request /\ Device!Empty.status = 0
<1>1. PICK w \in Words : w = CHOOSE u \in Words : TRUE
  BY Zenon DEF Device!McasAssumption
<1>2. /\ Device!Idle = [kind |-> "none", word |-> w, old |-> 0, new |-> 0]
      /\ Device!Empty = [cmp |-> 0, swap |-> 0, word |-> w, status |-> 0]
  BY <1>1, Zenon DEF Device!Idle, Device!Empty
<1> QED
  BY <1>2, Zenon DEF Request

\* The device at rest satisfies the invariant.
LEMMA McasInit ==
  ASSUME Device!McasAssumption, Device!Init
  PROVE  McasInv
BY IdleTypes DEF Device!Init, McasInv, McasTypes, Held, Fresh, Known

\* An owed write is for one of the words
LEMMA PendingWord ==
  ASSUME Device!McasAssumption, McasTypes
  PROVE  /\ pending # Device!NoWrite => pending.word \in Words /\ pending.swap \in Nat
         /\ pending = Device!NoWrite <=> pending.word = "none"
         /\ \A w \in Words : Device!Word(w) \in Nat
         /\ pending = Device!NoWrite => \A w \in Words : Device!Word(w) = mem[w]
BY DEF Device!McasAssumption, McasTypes, Device!NoWrite, Device!Word

\* What an accepted step of a thread does not touch
LEMMA Others ==
  ASSUME McasInv, NEW t \in Requester, NEW u \in Requester, u # t,
         mem' = mem, pending' = pending, state'[u] = state[u], call'[u] = call[u], slot'[u] = slot[u],
         value'[u] = value[u], seen'[u] = seen[u]
  PROVE  (Held(u) /\ Fresh(u) /\ Known(u))'
BY DEF McasInv, Held, Fresh, Known, Device!Word

\* What a thread puts into its next request.
LEMMA ExpectTypes ==
  ASSUME Device!McasAssumption, McasTypes, NEW t \in Requester, NEW v \in Nat, Device!Expect(t, v)
  PROVE  /\ call' \in [Requester -> [kind : {"none", "store", "add"}, word : Words, old : Nat, new : Nat]]
         /\ call'[t].old = v /\ call'[t].word = call[t].word
         /\ \A u \in Requester : u # t => call'[u] = call[u]
<1> DEFINE n == IF call[t].kind = "add" THEN (v + 1) % (MaxValue + 1) ELSE call[t].new
<1>1. n \in Nat
  BY DEF Device!McasAssumption, McasTypes
<1>2. call' = [call EXCEPT ![t].old = v, ![t].new = n]
  BY Zenon DEF Device!Expect
<1>3. call \in [Requester -> [kind : {"none", "store", "add"}, word : Words, old : Nat, new : Nat]]
  BY Zenon DEF McasTypes
<1> HIDE DEF n
<1> QED
  BY <1>1, <1>2, <1>3, Zenon

\* A thread begins a store or an addition.
LEMMA McasBegin ==
  ASSUME Device!McasAssumption, McasInv, NEW t \in Requester, Device!Begin(t)
  PROVE  McasInv'
<1>1. PICK w \in Words, c \in ({"store"} \X Device!Values) \union {<<"add", 0>>} :
        /\ call' = [call EXCEPT ![t] = [kind |-> c[1], word |-> w, old |-> 0, new |-> c[2]]]
        /\ seen' = [seen EXCEPT ![t] = {Device!Word(w)}]
  BY Zenon DEF Device!Begin
<1>2. c[1] \in {"store", "add"} /\ c[2] \in Nat
  BY DEF Device!Values, Device!McasAssumption
<1>3. /\ state[t] = "idle" /\ state' = [state EXCEPT ![t] = "load"] 
      /\ UNCHANGED <<mem, slot, pending, value>>
  BY Zenon DEF Device!Begin, Device!Goto
<1>4. McasTypes'
  BY <1>1, <1>2, <1>3, PendingWord DEF McasInv, McasTypes
<1>5. state'[t] = "load" /\ call'[t].word = w /\ seen'[t] = {Device!Word(w)}
  BY <1>1, <1>3, Zenon DEF McasInv, McasTypes
<1>6. slot[t].status \notin {1, 2}
  BY <1>3, Zenon DEF McasInv, Held
<1>7. (Held(t) /\ Fresh(t) /\ Known(t))'
  BY <1>3, <1>5, <1>6, Zenon DEF Held, Fresh, Known, Device!Word
<1>8. ASSUME NEW u \in Requester, u # t PROVE (Held(u) /\ Fresh(u) /\ Known(u))'
  BY <1>1, <1>3, <1>8, Others, Zenon DEF McasInv, McasTypes
<1> QED
  BY <1>4, <1>7, <1>8, Zenon DEF McasInv

\* A thread reads the word.
LEMMA McasLoad ==
  ASSUME Device!McasAssumption, McasInv, NEW t \in Requester, Device!Load(t)
  PROVE  McasInv'
<1>1. /\ state[t] = "load" /\ state' = [state EXCEPT ![t] = "call"] /\ pending = Device!NoWrite
      /\ UNCHANGED <<mem, slot, pending, value, seen>>
      /\ Device!Expect(t, mem[call[t].word])
  BY Zenon DEF Device!Load, Device!Goto, Device!Accepts
<1>2. mem[call[t].word] \in Nat /\ mem[call[t].word] = Device!Word(call[t].word)
  BY <1>1, PendingWord, Zenon DEF McasInv, McasTypes
<1>3. McasTypes'
  BY <1>1, <1>2, ExpectTypes, Zenon DEF McasInv, McasTypes
<1>4. /\ call'[t].word = call[t].word /\ call'[t].old = mem[call[t].word] /\ state'[t] = "call"
      /\ \A u \in Requester : u # t => call'[u] = call[u] /\ state'[u] = state[u]
  BY <1>1, <1>2, ExpectTypes DEF McasInv, McasTypes
<1>5. slot[t].status \notin {1, 2}
  BY <1>1, Zenon DEF McasInv, Held
<1>6. (Held(t) /\ Fresh(t) /\ Known(t))'
  BY <1>1, <1>2, <1>4, <1>5 DEF McasInv, Held, Fresh, Known, Device!Word
<1>7. ASSUME NEW u \in Requester, u # t PROVE (Held(u) /\ Fresh(u) /\ Known(u))'
  BY Zenon, <1>1, <1>4, <1>7, Others
<1> QED
  BY <1>3, <1>6, <1>7, Zenon DEF McasInv

\* The request is written into the slot: requests for the same word fail then.
LEMMA McasWrite ==
  ASSUME Device!McasAssumption, McasInv, NEW t \in Requester, Device!Write(t)
  PROVE  McasInv'
<1> DEFINE r == [cmp |-> call[t].old, swap |-> call[t].new, word |-> call[t].word, status |-> 1]
<1>1. /\ state[t] = "call" /\ state' = [state EXCEPT ![t] = "written"]
      /\ (t < Window /\ slot' = [slot EXCEPT ![t] = r]) \/ slot' = slot
      /\ UNCHANGED <<mem, pending, call, value, seen>>
  BY Zenon DEF Device!Write, Device!Goto
<1>2. r \in Request
  BY Zenon DEF Request, McasInv, McasTypes
<1>3. McasTypes'
  BY <1>1, <1>2 DEF McasInv, McasTypes
<1>4. state'[t] = "written" /\ ((t < Window /\ slot'[t] = r) \/ slot'[t] = slot[t])
      /\ \A u \in Requester : u # t => slot'[u] = slot[u] /\ state'[u] = state[u]
  BY <1>1, Zenon DEF McasInv, McasTypes
<1>5. slot[t].status \notin {1, 2}
  BY <1>1, Zenon DEF McasInv, Held
<1>6. (Held(t) /\ Fresh(t) /\ Known(t))'
  BY <1>1, <1>4, <1>5 DEF McasInv, Held, Fresh, Known, Device!Word
<1>7. ASSUME NEW u \in Requester, u # t PROVE (Held(u) /\ Fresh(u) /\ Known(u))'
  BY Zenon, <1>1, <1>4, <1>7, Others
<1> QED
  BY <1>3, <1>6, <1>7, Zenon DEF McasInv

\* compare_exchange fails, with a value that the word has had
LEMMA McasRetry ==
  ASSUME Device!McasAssumption, McasInv, NEW t \in Requester, state[t] \in {"written", "served"},
         NEW v \in Nat, v = 0 \/ v \in seen[t], Device!Retry(t, v),
         slot' \in [Requester -> Request], slot'[t].status = 0,
         \A u \in Requester : u # t => slot'[u] = slot[u] /\ value'[u] = value[u],
         value' \in [Requester -> Nat],
         UNCHANGED <<mem, pending, seen>>
  PROVE  McasInv'
<1>1. /\ state' \in [Requester -> {"idle", "load", "call", "written", "flight", "served"}]
      /\ state'[t] \in {"load", "call"} /\ \A u \in Requester : u # t => state'[u] = state[u]
  BY DEF McasInv, McasTypes, Device!Retry
<1>2. /\ call' \in [Requester -> [kind : {"none", "store", "add"}, word : Words, old : Nat, new : Nat]]
      /\ call'[t].word = call[t].word /\ (state'[t] = "call" => call'[t].old \in seen[t])
      /\ \A u \in Requester : u # t => call'[u] = call[u]
  <2>1. CASE v = 0
    BY <2>1, Zenon DEF McasInv, McasTypes, Device!Retry
  <2>2. CASE v # 0
    <3>1. Device!Expect(t, v) /\ v \in seen[t]
      BY <2>2, Zenon DEF Device!Retry
    <3> QED
      BY <3>1, ExpectTypes, Zenon DEF McasInv
  <2> QED
    BY Zenon, <2>1, <2>2
<1>3. McasTypes'
  BY <1>1, <1>2, Zenon DEF McasInv, McasTypes
<1>4. (Held(t) /\ Fresh(t) /\ Known(t))'
  BY <1>1, <1>2 DEF McasInv, Held, Fresh, Known, Device!Word
<1>5. ASSUME NEW u \in Requester, u # t PROVE (Held(u) /\ Fresh(u) /\ Known(u))'
  BY Zenon, <1>1, <1>2, <1>5, Others
<1> QED
  BY <1>3, <1>4, <1>5, Zenon DEF McasInv

\* The device takes the request, and reads.
LEMMA McasFetch ==
  ASSUME Device!McasAssumption, McasInv, NEW t \in Requester, Device!Fetch(t)
  PROVE  McasInv'
<1>1. /\ state[t] = "written" /\ pending = Device!NoWrite
      /\ UNCHANGED <<mem, pending, value, seen>>
  BY Zenon DEF Device!Fetch, Device!Accepts
<1>2. CASE t < Window /\ slot[t].status = 1
  <2>1. /\ state' = [state EXCEPT ![t] = "flight"] /\ call' = call
        /\ slot' = [slot EXCEPT ![t].status = 2]
    BY <1>2, Zenon DEF Device!Fetch
  <2>2. McasTypes'
    <3>1. slot' \in [Requester -> Request]
      BY <2>1 DEF McasInv, McasTypes, Request
    <3> QED
      BY <1>1, <2>1, <3>1, Zenon DEF McasInv, McasTypes
  <2>3. /\ state'[t] = "flight" /\ slot'[t].status = 2 /\ slot'[t].word = slot[t].word
        /\ slot'[t].cmp = slot[t].cmp /\ slot'[t].swap = slot[t].swap
        /\ \A u \in Requester : u # t => slot'[u] = slot[u] /\ state'[u] = state[u]
    BY <2>1 DEF McasInv, McasTypes, Request
  <2>4. mem[call[t].word] = Device!Word(call[t].word) /\ pending.word # slot[t].word
    BY <1>1, PendingWord DEF McasInv, McasTypes, Device!McasAssumption, Request
  <2>5. (Held(t) /\ Fresh(t) /\ Known(t))'
    BY <1>1, <1>2, <2>1, <2>3, <2>4 DEF McasInv, Held, Fresh, Known, Device!Word
  <2>6. ASSUME NEW u \in Requester, u # t PROVE (Held(u) /\ Fresh(u) /\ Known(u))'
    BY Zenon, <1>1, <2>1, <2>3, <2>6, Others
  <2> QED
    BY <2>2, <2>5, <2>6, Zenon DEF McasInv
<1>3. CASE ~(t < Window /\ slot[t].status = 1)
  <2>1. Device!Retry(t, 0) /\ slot' = slot
    BY <1>3, Zenon DEF Device!Fetch
  <2>2. slot[t].status = 0
    BY <1>1, <1>3 DEF McasInv, Held, McasTypes, Request
  <2> QED
    BY <1>1, <2>1, <2>2, McasRetry DEF McasInv, McasTypes
<1> QED
  BY Zenon, <1>2, <1>3

\* The value of the word arrives.
LEMMA McasServe ==
  ASSUME Device!McasAssumption, McasInv, NEW t \in Requester, Device!Serve(t)
  PROVE  McasInv'
<1>1. /\ state[t] = "flight" /\ state' = [state EXCEPT ![t] = "served"]
      /\ value' = [value EXCEPT ![t] = mem[slot[t].word]]
      /\ UNCHANGED <<mem, slot, pending, call, seen>>
  BY Zenon DEF Device!Serve, Device!Goto
<1>2. slot[t].word = call[t].word /\ mem[slot[t].word] \in Nat
  BY <1>1, Zenon DEF McasInv, McasTypes, Held
<1>3. McasTypes'
  BY <1>1, <1>2, Zenon DEF McasInv, McasTypes
<1>4. /\ state'[t] = "served" /\ value'[t] = mem[slot[t].word]
      /\ \A u \in Requester : u # t => value'[u] = value[u] /\ state'[u] = state[u]
  BY <1>1, Zenon DEF McasInv, McasTypes
<1>5. (Held(t) /\ Fresh(t) /\ Known(t))'
  BY <1>1, <1>2, <1>4, Zenon DEF McasInv, Held, Fresh, Known, Device!Word
<1>6. ASSUME NEW u \in Requester, u # t PROVE (Held(u) /\ Fresh(u) /\ Known(u))'
  BY Zenon, <1>1, <1>4, <1>6, Others
<1> QED
  BY <1>3, <1>5, <1>6, Zenon DEF McasInv

\* What a swap finds and leaves: no write is lost.
LEMMA McasSwap ==
  ASSUME Device!McasAssumption, Single, McasInv, NEW t \in Requester, Device!Swap(t), 
         state[t] = "served", slot[t].status = 2, value[t] = slot[t].cmp,
         NEW w, w = slot[t].word
  PROVE  /\ w \in Words /\ w = call[t].word /\ slot[t].swap = call[t].new
         /\ Device!Word(w) = call[t].old /\ Device!Word(w)' = call[t].new
         /\ pending' = [word |-> w, swap |-> call[t].new]
         /\ mem' \in [Words -> Nat] /\ mem'[w] = mem[w]
         /\ \A x \in Words : x # pending.word => mem'[x] = mem[x]
         /\ \A x \in Words : x # w =>
              Device!Word(x)' = Device!Word(x) /\ mem'[x] = Device!Word(x)
<1>1. /\ w = call[t].word /\ slot[t].swap = call[t].new /\ w \in Words
      /\ slot[t].cmp = call[t].old /\ pending.word # w /\ value[t] = mem[w]
  BY Zenon DEF McasInv, McasTypes, Held, Fresh, Request
<1>2. /\ pending' = [word |-> w, swap |-> call[t].new]
      /\ mem' = IF Ready /\ pending # Device!NoWrite
                THEN [mem EXCEPT ![pending.word] = pending.swap] ELSE mem
  BY <1>1, Zenon DEF Device!Swap
<1>3. /\ mem' \in [Words -> Nat] /\ mem'[w] = mem[w]
      /\ \A x \in Words : x # pending.word => mem'[x] = mem[x]
      /\ \A x \in Words : x # w => mem'[x] = Device!Word(x)
  <2>1. CASE pending = Device!NoWrite
    BY <1>1, <1>2, <2>1, PendingWord, Zenon DEF McasInv, McasTypes
  <2>2. CASE pending # Device!NoWrite
    <3>1. pending.word \in Words /\ pending.swap \in Nat /\ Ready
      BY <1>1, <2>2, PendingWord, Zenon DEF McasInv, Single
    <3>2. mem' = [mem EXCEPT ![pending.word] = pending.swap]
      BY Zenon, <1>2, <2>2, <3>1
    <3> QED
      BY <1>1, <3>1, <3>2, Zenon DEF McasInv, McasTypes, Device!Word
  <2> QED
    BY Zenon, <2>1, <2>2
<1>4. Device!Word(w) = call[t].old
  BY <1>1, Zenon DEF Device!Word
<1>5. pending'.word = w /\ pending'.swap = call[t].new
  BY Zenon, <1>2
<1>6. Device!Word(w)' = call[t].new /\ \A x \in Words : x # w => Device!Word(x)' = mem'[x]
  BY <1>5, Zenon DEF Device!Word
<1> QED
  BY Zenon, <1>1, <1>2, <1>3, <1>4, <1>6

\* The device compares, and holds the new value or reports failure.
LEMMA McasCompare ==
  ASSUME Device!McasAssumption, Single, McasInv, NEW t \in Requester, Device!Compare(t)
  PROVE  McasInv'
<1>1. state[t] = "served" /\ value' = [value EXCEPT ![t] = 0]
  BY Zenon DEF Device!Compare
<1>2. value' \in [Requester -> Nat] /\ \A u \in Requester : u # t => value'[u] = value[u]
  BY <1>1, Zenon DEF McasInv, McasTypes
<1>3. CASE ~(slot[t].status = 2 /\ value[t] = slot[t].cmp)
  <2>1. /\ slot' = [slot EXCEPT ![t] = Device!Empty] /\ Device!Retry(t, value[t])
        /\ UNCHANGED <<mem, pending, seen>>
    BY <1>3, Zenon DEF Device!Compare
  <2>2. /\ slot' \in [Requester -> Request] /\ slot'[t].status = 0
        /\ \A u \in Requester : u # t => slot'[u] = slot[u]
    BY <2>1, IdleTypes, Zenon DEF McasInv, McasTypes
  <2>3. value[t] \in Nat /\ value[t] \in seen[t]
    BY <1>1, Zenon DEF McasInv, McasTypes, Known
  <2> QED
    BY Zenon, <1>1, <1>2, <2>1, <2>2, <2>3, McasRetry
<1>4. CASE slot[t].status = 2 /\ value[t] = slot[t].cmp
  <2>1. Device!Swap(t)
    BY <1>4, Zenon DEF Device!Compare
  <2>2. PICK w : w = slot[t].word
    BY Zenon
  <2>3. /\ w \in Words /\ call[t].new \in Nat
        /\ Device!Word(w)' = call[t].new /\ slot[t].swap = call[t].new
        /\ pending' = [word |-> w, swap |-> call[t].new]
        /\ mem' \in [Words -> Nat] /\ mem'[w] = mem[w]
        /\ \A x \in Words : x # pending.word => mem'[x] = mem[x]
        /\ \A x \in Words : x # w =>
              Device!Word(x)' = Device!Word(x) /\ mem'[x] = Device!Word(x)
    BY <1>1, <1>4, <2>1, <2>2, McasSwap DEF McasInv, McasTypes
  <2>4. /\ slot' = [Device!Bully(w) EXCEPT ![t] = Device!Empty]
        /\ state' = [state EXCEPT ![t] = "idle"] /\ call' = [call EXCEPT ![t] = Device!Idle]
        /\ seen' = [u \in Requester |->
                      IF u = t THEN {}
                      ELSE IF state[u] # "idle" /\ call[u].word = w
                           THEN seen[u] \union {call[t].new} ELSE seen[u]]
    BY <2>1, <2>2, <2>3, Zenon DEF Device!Swap
  <2>5. /\ slot' \in [Requester -> Request] /\ slot'[t] = Device!Empty
        /\ \A u \in Requester : u # t =>
             slot'[u] = IF slot[u].word = w THEN [slot[u] EXCEPT !.status = 0] ELSE slot[u]
    <3> DEFINE b == Device!Bully(w)
    <3>1. \A u \in Requester : slot[u] \in Request
      BY Zenon DEF McasInv, McasTypes
    <3>2. \A u \in Requester : [slot[u] EXCEPT !.status = 0] \in Request
      BY <3>1, Zenon DEF Request
    <3>3. /\ b \in [Requester -> Request]
          /\ \A u \in Requester :
               b[u] = IF slot[u].word = w THEN [slot[u] EXCEPT !.status = 0] ELSE slot[u]
      BY <3>1, <3>2, Zenon DEF Device!Bully
    <3>4. slot' = [b EXCEPT ![t] = Device!Empty]
      BY Zenon, <2>4
    <3> HIDE DEF b
    <3> QED
      BY Zenon, <3>3, <3>4, IdleTypes
  <2>6. /\ state' \in [Requester -> {"idle", "load", "call", "written", "flight", "served"}]
        /\ state'[t] = "idle" /\ \A u \in Requester : u # t => state'[u] = state[u] /\ call'[u] = call[u]
        /\ call' \in [Requester -> [kind : {"none", "store", "add"}, word : Words, old : Nat, new : Nat]]
    BY <2>4, IdleTypes, Zenon DEF McasInv, McasTypes
  <2>7. seen' \in [Requester -> SUBSET Nat]
    BY <2>3, <2>4, Zenon DEF McasInv, McasTypes
  <2>8. McasTypes'
    BY <1>2, <2>3, <2>5, <2>6, <2>7, Zenon DEF McasTypes
  <2>9. (Held(t) /\ Fresh(t) /\ Known(t))'
    BY <2>5, <2>6, IdleTypes DEF Held, Fresh, Known
  <2>10. ASSUME NEW u \in Requester, u # t PROVE (Held(u) /\ Fresh(u) /\ Known(u))'
    <3>1. slot[u] \in Request /\ call[u].word \in Words /\ Held(u) /\ Fresh(u) /\ Known(u)
      BY Zenon DEF McasInv, McasTypes
    <3>2. /\ slot'[u].word = slot[u].word /\ slot'[u].cmp = slot[u].cmp
          /\ slot'[u].swap = slot[u].swap
          /\ slot'[u].status = IF slot[u].word = w THEN 0 ELSE slot[u].status
      BY <2>5, <2>10, <3>1, Zenon DEF Request
    <3>3. Held(u)'
      <4>1. state'[u] = state[u] /\ call'[u] = call[u]
        BY <2>6, <2>10, Zenon
      <4> QED
        BY <3>1, <3>2, <4>1 DEF Held
    <3>4. Fresh(u)'
      BY <1>2, <2>3, <2>6, <2>10, <3>1, <3>2 DEF Fresh, Request
    <3>5. seen[u] \subseteq seen'[u] /\ (state[u] # "idle" /\ call[u].word = w => call[t].new \in seen'[u])
      BY Zenon, <2>4, <2>10
    <3>6. PICK x \in Words : x = call[u].word
      BY Zenon, <3>1
    <3>7. state[u] # "idle" => Device!Word(x)' \in seen'[u]
      BY <2>3, <3>1, <3>5, <3>6, Zenon DEF Known
    <3>8. state[u] = "flight" => mem'[x] \in seen'[u]
      BY <2>3, <3>1, <3>5, <3>6, Zenon DEF Known
    <3>9. Known(u)'
      BY <1>2, <2>6, <2>10, <3>1, <3>5, <3>6, <3>7, <3>8, Zenon DEF Known
    <3> QED
      BY Zenon, <3>3, <3>4, <3>9
  <2> QED
    BY <2>8, <2>9, <2>10, Zenon DEF McasInv
<1> QED
  BY Zenon, <1>3, <1>4

\* The write that the device holds reaches memory: no word changes for a reader.
LEMMA McasWriteBack ==
  ASSUME Device!McasAssumption, McasInv, Device!WriteBack
  PROVE  McasInv' /\ \A w \in Words : Device!Word(w)' = Device!Word(w)
<1>1. /\ pending # Device!NoWrite /\ mem' = [mem EXCEPT ![pending.word] = pending.swap]
      /\ pending' = Device!NoWrite /\ UNCHANGED <<slot, state, call, value, seen>>
  BY Zenon DEF Device!WriteBack
<1>2. pending.word \in Words /\ pending.swap \in Nat /\ pending'.word = "none"
  BY <1>1, PendingWord, Zenon DEF McasInv, Device!NoWrite
<1>3. McasTypes'
  BY <1>1, <1>2, Zenon DEF McasInv, McasTypes
<1>4. /\ \A w \in Words : mem'[w] = Device!Word(w) /\ Device!Word(w)' = Device!Word(w)
      /\ \A w \in Words : w # pending.word => mem'[w] = mem[w]
  BY <1>1, <1>2, Zenon DEF McasInv, McasTypes, Device!Word, Device!McasAssumption
<1>5. ASSUME NEW u \in Requester PROVE (Held(u) /\ Fresh(u) /\ Known(u))'
  <2>1. slot[u].word \in Words /\ call[u].word \in Words /\ Held(u) /\ Fresh(u) /\ Known(u)
    BY Zenon DEF McasInv, McasTypes, Request
  <2>2. Held(u)' /\ Fresh(u)'
    <3>1. Held(u)'
      BY <1>1, <2>1, Zenon DEF Held
    <3>2. "none" \notin Words
      BY Zenon DEF Device!McasAssumption
    <3> QED
      BY <1>1, <1>2, <1>4, <2>1, <3>1, <3>2, Zenon DEF Fresh
  <2>3. PICK x \in Words : x = call[u].word
    BY Zenon, <2>1
  <2>4. Known(u)'
    BY <1>1, <1>4, <2>1, <2>3, Zenon DEF Known
  <2> QED
    BY Zenon, <2>2, <2>4
<1> QED
  BY <1>3, <1>4, <1>5, Zenon DEF McasInv

\* Every step keeps the invariant.
LEMMA McasNext ==
  ASSUME Device!McasAssumption, Single, McasInv, [Device!Next]_(Device!vars)
  PROVE  McasInv'
<1>1. CASE UNCHANGED Device!vars
  <2>1. McasTypes'
    BY <1>1, Zenon DEF Device!vars, McasInv, McasTypes
  <2>2. ASSUME NEW t \in Requester PROVE Held(t)' /\ Fresh(t)'
    BY <1>1, Zenon DEF Device!vars, McasInv, Held, Fresh
  <2>3. ASSUME NEW t \in Requester PROVE Known(t)'
    BY <1>1, Zenon DEF Device!vars, McasInv, Known, Device!Word
  <2> QED
    BY <2>1, <2>2, <2>3, Zenon DEF McasInv
<1>2. CASE Device!Next
  BY Zenon, <1>2, McasBegin, McasLoad, McasWrite, McasFetch, McasServe, McasCompare, McasWriteBack
     DEF Device!Next, Device!Step
<1> QED
  BY Zenon, <1>1, <1>2

\* A word only changes with a swap
LEMMA McasAtomic ==
  ASSUME Device!McasAssumption, Single, McasInv, Device!Next
  PROVE  Device!Atomic
<1> SUFFICES ASSUME NEW w \in Words, Device!Word(w)' # Device!Word(w)
             PROVE  \E t \in Requester : /\ state[t] = "served" /\ state'[t] = "idle"
                                       /\ call[t].word = w
                                       /\ Device!Word(w) = call[t].old
                                       /\ Device!Word(w)' = call[t].new
  BY Zenon DEF Device!Atomic
<1>1. ~(UNCHANGED <<mem, pending>>)
  BY Zenon DEF Device!Word
<1>2. PICK t \in Requester : Device!Compare(t) /\ ~(UNCHANGED <<mem, pending>>)
  BY <1>1, McasWriteBack, Zenon DEF Device!Next, Device!Step, Device!Begin, Device!Load, Device!Write, Device!Fetch,
     Device!Serve
<1>3. Device!Swap(t) /\ state[t] = "served" /\ slot[t].status = 2 /\ value[t] = slot[t].cmp
  BY <1>2, Zenon DEF Device!Compare
<1>4. PICK x : x = slot[t].word
  BY Zenon
<1>5. x = w
  BY <1>3, <1>4, McasSwap
<1>6. state' = [state EXCEPT ![t] = "idle"] /\ DOMAIN state = Requester
  BY <1>3, Zenon DEF Device!Swap, McasInv, McasTypes
<1>7. state'[t] = "idle"
  BY Zenon, <1>6
<1> QED
  BY <1>3, <1>4, <1>5, <1>7, McasSwap

\* For every number of threads and operations: a swap that succeeds replaces, in one
\* step, the value that the thread expected, and what a swap that fails reports has
\* been in the word during the call.  The device is one that never gives up a write
\* it holds for another one, or serves one word.
THEOREM DeviceSwapsAtomically ==
  ASSUME Device!McasAssumption, Single
  PROVE  Device!Spec => SwapsAtomic
<1>1. Device!Init => McasInv
  BY Zenon, McasInit
<1>2. McasInv /\ [Device!Next]_(Device!vars) => McasInv'
  BY Zenon, McasNext
<1>3. McasInv => Device!OldIsReal
  BY Zenon DEF McasInv, Known, Device!OldIsReal
<1>4. McasInv /\ [Device!Next]_(Device!vars) => [Device!Atomic]_(Device!vars)
  BY Zenon, McasAtomic
<1> QED
  BY <1>1, <1>2, <1>3, <1>4, PTL DEF Device!Spec, SwapsAtomic

-----------------------------------------------------------------------------
\* The compare-exchange of which a thread can tell after a crash whether it happened.

Word == [id : Updater \union {None}, version : Nat, inner : Value]
Entry == [cell : Cell, version : Nat]

CasTypes ==
  /\ cell \in [Cell -> Word]
  /\ help \in [Updater -> [Updater -> Nat]]
  /\ entry \in [Updater -> Entry \union {None}]
  /\ turn \in [Updater -> {"idle", "load", "help", "log", "cas", "clear", "down"}]
  /\ op \in [Updater -> [cell : Cell \union {None}, version : Nat, old : Word \union {None},
                        new : Value]]
  /\ done \in [Updater -> BOOLEAN]

\* A thread that has read the word it is going to replace
Reads(t) == turn[t] \in {"help", "log", "cas"}

Operations ==
  \A t \in Updater :
    /\ turn[t] = "load" \/ Reads(t) => op[t].cell \in Cell
    /\ Reads(t) => op[t].old \in Word
    /\ turn[t] = "cas" => entry[t] = [cell |-> op[t].cell, version |-> op[t].version]

\* Tags and the entries of others come from words that were written
Tagged(word) == word.id # None => <<word.id, word.version>> \in tags
Traced ==
  /\ \A c \in Cell : Tagged(cell[c])
  /\ \A t \in Updater : Reads(t) => Tagged(op[t].old)
  /\ \A t, u \in Updater : t # u => help[t][u] = 0 \/ <<u, help[t][u]>> \in tags

CasInv == CasTypes /\ Operations /\ Traced

\* What Helped does to the help array
LEMMA HelpedTypes ==
  ASSUME Cas!CasAssumption, help \in [Updater -> [Updater -> Nat]], NEW t \in Updater, NEW word \in Word
  PROVE  /\ Cas!Helped(t, word) \in [Updater -> [Updater -> Nat]]
         /\ \A u, w \in Updater :
              Cas!Helped(t, word)[u][w] = IF u = t /\ w = word.id THEN word.version ELSE help[u][w]
<1>1. word.id \in Updater \union {None} /\ word.version \in Nat /\ None \notin Updater
  BY Zenon DEF Word, Cas!CasAssumption
<1>2. CASE word.id = None
  BY <1>1, <1>2, Zenon DEF Cas!Helped
<1>3. CASE word.id # None
  BY <1>1, <1>3, Zenon DEF Cas!Helped
<1> QED
  BY Zenon, <1>2, <1>3

\* A word that is helped was written
LEMMA HelpedTraced ==
  ASSUME Cas!CasAssumption, CasInv, NEW t \in Updater, NEW word \in Word, Tagged(word)
  PROVE  \A u, w \in Updater : u # w =>
           Cas!Helped(t, word)[u][w] = 0 \/ <<w, Cas!Helped(t, word)[u][w]>> \in tags
<1>1. \A u, w \in Updater :
        Cas!Helped(t, word)[u][w] = IF u = t /\ w = word.id THEN word.version ELSE help[u][w]
  BY HelpedTypes DEF CasInv, CasTypes
<1> QED
  BY <1>1 DEF Cas!CasAssumption, CasInv, Traced, Tagged

\* There is a value to start with.
LEMMA ZeroIsValue ==
  ASSUME Cas!CasAssumption
  PROVE  Cas!Zero \in Value
BY Zenon DEF Cas!CasAssumption, Cas!Zero

\* An operation that is not there has the type of one.
LEMMA NoOpType ==
  ASSUME Cas!CasAssumption
  PROVE  Cas!NoOp \in [cell : Cell \union {None}, version : Nat, old : Word \union {None}, new : Value]
BY ZeroIsValue, Zenon DEF Cas!NoOp

\* The invariant holds of zeroed shared memory.
LEMMA CasInit ==
  ASSUME Cas!CasAssumption, Cas!Init
  PROVE  CasInv
<1>1. [id |-> None, version |-> 0, inner |-> Cas!Zero] \in Word
  BY ZeroIsValue, Zenon DEF Word
<1>2. CasTypes
  BY <1>1, NoOpType, Zenon DEF Cas!Init, CasTypes
<1> QED
  BY <1>2, Zenon DEF Cas!Init, CasInv, Operations, Traced, Tagged, Reads

\* Every step of help, update, store, a crash and recovery keeps the invariant.
LEMMA CasNext ==
  ASSUME Cas!CasAssumption, CasInv, [Cas!Next]_(Cas!vars)
  PROVE  CasInv'
<1> USE DEF CasInv
<1>1. CASE UNCHANGED Cas!vars
  BY <1>1, Zenon DEF Cas!vars, CasTypes, Operations, Traced, Tagged, Reads
<1>2. ASSUME NEW t \in Updater, NEW c \in Cell, Cas!Load(t, c) PROVE CasInv'
  <2>1. cell[c] \in Word /\ Tagged(cell[c])
    BY Zenon DEF CasTypes, Traced
  <2>2. CasTypes' /\ Operations'
    BY <1>2, <2>1, HelpedTypes, Zenon DEF Cas!Load, CasTypes, Operations, Reads
  <2>3. Traced'
    BY <1>2, <2>1, HelpedTraced, Zenon DEF Cas!Load, Traced, Reads, Tagged
  <2> QED
    BY Zenon, <2>2, <2>3
<1>3. ASSUME NEW t \in Updater, NEW c \in Cell, Cas!Store(t, c) PROVE CasInv'
  <2>1. cell[c] \in Word /\ Tagged(cell[c])
    BY Zenon DEF CasTypes, Traced
  <2>2. PICK v \in Value : cell' = [cell EXCEPT ![c] = [id |-> t, version |-> 0, inner |-> v]]
    BY <1>3, Zenon DEF Cas!Store
  <2>3. [id |-> t, version |-> 0, inner |-> v] \in Word
    BY Zenon DEF Word
  <2>4. /\ help' = Cas!Helped(t, cell[c]) /\ tags' = tags \union {<<t, 0>>}
        /\ UNCHANGED <<entry, turn, op, done>>
    BY <1>3, Zenon DEF Cas!Store
  <2>5. CasTypes' /\ Operations'
    BY <2>1, <2>2, <2>3, <2>4, HelpedTypes, Zenon DEF CasTypes, Operations, Reads
  <2>6. \A u \in Cell : Tagged(cell[u])'
    BY <2>2, <2>4, Zenon DEF CasTypes, Traced, Tagged
  <2>7. Traced'
    BY <2>1, <2>4, <2>6, HelpedTraced, Zenon DEF Traced, Reads, Tagged
  <2> QED
    BY Zenon, <2>5, <2>7
<1>4. ASSUME NEW t \in Updater, NEW c \in Cell, Cas!Begin(t, c) PROVE CasInv'
  <2> DEFINE v == Cas!NextVersion(help[t][t])
             o == [Cas!NoOp EXCEPT !.cell = c, !.version = v]
  <2>1. v \in Nat
    BY DEF Cas!NextVersion, Cas!CasAssumption, CasTypes
  <2>2. /\ help' = [help EXCEPT ![t][t] = v] /\ op' = [op EXCEPT ![t] = o]
        /\ turn' = [turn EXCEPT ![t] = "load"] /\ UNCHANGED <<cell, entry, done, tags>>
    BY <1>4, Zenon DEF Cas!Begin, Cas!Goto
  <2> HIDE DEF v
  <2>3. /\ o \in [cell : Cell \union {None}, version : Nat, old : Word \union {None}, new : Value]
        /\ o.cell = c
    BY <2>1, ZeroIsValue, Zenon DEF Cas!NoOp
  <2> HIDE DEF o
  <2>4. CasTypes'
    BY <2>1, <2>2, <2>3, Zenon DEF CasTypes
  <2>5. turn'[t] = "load" /\ op'[t] = o
        /\ \A u \in Updater : u # t => turn'[u] = turn[u] /\ op'[u] = op[u]
    BY <2>2, Zenon DEF CasTypes
  <2>6. Operations'
    BY <2>2, <2>3, <2>5 DEF Operations, Reads
  <2>7. \A u, w \in Updater : u # w => help'[u][w] = help[u][w]
    BY <2>2 DEF CasTypes
  <2>8. Traced'
    BY <2>2, <2>5, <2>7 DEF Traced, Reads, Tagged
  <2> QED
    BY Zenon, <2>4, <2>6, <2>8
<1>5. ASSUME NEW t \in Updater, NEW l \in {"help"}, turn[t] = "load" \/ Reads(t),
             op' = [op EXCEPT ![t].old = cell[op[t].cell]], Cas!Goto(t, l),
             UNCHANGED <<cell, help, entry, done, tags>>
      PROVE  CasInv'
  <2>1. cell[op[t].cell] \in Word /\ Tagged(cell[op[t].cell]) /\ op[t].cell \in Cell
    BY <1>5, Zenon DEF CasTypes, Operations, Traced
  <2>2. CasTypes'
    <3>1. op' \in [Updater -> [cell : Cell \union {None}, version : Nat,
                            old : Word \union {None}, new : Value]]
      <4>1. PICK w \in Word : w = cell[op[t].cell]
        BY <2>1, Zenon
      <4>2. op' = [op EXCEPT ![t].old = w] /\ w \in Word \union {None}
        BY Zenon, <1>5, <4>1
      <4> QED
        BY <4>2, Zenon DEF CasTypes
    <3>2. turn' \in [Updater -> {"idle", "load", "help", "log", "cas", "clear", "down"}]
      BY <1>5, Zenon DEF CasTypes, Cas!Goto
    <3> QED
      BY <1>5, <3>1, <3>2, Zenon DEF CasTypes
  <2>3. /\ turn'[t] = "help" /\ op'[t].old = cell[op[t].cell] /\ op'[t].cell = op[t].cell
        /\ \A u \in Updater : u # t => turn'[u] = turn[u] /\ op'[u] = op[u]
    BY <1>5, Zenon DEF CasTypes, Cas!Goto
  <2>4. Operations'
    BY <1>5, <2>1, <2>3 DEF Operations, Reads
  <2>5. Traced'
    BY <1>5, <2>1, <2>3 DEF Traced, Reads, Tagged
  <2> QED
    BY Zenon, <2>2, <2>4, <2>5
<1>6. ASSUME NEW t \in Updater, Cas!Help(t) PROVE CasInv'
  <2>1. op[t].old \in Word /\ Tagged(op[t].old)
    BY <1>6, Zenon DEF Cas!Help, Operations, Traced, Reads
  <2>2. /\ help' = Cas!Helped(t, op[t].old) /\ turn[t] = "help" /\ turn' = [turn EXCEPT ![t] = "log"]
        /\ UNCHANGED <<cell, entry, op, done, tags>>
    BY <1>6, Zenon DEF Cas!Help, Cas!Goto
  <2>3. CasTypes' /\ Operations'
    BY <2>1, <2>2, HelpedTypes DEF CasTypes, Operations, Reads
  <2>4. Traced'
    BY <2>1, <2>2, HelpedTraced, Zenon DEF Traced, Reads, Tagged, CasTypes
  <2> QED
    BY Zenon, <2>3, <2>4
<1>7. ASSUME NEW t \in Updater, Cas!Log(t) PROVE CasInv'
  <2>1. PICK v \in Value : op' = [op EXCEPT ![t].new = v]
    BY <1>7, Zenon DEF Cas!Log
  <2> DEFINE e == [cell |-> op[t].cell, version |-> op[t].version]
  <2>2. /\ turn[t] = "log" /\ turn' = [turn EXCEPT ![t] = "cas"] /\ entry' = [entry EXCEPT ![t] = e]
        /\ done' = [done EXCEPT ![t] = FALSE] /\ UNCHANGED <<cell, help, tags>>
    BY <1>7, Zenon DEF Cas!Log, Cas!Goto
  <2>3. e \in Entry
    BY <2>2, Zenon DEF Entry, CasTypes, Operations, Reads
  <2>4. /\ op'[t].cell = op[t].cell /\ op'[t].old = op[t].old /\ op'[t].version = op[t].version
        /\ \A u \in Updater : u # t => turn'[u] = turn[u] /\ op'[u] = op[u] /\ entry'[u] = entry[u]
    BY <2>1, <2>2 DEF CasTypes
  <2> HIDE DEF e
  <2>5. CasTypes' /\ entry'[t] = e
    <3>1. op' \in [Updater -> [cell : Cell \union {None}, version : Nat,
                            old : Word \union {None}, new : Value]]
      BY <2>1, Zenon DEF CasTypes
    <3>2. /\ entry' \in [Updater -> Entry \union {None}] /\ entry'[t] = e
          /\ done' \in [Updater -> BOOLEAN]
      BY <2>2, <2>3, Zenon DEF CasTypes
    <3> QED
      BY <2>2, <3>1, <3>2, Zenon DEF CasTypes
  <2>6. Operations'
    BY <2>2, <2>4, <2>5 DEF Operations, Reads, e
  <2>7. Traced'
    BY <2>2, <2>4 DEF Traced, Reads, Tagged
  <2> QED
    BY Zenon, <2>5, <2>6, <2>7
<1>8. ASSUME NEW t \in Updater, Cas!CompareExchange(t), cell[op[t].cell] = op[t].old PROVE CasInv'
  <2> DEFINE w == [id |-> t, version |-> op[t].version, inner |-> op[t].new]
  <2>1. /\ turn[t] = "cas" /\ cell' = [cell EXCEPT ![op[t].cell] = w]
        /\ done' = [done EXCEPT ![t] = TRUE] /\ tags' = tags \union {<<t, op[t].version>>}
        /\ op' = [op EXCEPT ![t] = Cas!NoOp] /\ turn' = [turn EXCEPT ![t] = "clear"]
        /\ UNCHANGED <<help, entry>>
    BY <1>8, Zenon DEF Cas!CompareExchange, Cas!Goto
  <2>2. w \in Word
    BY Zenon DEF Word, CasTypes
  <2>3. CasTypes'
    BY <2>1, <2>2, NoOpType, Zenon DEF CasTypes
  <2>4. \A u \in Updater : u # t => turn'[u] = turn[u] /\ op'[u] = op[u]
    BY <2>1, Zenon DEF CasTypes
  <2>5. Operations'
    BY <2>1, <2>4, Zenon DEF Operations, Reads, CasTypes
  <2>6. \A c \in Cell : Tagged(cell[c])'
    BY <2>1, Zenon DEF Traced, Tagged, CasTypes
  <2>7. Traced'
    BY <2>1, <2>4, <2>6, Zenon DEF Traced, Reads, Tagged, CasTypes
  <2> QED
    BY Zenon, <2>3, <2>5, <2>7
<1>9. ASSUME NEW t \in Updater, Cas!CompareExchange(t), cell[op[t].cell] # op[t].old PROVE CasInv'
  BY <1>5, <1>9, Zenon DEF Cas!CompareExchange, Reads
<1>10. ASSUME NEW t \in Updater, Cas!LoadOld(t) PROVE CasInv'
  BY <1>5, <1>10, Zenon DEF Cas!LoadOld
<1>11. ASSUME NEW t \in Updater, Cas!Clear(t) \/ Cas!Recover(t) PROVE CasInv'
  <2>1. /\ entry' = [entry EXCEPT ![t] = None] /\ done' = [done EXCEPT ![t] = FALSE]
        /\ turn' = [turn EXCEPT ![t] = "idle"] /\ UNCHANGED <<cell, help, op, tags>>
    BY <1>11, Zenon DEF Cas!Clear, Cas!Recover, Cas!Goto
  <2>2. CasTypes'
    BY <2>1, Zenon DEF CasTypes
  <2>3. turn'[t] = "idle" /\ \A u \in Updater : u # t => turn'[u] = turn[u] /\ entry'[u] = entry[u]
    BY <2>1, Zenon DEF CasTypes
  <2>4. Operations' /\ Traced'
    BY <2>1, <2>3 DEF Operations, Traced, Reads, Tagged
  <2> QED
    BY Zenon, <2>2, <2>4
<1>12. ASSUME NEW t \in Updater, Cas!Crash(t) PROVE CasInv'
  <2>1. CasTypes'
    BY <1>12, NoOpType, Zenon DEF Cas!Crash, Cas!Goto, CasTypes
  <2>2. Operations' /\ Traced'
    BY <1>12, Zenon DEF Cas!Crash, Cas!Goto, CasTypes, Operations, Traced, Reads, Tagged
  <2> QED
    BY Zenon, <2>1, <2>2
<1> QED
  BY <1>1, <1>2, <1>3, <1>4, <1>6, <1>7, <1>8, <1>9, <1>10, <1>11, <1>12, Zenon DEF Cas!Next

\* Detect takes an update that did not happen for one that did only when the
\* version was used before or is 0: with any number of cells, of threads, of
\* crashes and of versions, since tags and the entries of others are only ever
\* copied from words that were written.
THEOREM MistakesNeedReuse ==
  ASSUME Cas!CasAssumption
  PROVE  Cas!Spec => []MistakenOnlyIfReused
<1>1. Cas!Init => CasInv
  BY Zenon, CasInit
<1>2. CasInv /\ [Cas!Next]_(Cas!vars) => CasInv'
  BY Zenon, CasNext
<1>3. CasInv => MistakenOnlyIfReused
  <2> SUFFICES ASSUME CasInv, NEW t \in Updater, Cas!Asks(t), Cas!Detect(t)
               PROVE  <<t, entry[t].version>> \in tags \/ entry[t].version = 0
    BY Zenon DEF MistakenOnlyIfReused, Cas!MistakenOnlyIfReused
  <2>1. entry[t] \in Entry
    BY Zenon DEF CasInv, CasTypes, Cas!Asks
  <2>2. CASE cell[entry[t].cell].id = t /\ cell[entry[t].cell].version = entry[t].version
    BY <2>1, <2>2, Zenon DEF CasInv, Traced, Tagged, Entry, Cas!CasAssumption
  <2>3. ASSUME NEW u \in Updater, u # t, help[u][t] = entry[t].version
        PROVE  <<t, entry[t].version>> \in tags \/ entry[t].version = 0
    BY <2>3, Zenon DEF CasInv, Traced
  <2> QED
    BY <2>2, <2>3, Zenon DEF Cas!Detect
<1> QED
  BY <1>1, <1>2, <1>3, PTL DEF Cas!Spec

-----------------------------------------------------------------------------
OneCell == \A c, d \in Cell : c = d

\* Who has helped with a word of another has that version in its row.
Noted ==
  \A t, u \in Updater :
    t # u /\ turn[u] \in {"log", "cas"} /\ op[u].old.id = t => help[u][t] = op[u].old.version

\* u keeps the version of t: it has it, and will not note another.
Keeps(u, t, v) ==
  /\ u # t /\ help[u][t] = v
  /\ Reads(u) => op[u].old.id # t \/ op[u].old.version = v

\* An update that happened is in the word or in the row of another thread.
Trace(t) ==
  LET v == entry[t].version IN
  /\ turn[t] \in {"clear", "down"}
  /\ \A c \in Cell :
       \/ cell[c].id = t /\ cell[c].version = v
       \/ cell[c].id # t /\ \E u \in Updater : Keeps(u, t, v)

DoneInv == Noted /\ \A t \in Updater : done[t] => Trace(t)

\* The steps of one thread
Moves(t) ==
  \/ \E c \in Cell : Cas!Load(t, c) \/ Cas!Store(t, c) \/ Cas!Begin(t, c)
  \/ Cas!LoadOld(t) \/ Cas!Help(t) \/ Cas!Log(t) \/ Cas!CompareExchange(t) \/ Cas!Clear(t)
  \/ Cas!Crash(t) \/ Cas!Recover(t)

\* The update of t
Succeeds(t) == Cas!CompareExchange(t) /\ cell[op[t].cell] = op[t].old

\* A step of one thread leaves what belongs to the others alone.
LEMMA ActsAlone ==
  ASSUME CasTypes, NEW t \in Updater, Moves(t), NEW u \in Updater, u # t
  PROVE  turn'[u] = turn[u] /\ op'[u] = op[u] /\ entry'[u] = entry[u] /\ done'[u] = done[u]
<1>1. ASSUME NEW c \in Cell, Cas!Load(t, c) \/ Cas!Store(t, c) PROVE UNCHANGED <<turn, op, entry, done>>
  BY <1>1, Zenon DEF Cas!Load, Cas!Store
<1>2. ASSUME NEW c \in Cell, Cas!Begin(t, c)
      PROVE  turn'[u] = turn[u] /\ op'[u] = op[u] /\ UNCHANGED <<entry, done>>
  BY <1>2, Zenon DEF Cas!Begin, Cas!Goto, CasTypes
<1>3. CASE Cas!LoadOld(t)
  BY <1>3, Zenon DEF Cas!LoadOld, Cas!Goto, CasTypes
<1>4. CASE Cas!Help(t)
  BY <1>4, Zenon DEF Cas!Help, Cas!Goto, CasTypes
<1>5. CASE Cas!Log(t)
  BY <1>5, Zenon DEF Cas!Log, Cas!Goto, CasTypes
<1>6. CASE Cas!CompareExchange(t)
  BY <1>6, Zenon DEF Cas!CompareExchange, Cas!Goto, CasTypes
<1>7. CASE Cas!Clear(t) \/ Cas!Recover(t)
  BY <1>7, Zenon DEF Cas!Clear, Cas!Recover, Cas!Goto, CasTypes
<1>8. CASE Cas!Crash(t)
  BY <1>8, Zenon DEF Cas!Crash, Cas!Goto, CasTypes
<1> QED
  BY <1>1, <1>2, <1>3, <1>4, <1>5, <1>6, <1>7, <1>8, Zenon DEF Moves

\* Words change by a store and by an update that succeeds.
LEMMA WordsChange ==
  ASSUME NEW t \in Updater, Moves(t)
  PROVE  cell' = cell \/ Succeeds(t) \/ \E c \in Cell : Cas!Store(t, c)
<1>1. ASSUME NEW c \in Cell, Cas!Load(t, c) \/ Cas!Begin(t, c) PROVE cell' = cell
  BY <1>1, Zenon DEF Cas!Load, Cas!Begin
<1>2. CASE Cas!LoadOld(t) \/ Cas!Help(t) \/ Cas!Log(t) \/ Cas!Clear(t) \/ Cas!Crash(t) \/ Cas!Recover(t)
  BY <1>2, Zenon DEF Cas!LoadOld, Cas!Help, Cas!Log, Cas!Clear, Cas!Crash, Cas!Recover
<1>3. CASE Cas!CompareExchange(t) /\ ~Succeeds(t)
  BY <1>3, Zenon DEF Cas!CompareExchange, Succeeds
<1> QED
  BY <1>1, <1>2, <1>3, Zenon DEF Moves

\* A step of one's own that leaves an update made: it was made before.
LEMMA StaysDone ==
  ASSUME CasTypes, NEW t \in Updater, Moves(t), ~Succeeds(t), done'[t]
  PROVE  /\ done[t]
         /\ turn[t] \in {"clear", "down"} => entry'[t] = entry[t] /\ turn'[t] = "down"
<1>1. ASSUME NEW c \in Cell, Cas!Load(t, c) \/ Cas!Store(t, c) \/ Cas!Begin(t, c)
      PROVE  turn[t] = "idle" /\ done' = done
  BY <1>1, Zenon DEF Cas!Load, Cas!Store, Cas!Begin
<1>2. CASE Cas!LoadOld(t) \/ Cas!Help(t)
  BY <1>2, Zenon DEF Cas!LoadOld, Cas!Help
<1>3. ~Cas!Log(t) /\ ~Cas!Clear(t) /\ ~Cas!Recover(t)
  BY Zenon DEF Cas!Log, Cas!Clear, Cas!Recover, CasTypes
<1>4. CASE Cas!CompareExchange(t)
  BY <1>4, Zenon DEF Cas!CompareExchange, Succeeds
<1>5. CASE Cas!Crash(t)
  BY <1>5, Zenon DEF Cas!Crash, Cas!Goto, CasTypes
<1> QED
  BY <1>1, <1>2, <1>3, <1>4, <1>5, Zenon DEF Moves

\* A thread that is past help has the version that it saw of the other: it notes it
\* before it writes its log, and only help writes its row.
LEMMA NotedNext ==
  ASSUME Cas!CasAssumption, CasInv, Noted, Cas!Next
  PROVE  Noted'
<1>1. ASSUME NEW t \in Updater, NEW word \in Word, help' = Cas!Helped(t, word),
             \A u \in Updater : u # t => turn'[u] = turn[u] /\ op'[u] = op[u],
             turn'[t] \in {"log", "cas"} => op'[t].old = word
      PROVE  Noted'
  <2>1. \A u, w \in Updater :
          help'[u][w] = IF u = t /\ w = word.id THEN word.version ELSE help[u][w]
    BY <1>1, HelpedTypes DEF CasInv, CasTypes
  <2> QED
    BY <1>1, <2>1 DEF Noted
<1>2. ASSUME NEW t \in Updater, \A u, w \in Updater : u # w => help'[u][w] = help[u][w],
             \A u \in Updater : u # t => turn'[u] = turn[u] /\ op'[u] = op[u],
             turn'[t] \in {"log", "cas"} => turn[t] \in {"log", "cas"} /\ op'[t].old = op[t].old
      PROVE  Noted'
  BY <1>2 DEF Noted
<1>3. PICK t \in Updater : Moves(t)
  BY Zenon DEF Cas!Next, Moves
<1>4. \A u \in Updater : u # t => turn'[u] = turn[u] /\ op'[u] = op[u]
  BY <1>3, ActsAlone, Zenon DEF CasInv
<1>5. ASSUME NEW c \in Cell, Cas!Load(t, c) \/ Cas!Store(t, c) PROVE Noted'
  <2>1. cell[c] \in Word /\ help' = Cas!Helped(t, cell[c]) /\ turn' = turn /\ turn[t] = "idle"
    BY <1>5, Zenon DEF Cas!Load, Cas!Store, CasInv, CasTypes
  <2> QED
    BY Zenon, <1>1, <1>4, <2>1
<1>6. CASE Cas!Help(t)
  <2>1. op[t].old \in Word
    BY <1>6, Zenon DEF Cas!Help, CasInv, Operations, Reads
  <2>2. help' = Cas!Helped(t, op[t].old) /\ op' = op
    BY <1>6, Zenon DEF Cas!Help
  <2> QED
    BY Zenon, <1>1, <1>4, <2>1, <2>2
<1>7. CASE Cas!Log(t)
  <2>1. PICK v \in Value : op' = [op EXCEPT ![t].new = v]
    BY <1>7, Zenon DEF Cas!Log
  <2>2. turn[t] = "log" /\ help' = help
    BY <1>7, Zenon DEF Cas!Log
  <2>3. op'[t].old = op[t].old
    BY <2>1, Zenon DEF CasInv, CasTypes
  <2> QED
    BY Zenon, <1>2, <1>4, <2>2, <2>3
<1>8. ASSUME NEW c \in Cell, Cas!Begin(t, c) PROVE Noted'
  <2>1. turn'[t] = "load" /\ \A u, w \in Updater : u # w => help'[u][w] = help[u][w]
    BY <1>8 DEF Cas!Begin, Cas!Goto, CasInv, CasTypes
  <2> QED
    BY Zenon, <1>2, <1>4, <2>1
<1>9. CASE Cas!LoadOld(t) \/ Cas!CompareExchange(t) \/ Cas!Clear(t) \/ Cas!Crash(t) \/ Cas!Recover(t)
  <2>1. help' = help
    BY <1>9, Zenon DEF Cas!LoadOld, Cas!CompareExchange, Cas!Clear, Cas!Crash, Cas!Recover
  <2>2. \E l \in {"help", "clear", "idle", "down"} : Cas!Goto(t, l)
    BY <1>9, Zenon DEF Cas!LoadOld, Cas!CompareExchange, Cas!Clear, Cas!Crash, Cas!Recover
  <2>3. turn'[t] \notin {"log", "cas"}
    BY <2>2, Zenon DEF Cas!Goto, CasInv, CasTypes
  <2> QED
    BY Zenon, <1>2, <1>4, <2>1, <2>3
<1> QED
  BY <1>3, <1>5, <1>6, <1>7, <1>8, <1>9, Zenon DEF Moves

\* A step by t of an operation keeps what the others know of w
LEMMA TraceNext ==
  ASSUME Cas!CasAssumption, OneCell, CasInv, Noted, Cas!Next, NEW w \in Updater,
         done[w] => Trace(w), done'[w]
  PROVE  Trace(w)'
<1>1. PICK t \in Updater : Moves(t)
  BY Zenon DEF Cas!Next, Moves
<1>2. PICK v : v = entry[w].version
  BY Zenon
<1>3. \A d \in Cell : cell[d] \in Word
  BY Zenon DEF CasInv, CasTypes
\* The step that makes the update
<1>4. ASSUME Succeeds(t), t = w PROVE Trace(w)'
  <2>1. /\ turn'[w] = "clear" /\ op[w].cell \in Cell
        /\ cell' = [cell EXCEPT ![op[w].cell] =
                      [id |-> w, version |-> op[w].version, inner |-> op[w].new]]
        /\ entry'[w] = [cell |-> op[w].cell, version |-> op[w].version]
    BY <1>4, Zenon DEF Succeeds, Cas!CompareExchange, Cas!Goto, CasInv, CasTypes, Operations, Reads
  <2>2. \A c \in Cell : cell'[c].id = w /\ cell'[c].version = entry'[w].version
    BY <2>1 DEF OneCell, CasInv, CasTypes
  <2> QED
    BY <2>1, <2>2, Zenon DEF Trace
\* In all others the update has been made, and its log entry stays
<1>5. ASSUME ~(Succeeds(t) /\ t = w)
      PROVE  done[w] /\ Trace(w) /\ entry'[w] = entry[w] /\ turn'[w] \in {"clear", "down"}
  <2>1. CasTypes
    BY Zenon DEF CasInv
  <2>2. done[w]
    BY Zenon, <1>1, <1>5, <2>1, ActsAlone, StaysDone
  <2>3. Trace(w) /\ turn[w] \in {"clear", "down"}
    BY <2>2, Zenon DEF Trace
  <2> QED
    BY Zenon, <1>1, <1>5, <2>1, <2>2, <2>3, ActsAlone, StaysDone
\* What a success of t replaces, it has helped with
<1>6. ASSUME Succeeds(t), NEW c \in Cell
      PROVE  /\ op[t].cell = c /\ turn[t] = "cas" /\ op[t].old = cell[c]
             /\ cell'[c].id = t /\ turn'[t] = "clear" /\ help' = help
  <2>1. turn[t] = "cas" /\ op[t].old = cell[op[t].cell]
    BY <1>6, Zenon DEF Succeeds, Cas!CompareExchange
  <2>2. op[t].cell = c
    BY <2>1, Zenon DEF OneCell, CasInv, Operations, Reads
  <2> QED
    BY <1>6, <2>1, <2>2 DEF Succeeds, Cas!CompareExchange, Cas!Goto, CasInv, CasTypes
<1>7. ASSUME NEW d \in Cell, Cas!Store(t, d), NEW c \in Cell
      PROVE  /\ d = c /\ help' = Cas!Helped(t, cell[c]) /\ turn[t] = "idle"
             /\ cell'[c].id = t /\ turn' = turn
  BY <1>7 DEF Cas!Store, OneCell, CasInv, CasTypes
\* While the word is there: who replaces it has noted the version
<1>8. ASSUME done[w], Trace(w), ~(Succeeds(t) /\ t = w),
             NEW c \in Cell, cell[c].id = w, cell[c].version = v
      PROVE  \/ cell'[c].id = w /\ cell'[c].version = v
             \/ cell'[c].id # w /\ \E u \in Updater : Keeps(u, w, v)'
  <2>1. turn[w] \in {"clear", "down"}
    BY <1>8, Zenon DEF Trace
  <2>2. ASSUME NEW d \in Cell, Cas!Store(t, d)
        PROVE  cell'[c].id # w /\ Keeps(t, w, v)'
    <3>1. t # w
      BY Zenon, <1>7, <2>1, <2>2
    <3>2. help'[t][w] = v
      <4>1. help' = Cas!Helped(t, cell[c]) /\ cell[c] \in Word /\ help \in [Updater -> [Updater -> Nat]]
        BY <1>7, <2>2, Zenon DEF CasInv, CasTypes
      <4>2. \A u, x \in Updater : Cas!Helped(t, cell[c])[u][x]
                = IF u = t /\ x = cell[c].id THEN cell[c].version ELSE help[u][x]
        BY <4>1, HelpedTypes
      <4> QED
        BY <4>1, <4>2, <1>8, Zenon
    <3> QED
      BY <1>7, <2>2, <3>1, <3>2, Zenon DEF Keeps, Reads
  <2>3. ASSUME Succeeds(t)
        PROVE  cell'[c].id # w /\ Keeps(t, w, v)'
    <3>1. t # w /\ help[t][w] = v
      BY <1>6, <1>8, <2>3 DEF Noted
    <3> QED
      <4>1. cell'[c].id = t /\ turn'[t] = "clear" /\ help'[t][w] = v
        BY <1>6, <2>3, <3>1, Zenon
      <4> QED
        BY <3>1, <4>1, Zenon DEF Keeps, Reads
  <2> QED
    BY Zenon, <1>1, <1>8, <2>2, <2>3, WordsChange
\* Once it is replaced: nobody who keeps the version meets an older word
<1>9. ASSUME done[w], Trace(w), ~(Succeeds(t) /\ t = w),
             NEW c \in Cell, cell[c].id # w, NEW u \in Updater, Keeps(u, w, v)
      PROVE  cell'[c].id # w /\ Keeps(u, w, v)'
  <2>1. turn[w] \in {"clear", "down"} /\ \A d \in Cell : d = c
    BY <1>9, Zenon DEF Trace, OneCell
  <2>2. cell'[c].id # w
    BY Zenon, <1>1, <1>6, <1>7, <1>9, <2>1, WordsChange
  <2>3. u # w /\ help[u][w] = v /\ (Reads(u) => op[u].old.id # w \/ op[u].old.version = v)
    BY <1>9, Zenon DEF Keeps
  <2>4. help'[u][w] = v
    <3>1. ASSUME NEW word \in Word, help' = Cas!Helped(t, word),
                 t = u => word.id # w \/ word.version = v
          PROVE  help'[u][w] = v
      BY <2>3, <3>1, HelpedTypes DEF CasInv, CasTypes
    <3>2. ASSUME NEW d \in Cell, Cas!Load(t, d) \/ Cas!Store(t, d) PROVE help'[u][w] = v
      <4>1. help' = Cas!Helped(t, cell[d]) /\ d = c
        BY <2>1, <3>2, Zenon DEF Cas!Load, Cas!Store
      <4> QED
        BY Zenon, <1>3, <1>9, <3>1, <4>1
    <3>3. CASE Cas!Help(t)
      <4>1. help' = Cas!Helped(t, op[t].old) /\ Reads(t)
        BY <3>3, Zenon DEF Cas!Help, Reads
      <4>2. op[t].old \in Word
        BY <4>1, Zenon DEF CasInv, Operations
      <4> QED
        BY Zenon, <2>3, <3>1, <4>1, <4>2
    <3>4. ASSUME NEW d \in Cell, Cas!Begin(t, d) PROVE help'[u][w] = v
      BY <2>3, <3>4 DEF Cas!Begin, CasInv, CasTypes
    <3>5. CASE Cas!LoadOld(t) \/ Cas!Log(t) \/ Cas!CompareExchange(t) \/ Cas!Clear(t) \/ Cas!Crash(t) \/ Cas!Recover(t)
      BY <2>3, <3>5, Zenon DEF Cas!LoadOld, Cas!Log, Cas!CompareExchange, Cas!Clear, Cas!Crash, Cas!Recover
    <3> QED
      BY <1>1, <3>2, <3>3, <3>4, <3>5, Zenon DEF Moves
  <2>5. Reads(u)' => op'[u].old.id # w \/ op'[u].old.version = v
    <3>1. CASE u # t
      BY <1>1, <2>3, <3>1, ActsAlone DEF Reads, CasInv
    <3>2. CASE u = t
      <4>1. CASE Cas!LoadOld(t) \/ (Cas!CompareExchange(t) /\ ~Succeeds(t))
        <5>1. op' = [op EXCEPT ![t].old = cell[op[t].cell]] /\ (turn[t] = "load" \/ Reads(t))
          BY <4>1, Zenon DEF Cas!LoadOld, Cas!CompareExchange, Succeeds, Reads
        <5>2. op[t].cell \in Cell /\ op'[t].old = cell[op[t].cell]
          BY <5>1 DEF CasInv, CasTypes, Operations
        <5> QED
          BY Zenon, <1>9, <2>1, <3>2, <5>2
      <4>2. ASSUME NEW d \in Cell, Cas!Load(t, d) \/ Cas!Store(t, d) \/ Cas!Begin(t, d)
            PROVE  ~Reads(u)'
        BY <3>2, <4>2, Zenon DEF Cas!Load, Cas!Store, Cas!Begin, Cas!Goto, Reads, CasInv, CasTypes
      <4>3. CASE Cas!Help(t)
        BY <2>3, <3>2, <4>3, Zenon DEF Cas!Help, Reads
      <4>4. CASE Cas!Log(t)
        <5>1. Reads(t) /\ \E x \in Value : op' = [op EXCEPT ![t].new = x]
          BY <4>4, Zenon DEF Cas!Log, Reads
        <5>2. op'[t].old = op[t].old
          BY <5>1 DEF CasInv, CasTypes
        <5> QED
          BY Zenon, <2>3, <3>2, <5>1, <5>2
      <4>5. CASE Succeeds(t) \/ Cas!Clear(t) \/ Cas!Crash(t) \/ Cas!Recover(t)
        <5>1. \E l \in {"clear", "idle", "down"} : Cas!Goto(t, l)
          BY <4>5, Zenon DEF Succeeds, Cas!CompareExchange, Cas!Clear, Cas!Crash, Cas!Recover
        <5> QED
          BY <3>2, <5>1, Zenon DEF Cas!Goto, Reads, CasInv, CasTypes
      <4> QED
        BY <1>1, <4>1, <4>2, <4>3, <4>4, <4>5, Zenon DEF Moves
    <3> QED
      BY Zenon, <3>1, <3>2
  <2> QED
    BY <2>2, <2>3, <2>4, <2>5, Zenon DEF Keeps
<1>10. ASSUME ~(Succeeds(t) /\ t = w)
       PROVE  Trace(w)'
  <2>1. \A c \in Cell : \/ cell'[c].id = w /\ cell'[c].version = v
                        \/ cell'[c].id # w /\ \E u \in Updater : Keeps(u, w, v)'
    BY <1>2, <1>5, <1>8, <1>9, <1>10, Zenon DEF Trace
  <2>2. entry'[w].version = v /\ turn'[w] \in {"clear", "down"}
    BY Zenon, <1>2, <1>5, <1>10
  <2> QED
    BY <2>1, <2>2, Zenon DEF Trace, Keeps, Reads
<1> QED
  BY Zenon, <1>4, <1>10

\* An update of the one cell that happened is detected after any number of crashes
\* and of updates by others, whatever they do: whoever replaces the word notes its
\* version first, and cannot note another of the thread before the thread
\* writes again.  With more cells this fails: the thread's older word in another
\* cell is noted over it.
THEOREM UpdatesAreDetected ==
  ASSUME Cas!CasAssumption, OneCell
  PROVE  Cas!Spec => []DetectComplete
<1>1. Cas!Init => CasInv /\ DoneInv
  BY CasInit, Zenon DEF Cas!Init, DoneInv, Noted
<1>2. CasInv /\ DoneInv /\ [Cas!Next]_(Cas!vars) => CasInv' /\ DoneInv'
  <2> SUFFICES ASSUME CasInv, DoneInv, [Cas!Next]_(Cas!vars) PROVE DoneInv'
    BY Zenon, CasNext
  <2>1. CASE Cas!Next
    BY <2>1, NotedNext, TraceNext, Zenon DEF DoneInv
  <2>2. CASE UNCHANGED Cas!vars
    BY <2>2 DEF Cas!vars, DoneInv, Noted, Trace, Keeps, Reads
  <2> QED
    BY Zenon, <2>1, <2>2
<1>3. CasInv /\ DoneInv => DetectComplete
  <2> SUFFICES ASSUME CasInv, DoneInv, NEW t \in Updater, Cas!Asks(t), done[t],
                      help[t][t] = entry[t].version
               PROVE  Cas!Detect(t)
    BY Zenon DEF DetectComplete, Cas!DetectComplete
  <2>1. entry[t].cell \in Cell /\ Trace(t)
    BY Zenon DEF CasInv, CasTypes, DoneInv, Cas!Asks, Entry
  <2>2. CASE cell[entry[t].cell].id = t /\ cell[entry[t].cell].version = entry[t].version
    BY <2>2, Zenon DEF Cas!Detect
  <2>3. CASE \E u \in Updater : Keeps(u, t, entry[t].version)
    BY <2>3, Zenon DEF Cas!Detect, Keeps
  <2> QED
    BY <2>1, <2>2, <2>3, Zenon DEF Trace
<1> QED
  BY <1>1, <1>2, <1>3, PTL DEF Cas!Spec

-----------------------------------------------------------------------------
\* The array of hazard pointers of one thread.

\* How many of the entries stay when the owner has finished what it does
Kept == IF phase \in {"fill", "shrink"} THEN len - 1 ELSE len

ArrayTypes ==
  /\ hazards \in [0..(Capacity - 1) -> Offset \union {None}]
  /\ len \in 0..Capacity /\ Kept \in Nat
  /\ phase \in {"idle", "inserted", "fill", "shrink"}
  /\ limit \in 0..Capacity /\ probe \in 0..limit

\* What the owner leaves between its stores
Owner ==
  /\ \A j \in 0..(Kept - 1) : hazards[j] \in Offset
  /\ \A j, k \in 0..(Kept - 1) : hazards[j] = hazards[k] => j = k
  /\ phase = "inserted" =>
       /\ len < Capacity /\ hazards[len] = offset /\ offset \in Offset
       /\ \A j \in 0..(len - 1) : hazards[j] # offset
  /\ phase = "fill" =>
       hazards[len - 1] = offset \/ \E j \in 0..(len - 2) : hazards[j] = hazards[len - 1]
  /\ phase = "shrink" => hazards[len - 1] = None

\* What a reader looks for lies before it, at an index that stays in use
Ahead ==
  \E k \in 0..(Kept - 1) : probe <= k /\ k < limit /\ hazards[k] = want

Reader ==
  /\ scan \in {"scan", "yes", "no", "idle"}
  /\ there /\ ~moved => want \in Offset /\ scan # "no" /\ (scan = "scan" => Ahead)

ArrayInv == ArrayTypes /\ Owner /\ Reader

\* An array without hazards satisfies the invariant.
LEMMA ArrayInit ==
  ASSUME Array!HazardAssumption, Array!Init
  PROVE  ArrayInv
BY DEF Array!HazardAssumption, Array!Init, Array!Index, ArrayInv, ArrayTypes, Owner, Reader, Kept

\* Every store of insert and remove, every step of a scan keeps the invariant.
LEMMA ArrayNext ==
  ASSUME Array!HazardAssumption, ArrayInv, [Array!Next]_(Array!vars)
  PROVE  ArrayInv'
<1> USE DEF Array!HazardAssumption, ArrayInv, ArrayTypes, Array!array, Array!owner, Array!reader
<1>1. CASE UNCHANGED Array!vars
  BY <1>1 DEF Array!vars, Owner, Reader, Ahead, Kept
<1>2. ASSUME NEW o \in Offset, Array!Insert(o) PROVE ArrayInv'
  <2>1. ArrayTypes' /\ Kept' = Kept /\ \A j \in 0..(len - 1) : hazards'[j] = hazards[j]
    BY <1>2 DEF Array!Insert, Kept
  <2>2. Owner'
    BY <1>2, <2>1 DEF Array!Insert, Array!Used, Kept, Owner
  <2>3. Reader'
    BY <1>2, <2>1, Zenon DEF Array!Insert, Reader, Ahead, Kept
  <2> QED
    BY Zenon, <2>1, <2>2, <2>3
<1>3. ASSUME Array!Inserted PROVE ArrayInv'
  <2>1. ArrayTypes' /\ Kept' = Kept + 1
    BY <1>3 DEF Array!Inserted, Kept, Owner
  <2>2. Owner'
    BY <1>3, <2>1 DEF Array!Inserted, Kept, Owner
  <2>3. Reader'
    BY <1>3, <2>1 DEF Array!Inserted, Reader, Ahead, Kept
  <2> QED
    BY Zenon, <2>1, <2>2, <2>3
<1>4. ASSUME NEW o \in Offset, Array!Remove(o) PROVE ArrayInv'
  <2>1. PICK j \in 0..(len - 1) :
          /\ hazards[j] = o
          /\ hazards' = [hazards EXCEPT ![j] = hazards[len - 1]]
          /\ moved' = (moved \/ (hazards[len - 1] = want /\ j # len - 1))
    BY <1>4, Zenon DEF Array!Remove
  <2>2. /\ phase = "idle" /\ phase' = "fill" /\ offset' = o /\ there' = (there /\ want # o)
        /\ UNCHANGED <<len, scan, want, limit, probe>>
    BY <1>4, Zenon DEF Array!Remove
  <2>3. Kept = len /\ Kept' = len - 1 /\ len > 0
    BY <2>1, <2>2 DEF Kept
  <2>4. /\ \A k \in 0..(len - 1) : k # j => hazards'[k] = hazards[k]
        /\ hazards'[j] = hazards[len - 1] /\ hazards'[len - 1] = hazards[len - 1]
    BY <2>1
  <2>5. ArrayTypes'
    BY <2>1, <2>2, <2>3
  <2>6. Owner'
    BY <2>1, <2>2, <2>3, <2>4 DEF Owner
  <2>7. Reader'
    <3> SUFFICES ASSUME there', ~moved', scan = "scan" PROVE Ahead'
      BY <2>1, <2>2, Zenon DEF Reader
    <3>1. PICK k \in 0..(len - 1) : probe <= k /\ k < limit /\ hazards[k] = want
      BY <2>1, <2>2, <2>3, Zenon DEF Reader, Ahead
    <3>2. k # j /\ k # len - 1
      BY <2>1, <2>2, <3>1 , Zenon
    <3> QED
      BY <2>2, <2>3, <2>4, <3>1, <3>2 DEF Ahead
  <2> QED
    BY Zenon, <2>5, <2>6, <2>7
<1>5. ASSUME Array!Clear PROVE ArrayInv'
  <2>1. /\ ArrayTypes' /\ Kept' = Kept /\ len > 0 /\ hazards'[len - 1] = None
        /\ \A j \in 0..(Kept - 1) : hazards'[j] = hazards[j]
    BY <1>5 DEF Array!Clear, Kept
  <2>2. Owner' /\ Reader'
    BY <1>5, <2>1 DEF Array!Clear, Kept, Owner, Reader, Ahead
  <2> QED
    BY Zenon, <2>1, <2>2
<1>6. ASSUME Array!Shrink PROVE ArrayInv'
  BY <1>6 DEF Array!Shrink, Kept, Owner, Reader, Ahead
<1>7. ASSUME NEW o \in Offset, Array!Contains(o) PROVE ArrayInv'
  <2>1. ArrayTypes' /\ Owner' /\ Kept' = Kept
    BY <1>7 DEF Array!Contains, Kept, Owner
  <2>2. ASSUME there' PROVE \E k \in 0..(Kept - 1) : hazards[k] = o
    <3>1. o \in Array!Used /\ ~(phase # "idle" /\ offset = o)
      BY <1>7, <2>2, Zenon DEF Array!Contains
    <3>2. PICK k \in 0..(len - 1) : hazards[k] = o
      BY <3>1, Zenon DEF Array!Used
    <3>3. CASE k = len - 1 /\ phase \in {"fill", "shrink"}
      BY <3>1, <3>2, <3>3 DEF Owner, Kept
    <3> QED
      BY <3>2, <3>3 DEF Kept
  <2>3. Reader'
    BY <1>7, <2>1, <2>2 DEF Array!Contains, Reader, Ahead, Kept
  <2> QED
    BY Zenon, <2>1, <2>3
<1>8. ASSUME Array!Look PROVE ArrayInv'
  BY <1>8 DEF Array!Look, Kept, Owner, Reader, Ahead
<1> QED
  BY <1>1, <1>2, <1>3, <1>4, <1>5, <1>6, <1>7, <1>8, Zenon DEF Array!Next

\* For every capacity: a hazard pointer is in the array at most once, and contains
\* answers no for an offset that is there all the while only if remove has moved
\* it meanwhile.
THEOREM HazardsAreFound ==
  ASSUME Array!HazardAssumption
  PROVE  Array!Spec => []MissedOnlyIfMoved
<1>1. Array!Init => ArrayInv
  BY Zenon, ArrayInit
<1>2. ArrayInv /\ [Array!Next]_(Array!vars) => ArrayInv'
  BY Zenon, ArrayNext
<1>3. ArrayInv => MissedOnlyIfMoved
  BY Zenon DEF ArrayInv, ArrayTypes, Owner, Reader, Kept, MissedOnlyIfMoved, Array!OffsetsUnique, Array!MissedOnlyIfMoved
<1> QED
  BY <1>1, <1>2, <1>3, PTL DEF Array!Spec

=============================================================================
