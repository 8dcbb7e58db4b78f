------------------------------ MODULE RegionMap ------------------------------
(***************************************************************************)
(* How the regions of a heap get mapped (raw.rs, raw/region.rs, heap.rs    *)
(* try_map): a process reserves addresses for the regions of each bracket, *)
(* maps their first chunks when it starts unless the heap is lazy, and the *)
(* others when an access to one raises SIGSEGV.  The handler maps, one     *)
(* after the other, the chunks of the three regions that hold the slab's   *)
(* local metadata, its remote counter and its data.                        *)
(*                                                                         *)
(* The chunks of a region are files that all processes share, or, with the *)
(* mmap backend, private anonymous memory of the one process there is: a   *)
(* fixed mapping then replaces what was mapped at its address by zeros.    *)
(***************************************************************************)
EXTENDS Integers

CONSTANTS
  Process, Thread,
  ProcessOf,   \* thread -> process
  Brackets,    \* subset of {"Small", "Large"}
  MaxSlab,     \* bound: slabs of a bracket that may be bumped
  Cover,       \* region -> how many slabs a chunk of it holds
  Lazy,        \* whether the heap was asked for with size 0
  Anonymous,   \* whether the backend is mmap
  Wild,        \* whether an application may access a slab not handed out yet
  MaxRestarts  \* bound

Regions == {"local", "remote", "data"}

RegionMapAssumption ==
  /\ ProcessOf \in [Thread -> Process]
  /\ Cover \in [Regions -> Nat \ {0}]
  /\ Brackets \subseteq {"Small", "Large"}
  /\ Lazy \in BOOLEAN /\ Anonymous \in BOOLEAN

VARIABLES
  bump,      \* bracket -> slabs handed out (Shared::len)
  mapped,    \* process -> <<bracket, region, chunk>> that are mapped
  written,   \* <<bracket, region, slab>> in private memory that have been written
  erased,    \* those that a later mapping replaced by zeros
  at,        \* thread -> the location it accesses, or NoWhere
  pc,        \* thread -> "run", or a step of the handler
  wild,      \* processes that accessed a slab before it was handed out
  killed,    \* processes whose SIGSEGV got the default action
  restarts

vars == <<bump, mapped, written, erased, at, pc, wild, killed, restarts>>

Slab == 0..(MaxSlab - 1)
Location == Brackets \X Regions \X Slab
NoWhere == <<"None", "None", 0>>

Chunk(region, slab) == slab \div Cover[region]
ChunkOf(l) == <<l[1], l[2], Chunk(l[2], l[3])>>

\* Raw::new: chunk 0 of every region, unless lazy.  The shared and owned
\* regions are always mapped and are not shown.
FirstChunks == IF Lazy THEN {} ELSE Brackets \X Regions \X {0}

Init ==
  /\ bump = [b \in Brackets |-> 0]
  /\ mapped = [p \in Process |-> FirstChunks]
  /\ written = {}
  /\ erased = {}
  /\ at = [t \in Thread |-> NoWhere]
  /\ pc = [t \in Thread |-> "run"]
  /\ wild = {} /\ killed = {}
  /\ restarts = 0

Alive(t) == ProcessOf[t] \notin killed
Goto(t, label) == pc' = [pc EXCEPT ![t] = label]

-----------------------------------------------------------------------------
\* A thread takes a slab by bumping.
Bump(t, b) ==
  /\ Alive(t) /\ pc[t] = "run" /\ at[t] = NoWhere
  /\ bump[b] < MaxSlab
  /\ bump' = [bump EXCEPT ![b] = @ + 1]
  /\ UNCHANGED <<mapped, written, erased, at, pc, wild, killed, restarts>>

\* A thread goes to write to a slab that has been bumped, by anyone.
Access(t, l) ==
  /\ Alive(t) /\ pc[t] = "run" /\ at[t] = NoWhere
  /\ l[3] < bump[l[1]] \/ Wild
  /\ at' = [at EXCEPT ![t] = l]
  /\ wild' = IF l[3] < bump[l[1]] THEN wild ELSE wild \union {ProcessOf[t]}
  /\ UNCHANGED <<bump, mapped, written, erased, pc, killed, restarts>>

\* The access succeeds, or raises SIGSEGV.
Touch(t) ==
  LET l == at[t] IN
  /\ Alive(t) /\ pc[t] = "run" /\ l /= NoWhere
  /\ IF ChunkOf(l) \in mapped[ProcessOf[t]]
       THEN /\ written' = IF Anonymous THEN written \union {l} ELSE written
            /\ at' = [at EXCEPT ![t] = NoWhere]
            /\ UNCHANGED pc
       ELSE Goto(t, "Small") /\ UNCHANGED <<written, at>>
  /\ UNCHANGED <<bump, mapped, erased, wild, killed, restarts>>

\* A faulty bounds check, off by one.
InBoundsShort(b, l) == l[1] = b /\ l[3] + 1 < bump[b]

\* try_map's three ranges: a location of this bracket, of a slab below the
\* length that the heap has now.
InBounds(b, l) == l[1] = b /\ l[3] < bump[b]

\* Raw::map tries the small heap, the large heap and the huge one, which has
\* no extent at an address of the others' regions.
TryMap(t, b, otherwise) ==
  /\ Alive(t) /\ pc[t] = b
  /\ Goto(t, IF b \in Brackets /\ InBounds(b, at[t]) THEN "local" ELSE otherwise)
  /\ UNCHANGED <<bump, mapped, written, erased, at, wild, killed, restarts>>

\* The handler does not know the address and resets the action: the access,
\* repeated, ends the process.
Kill(t) ==
  /\ Alive(t) /\ pc[t] = "unknown"
  /\ killed' = killed \union {ProcessOf[t]}
  /\ UNCHANGED <<bump, mapped, written, erased, at, pc, wild, restarts>>

\* A faulty Sequential::map, which always maps the first chunk.
MapFirst(t, region, next) ==
  LET c == <<at[t][1], region, 0>> IN
  /\ Alive(t) /\ pc[t] = region
  /\ mapped' = [mapped EXCEPT ![ProcessOf[t]] = @ \union {c}]
  /\ erased' = erased \union {l \in written : ChunkOf(l) = c}
  /\ Goto(t, next)
  /\ UNCHANGED <<bump, written, at, wild, killed, restarts>>

\* Sequential::map of the region's chunk that holds the slab, over whatever
\* is mapped there.
Map(t, region, next) ==
  LET c == <<at[t][1], region, Chunk(region, at[t][3])>> IN
  /\ Alive(t) /\ pc[t] = region
  /\ mapped' = [mapped EXCEPT ![ProcessOf[t]] = @ \union {c}]
  /\ erased' = erased \union {l \in written : ChunkOf(l) = c}
  /\ Goto(t, next)
  /\ UNCHANGED <<bump, written, at, wild, killed, restarts>>

\* A process ends and starts again: its mappings go, the files stay.
Restart(p) ==
  /\ ~Anonymous /\ restarts < MaxRestarts
  /\ restarts' = restarts + 1
  /\ mapped' = [mapped EXCEPT ![p] = FirstChunks]
  /\ at' = [t \in Thread |-> IF ProcessOf[t] = p THEN NoWhere ELSE at[t]]
  /\ pc' = [t \in Thread |-> IF ProcessOf[t] = p THEN "run" ELSE pc[t]]
  /\ wild' = wild \ {p} /\ killed' = killed \ {p}
  /\ UNCHANGED <<bump, written, erased>>

Step(t) ==
  \/ Touch(t)
  \/ TryMap(t, "Small", "Large")
  \/ TryMap(t, "Large", "unknown")
  \/ Kill(t)
  \/ Map(t, "local", "remote")
  \/ Map(t, "remote", "data")
  \/ Map(t, "data", "run")

Next ==
  \/ \E t \in Thread : Step(t)
  \/ \E t \in Thread, b \in Brackets : Bump(t, b)
  \/ \E t \in Thread, l \in Location : Access(t, l)
  \/ \E p \in Process : Restart(p)

Spec == Init /\ [][Next]_vars
LiveSpec == Spec /\ \A t \in Thread : WF_vars(Step(t))

-----------------------------------------------------------------------------
\* What was written to a slab or its metadata stays, whatever other threads
\* and processes map afterwards (region.rs:242).
NothingErased ==
  erased = {}

\* An access to a slab that has been handed out never ends the process: the
\* handler finds it in bounds, in whatever process it runs (heap.rs:134).
NoneKilled ==
  killed \subseteq wild

\* Every access completes: the chunk that the handler maps is the one that
\* was missing, so the access does not fault for ever.
AccessEnds ==
  \A t \in Thread : at[t] /= NoWhere ~> at[t] = NoWhere
=============================================================================
