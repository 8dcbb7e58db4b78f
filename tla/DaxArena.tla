------------------------------ MODULE DaxArena ------------------------------
(***************************************************************************)
(* The arena of the preload library: a DAX device, opened under an         *)
(* exclusive file lock, whose memory is handed out as extents.  A process  *)
(* that forks shares the arena with its child: the table of extents lies   *)
(* in shared memory and is guarded by a robust mutex.  A process may die   *)
(* at any point, also inside the critical section; the next one to lock    *)
(* the mutex is told so (EOWNERDEAD) and declares the table consistent     *)
(* without looking at it.                                                  *)
(*                                                                         *)
(* The search for a free range is a loop that runs one iteration a step.   *)
(* An extent is written field by field, in any order, as the stores of a   *)
(* struct assignment may be.                                               *)
(***************************************************************************)
EXTENDS Integers, FiniteSets

CONSTANTS
  Process,
  MaxExtents,   \* MAX_EXTENTS
  Base,         \* the address of the arena
  Size,         \* its size
  Alignment,    \* the alignment of the device: extents are multiples of it
  Limit,        \* the number of values of a usize
  Sizes,        \* the sizes that are requested
  Alignments,   \* the alignments that are requested
  DiesWriting,  \* whether a process may die with an extent half written
  None

ASSUME ArenaAssumption ==
  /\ None \notin Process
  /\ MaxExtents \in Nat \ {0}
  /\ Alignment \in Nat \ {0}
  /\ Size \in Nat /\ Base \in Nat /\ Limit \in Nat
  /\ Base % Alignment = 0
  /\ Base + Size < Limit
  /\ Sizes \subseteq 0..(Limit - 1)
  /\ Alignments \subseteq 1..(Limit - 1)
  /\ DiesWriting \in BOOLEAN

VARIABLES
  attached,   \* the processes that have the arena
  mutex,      \* its owner; whether the last owner died with it
  extents,    \* slot -> Extent
  pc,
  job,        \* process -> the request it serves
  candidate,  \* process -> `candidate` of the search
  slot,       \* process -> the slot it is going to write
  left,       \* process -> the fields of the slot still to be written
  live        \* the allocations that the application holds

vars == <<attached, mutex, extents, pc, job, candidate, slot, left, live>>

Slot   == 1..MaxExtents
Fields == {"offset", "rounded_len", "requested_len", "active"}
Extent == [offset : Nat, rounded_len : Nat, requested_len : Nat, active : BOOLEAN]
Empty  == [offset |-> 0, rounded_len |-> 0, requested_len |-> 0, active |-> FALSE]
NoJob  == [align |-> 1, new |-> Empty]

TypeOK ==
  /\ attached \subseteq Process
  /\ mutex \in [owner : Process \union {None}, dead : BOOLEAN]
  /\ extents \in [Slot -> Extent]
  /\ \A s \in Slot : extents[s].offset + extents[s].rounded_len <= Size
  /\ pc \in [Process -> {"idle", "slot", "scan", "find", "write"}]
  /\ job \in [Process -> [align : Nat \ {0}, new : Extent]]
  /\ candidate \in [Process -> Nat]
  /\ slot \in [Process -> Slot]
  /\ left \in [Process -> SUBSET Fields]
  /\ live \subseteq [offset : Nat, rounded_len : Nat, requested_len : Nat]

Init ==
  /\ attached = {}
  /\ mutex = [owner |-> None, dead |-> FALSE]
  /\ extents = [s \in Slot |-> Empty]
  /\ pc = [p \in Process |-> "idle"]
  /\ job = [p \in Process |-> NoJob]
  /\ candidate = [p \in Process |-> 0]
  /\ slot = [p \in Process |-> 1]
  /\ left = [p \in Process |-> {}]
  /\ live = {}

-----------------------------------------------------------------------------
Goto(p, l) == pc' = [pc EXCEPT ![p] = l]

\* Back to the caller: the variables of the operation are gone.
Return(p) ==
  /\ Goto(p, "idle")
  /\ job' = [job EXCEPT ![p] = NoJob]
  /\ candidate' = [candidate EXCEPT ![p] = 0]
  /\ slot' = [slot EXCEPT ![p] = 1]
  /\ left' = [left EXCEPT ![p] = {}]

AlignUp(value, a) == value + a - 1 - ((value + a - 1) % a)

Fits(n) == n < Limit

Active == {s \in Slot : extents[s].active}

\* The allocation that an extent stands for.
Range(e) == [offset |-> e.offset, rounded_len |-> e.rounded_len,
             requested_len |-> e.requested_len]

Overlap(x, y) ==
  /\ x.offset < y.offset + y.rounded_len
  /\ y.offset < x.offset + x.rounded_len

-----------------------------------------------------------------------------
\* Open the device: nobody else holds the file lock.  The table of extents is
\* created afresh, in zeroed memory.
Open(p) ==
  /\ attached = {}
  /\ attached' = {p}
  /\ mutex' = [owner |-> None, dead |-> FALSE]
  /\ extents' = [s \in Slot |-> Empty]
  /\ UNCHANGED <<pc, job, candidate, slot, left, live>>

\* fork: the child inherits the mappings and the file lock.
Fork(p, c) ==
  /\ p \in attached /\ pc[p] = "idle"
  /\ c \notin attached
  /\ attached' = attached \union {c}
  /\ UNCHANGED <<mutex, extents, pc, job, candidate, slot, left, live>>

\* A process ends, or is killed.  Its extents stay, and so does the mutex if
\* it holds it; with the last process, the arena is gone.
Die(p) ==
  /\ p \in attached
  /\ DiesWriting \/ pc[p] # "write" \/ left[p] \in {{}, Fields}
  /\ attached' = attached \ {p}
  /\ mutex' = IF mutex.owner = p THEN [owner |-> None, dead |-> TRUE] ELSE mutex
  /\ live' = IF attached' = {} THEN {} ELSE live
  /\ Return(p)
  /\ UNCHANGED extents

-----------------------------------------------------------------------------
\* A faulty Lock, which takes the mutex from a process that holds it.
LockStolen(p) == mutex' = [owner |-> p, dead |-> FALSE]

\* DaxArena::lock: a dead owner makes no difference.
Lock(p) ==
  /\ mutex.owner = None
  /\ mutex' = [owner |-> p, dead |-> FALSE]

\* The end of a critical section.
Unlock(p) ==
  /\ mutex' = [mutex EXCEPT !.owner = None]
  /\ Return(p)

LockAllocate(p, size, align) ==
  LET requested == IF size = 0 THEN 1 ELSE size IN
  /\ p \in attached /\ pc[p] = "idle"
  /\ Fits(requested + Alignment - 1)
  /\ Lock(p)
  /\ job' = [job EXCEPT ![p] =
       [align |-> IF align < Alignment THEN Alignment ELSE align,
        new   |-> [offset |-> 0, rounded_len |-> AlignUp(requested, Alignment),
                   requested_len |-> requested, active |-> TRUE]]]
  /\ Goto(p, "slot")
  /\ UNCHANGED <<attached, extents, candidate, slot, left, live>>

\* A faulty FindSlot, which takes the last slot though it may be in use.
FindSlotLast(p) ==
  /\ pc[p] = "slot"
  /\ slot' = [slot EXCEPT ![p] = MaxExtents]
  /\ candidate' = [candidate EXCEPT ![p] = 0]
  /\ Goto(p, "scan")
  /\ UNCHANGED <<attached, mutex, extents, job, left, live>>

\* The first slot that is not active; with none, the arena is out of memory.
FindSlot(p) ==
  /\ pc[p] = "slot"
  /\ \/ /\ \E s \in Slot \ Active :
             /\ \A r \in Slot \ Active : s <= r
             /\ slot' = [slot EXCEPT ![p] = s]
        /\ candidate' = [candidate EXCEPT ![p] = 0]
        /\ Goto(p, "scan")
        /\ UNCHANGED <<mutex, job, left>>
     \/ /\ Active = Slot
        /\ Unlock(p)
  /\ UNCHANGED <<attached, extents, live>>

\* The first extent of the table among those that start first at or after c.
IsNext(s, c) ==
  /\ s \in Active /\ extents[s].offset >= c
  /\ \A r \in Active : extents[r].offset >= c =>
       \/ extents[s].offset < extents[r].offset
       \/ extents[s].offset = extents[r].offset /\ s <= r

\* A faulty ScanOn, which goes on behind the start of the extent.
ScanOnShort(p, c, s) ==
  /\ (c + job[p].new.rounded_len) % Limit > extents[s].offset
  /\ candidate' = [candidate EXCEPT ![p] = extents[s].offset + Alignment]
  /\ UNCHANGED <<mutex, pc, job, slot, left>>

\* A faulty ScanOn, which looks at the same extent for ever.
ScanOnStuck(p, c, s) ==
  /\ (c + job[p].new.rounded_len) % Limit > extents[s].offset
  /\ candidate' = [candidate EXCEPT ![p] = extents[s].offset]
  /\ UNCHANGED <<mutex, pc, job, slot, left>>

\* The range at c runs into the next extent: go on behind that extent.
ScanOn(p, c, s) ==
  /\ (c + job[p].new.rounded_len) % Limit > extents[s].offset
  /\ candidate' = [candidate EXCEPT ![p] = extents[s].offset + extents[s].rounded_len]
  /\ UNCHANGED <<mutex, pc, job, slot, left>>

\* A range was found, or the end of the extents: take it if it is in the arena.
ScanEnd(p, c) ==
  IF Fits(c + job[p].new.rounded_len) /\ c + job[p].new.rounded_len <= Size
    THEN /\ job' = [job EXCEPT ![p].new.offset = c]
         /\ left' = [left EXCEPT ![p] = Fields]
         /\ Goto(p, "write")
         /\ UNCHANGED <<mutex, candidate, slot>>
    ELSE Unlock(p)

\* One iteration of the loop of allocate.  The addition in its test is not
\* checked, and wraps; the one behind the loop is.
Scan(p) ==
  LET c == AlignUp(Base + candidate[p], job[p].align) - Base IN
  /\ pc[p] = "scan"
  /\ \/ /\ ~Fits(Base + candidate[p] + job[p].align - 1)
        /\ Unlock(p)
     \/ /\ Fits(Base + candidate[p] + job[p].align - 1)
        /\ \/ \E s \in Slot : IsNext(s, c) /\ ScanOn(p, c, s)
           \/ /\ \A s \in Slot : IsNext(s, c) =>
                   (c + job[p].new.rounded_len) % Limit <= extents[s].offset
              /\ ScanEnd(p, c)
  /\ UNCHANGED <<attached, extents, live>>

\* The application gives the allocation up.
LockDeallocate(p, x) ==
  /\ p \in attached /\ pc[p] = "idle"
  /\ x \in live
  /\ Lock(p)
  /\ live' = live \ {x}
  /\ job' = [job EXCEPT ![p] = [align |-> 1, new |-> [Empty EXCEPT !.offset = x.offset]]]
  /\ Goto(p, "find")
  /\ UNCHANGED <<attached, extents, candidate, slot, left>>

\* The first active extent at the offset, which Extent::EMPTY overwrites; with
\* none, the pointer is invalid.
Find(p) ==
  LET here == {s \in Active : extents[s].offset = job[p].new.offset} IN
  /\ pc[p] = "find"
  /\ \/ /\ \E s \in here :
             /\ \A r \in here : s <= r
             /\ slot' = [slot EXCEPT ![p] = s]
        /\ job' = [job EXCEPT ![p].new = Empty]
        /\ left' = [left EXCEPT ![p] = Fields]
        /\ Goto(p, "write")
        /\ UNCHANGED <<mutex, candidate>>
     \/ /\ here = {}
        /\ Unlock(p)
  /\ UNCHANGED <<attached, extents, live>>

WriteField(p, f) ==
  /\ pc[p] = "write" /\ f \in left[p]
  /\ extents' = [extents EXCEPT ![slot[p]][f] = job[p].new[f]]
  /\ left' = [left EXCEPT ![p] = @ \ {f}]
  /\ UNCHANGED <<attached, mutex, pc, job, candidate, slot, live>>

\* The guard is dropped, and allocate returns the extent.
Finish(p) ==
  /\ pc[p] = "write" /\ left[p] = {}
  /\ live' = IF job[p].new.active THEN live \union {Range(job[p].new)} ELSE live
  /\ Unlock(p)
  /\ UNCHANGED <<attached, extents>>

-----------------------------------------------------------------------------
Continue(p) ==
  \/ FindSlot(p) \/ Scan(p) \/ Find(p) \/ Finish(p)
  \/ \E f \in Fields : WriteField(p, f)

Next ==
  \E p \in Process :
    \/ Open(p) \/ Die(p) \/ Continue(p)
    \/ \E c \in Process : Fork(p, c)
    \/ \E n \in Sizes, a \in Alignments : LockAllocate(p, n, a)
    \/ \E x \in live : LockDeallocate(p, x)

Spec == Init /\ [][Next]_vars

\* A process that runs goes on; nothing says who gets the mutex next.
LiveSpec == Spec /\ \A p \in Process : WF_vars(Continue(p))

-----------------------------------------------------------------------------
\* allocations_are_aligned_nonoverlapping_and_reused_after_free: two
\* allocations in use never share a byte, whoever allocated, freed or died
\* outside the stores of an extent.  This fails with DiesWriting and three
\* extents: an extent that a death leaves half erased, at offset 0 with its old
\* length, sends the search into the middle of an extent that starts before it.
NonOverlapping ==
  \A x, y \in live : x # y => ~Overlap(x, y)

\* What allocation_size and deallocate find for a pointer in use, under the
\* mutex, is the extent of that allocation, and lies in the arena.
ExtentIsFound ==
  mutex.owner = None => \A x \in live :
    /\ x.offset % Alignment = 0 /\ x.offset + x.rounded_len <= Size
    /\ x.requested_len <= x.rounded_len
    /\ \E s \in Active : Range(extents[s]) = x
    /\ \A s \in Active : extents[s].offset = x.offset => Range(extents[s]) = x

\* The mutex excludes: at most one process is inside the critical section,
\* and the processes that share the table attached through one opener.
OneInside ==
  \A p \in Process : pc[p] # "idle" => mutex.owner = p /\ p \in attached

\* Whatever a process that died left in the table, an allocation lies in the
\* arena and is as long as was asked for: the end of the range is tested after
\* the search, not taken from the table.
InArena ==
  \A x \in live : /\ x.offset + x.rounded_len <= Size
                  /\ 0 < x.requested_len /\ x.requested_len <= x.rounded_len

\* A critical section ends: the search passes every extent once, so whoever
\* waits for the mutex is not kept waiting by one that searches.
SearchEnds ==
  \A p \in Process : pc[p] # "idle" ~> pc[p] = "idle"

Blocks == INSTANCE BlockAllocator WITH
  Block <- [offset : 0..Size, rounded_len : 0..Size, requested_len : 0..Size],
  used <- live

\* The arena hands out and takes back one extent at a time, and the extents in
\* use never overlap.
Implements == Blocks!Init /\ [][UNCHANGED live \/ Blocks!Next \/ attached' = {}]_live
=============================================================================
