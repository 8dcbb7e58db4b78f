------------------------------- MODULE Hosts -------------------------------
(***************************************************************************)
(* What lies between an allocator and its hosts: the bindings of threads   *)
(* to ids (Binding), the handler that maps memory on the first access      *)
(* (RegionMap), the device that swaps words for hosts without coherent     *)
(* caches (Mcas), and two algorithms on shared words: the compare-exchange *)
(* of which a thread can tell after a crash whether it happened            *)
(* (DetectableCas) and the array of hazard pointers (HazardArray).  They   *)
(* meet in no variable; each is a system of its own.                       *)
(***************************************************************************)
EXTENDS Binding

CONSTANTS
  Process, Thread, HomeOf,           \* those of the regions; thread -> process
  Brackets, MaxSlab, Cover, Lazy, Anonymous, Wild, MaxRestarts,
  Requester,                         \* the threads that use the device
  Window, Words, MaxValue, MaxOps, Ready,
  Updater,                           \* the threads that compare-exchange
  Cell, Value, Versions, MaxUpdates, MaxFailures, Stores,
  Capacity, Offset,
  None

VARIABLES
  first, mapped, written, erased, at, step, wild, killed, restarts,
  mem, slot, pending, state, call, value, seen, ops,
  cell, help, entry, turn, op, done, tags, updates, failures,
  hazards, len, phase, offset, index, scan, want, limit, probe, there, moved

Region == INSTANCE RegionMap WITH ProcessOf <- HomeOf, bump <- first, pc <- step

Device == INSTANCE Mcas WITH Threads <- Requester, pc <- state

Cas == INSTANCE DetectableCas WITH
         Thread <- Updater, MaxCrashes <- MaxFailures, log <- entry, pc <- turn,
         written <- tags, crashes <- failures

Array == INSTANCE HazardArray WITH pc <- phase, at <- index, i <- probe

-----------------------------------------------------------------------------
\* No access to the heap kills a process: the handler maps what is missing
\* (heap.rs:134); and what one thread wrote to private memory stays, whatever is
\* mapped afterwards (region.rs:242).
MappingKeeps == Region!NoneKilled /\ Region!NothingErased

\* A word changes only by a swap that succeeds and expected its value
\* (mcas.rs:44), and what a failed one returns is a value the word had during
\* the operation (mcas.rs:61).
SwapsAtomic == []Device!OldIsReal /\ [][Device!Atomic]_(Device!vars)

\* An update that happened is detected, whoever has replaced the word since
\* (cas.rs:110).
DetectComplete == Cas!DetectComplete

\* An update that did not happen is only taken for one that did if an earlier
\* one had the same version, or by a version that wrapped around (cas.rs:110).
MistakenOnlyIfReused == Cas!MistakenOnlyIfReused

\* detect is true only of updates that happened (recover.rs:95).
DetectSound == Cas!DetectSound

\* The array of hazards holds each offset once (huge.rs:395), and contains
\* misses one only if a removal moved it meanwhile (huge.rs:427).
MissedOnlyIfMoved == Array!OffsetsUnique /\ Array!MissedOnlyIfMoved
=============================================================================
