------------------------------- MODULE MCLive -------------------------------
(***************************************************************************)
(* Instances for TLC, in one run, of what must happen eventually: the      *)
(* global stack, the arena of the preload library, the mapping of regions, *)
(* the mCAS device and the recovery workloads.  A behaviour is one of the  *)
(* part that is chosen initially; the fairness of each module is assumed   *)
(* for its part, and the variables of the others stay as they are.         *)
(***************************************************************************)
EXTENDS Integers, TLC

CONSTANTS t1, t2, p1, p2, s1, s2, w, None

VARIABLES
  part,
  head, next, owner, unsized, used, help, version, pc, old, batch,
  attached, mutex, extents, doing, job, candidate, slot, left, live,
  bump, mapped, written, erased, at, step, wild, killed, restarts,
  mem, request, pending, state, call, value, seen, ops,
  task, phase, i, crashes, saved, items, local, global, stop, arrived, detect, poisoned

stack    == <<head, next, owner, unsized, used, help, version, pc, old, batch>>
arena    == <<attached, mutex, extents, doing, job, candidate, slot, left, live>>
region   == <<bump, mapped, written, erased, at, step, wild, killed, restarts>>
device   == <<mem, request, pending, state, call, value, seen, ops>>
workload == <<task, phase, i, crashes, saved, items, local, global, stop, arrived, detect,
              poisoned>>
all      == <<part, stack, arena, region, device, workload>>

Stack == INSTANCE GlobalStack WITH
           Thread <- {t1, t2}, Allocator <- {t1, t2}, Slab <- {s1, s2},
           CountCacheSlab <- 0, BatchGlobalPush <- 1, RecoverCas <- TRUE, MaxVersion <- 2

Arena == INSTANCE DaxArena WITH
           Process <- {p1, p2}, MaxExtents <- 2, Base <- 4, Size <- 6, Alignment <- 2,
           Limit <- 16, Sizes <- {0, 3}, Alignments <- {1, 2}, DiesWriting <- FALSE,
           pc <- doing

Region == INSTANCE RegionMap WITH
            Process <- {p1, p2}, Thread <- {t1, t2}, ProcessOf <- t1 :> p1 @@ t2 :> p2,
            Brackets <- {"Small"}, MaxSlab <- 2,
            Cover <- "local" :> 2 @@ "remote" :> 3 @@ "data" :> 1,
            Lazy <- FALSE, Anonymous <- FALSE, MaxRestarts <- 1, Wild <- FALSE,
            pc <- step

Device == INSTANCE Mcas WITH
            Threads <- {0, 1}, Window <- 2, Words <- {w}, MaxValue <- 1, MaxOps <- 2,
            Ready <- FALSE, slot <- request, pc <- state

Queue == INSTANCE RecoverWorkload WITH
           Workload <- "queue", ThreadCount <- 2, Victim <- 2, ObjectCount <- 3,
           CrashCount <- 2, Block <- TRUE, pc <- task

Clevel == INSTANCE RecoverWorkload WITH
            Workload <- "clevel", ThreadCount <- 3, Victim <- 2, ObjectCount <- 3,
            CrashCount <- 2, Block <- TRUE, pc <- task

ASSUME Stack!ConstantsAssumption /\ Region!RegionMapAssumption
ASSUME Queue!HarnessAssumption /\ Clevel!HarnessAssumption

-----------------------------------------------------------------------------
OfStack(A)  == part = "stack" /\ A /\ UNCHANGED <<part, arena, region, device, workload>>
OfArena(A)  == part = "arena" /\ A /\ UNCHANGED <<part, stack, region, device, workload>>
OfRegion(A) == part = "region" /\ A /\ UNCHANGED <<part, stack, arena, device, workload>>
OfDevice(A) == part = "device" /\ A /\ UNCHANGED <<part, stack, arena, region, workload>>
OfQueue(A)  == part = "queue" /\ A /\ UNCHANGED <<part, stack, arena, region, device>>
OfClevel(A) == part = "clevel" /\ A /\ UNCHANGED <<part, stack, arena, region, device>>

Init ==
  /\ part \in {"stack", "arena", "region", "device", "queue", "clevel"}
  /\ Stack!Init
  /\ Arena!Init
  /\ Region!Init
  /\ Device!Init
  /\ IF part = "clevel" THEN Clevel!Init ELSE Queue!Init

Next ==
  \/ OfStack(Stack!Next)
  \/ OfArena(Arena!Next)
  \/ OfRegion(Region!Next)
  \/ OfDevice(Device!Next)
  \/ OfQueue(Queue!Next)
  \/ OfClevel(Clevel!Next)

\* The fairness of the LiveSpec of each module.
Fairness ==
  /\ \A t \in {t1, t2} : WF_all(OfStack(Stack!Continue(t)))
  /\ \A p \in {p1, p2} : WF_all(OfArena(Arena!Continue(p)))
  /\ \A t \in {t1, t2} : WF_all(OfRegion(Region!Step(t)))
  /\ WF_all(OfDevice(Device!WriteBack)) /\ \A t \in {0, 1} : WF_all(OfDevice(Device!Step(t)))
  /\ \A t \in 1..2 : WF_all(OfQueue(Queue!Act(t)))
  /\ WF_all(OfQueue(Queue!Stop)) /\ WF_all(OfQueue(Queue!Gc))
  /\ WF_all(OfQueue(Queue!Panic)) /\ WF_all(OfQueue(Queue!GoOn))
  /\ \A t \in 1..3 : WF_all(OfClevel(Clevel!Act(t)))
  /\ WF_all(OfClevel(Clevel!Stop)) /\ WF_all(OfClevel(Clevel!Gc))
  /\ WF_all(OfClevel(Clevel!Panic)) /\ WF_all(OfClevel(Clevel!GoOn))

Spec == Init /\ [][Next]_all /\ Fairness

-----------------------------------------------------------------------------
\* Lock-freedom of the global stack: while some thread is in the middle of an
\* operation, threads keep completing operations (slab/stack.rs:138).
LockFree == Stack!LockFree

\* A search of the arena passes every extent once, so nobody waits for ever for
\* the mutex of one that searches (dax_arena.rs:186).
SearchEnds == Arena!SearchEnds

\* Every access to the heap completes: the handler maps the chunk that was
\* missing (region.rs:242).
AccessEnds == Region!AccessEnds

\* Every operation on the device ends: one that fails was cancelled by one that
\* succeeds (mcas.rs:61).
StoreEnds == Device!StoreEnds

\* All threads of the workloads finish: none is left behind at the barrier, and
\* the victim of every crash finds all others there (worker.rs:150).
WorkersDone ==
  /\ <>(part = "queue" => Queue!Ended)
  /\ <>(part = "clevel" => Clevel!Ended)
=============================================================================
