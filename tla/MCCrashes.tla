------------------------------ MODULE MCCrashes ------------------------------
(***************************************************************************)
(* Instances of DaxArena, Recovery and RecoverWorkload for TLC, in one     *)
(* run: what happens when a process or a thread dies.  A behaviour is one  *)
(* of the part that is chosen initially; the variables of the others stay  *)
(* as they are.                                                            *)
(***************************************************************************)
EXTENDS DaxArena, TLC

VARIABLES
  part,
  tornAttached, tornMutex, tornExtents, tornPc, tornJob, tornCandidate, tornSlot, tornLeft,
  tornLive,
  mem, todo, down, logged, crashes,
  at, phase, i, remaining, saved, items, local, global, stop, arrived, detect, poisoned

torn     == <<tornAttached, tornMutex, tornExtents, tornPc, tornJob, tornCandidate, tornSlot,
              tornLeft, tornLive>>
recovery == <<mem, todo, down, logged, crashes>>
harness  == <<at, phase, i, remaining, saved, items, local, global, stop, arrived, detect,
              poisoned>>
all      == <<part, vars, torn, recovery, harness>>

\* The arena when a process may die with an extent half written.
Torn == INSTANCE DaxArena WITH
          MaxExtents <- 2, Base <- 4, Size <- 6, Alignment <- 2, Limit <- 16, Sizes <- {0, 3},
          Alignments <- {1}, DiesWriting <- TRUE,
          attached <- tornAttached, mutex <- tornMutex, extents <- tornExtents, pc <- tornPc,
          job <- tornJob, candidate <- tornCandidate, slot <- tornSlot, left <- tornLeft,
          live <- tornLive

\* Two crashes under the entries of the log that recovery handles.
Handled == INSTANCE Recovery WITH
             Slabs <- 4, Foreign <- 1, Pushed <- 1, Count <- 2, BatchBump <- 2, BatchGlobal <- 1,
             Cache <- 1, CrashIn <- {"BumpToUnsized", "Remote"}, MaxCrashes <- 2

\* Crashes while slabs go to the global stack.
Pushing == INSTANCE Recovery WITH
             Slabs <- 4, Foreign <- 1, Pushed <- 1, Count <- 2, BatchBump <- 2, BatchGlobal <- 1,
             Cache <- 1, CrashIn <- {"UnsizedToGlobalSave", "UnsizedToGlobal"}, MaxCrashes <- 2

\* Three workers on a queue, one of which crashes.
Queue == INSTANCE RecoverWorkload WITH
           Workload <- "queue", ThreadCount <- 3, Victim <- 2, ObjectCount <- 2, CrashCount <- 1,
           Block <- TRUE, pc <- at, crashes <- remaining

ASSUME Torn!ArenaAssumption
ASSUME Handled!RecoveryAssumption /\ Pushing!RecoveryAssumption
ASSUME Queue!HarnessAssumption

Symmetry == Permutations(Process)

MCInit ==
  /\ part \in {"arena", "torn", "handled", "queue"}
  /\ Init /\ Torn!Init /\ Handled!Init /\ Queue!Init

MCNext ==
  \/ part = "arena" /\ Next /\ UNCHANGED <<part, torn, recovery, harness>>
  \/ part = "torn" /\ Torn!Next /\ UNCHANGED <<part, vars, recovery, harness>>
  \/ part = "handled" /\ Handled!Next /\ UNCHANGED <<part, vars, torn, harness>>
  \/ part = "queue" /\ Queue!Next /\ UNCHANGED <<part, vars, torn, recovery>>

MCSpec == MCInit /\ [][MCNext]_all

ArenaSpec == part = "arena" /\ MCSpec

\* The instance that breaks what the code says of itself.
PushingSpec ==
  /\ part = "pushing" /\ Init /\ Torn!Init /\ Pushing!Init /\ Queue!Init
  /\ [][Pushing!Next /\ UNCHANGED <<part, vars, torn, harness>>]_all

-----------------------------------------------------------------------------
\* Only the owner of the robust mutex is in the critical section and no sum
\* leaves a usize (dax_arena.rs:269).  When a process may die with an extent half
\* written, the mutex still excludes, and what is handed out still lies in the
\* arena (dax_arena.rs:207).
ArenaSurvivesDeaths == TypeOK /\ OneInside /\ Torn!OneInside /\ Torn!InArena

\* What is on the global stack is on no stack of the thread, also after a
\* recovery (recover.rs:101).
GlobalExclusive ==
  /\ part = "handled" => Handled!GlobalExclusive
  /\ part = "pushing" => Pushing!GlobalExclusive

\* After a crash during a bump or a remote free, and after one in the recovery
\* from it, the stacks of the thread are valid, no slab is lost and none is on
\* two stacks (recover.rs:75).
Recovered ==
  part = "handled" => Handled!StacksValid /\ Handled!NothingLost /\ Handled!GlobalExclusive

\* While the victim collects garbage every other thread waits (worker.rs:45),
\* and every object is counted once, whatever the crashes (queue.rs:83).
WorkersAgree == Queue!GcAlone /\ Queue!Conserved
=============================================================================
