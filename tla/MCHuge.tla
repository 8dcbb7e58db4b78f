------------------------------- MODULE MCHuge -------------------------------
(***************************************************************************)
(* Instances of HugeHeap for TLC, in one run.  A behaviour is one of the   *)
(* part that is chosen initially; the variables of the other stay as they  *)
(* are.                                                                    *)
(***************************************************************************)
EXTENDS HugeHeap, TLC

CONSTANTS p1, p2, t1, t2

VARIABLES
  part,
  slots2, hint2, head2, next2, desc2, popped2, hazards2, free2, files2, mapping2, pc2, job2,
  held2, crashes2

crashing == <<slots2, hint2, head2, next2, desc2, popped2, hazards2, free2, files2, mapping2,
              pc2, job2, held2, crashes2>>

\* Two processes, each with a thread that allocates; descriptors that are
\* reused, two in the slabs of one thread and one in those of the other; sizes
\* that take one slot and two.
TwoProcesses == (t1 :> p1) @@ (t2 :> p2)
TwoAndOne    == (t1 :> {1, 2}) @@ (t2 :> {3})

\* A process that crashes, in the middle of claims of one slot and of two; what
\* a thread unmaps is unmapped at once.
Crashing == INSTANCE HugeHeap WITH
              SlotCount <- 3, SlotSize <- 1, Sizes <- {1, 2}, DescCount <- 2,
              BlocksOf <- (t1 :> {1}) @@ (t2 :> {2}), MaxCrashes <- 1, Prompt <- TRUE,
              slots <- slots2, hint <- hint2, head <- head2, next <- next2, desc <- desc2,
              popped <- popped2, hazards <- hazards2, free <- free2, files <- files2,
              mapping <- mapping2, pc <- pc2, job <- job2, held <- held2, crashes <- crashes2

ASSUME HugeAssumption /\ Crashing!HugeAssumption

MCInit == part \in {"heap", "crashing"} /\ Init /\ Crashing!Init

MCNext ==
  \/ part = "heap" /\ Next /\ UNCHANGED <<part, crashing>>
  \/ part = "crashing" /\ Crashing!Next /\ UNCHANGED <<part, vars>>

MCSpec == MCInit /\ [][MCNext]_<<part, vars, crashing>>

HeapSpec == part = "heap" /\ MCSpec

-----------------------------------------------------------------------------
\* A crash at any point leaves claims that do not overlap (huge.rs:344) and
\* processes that see the same memory, if what is unmapped is unmapped at once
\* (huge.rs:73).
CrashesAreSafe == Crashing!TypeOK /\ Crashing!ClaimsDisjoint /\ Crashing!Coherent
=============================================================================
