----------------------------- MODULE MCPreload -----------------------------
(***************************************************************************)
(* Instances for TLC, in one run, of what an application calls: the        *)
(* functions that the preload library replaces (Preload) and those of the  *)
(* allocator itself (FrontEnd).  A behaviour is one of the part that is    *)
(* chosen initially; the variables of the others stay as they are.         *)
(***************************************************************************)
EXTENDS Preload, TLC

CONSTANTS p1, p2

VARIABLES
  part,
  classes, blocks, roots, stored, answer

copy  == <<bytes, frames, depth, calls>>
front == <<classes, blocks, roots, stored, answer>>
all   == <<part, vars, copy, front>>

\* Two processes that map the heap at different addresses.  The reservation
\* holds four small slabs and two large ones: the slabs handed out are the
\* first and the last, next to the neighbouring region.
Front == INSTANCE FrontEnd WITH
             Process <- {p1, p2}, Base <- p1 :> 40 @@ p2 :> 220, Region <- 32, Page <- 4,
             SlabSmall <- 8, MinSmall <- 2, CountSmall <- 3, BitsSmall <- 3,
             SlabLarge <- 16, MinLarge <- 8, CountLarge <- 2, BitsLarge <- 2, SlabHuge <- 16,
             SmallSlabs <- {1, 4}, LargeSlabs <- {1}, HugeOffsets <- {0}, Sizes <- {1, 3, 8, 17},
             Alignments <- {4}, Roots <- {}, Foreign <- {30, 200}, MaxLive <- 2,
             live <- blocks, class <- classes

\* The same with a root.
Rooted == INSTANCE FrontEnd WITH
             Process <- {p1, p2}, Base <- p1 :> 40 @@ p2 :> 220, Region <- 32, Page <- 4,
             SlabSmall <- 8, MinSmall <- 2, CountSmall <- 3, BitsSmall <- 3,
             SlabLarge <- 16, MinLarge <- 8, CountLarge <- 2, BitsLarge <- 2, SlabHuge <- 16,
             SmallSlabs <- {1, 4}, LargeSlabs <- {1}, HugeOffsets <- {0}, Sizes <- {1, 3, 8, 17},
             Alignments <- {4}, Roots <- {1}, Foreign <- {30, 200}, MaxLive <- 1,
             live <- blocks, class <- classes

ASSUME RoutingAssumption /\ Memory!CopyAssumption
ASSUME Front!SizeClassesAssumption /\ Front!FrontEndAssumption

Symmetry == Permutations(Thread)

MCInit ==
  /\ part \in {"routing", "copy", "front", "rooted"}
  /\ Init /\ Memory!Init /\ (IF part = "rooted" THEN Rooted!Init ELSE Front!Init)

MCNext ==
  \/ part = "routing" /\ Next /\ UNCHANGED <<part, copy, front>>
  \/ part = "copy" /\ Memory!Next /\ UNCHANGED <<part, vars, front>>
  \/ part = "front" /\ Front!Next /\ UNCHANGED <<part, vars, copy>>
  \/ part = "rooted" /\ Rooted!Next /\ UNCHANGED <<part, vars, copy>>

MCSpec == MCInit /\ [][MCNext]_all

-----------------------------------------------------------------------------
\* Every process finds an allocation by its own pointer to it (allocator.rs:353),
\* allocations overlap in none (data.rs:102), and a root leads every process to
\* the allocation that was stored (allocator.rs:282).
PointersLead ==
  /\ part = "front" => Front!Resolves /\ Front!Disjoint
  /\ part = "rooted" => Rooted!RootsLead

\* realloc keeps what was written (allocator.rs:305), the usable size is at least
\* what was asked for and at most what is there (allocator.rs:289), and memalign
\* aligns in every process (cxlalloc_memalign, lib.rs:222 of cxlalloc-static).
BlocksServe == part = "front" => Front!ContentsKept /\ Front!Usable /\ Front!Aligned
=============================================================================
