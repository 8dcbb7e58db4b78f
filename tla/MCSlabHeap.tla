----------------------------- MODULE MCSlabHeap -----------------------------
(***************************************************************************)
(* Instances of SlabHeap and of Statistics for TLC, in one run.  A         *)
(* behaviour is one of the part that is chosen initially.  The part "heap" *)
(* has the variables of SlabHeap and the constants of the configuration;   *)
(* the others have variables of their own, which they share.               *)
(***************************************************************************)
EXTENDS SlabHeap, TLC

CONSTANTS c1, c2, t3

VARIABLES
  part,
  owner2, class2, free2, remote2, stack2, bump2, live2, pc2, cls2, cur2, blk2,
  count, printed

second == <<owner2, class2, free2, remote2, stack2, bump2, live2, pc2, cls2, cur2, blk2>>
sums   == <<count, printed>>
all    == <<part, vars, second, sums>>

\* A class of two blocks, and one of a single block as the largest Large class.
CountTwoOne == c1 :> 2 @@ c2 :> 1

\* Three threads, each of which can free a block of the same slab.
Remote == INSTANCE SlabHeap WITH
            Thread <- Thread \union {t3}, Class <- {c1}, Count <- c1 :> 3, MaxSlab <- 1,
            CountCacheSlab <- 0, BatchGlobalPush <- 1, BatchBumpPop <- 1, Validate <- FALSE,
            owner <- owner2, class <- class2, free <- free2, remote <- remote2, stack <- stack2,
            bump <- bump2, live <- live2, pc <- pc2, cls <- cls2, cur <- cur2, blk <- blk2

\* Batches of two slabs to the global stack, in a validating build.
Batch == INSTANCE SlabHeap WITH
            Class <- {c2}, Count <- c2 :> 1, MaxSlab <- 3,
            CountCacheSlab <- 1, BatchGlobalPush <- 2, BatchBumpPop <- 1, Validate <- TRUE,
            owner <- owner2, class <- class2, free <- free2, remote <- remote2, stack <- stack2,
            bump <- bump2, live <- live2, pc <- pc2, cls <- cls2, cur <- cur2, blk <- blk2

\* The records of blocks below the threshold and of slabs above it.
Blockwise == INSTANCE Statistics WITH
            Class <- {c1}, Count <- c1 :> 2, MaxSlab <- 2,
            CountCacheSlab <- 0, BatchGlobalPush <- 1, BatchBumpPop <- 1, Validate <- FALSE,
            SlabSize <- 4, Size <- c1 :> 2, Threshold <- 3, MaxPrinted <- 12,
            owner <- owner2, class <- class2, free <- free2, remote <- remote2, stack <- stack2,
            bump <- bump2, live <- live2, pc <- pc2, cls <- cls2, cur <- cur2, blk <- blk2

\* The same with blocks that are recorded at once, and batches of slabs.
Slabwise == INSTANCE Statistics WITH
            Class <- {c2}, Count <- c2 :> 1, MaxSlab <- 2,
            CountCacheSlab <- 1, BatchGlobalPush <- 2, BatchBumpPop <- 2, Validate <- FALSE,
            SlabSize <- 4, Size <- c2 :> 4, Threshold <- 3, MaxPrinted <- 12,
            owner <- owner2, class <- class2, free <- free2, remote <- remote2, stack <- stack2,
            bump <- bump2, live <- live2, pc <- pc2, cls <- cls2, cur <- cur2, blk <- blk2

ASSUME Remote!ConstantsAssumption /\ Batch!ConstantsAssumption

Symmetry == Permutations(Thread)

MCInit ==
  /\ part \in {"heap", "remote", "batch", "blockwise", "slabwise"}
  /\ Init
  /\ CASE part = "remote" -> Remote!Init /\ count = <<>> /\ printed = <<>>
       [] part = "batch" -> Batch!Init /\ count = <<>> /\ printed = <<>>
       [] part = "slabwise" -> Slabwise!StatInit
       [] OTHER -> Blockwise!StatInit

MCNext ==
  \/ part = "heap" /\ Next /\ UNCHANGED <<part, second, sums>>
  \/ part = "remote" /\ Remote!Next /\ UNCHANGED <<part, vars, sums>>
  \/ part = "batch" /\ Batch!Next /\ UNCHANGED <<part, vars, sums>>
  \/ part = "blockwise" /\ Blockwise!StatNext /\ UNCHANGED <<part, vars>>
  \/ part = "slabwise" /\ Slabwise!StatNext /\ UNCHANGED <<part, vars>>

MCSpec == MCInit /\ [][MCNext]_all

-----------------------------------------------------------------------------
\* With three threads, the races of local and remote frees with a detach, a
\* disown and a claim leave nobody with a stale decision, no counter below zero
\* and no bitset with two writers (heap.rs:335, heap.rs:403).  In a validating
\* build with batches no slab is duplicated or lost, and what the build asserts
\* holds (heap.rs:460, heap.rs:566).
OtherSizes ==
  /\ part = "remote" =>
       Remote!TypeOK /\ Remote!ClaimSafe /\ Remote!OwnerDecision /\ Remote!BitsetExclusive
  /\ part = "batch" =>
       Batch!OnePlace /\ Batch!Conservation /\ Batch!NoSlabLost /\ Batch!OwnedValid
         /\ Batch!OwnFindsNone

\* Between operations, the sums of what all threads recorded are what the heap
\* holds, block by block or slab by slab (stat.rs:431).
Accounted ==
  /\ part = "blockwise" => Blockwise!Accounted
  /\ part = "slabwise" => Slabwise!Accounted
=============================================================================
