-------------------------- MODULE BlockAllocator --------------------------
(***************************************************************************)
(* What the slab heap promises the application, as one set of blocks: the  *)
(* heap hands out a block that overlaps nothing in use, a block stays in   *)
(* use, at the same place and of the same size class, until it is freed,   *)
(* and only a block in use is taken back.                                  *)
(***************************************************************************)
CONSTANTS
  Block,          \* what can be handed out: a slab, a class and a position
  Overlap(_, _)   \* whether two blocks share memory

VARIABLE used     \* the blocks in use

TypeOK == used \in SUBSET Block

Init == used = {}

Allocate(b) ==
  /\ \A x \in used : ~Overlap(x, b)
  /\ used' = used \union {b}

Free(b) ==
  /\ b \in used
  /\ used' = used \ {b}

Next == \E b \in Block : Allocate(b) \/ Free(b)

Spec == Init /\ [][Next]_used
=============================================================================
