--------------------------- MODULE SizeRequests ----------------------------
(***************************************************************************)
(* The operators of SizeClasses at the constants of the code: one step     *)
(* requests a size, the next visits a block of the class it was given, in  *)
(* one of the first slabs, and its neighbour.                              *)
(***************************************************************************)
EXTENDS SizeClasses

CONSTANTS
  Sizes,    \* requests visited
  MaxSlab   \* slabs visited

VARIABLE at  \* the request, or the block: [size, slab, block]

NoRequest == [size |-> 0, slab |-> 0, block |-> 0]

Init == \E n \in Sizes : at = [NoRequest EXCEPT !.size = n]

B == Bracket(at.size)
C == ClassOf(at.size)

\* The first two, a middle one and the last of the class's blocks.
Blocks == LET n == ClassCount(B, C) IN {0, 1, n \div 2, n - 1} \intersect 0..(n - 1)

Visit(slab, block) == at' = [at EXCEPT !.slab = slab, !.block = block]

Next ==
  /\ B /= Huge /\ at.size > 0 /\ at.slab = 0
  /\ \E slab \in 1..MaxSlab, block \in Blocks : Visit(slab, block)

Spec == Init /\ [][Next]_at

-----------------------------------------------------------------------------
\* A request is given the least class of its bracket that holds it
\* (size/small.rs:28, size/large.rs:28), and Huge only when none does.
BestFit ==
  /\ B = Huge <=> at.size > LargeMax
  /\ B /= Huge /\ at.size > 0 =>
       /\ C \in Classes(B)
       /\ ClassSize(B, C) >= at.size
       /\ \A c \in Classes(B) : ClassSize(B, c) >= at.size => ClassSize(B, c) >= ClassSize(B, C)
       /\ B = Large => at.size > SmallMax

\* Every block of a slab lies inside the slab and has a bit of its own in the
\* slab's bitset, so that fill never writes past the words (bitset.rs:94).
CountFits ==
  B /= Huge /\ at.size > 0 =>
    /\ ClassCount(B, C) > 0
    /\ ClassCount(B, C) * ClassSize(B, C) <= SIZE_SLAB(B)
    /\ ClassCount(B, C) <= BitCount(B)

\* The slab and the block that a free computes from the offset (heap.rs:329)
\* are those of the allocation, for every byte of the block.
RoundTrip ==
  at.slab > 0 =>
    LET offset == FromBlock(B, C, at.slab, at.block) IN
    \A byte \in {0, 1, ClassSize(B, C) - 1} :
      /\ IntoIndex(B, offset + byte) = at.slab
      /\ IntoBlock(B, C, offset + byte) = at.block

\* "1KiB, 2KiB, ..., 1MiB" (size/large.rs:11): a request of up to 1 MiB has a
\* large class.  This fails above 512 KiB.
LargeToOneMiB ==
  at.size <= 1048576 => B /= Huge
=============================================================================
