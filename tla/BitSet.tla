------------------------------- MODULE BitSet -------------------------------
(***************************************************************************)
(* The free bitset of a slab (bitset.rs): one word per row (`dense`), a    *)
(* summary word with one bit per row (`sparse`) and the number of bits     *)
(* (`count`).  A word is the set of its bits; the operators on words below *)
(* are those of the machine, at Width bits.                                *)
(*                                                                         *)
(* The heap drives it the way heap.rs does: fill when a slab is given a    *)
(* class, peek then unset when a block is allocated, set when a block that *)
(* was allocated is freed.                                                 *)
(***************************************************************************)
EXTENDS Integers, FiniteSets, FiniteSetsExt

CONSTANTS
  Width,   \* bits of a word (64 in the code)
  Size,    \* words of the bitset, at most Width
  Counts   \* block counts of the classes a slab may be filled for

BitSetAssumption ==
  /\ Width \in Nat \ {0}
  /\ Size \in 1..Width
  /\ Counts \subseteq 0..(Width * Size)

VARIABLES
  count, sparse, dense,
  blocks,  \* the blocks of the slab's class: the universe of this fill
  taken    \* the blocks handed out and not freed

vars == <<count, sparse, dense, blocks, taken>>

Bits == 0..(Width - 1)
Rows == 0..(Size - 1)

-----------------------------------------------------------------------------
(* Words. *)

\* (1 << n) - 1
Low(n) == {b \in Bits : b < n}

\* word << n, losing the bits shifted out
Shl(word, n) == {b + n : b \in word} \cap Bits

\* !(flag as u64): every bit, or every bit but bit 0
NotFlag(flag) == IF flag THEN Bits \ {0} ELSE Bits

\* trailing_zeros of a word that is not zero
TrailingZeros(word) == Min(word)

Bit(b) == [row |-> b \div Width, col |-> b % Width]
FromBit(bit) == bit.row * Width + bit.col

-----------------------------------------------------------------------------
(* fill: checked_shl yields None when the shift is the word's width. *)

FillSparse(rows, cols) ==
  (IF rows < Width THEN Low(rows) ELSE Bits) \union (IF cols > 0 THEN {rows} ELSE {})

\* Only a slab none of whose blocks is allocated is given a class.
Fill(n) ==
  LET rows == n \div Width  cols == n % Width IN
  /\ n \in Counts
  /\ taken = {}
  /\ dense' = [r \in Rows |-> IF r < rows THEN Bits
                              ELSE IF r = rows /\ cols > 0 THEN Low(cols) ELSE {}]
  /\ sparse' = FillSparse(rows, cols)
  /\ count' = n
  /\ blocks' = 0..(n - 1)
  /\ UNCHANGED taken

Peek == LET row == TrailingZeros(sparse) IN [row |-> row, col |-> TrailingZeros(dense[row])]

\* A faulty unset, which leaves the summary bit of a row that became empty.
UnsetSparseKept(bit, cols) == sparse

\* `sparse &= !((*cols == 0) as u64) << row`: the negation binds first, so
\* the mask also drops the summary bits of every row below this one.
UnsetSparse(bit, cols) == sparse \intersect Shl(NotFlag(cols = {}), bit.row)

\* Allocation: peek a non-empty bitset and unset the bit it returns.
Unset ==
  /\ count > 0
  /\ LET bit == Peek  cols == dense[bit.row] \ {bit.col} IN
       /\ dense' = [dense EXCEPT ![bit.row] = cols]
       /\ sparse' = UnsetSparse(bit, cols)
       /\ taken' = taken \union {FromBit(bit)}
  /\ count' = count - 1
  /\ UNCHANGED blocks

\* Free of an allocated block.
Set(b) ==
  LET bit == Bit(b) IN
  /\ b \in taken
  /\ dense' = [dense EXCEPT ![bit.row] = @ \union {bit.col}]
  /\ count' = count + 1
  /\ sparse' = sparse \union {bit.row}
  /\ taken' = taken \ {b}
  /\ UNCHANGED blocks

\* The memory of a slab that was never filled holds zeros.
Init ==
  /\ count = 0 /\ sparse = {} /\ dense = [r \in Rows |-> {}]
  /\ blocks = {} /\ taken = {}

Next ==
  \/ \E n \in Counts : Fill(n)
  \/ Unset
  \/ \E b \in taken : Set(b)

Spec == Init /\ [][Next]_vars

-----------------------------------------------------------------------------
\* What validate asserts (bitset.rs:41-70): the count is the number of bits
\* of the dense words, and the summary has exactly the rows that have a bit.
Validated ==
  /\ count = MapThenSumSet(LAMBDA r : Cardinality(dense[r]), Rows)
  /\ sparse = {r \in Rows : dense[r] /= {}}

\* The bitset and the application partition the slab's blocks: a block is
\* free or handed out, never both and never neither, through any sequence of
\* fills, allocations and frees (so peek never returns a block beyond the
\* class's count, nor one that is in use).
Partition ==
  LET free == {b \in 0..(Width * Size - 1) : Bit(b).col \in dense[Bit(b).row]}
  IN /\ free \intersect taken = {}
     /\ free \union taken = blocks

\* The allocator hands out the least free block of the slab: what keeps the
\* mask of unset from losing a row (bitset.rs:165).
LeastFirst ==
  [][\A b \in taken' \ taken : b = Min(blocks \ taken)]_vars
=============================================================================
