---------------------------- MODULE SizeClasses ----------------------------
(***************************************************************************)
(* Size classes (size/small.rs, size/large.rs) and the arithmetic between  *)
(* a block of a slab and its offset (data.rs, slab.rs).                    *)
(*                                                                         *)
(* Both brackets are described by the constants of their Bracket impl.     *)
(* Slab indices start at 1, and offsets count from one slab below the data *)
(* region, so that neither is ever zero.                                   *)
(***************************************************************************)
EXTENDS Integers, FiniteSetsExt

CONSTANTS
  SlabSmall, MinSmall, CountSmall, BitsSmall,
    \* Small: SIZE_SLAB, SIZE_MIN, COUNT and the bits of its BitSet
  SlabLarge, MinLarge, CountLarge, BitsLarge
    \* Large: the same

SizeClassesAssumption ==
  /\ {SlabSmall, MinSmall, CountSmall, BitsSmall} \subseteq Nat \ {0}
  /\ {SlabLarge, MinLarge, CountLarge, BitsLarge} \subseteq Nat \ {0}

Small == "Small"
Large == "Large"
Huge  == "Huge"

Nothing == -1   \* Option::None, where a class or an offset is expected

SIZE_SLAB(b) == IF b = Small THEN SlabSmall ELSE SlabLarge

-----------------------------------------------------------------------------
(* Small: class i holds i * SIZE_MIN bytes, and class 0 nothing. *)

SmallMax == (CountSmall - 1) * MinSmall

NextMultipleOf(n, k) == ((n + k - 1) \div k) * k

SmallNew(size) ==
  IF size <= SmallMax THEN NextMultipleOf(size, MinSmall) \div MinSmall ELSE Nothing

SmallSize(class) == class * MinSmall

\* The smallest class gives up the blocks whose bits hold metadata.
SmallCount(class) ==
  CASE class = 0 -> 0
    [] class = 1 -> BitsSmall
    [] OTHER -> SlabSmall \div SmallSize(class)

-----------------------------------------------------------------------------
(* Large: class i holds SIZE_MIN << i bytes. *)

LargeMax == MinLarge * 2^(CountLarge - 1)

TrailingZeros(n) == CHOOSE k \in 0..CountLarge : n % 2^k = 0 /\ n % 2^(k + 1) /= 0

\* size.next_power_of_two(), of a size up to LargeMax
NextPowerOfTwo(n) == Min({2^k : k \in {j \in 0..30 : 2^j <= LargeMax /\ 2^j >= n}})

LargeNew(size) ==
  IF size <= LargeMax THEN TrailingZeros(NextPowerOfTwo(size) \div MinLarge) ELSE Nothing

LargeSize(class) == MinLarge * 2^class

LargeCount(class) == (SlabLarge \div MinLarge) \div 2^class

-----------------------------------------------------------------------------
(* By bracket. *)

Classes(b) == IF b = Small THEN 1..(CountSmall - 1) ELSE 0..(CountLarge - 1)
ClassSize(b, class) == IF b = Small THEN SmallSize(class) ELSE LargeSize(class)
ClassCount(b, class) == IF b = Small THEN SmallCount(class) ELSE LargeCount(class)
BitCount(b) == IF b = Small THEN BitsSmall ELSE BitsLarge

\* The bracket and class of a request (allocate_untyped, allocate_large and
\* allocate_huge try them in this order); class 0 of Small yields null.
Bracket(size) ==
  CASE SmallNew(size) /= Nothing -> Small
    [] SmallNew(size) = Nothing /\ LargeNew(size) /= Nothing -> Large
    [] OTHER -> Huge

ClassOf(size) == IF Bracket(size) = Small THEN SmallNew(size) ELSE LargeNew(size)

-----------------------------------------------------------------------------
(* Offsets. *)

\* Offset::from_block
FromBlock(b, class, slab, block) == slab * SIZE_SLAB(b) + block * ClassSize(b, class)

\* A faulty into_block, which does not reduce the offset to its slab.
IntoBlockWhole(b, class, offset) == offset \div ClassSize(b, class)

\* Offset::into_block
IntoBlock(b, class, offset) == (offset % SIZE_SLAB(b)) \div ClassSize(b, class)

\* Index::from(Offset)
IntoIndex(b, offset) == offset \div SIZE_SLAB(b)
=============================================================================
