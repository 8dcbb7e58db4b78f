---------------------------- MODULE MCStructures ----------------------------
(***************************************************************************)
(* Instances for TLC, in one run, of the modules on the data structures of *)
(* the heap and on its arithmetic: GlobalStack, OwnedStacks, BitSet        *)
(* and SizeRequests.  A behaviour is one of the part that is chosen        *)
(* initially; the variables of the others stay as they are.                *)
(***************************************************************************)
EXTENDS Integers, Sequences, FiniteSets, TLC

CONSTANTS
  t1, t2, c1, c2, Slab, None

VARIABLES
  part,
  head, next, owner, unsized, used, help, version, pc, old, batch,
  links, class, free, own, sized, away, flush,
  count, sparse, dense, blocks, taken,
  request

global == <<head, next, owner, unsized, used, help, version, pc, old, batch>>
owned  == <<links, class, free, own, sized, away, flush>>
bits   == <<count, sparse, dense, blocks, taken>>
all    == <<part, global, owned, bits, request>>

Thread == {t1, t2}

\* One thread allocates, both free.
One == INSTANCE GlobalStack WITH
         Allocator <- {t1}, CountCacheSlab <- 0, BatchGlobalPush <- 1, RecoverCas <- TRUE,
         MaxVersion <- 4

\* The same with a cache of one slab and batches of two.
Batched == INSTANCE GlobalStack WITH
         Allocator <- {t1}, CountCacheSlab <- 1, BatchGlobalPush <- 2, RecoverCas <- TRUE,
         MaxVersion <- 6

\* Both threads allocate.
Two == INSTANCE GlobalStack WITH
         Allocator <- Thread, CountCacheSlab <- 0, BatchGlobalPush <- 1, RecoverCas <- TRUE,
         MaxVersion <- 4

\* The lists of one thread, for classes of two blocks and of one.
Own == INSTANCE OwnedStacks WITH
         Class <- {c1, c2}, Count <- c1 :> 2 @@ c2 :> 1, CountCacheSlab <- 2,
         BatchGlobalPush <- 2, MaxLen <- 3, LenModulus <- 16, next <- links, unsized <- own

\* Three words of three bits; counts that fill whole words, part of one, none.
Bits == INSTANCE BitSet WITH Width <- 3, Size <- 3, Counts <- {0, 3, 4, 8, 9}

\* The constants of the code.
Requests == INSTANCE SizeRequests WITH
         SlabSmall <- 32768, MinSmall <- 8, CountSmall <- 128, BitsSmall <- 3904,
         SlabLarge <- 524288, MinLarge <- 1024, CountLarge <- 10, BitsLarge <- 832,
         Sizes <- 0..1100 \union UNION {{2^k - 1, 2^k, 2^k + 1} : k \in 11..19},
         MaxSlab <- 3, at <- request

ASSUME One!ConstantsAssumption /\ Batched!ConstantsAssumption /\ Two!ConstantsAssumption
ASSUME Own!ConstantsAssumption /\ Bits!BitSetAssumption /\ Requests!SizeClassesAssumption

Symmetry == Permutations(Slab)

Init ==
  /\ part \in {"one", "batched", "own", "bits", "requests"}
  /\ One!Init
  /\ Own!Init
  /\ Bits!Init
  /\ IF part = "requests" THEN Requests!Init ELSE request = Requests!NoRequest

Next ==
  \/ part = "one" /\ One!Next /\ UNCHANGED <<part, owned, bits, request>>
  \/ part = "batched" /\ Batched!Next /\ UNCHANGED <<part, owned, bits, request>>
  \/ part = "own" /\ Own!Next /\ UNCHANGED <<part, global, bits, request>>
  \/ part = "bits" /\ Bits!Next /\ UNCHANGED <<part, global, owned, request>>
  \/ part = "requests" /\ Requests!Next /\ UNCHANGED <<part, global, owned, bits>>

Spec == Init /\ [][Next]_all

\* The instance that breaks what the code says of itself.
TwoSpec ==
  /\ part = "two" /\ Two!Init /\ Own!Init /\ Bits!Init /\ request = Requests!NoRequest
  /\ [][Two!Next /\ UNCHANGED <<part, owned, bits, request>>]_all

-----------------------------------------------------------------------------
\* All slabs of an unsized stack have its thread as owner (heap.rs:560).
UnsizedIsOwned ==
  /\ part = "one" => One!UnsizedIsOwned
  /\ part = "two" => Two!UnsizedIsOwned

\* The linked global stack behaves as an atomic stack, and every slab is in one
\* place, however pops and pushes of a slab or of a batch overlap
\* (slab/stack.rs:103).
GlobalImplements ==
  /\ part = "one" => One!Stack!Init
  /\ part = "batched" => Batched!Stack!Init
  /\ [](/\ part = "one" => One!EachSlabOnce /\ One!UnsizedIsOwned
        /\ part = "batched" => Batched!EachSlabOnce)
  /\ [][/\ part = "one" => One!ImplementsStep
        /\ part = "batched" => Batched!ImplementsStep]_global

\* The linked lists of a thread behave as sequences (slab/stack.rs:59).
OwnedImplements == Own!Implements

\* The walks along the lists of a thread succeed: sized_to_unsized finds the
\* slab it unlinks (heap.rs:643), stacks share no slab (heap.rs:566), and `len`
\* of an unsized stack, by which a batch is cut off, is the length of its list
\* (slab/stack.rs:22).
WalksSucceed ==
  /\ Own!TypeOK /\ Own!SlabIsFound /\ Own!StacksAreValid /\ Own!UnsizedLen
  /\ part = "one" => One!TypeOK /\ One!LenIsCount
  /\ part = "batched" => Batched!LenIsCount

\* The words of the bitset are what BitSet::validate asserts (bitset.rs:41): a
\* block is free or handed out, never both and never neither, and the least
\* free one is handed out next (bitset.rs:165).
BitsExact == [](Bits!Validated /\ Bits!Partition) /\ Bits!LeastFirst

\* A request gets the least class that holds it (size/small.rs:28,
\* size/large.rs:28), every block lies in its slab and has a bit of its own
\* (size/small.rs:43), and free computes from the offset the slab and the block
\* that were allocated (data.rs:45).
RequestsServed == Requests!BestFit /\ Requests!CountFits /\ Requests!RoundTrip
=============================================================================
