------------------------------ MODULE FrontEnd ------------------------------
(***************************************************************************)
(* The untyped interface of the allocator (allocator.rs) as the processes  *)
(* that map one heap see it: which bracket serves a request, which bracket,*)
(* slab and block a pointer belongs to, reallocation, roots, and pointers  *)
(* that travel between processes as offsets.                               *)
(*                                                                         *)
(* A process reserves the three data regions next to each other, at an     *)
(* address of its own (raw.rs:216).  Which free block of a slab an         *)
(* allocation gets is left open here: module SlabHeap has how it is chosen.*)
(***************************************************************************)
EXTENDS SizeClasses, FiniteSets

CONSTANTS
  Process,
  Base,        \* process -> address of its small data region
  Region,      \* Reservation::SIZE
  Page,        \* SIZE_PAGE
  SlabHuge,    \* Huge's SIZE_SLAB, by which its offsets are shifted
  SmallSlabs, LargeSlabs,  \* the slabs that may be handed out
  HugeOffsets,             \* where a huge extent may start
  Sizes,       \* requests
  Alignments,  \* alignments asked for, powers of two up to a page
  Roots,       \* indices of the roots array
  Foreign,     \* addresses of memory that is not the heap's
  MaxLive      \* bound: allocations alive at a time

FrontEndAssumption ==
  /\ Base \in [Process -> Nat]
  /\ \A s \in SmallSlabs : s * SlabSmall <= Region
  /\ \A s \in LargeSlabs : s * SlabLarge <= Region

VARIABLES
  class,   \* <<bracket, slab>> -> the slab's class
  live,    \* allocations: bracket, offset and bytes, the process that made it,
           \* the size and alignment asked for, and whether the block still
           \* holds all that the application wrote to it
  roots,   \* index -> offset, or Nothing
  stored,  \* index -> bracket and offset of the allocation stored there, or Nothing
  answer   \* the last answer of cxlalloc_pointer_to_offset, and the truth

vars == <<class, live, roots, stored, answer>>

NoPlace == [b |-> "None", offset |-> Nothing]
Nowhere == NoPlace

Shift(b) == IF b = Huge THEN SlabHuge ELSE SIZE_SLAB(b)
Rank(b) == CASE b = Small -> 0 [] b = Large -> 1 [] b = Huge -> 2

-----------------------------------------------------------------------------
(* Data: the base is one slab below the region. *)

DataBase(p, b) == Base[p] + Rank(b) * Region - Shift(b)
OffsetToPointer(p, b, offset) == DataBase(p, b) + offset

\* pointer_to_offset, then checked_pointer_to_offset: the offset less the
\* shift wraps around below zero, which is then out of the reservation.
CheckedOffset(p, b, address) ==
  LET offset == address - DataBase(p, b) IN
  IF offset > 0 /\ offset - Shift(b) >= 0 /\ offset - Shift(b) < Region THEN offset ELSE Nothing

\* The brackets are tried in order; an address none of them knows has none.
Resolve(p, address) ==
  LET known == {b \in {Small, Large, Huge} : CheckedOffset(p, b, address) /= Nothing}
  IN IF known = {} THEN Nowhere
     ELSE LET b == CHOOSE b \in known : \A c \in known : Rank(b) <= Rank(c)
          IN [b |-> b, offset |-> CheckedOffset(p, b, address)]

\* What free acts on: the start of the block that the offset lies in, or the
\* huge extent with that offset.
BlockAt(found) ==
  IF found.b = Huge THEN found.offset
  ELSE LET s == IntoIndex(found.b, found.offset)  c == class[<<found.b, s>>]
       IN FromBlock(found.b, c, s, IntoBlock(found.b, c, found.offset))

Found(p, address) ==
  LET r == Resolve(p, address) IN
  IF r = Nowhere THEN {} ELSE {a \in live : a.b = r.b /\ a.offset = BlockAt(r)}

\* class_untyped
ClassUntyped(p, address) ==
  LET r == Resolve(p, address) IN
  IF r.b = Huge THEN (CHOOSE a \in live : a.b = Huge /\ a.offset = r.offset).bytes
  ELSE ClassSize(r.b, class[<<r.b, IntoIndex(r.b, r.offset)>>])

-----------------------------------------------------------------------------
(* pointer_to_offset and offset_to_pointer: relative to the small bracket, *)
(* whatever the bracket of the pointer.                                    *)

Persistent(p, address) == address - DataBase(p, Small)
Local(p, offset) == DataBase(p, Small) + offset

\* The pointer of process p to an allocation that another one passed on.
Address(p, a) == Local(p, Persistent(a.by, OffsetToPointer(a.by, a.b, a.offset)))

-----------------------------------------------------------------------------
InUse(b, s) == \E a \in live : a.b = b /\ IntoIndex(b, a.offset) = s

\* Where a request of this size may be placed, with the class its slab has
\* then.  A slab with no block in use may get any class.
Placements(size) ==
  LET b == Bracket(size)  c == ClassOf(size)  n == NextMultipleOf(size, Page) IN
  IF b = Huge
    THEN {[b |-> Huge, offset |-> o + SlabHuge, bytes |-> n, slab |-> Nothing, class |-> Nothing] :
           o \in {o \in HugeOffsets :
                   \A a \in live : a.b = Huge => \/ o + SlabHuge + n <= a.offset
                                                 \/ a.offset + a.bytes <= o + SlabHuge}}
    ELSE {[b |-> b, offset |-> FromBlock(b, c, at[1], at[2]), bytes |-> ClassSize(b, c),
           slab |-> at[1], class |-> c] :
           at \in {at \in (IF b = Small THEN SmallSlabs ELSE LargeSlabs)
                            \X (0..(ClassCount(b, c) - 1)) :
                    /\ class[<<b, at[1]>>] = c \/ ~InUse(b, at[1])
                    /\ \A a \in live : a.b = b => a.offset /= FromBlock(b, c, at[1], at[2])}}

\* The allocation made there.
Placed(place, p, size, align) ==
  [b |-> place.b, offset |-> place.offset, bytes |-> place.bytes, by |-> p,
   asked |-> size, align |-> align, intact |-> TRUE]

GiveClass(place) ==
  class' = IF place.b = Huge THEN class ELSE [class EXCEPT ![<<place.b, place.slab>>] = place.class]

\* allocate_untyped; a request of zero bytes gets null.
Allocate(p, size) ==
  /\ Cardinality(live) < MaxLive /\ size > 0
  /\ \E place \in Placements(size) :
       live' = live \union {Placed(place, p, size, 1)} /\ GiveClass(place)
  /\ UNCHANGED <<roots, stored, answer>>

\* cxlalloc_memalign: a request of the size padded to the alignment.
Memalign(p, size, align) ==
  /\ Cardinality(live) < MaxLive /\ size > 0
  /\ \E place \in Placements(NextMultipleOf(size, align)) :
       live' = live \union {Placed(place, p, size, align)} /\ GiveClass(place)
  /\ UNCHANGED <<roots, stored, answer>>

\* free_untyped, by process p; an address that no bracket knows is ignored.
Free(p, a) ==
  /\ live' = live \ Found(p, Address(p, a))
  /\ UNCHANGED <<class, roots, stored, answer>>

\* realloc_untyped in place.
Keep(a, size) ==
  /\ live' = (live \ {a}) \union {[a EXCEPT !.asked = size]}
  /\ UNCHANGED class

\* realloc_untyped elsewhere: allocate, copy `copied` bytes, free the old block.
Move(p, a, size, copied) ==
  \E place \in Placements(size) :
    /\ live' = (live \ Found(p, Address(p, a)))
                 \union {[Placed(place, p, size, 1) EXCEPT !.intact = a.intact /\ a.asked <= copied]}
    /\ GiveClass(place)

\* A faulty realloc_untyped, which copies a word too few.
ReallocShort(p, a, size) ==
  LET old == ClassUntyped(p, Address(p, a)) IN
  /\ IF old >= size THEN Keep(a, size) ELSE Move(p, a, size, old - MinSmall)
  /\ UNCHANGED <<roots, stored, answer>>

\* The old block is copied at the size of its class, and is never too large
\* for the new one; allocation never fails for a size that is not zero.
Realloc(p, a, size) ==
  LET old == ClassUntyped(p, Address(p, a)) IN
  /\ IF old >= size THEN Keep(a, size) ELSE Move(p, a, size, old)
  /\ UNCHANGED <<roots, stored, answer>>

\* A faulty set_root_untyped, which stores the pointer.
SetRootPointer(p, i, a) ==
  /\ roots' = [roots EXCEPT ![i] = Address(p, a)]
  /\ stored' = [stored EXCEPT ![i] = [b |-> a.b, offset |-> a.offset]]
  /\ UNCHANGED <<class, live, answer>>

\* set_root_untyped of a pointer
SetRoot(p, i, a) ==
  /\ roots' = [roots EXCEPT ![i] = Persistent(p, Address(p, a))]
  /\ stored' = [stored EXCEPT ![i] = [b |-> a.b, offset |-> a.offset]]
  /\ UNCHANGED <<class, live, answer>>

\* set_root_untyped of null
ClearRoot(i) ==
  /\ roots' = [roots EXCEPT ![i] = Nothing]
  /\ stored' = [stored EXCEPT ![i] = NoPlace]
  /\ UNCHANGED <<class, live, answer>>

\* cxlalloc_pointer_to_offset of any pointer that is not null.
PointerToOffset(p, address) ==
  /\ answer' = [ok |-> TRUE, ours |-> Resolve(p, address) /= Nowhere]
  /\ UNCHANGED <<class, live, roots, stored>>

-----------------------------------------------------------------------------
Init ==
  /\ class = [s \in ({Small} \X SmallSlabs) \union ({Large} \X LargeSlabs) |-> Nothing]
  /\ live = {}
  /\ roots = [i \in Roots |-> Nothing]
  /\ stored = [i \in Roots |-> NoPlace]
  /\ answer = [ok |-> FALSE, ours |-> FALSE]

Next ==
  \E p \in Process :
    \/ \E n \in Sizes : Allocate(p, n)
    \/ \E n \in Sizes, k \in Alignments : Memalign(p, n, k)
    \/ \E a \in live : Free(p, a)
    \/ \E a \in live, n \in Sizes : Realloc(p, a, n)
    \/ \E i \in Roots, a \in live : SetRoot(p, i, a)
    \/ \E i \in Roots : ClearRoot(i)
    \/ \E x \in Foreign \union {Address(p, a) : a \in live} : PointerToOffset(p, x)

Spec == Init /\ [][Next]_vars

-----------------------------------------------------------------------------
\* Every process finds an allocation by its own pointer to it: the bracket,
\* slab and block that free computes are those that were allocated, whatever
\* process allocated it (allocator.rs:353, data.rs:102).
Resolves ==
  \A a \in live, p \in Process : Found(p, Address(p, a)) = {a}

\* No byte of one process's address space belongs to two allocations, of one
\* bracket or of two.
Disjoint ==
  \A p \in Process, a, c \in live :
    a /= c => \/ Address(p, a) + a.bytes <= Address(p, c)
              \/ Address(p, c) + c.bytes <= Address(p, a)

\* An allocation is as large as was asked for, also after reallocation in
\* place (allocator.rs:311), and class_untyped never claims more than it has.
Usable ==
  \A a \in live, p \in Process : ClassUntyped(p, Address(p, a)) \in a.asked..a.bytes

\* Reallocation keeps what the application wrote (allocator.rs:316).
ContentsKept ==
  \A a \in live : a.intact

\* Memory asked for with an alignment of up to a page has it, in every
\* process (cxlalloc-static lib.rs:222).
Aligned ==
  \A a \in live, p \in Process : Address(p, a) % a.align = 0

\* A root leads every process to the allocation that was stored there, as
\* long as it is alive (allocator.rs:275).
RootsLead ==
  \A i \in Roots, p \in Process : \A a \in live :
    stored[i] = [b |-> a.b, offset |-> a.offset] => Found(p, Local(p, roots[i])) = {a}

\* "Returns false if the pointer was not allocated in this heap."
\* (src/cxlalloc-static/src/lib.rs:228).  This fails for the addresses in
\* Foreign, which the conversion does not tell from those of the heap.
OnlyOfThisHeap ==
  answer.ok => answer.ours
=============================================================================
