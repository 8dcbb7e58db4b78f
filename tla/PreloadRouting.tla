--------------------------- MODULE PreloadRouting ---------------------------
(***************************************************************************)
(* The interposed allocation functions of the preload library.  Until its  *)
(* constructor has run, memory comes from a static buffer that is only     *)
(* ever bumped; afterwards large sizes go to the arena and small ones to   *)
(* libc.  Nothing is recorded about a pointer: free and realloc tell from  *)
(* its address where it came from.                                         *)
(*                                                                         *)
(* One address space holds the early buffer, the heap of libc and the      *)
(* arena.  libc and the arena (DaxArena) are taken by what they promise: a *)
(* range that overlaps none in use, or a failure.  A realloc that moves is *)
(* several steps, between which other threads allocate and free.           *)
(***************************************************************************)
EXTENDS Integers, FiniteSets

CONSTANTS
  Thread,
  EarlySize,   \* EARLY_SIZE
  Granule,     \* the alignment of early_malloc, 16 in the code
  LibcSize,    \* bound: the heap of libc
  ArenaSize,   \* the size of the arena
  MinSize,     \* CXLALLOC_MIN_SIZE
  Limit,       \* the number of values of a usize
  Sizes,       \* the sizes that are requested
  Counts,      \* the counts that calloc is called with
  Alignments,  \* the alignments that memalign is called with
  Page,        \* the page size
  MaxLive,     \* bound: allocations in use
  Zero,        \* a byte that is 0
  Junk         \* a byte nobody may rely on

RoutingAssumption ==
  /\ {EarlySize, Granule, LibcSize, ArenaSize, MinSize, Limit, Page, MaxLive} \subseteq Nat
  /\ Granule > 0 /\ Page > 0 /\ EarlySize % Granule = 0
  /\ EarlySize + LibcSize + ArenaSize < Limit
  /\ Sizes \union Counts \subseteq 0..(Limit - 1)
  /\ Alignments \subseteq Nat

VARIABLES
  state,    \* "early", "ready" or, when the constructor gave up, "failed"
  hasArena, \* whether the arena could be opened
  offset,   \* EARLY_OFFSET
  libc,     \* the ranges that libc has handed out
  arena,    \* the extents of the arena
  mem,      \* address -> byte
  live,     \* the allocations that the application holds
  pc,
  move      \* thread -> the realloc it is in: [old, new, size, keep]

vars == <<state, hasArena, offset, libc, arena, mem, live, pc, move>>

LibcBase  == EarlySize
ArenaBase == EarlySize + LibcSize
Address   == 0..(ArenaBase + ArenaSize - 1)
Stamp     == Thread \union {Zero}

\* An allocation in use: the application relies on the first `valid` bytes.
Allocation == [addr : Address, size : Nat, valid : Nat, stamp : Stamp]

NoMove == [old |-> 0, new |-> 0, size |-> 0, keep |-> 0, valid |-> 0, stamp |-> Zero]

TypeOK ==
  /\ state \in {"early", "ready", "failed"}
  /\ hasArena \in BOOLEAN
  /\ offset \in 0..EarlySize
  /\ libc \subseteq [addr : LibcBase..(ArenaBase - 1), len : 1..LibcSize]
  /\ arena \subseteq [addr : ArenaBase..(ArenaBase + ArenaSize - 1), len : 1..ArenaSize]
  /\ mem \in [Address -> Stamp \union {Junk}]
  /\ live \subseteq Allocation
  /\ pc \in [Thread -> {"idle", "copy", "free"}]

Init ==
  /\ state = "early"
  /\ hasArena = FALSE
  /\ offset = 0
  /\ libc = {} /\ arena = {} /\ live = {}
  /\ mem = [a \in Address |-> Junk]
  /\ pc = [t \in Thread |-> "idle"]
  /\ move = [t \in Thread |-> NoMove]

-----------------------------------------------------------------------------
\* The constructor: libc is resolved or not, the arena is opened or not.
Construct ==
  /\ state = "early"
  /\ \/ state' = "failed" /\ UNCHANGED hasArena
     \/ state' = "ready" /\ hasArena' \in BOOLEAN
  /\ UNCHANGED <<offset, libc, arena, mem, live, pc, move>>

Ready == state = "ready"

UsesCxl(size) == size >= MinSize

IsEarly(a) == a < EarlySize

ArenaOwns(a) == hasArena /\ a >= ArenaBase

Larger(a, b) == IF a < b THEN b ELSE a
Lesser(a, b) == IF a < b THEN a ELSE b

RoundUp(n, g) == n + g - 1 - ((n + g - 1) % g)

Overlap(x, y) == x.addr < y.addr + y.len /\ y.addr < x.addr + x.len

-----------------------------------------------------------------------------
(* Each source of memory: what may come back for a size, Null when null.   *)
Null == -1

\* early_malloc: bump, in granules; the sum is checked.
EarlyMalloc(size, a) ==
  LET n == RoundUp(Larger(size, Granule), Granule) IN
  IF Larger(size, Granule) + Granule - 1 < Limit /\ offset + n <= EarlySize
    THEN /\ a = offset
         /\ offset' = offset + n
    ELSE /\ a = Null
         /\ UNCHANGED offset

\* libc: a free range of at least the size, whose length it may round up.
RealMalloc(size, align, a) ==
  \/ /\ a = Null
     /\ UNCHANGED libc
  \/ \E len \in Larger(size, 1)..(size + 1) :
       LET x == [addr |-> a, len |-> len] IN
       /\ a \in LibcBase..(ArenaBase - len) /\ a % align = 0
       /\ \A y \in libc : ~Overlap(x, y)
       /\ libc' = libc \union {x}

ArenaAllocate(size, align, a) ==
  LET x == [addr |-> a, len |-> Larger(size, 1)] IN
  \/ /\ a = Null
     /\ UNCHANGED arena
  \/ /\ hasArena
     /\ a \in ArenaBase..(ArenaBase + ArenaSize - x.len) /\ a % align = 0
     /\ \A y \in arena : ~Overlap(x, y)
     /\ arena' = arena \union {x}

\* A faulty Routed, which falls back to libc when the arena is full.
RoutedFallback(size, align, a) ==
  \/ /\ hasArena
     /\ ArenaAllocate(size, align, a) /\ UNCHANGED libc
  \/ /\ RealMalloc(size, align, a) /\ UNCHANGED arena

\* routed_malloc and routed_aligned_alloc.
Routed(size, align, a) ==
  IF UsesCxl(size)
    THEN ArenaAllocate(size, align, a) /\ UNCHANGED libc
    ELSE RealMalloc(size, align, a) /\ UNCHANGED arena

\* Before the constructor has run, whatever is asked for, also an alignment.
Obtain(size, align, a) ==
  IF Ready
    THEN Routed(size, align, a) /\ UNCHANGED offset
    ELSE EarlyMalloc(size, a) /\ UNCHANGED <<libc, arena>>

-----------------------------------------------------------------------------
Filled(a, n, s) == [b \in Address |-> IF b \in a..(a + n - 1) THEN s ELSE mem[b]]

\* What is in a range that was given back is anybody's.
Released(ranges) ==
  [b \in Address |-> IF \E x \in ranges : b \in x.addr..(x.addr + x.len - 1)
                       THEN Junk ELSE mem[b]]


\* The application writes its stamp to all that it got.
Use(t, size, a) ==
  IF a = Null
    THEN UNCHANGED <<mem, live>>
    ELSE /\ mem' = Filled(a, size, t)
         /\ live' = live \union {[addr |-> a, size |-> size, valid |-> size, stamp |-> t]}

Idle(t) == pc[t] = "idle" /\ Cardinality(live) < MaxLive

Malloc(t, size) ==
  /\ Idle(t)
  /\ \E a \in Address \union {Null} : Obtain(size, 1, a) /\ Use(t, size, a)
  /\ UNCHANGED <<state, hasArena, pc, move>>

\* memalign; posix_memalign and aligned_alloc call it for the alignments they
\* accept, valloc and pvalloc with the page size.
PowerOfTwo(n) == \E k \in 0..n : 2 ^ k = n

Memalign(t, align, size) ==
  /\ Idle(t)
  /\ Ready => PowerOfTwo(align)
  /\ \E a \in Address \union {Null} : Obtain(size, align, a) /\ Use(t, size, a)
  /\ UNCHANGED <<state, hasArena, pc, move>>

PosixMemalign(t, align, size) ==
  PowerOfTwo(align) /\ align >= 2 /\ Memalign(t, align, size)

AlignedAlloc(t, align, size) ==
  align > 0 /\ size % align = 0 /\ Memalign(t, align, size)

Valloc(t, size) == Memalign(t, Page, size)

Pvalloc(t, size) ==
  size + Page - 1 < Limit /\ Valloc(t, RoundUp(size, Page))

\* The application relies on count * size bytes of zeroes.  A product that
\* overflows fails: at once, or as a size that early_malloc cannot round up.
Calloc(t, count, size) ==
  LET total == count * size IN
  /\ Idle(t) /\ total < Limit
  /\ \E a \in Address \union {Null} :
       /\ Obtain(total, 1, a)
       /\ mem' = IF a = Null THEN mem ELSE Filled(a, total, Zero)
       /\ live' = IF a = Null THEN live ELSE
            live \union {[addr |-> a, size |-> total, valid |-> total, stamp |-> Zero]}
  /\ UNCHANGED <<state, hasArena, pc, move>>

-----------------------------------------------------------------------------
\* routed_free: an early pointer is never given back.
RoutedFree(a) ==
  /\ IF ~IsEarly(a) /\ ArenaOwns(a)
       THEN arena' = {x \in arena : x.addr # a} ELSE UNCHANGED arena
  /\ IF ~IsEarly(a) /\ ~ArenaOwns(a)
       THEN libc' = {x \in libc : x.addr # a} ELSE UNCHANGED libc
  /\ mem' = Released((libc \ libc') \union (arena \ arena'))

\* free, which does nothing before the constructor has run.
Free(t, x) ==
  /\ pc[t] = "idle" /\ x \in live
  /\ live' = live \ {x}
  /\ IF Ready THEN RoutedFree(x.addr) ELSE UNCHANGED <<libc, arena, mem>>
  /\ UNCHANGED <<state, hasArena, offset, pc, move>>

\* What realloc takes for the size of the old allocation.
OldSize(a) ==
  CASE IsEarly(a)                  -> EarlySize - a
    [] ~IsEarly(a) /\ ArenaOwns(a) -> (CHOOSE x \in arena : x.addr = a).len
    [] OTHER                       -> (CHOOSE x \in libc : x.addr = a).len

\* libc moves its own small allocations itself, and keeps their bytes; the
\* old range is free again and may be part of the new one.
RealRealloc(t, x, size) ==
  LET old  == CHOOSE y \in libc : y.addr = x.addr
      keep == Lesser(x.valid, size)
  IN
  \/ UNCHANGED <<libc, mem, live>>
  \/ \E a \in Address, len \in size..(size + 1) :
       LET new == [addr |-> a, len |-> len] IN
       /\ a \in LibcBase..(ArenaBase - len)
       /\ \A y \in libc \ {old} : ~Overlap(new, y)
       /\ libc' = (libc \ {old}) \union {new}
       /\ mem' = [b \in Address |->
                    IF b \in a..(a + keep - 1) THEN x.stamp ELSE Released({old})[b]]
       /\ live' = (live \ {x}) \union
                    {[addr |-> a, size |-> size, valid |-> keep, stamp |-> x.stamp]}

\* realloc of an allocation to a size that is not 0 (with size 0 it is Free,
\* with no pointer Malloc).  Before the constructor has run it fails.
Realloc(t, x, size) ==
  /\ pc[t] = "idle" /\ x \in live /\ size > 0 /\ Ready
  /\ IF ~IsEarly(x.addr) /\ ~ArenaOwns(x.addr) /\ ~UsesCxl(size)
       THEN RealRealloc(t, x, size) /\ UNCHANGED <<arena, pc, move>>
       ELSE /\ \E a \in Address \union {Null} :
                 /\ Routed(size, 1, a)
                 /\ IF a = Null
                      THEN UNCHANGED <<live, pc, move>>
                      ELSE /\ live' = live \ {x}
                           /\ pc' = [pc EXCEPT ![t] = "copy"]
                           /\ move' = [move EXCEPT ![t] =
                                [old |-> x.addr, new |-> a, size |-> size,
                                 keep |-> Lesser(OldSize(x.addr), size),
                                 valid |-> Lesser(x.valid, size), stamp |-> x.stamp]]
            /\ UNCHANGED mem
  /\ UNCHANGED <<state, hasArena, offset>>

Copy(t) ==
  LET m == move[t] IN
  /\ pc[t] = "copy"
  /\ mem' = [b \in Address |-> IF b \in m.new..(m.new + m.keep - 1)
                                 THEN mem[m.old + (b - m.new)] ELSE mem[b]]
  /\ pc' = [pc EXCEPT ![t] = "free"]
  /\ UNCHANGED <<state, hasArena, offset, libc, arena, live, move>>

\* A faulty FreeOld, which keeps the old allocation.
FreeOldForgotten(t) ==
  LET m == move[t] IN
  /\ pc[t] = "free"
  /\ live' = live \union {[addr |-> m.new, size |-> m.size, valid |-> m.valid,
                           stamp |-> m.stamp]}
  /\ pc' = [pc EXCEPT ![t] = "idle"]
  /\ move' = [move EXCEPT ![t] = NoMove]
  /\ UNCHANGED <<state, hasArena, offset, mem, libc, arena>>

\* The old allocation is freed, unless it is an early one, and the new one is
\* returned.
FreeOld(t) ==
  LET m == move[t] IN
  /\ pc[t] = "free"
  /\ RoutedFree(m.old)
  /\ live' = live \union {[addr |-> m.new, size |-> m.size, valid |-> m.valid,
                           stamp |-> m.stamp]}
  /\ pc' = [pc EXCEPT ![t] = "idle"]
  /\ move' = [move EXCEPT ![t] = NoMove]
  /\ UNCHANGED <<state, hasArena, offset>>

-----------------------------------------------------------------------------
Next ==
  \/ Construct
  \/ \E t \in Thread :
       \/ Copy(t) \/ FreeOld(t)
       \/ \E x \in live : Free(t, x) \/ \E n \in Sizes : Realloc(t, x, n)
       \/ \E n \in Sizes :
            \/ Malloc(t, n) \/ Valloc(t, n) \/ Pvalloc(t, n)
            \/ \E c \in Counts : Calloc(t, c, n)
            \/ \E a \in Alignments : PosixMemalign(t, a, n) \/ AlignedAlloc(t, a, n)

Spec == Init /\ [][Next]_vars

-----------------------------------------------------------------------------
InFlight == {t \in Thread : pc[t] # "idle"}

Held ==
  {x.addr : x \in live} \union {move[t].old : t \in InFlight}
    \union {move[t].new : t \in InFlight}

\* Every byte that an allocation in use relies on is there: what was written
\* survives realloc between any two sources while other threads allocate, and
\* calloc returns zeroes from memory that was used before.
BytesIntact ==
  \A x \in live : \A i \in 0..(x.valid - 1) : mem[x.addr + i] = x.stamp

\* Every pointer goes back to where it came from, once: the ranges that libc
\* and the arena hold are those in use or moved by a realloc, and no others.
RightAllocator ==
  {x.addr : x \in libc} \union {x.addr : x \in arena} = {a \in Held : ~IsEarly(a)}

\* Both of routed_realloc and routed_free (lib.rs:271, lib.rs:305), and the types.
RoutedBack == TypeOK /\ BytesIntact /\ RightAllocator

\* "A selected allocation never spills into DRAM", once the constructor has
\* run: in particular not when the arena is full or could not be opened.
NoSpillStep ==
  \A x \in live' \ live : Ready /\ UsesCxl(x.size) => x.addr >= ArenaBase

\* Every step of the allocation functions is such (uses_cxl, lib.rs:5).
NoSpill == [][NoSpillStep]_vars

\* The same of every allocation in use.  This fails for those that were made
\* before the constructor ran.
NeverSpills ==
  \A x \in live : UsesCxl(x.size) => x.addr >= ArenaBase
=============================================================================
