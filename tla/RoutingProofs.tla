---------------------------- MODULE RoutingProofs ----------------------------
(***************************************************************************)
(* The allocation functions of the preloaded library, for every size of    *)
(* the early buffer, of libc's heap and of the arena, every threshold,     *)
(* every page and granule, and any number of threads.                      *)
(*                                                                         *)
(* The pieces are the allocations that the application holds and, of every *)
(* realloc that moves, the old and the new one: each lies in the early     *)
(* buffer or in a range that libc or the arena has handed out, apart from  *)
(* all others, and holds the bytes that it should.  RoutingInv says so; a  *)
(* step takes some pieces away and adds some, and keeps the bytes of the   *)
(* rest.                                                                   *)
(*                                                                         *)
(* memcpy, memmove and memset, by which the library copies without a libc, *)
(* are at the end, for every size of memory and any nesting of signals.    *)
(***************************************************************************)
EXTENDS Preload, TLAPS

\* The ranges that libc and the arena have handed out
Ranges == libc \union arena

RangeTypes ==
  /\ offset \in 0..EarlySize
  /\ libc \subseteq [addr : LibcBase..(ArenaBase - 1), len : 1..LibcSize]
  /\ arena \subseteq [addr : ArenaBase..(ArenaBase + ArenaSize - 1), len : 1..ArenaSize]

\* libc and the arena hand out ranges of their own that do not overlap; there is
\* none before the constructor has run, and none of an arena that is not there.
Sources ==
  /\ RangeTypes
  /\ \A y \in libc : y.addr + y.len <= ArenaBase
  /\ \A y \in arena : y.addr + y.len <= ArenaBase + ArenaSize
  /\ \A y, z \in Ranges : y # z => ~Overlap(y, z)
  /\ ~Ready => libc = {} /\ ~hasArena
  /\ ~hasArena => arena = {}

\* n bytes at a are of the early buffer, or of one range
Area(a, n) ==
  \/ a < offset /\ a + n <= offset
  \/ \E y \in Ranges : y.addr = a /\ n <= y.len

-----------------------------------------------------------------------------
\* The early buffer, libc and the arena are one behind the other.
LEMMA Bases ==
  ASSUME RoutingAssumption
  PROVE  /\ EarlySize \in Nat /\ LibcSize \in Nat /\ ArenaSize \in Nat /\ ArenaBase \in Nat
         /\ ArenaBase = EarlySize + LibcSize /\ LibcBase = EarlySize
         /\ MinSize \in Nat /\ Granule \in Nat /\ Granule > 0 /\ Page \in Nat /\ Page > 0
BY DEF RoutingAssumption, ArenaBase, LibcBase

\* What is in a range of libc or of the arena
LEMMA RangeFacts ==
  ASSUME RoutingAssumption, Sources, NEW y \in Ranges
  PROVE  /\ y.addr \in Nat /\ y.len \in Nat /\ y.len > 0
         /\ EarlySize <= y.addr /\ y.addr + y.len <= ArenaBase + ArenaSize
         /\ \/ y \in libc /\ y \notin arena /\ y.addr + y.len <= ArenaBase
            \/ y \in arena /\ y \notin libc /\ ArenaBase <= y.addr /\ hasArena
<1> USE Bases
<1>1. ASSUME y \in libc
      PROVE  /\ y.addr \in Nat /\ y.len \in Nat /\ y.len > 0
             /\ EarlySize <= y.addr /\ y.addr + y.len <= ArenaBase
  BY <1>1 DEF Sources, RangeTypes
<1>2. ASSUME y \in arena
      PROVE  /\ y.addr \in Nat /\ y.len \in Nat /\ y.len > 0 /\ hasArena
             /\ ArenaBase <= y.addr /\ y.addr + y.len <= ArenaBase + ArenaSize
  BY <1>2 DEF Sources, RangeTypes
<1> QED BY <1>1, <1>2 DEF Ranges

\* An address that memory is held at, and where it ends
LEMMA AreaFacts ==
  ASSUME RoutingAssumption, Sources, NEW a \in Nat, NEW n \in Nat, Area(a, n)
  PROVE  /\ offset \in Nat /\ offset <= EarlySize /\ a + n <= ArenaBase + ArenaSize
         /\ \/ a < EarlySize /\ a < offset /\ a + n <= offset
            \/ EarlySize <= a /\ \E y \in Ranges : y.addr = a /\ n <= y.len
<1> USE Bases
<1>1. offset \in Nat /\ offset <= EarlySize
  BY DEF Sources, RangeTypes
<1>2. ASSUME NEW y \in Ranges, y.addr = a, n <= y.len
      PROVE  EarlySize <= a /\ a + n <= ArenaBase + ArenaSize
  BY <1>2, RangeFacts
<1> QED BY <1>1, <1>2 DEF Area

\* Part of an area, from where it begins
LEMMA AreaPart ==
  ASSUME RoutingAssumption, Sources, NEW a \in Nat, NEW n \in Nat, Area(a, n),
         NEW k \in 0..n
  PROVE  Area(a, k)
<1>1. ASSUME NEW y \in Ranges, y.addr = a, n <= y.len PROVE k <= y.len
  BY <1>1, RangeFacts
<1>2. offset \in Nat
  BY Zenon, AreaFacts
<1> QED BY <1>1, <1>2 DEF Area

\* Two ranges at one address are one.
LEMMA OneRange ==
  ASSUME RoutingAssumption, Sources, NEW y \in Ranges, NEW z \in Ranges, y.addr = z.addr
  PROVE  y = z
<1>1. y.addr \in Nat /\ y.len \in Nat /\ y.len > 0 /\ z.len \in Nat /\ z.len > 0
  BY Zenon, RangeFacts
<1> QED BY <1>1 DEF Sources, Overlap

-----------------------------------------------------------------------------
\* What is handed out for a size, at a: it is apart from every area, and stays so.
Handed(size, a) ==
  /\ Sources' /\ Area(a, size)' /\ a + size <= ArenaBase + ArenaSize
  /\ \A b, m \in Nat : Area(b, m) => Area(b, m)' /\ a # b /\ (a + size <= b \/ b + m <= a)
  /\ \A y \in Ranges' : y \in Ranges \/ y.addr = a
  /\ Ready /\ UsesCxl(size) => a >= ArenaBase

\* A range in place of some others, and the areas that are in none of those
LEMMA NewRange ==
  ASSUME RoutingAssumption, Sources, NEW x, NEW size \in Nat, NEW gone \in SUBSET Ranges,
         x.addr \in Nat, x.len \in Nat, x.len > 0, size <= x.len, EarlySize <= x.addr,
         \A y \in Ranges \ gone : ~Overlap(x, y),
         Ranges' = (Ranges \ gone) \union {x}, offset' = offset
  PROVE  /\ \A y, z \in Ranges' : y # z => ~Overlap(y, z)
         /\ Area(x.addr, size)'
         /\ \A b, m \in Nat : Area(b, m) /\ (\A y \in gone : y.addr # b) =>
              Area(b, m)' /\ x.addr # b /\ (x.addr + size <= b \/ b + m <= x.addr)
<1>1. ASSUME NEW y \in Ranges \ gone PROVE ~Overlap(y, x)
  BY RangeFacts, Zenon DEF Overlap
<1>2. \A y, z \in Ranges' : y # z => ~Overlap(y, z)
  BY <1>1, Zenon DEF Sources
<1>3. PICK a : a = x.addr
  BY Zenon
<1>4. Area(a, size)'
  BY <1>3, Zenon DEF Area
<1>5. ASSUME NEW b \in Nat, NEW m \in Nat, Area(b, m), \A y \in gone : y.addr # b
      PROVE  Area(b, m)' /\ x.addr # b /\ (x.addr + size <= b \/ b + m <= x.addr)
  <2>1. Area(b, m)'
    BY <1>5, Zenon DEF Area
  <2>2. ASSUME NEW y \in Ranges, y.addr = b, m <= y.len
        PROVE  x.addr # b /\ (x.addr + size <= b \/ b + m <= x.addr)
    BY <1>1, <1>5, <2>2, RangeFacts DEF Overlap
  <2> QED BY <1>5, <2>1, <2>2, AreaFacts, Bases
<1> QED BY Zenon, <1>2, <1>3, <1>4, <1>5

\* What the real malloc gives is a range of its own.
LEMMA LibcHands ==
  ASSUME RoutingAssumption, Sources, NEW size \in Nat, NEW align, NEW a \in Nat,
         Ready, ~UsesCxl(size), RealMalloc(size, align, a),
         UNCHANGED <<state, hasArena, offset, arena>>
  PROVE  Handed(size, a)
<1> USE Bases
<1>1. PICK len \in Larger(size, 1)..(size + 1) :
        /\ a \in LibcBase..(ArenaBase - len)
        /\ \A y \in libc : ~Overlap([addr |-> a, len |-> len], y)
        /\ libc' = libc \union {[addr |-> a, len |-> len]}
  BY DEF RealMalloc, Null
<1>2. PICK x, gone : x = [addr |-> a, len |-> len] /\ gone = {}
  BY Zenon
<1>3. /\ x.addr = a /\ x.len \in Nat /\ x.len > 0 /\ size <= x.len /\ EarlySize <= a
      /\ a + x.len <= ArenaBase /\ x \in [addr : LibcBase..(ArenaBase - 1), len : 1..LibcSize]
  BY <1>1, <1>2 DEF Larger
<1>4. ASSUME NEW y \in Ranges PROVE ~Overlap(x, y)
  BY <1>1, <1>2, <1>3, RangeFacts DEF Overlap
<1>5. /\ Ranges' = (Ranges \ gone) \union {x} /\ gone \in SUBSET Ranges /\ libc' = libc \union {x}
      /\ \A y \in gone : FALSE
  BY <1>1, <1>2, Zenon DEF Ranges
<1>6. /\ \A y, z \in Ranges' : y # z => ~Overlap(y, z)
      /\ Area(x.addr, size)'
      /\ \A b, m \in Nat : Area(b, m) =>
           Area(b, m)' /\ x.addr # b /\ (x.addr + size <= b \/ b + m <= x.addr)
  BY Zenon, <1>3, <1>4, <1>5, NewRange
<1>7. Sources'
  BY <1>3, <1>5, <1>6, Zenon DEF Sources, RangeTypes, Ready
<1>8. Area(a, size)' /\ a + size <= ArenaBase + ArenaSize
  BY <1>3, <1>6 DEF Area
<1> QED BY <1>3, <1>5, <1>6, <1>7, <1>8, Zenon DEF Handed

\* What the arena gives is a range of its own.
LEMMA ArenaHands ==
  ASSUME RoutingAssumption, Sources, NEW size \in Nat, NEW align, NEW a \in Nat,
         Ready, ArenaAllocate(size, align, a), UNCHANGED <<state, hasArena, offset, libc>>
  PROVE  Handed(size, a)
<1> USE Bases
<1>1. PICK x, gone : x = [addr |-> a, len |-> Larger(size, 1)] /\ gone = {}
  BY Zenon
<1>2. /\ hasArena /\ a \in ArenaBase..(ArenaBase + ArenaSize - x.len)
      /\ \A y \in arena : ~Overlap(x, y)
      /\ arena' = arena \union {x}
  BY <1>1 DEF ArenaAllocate, Null
<1>3. x.addr = a /\ x.len \in Nat /\ x.len > 0 /\ size <= x.len
  BY <1>1 DEF Larger
<1>4. /\ ArenaBase <= a /\ a + x.len <= ArenaBase + ArenaSize /\ a + size <= ArenaBase + ArenaSize
      /\ x \in [addr : ArenaBase..(ArenaBase + ArenaSize - 1), len : 1..ArenaSize]
  BY <1>1, <1>2, <1>3
<1>5. ASSUME NEW y \in Ranges PROVE ~Overlap(x, y)
  BY <1>2, <1>3, <1>4, RangeFacts DEF Overlap
<1>6. /\ Ranges' = (Ranges \ gone) \union {x} /\ gone \in SUBSET Ranges /\ \A y \in gone : FALSE
  BY <1>1, <1>2, Zenon DEF Ranges
<1>7. /\ \A y, z \in Ranges' : y # z => ~Overlap(y, z)
      /\ Area(x.addr, size)'
      /\ \A b, m \in Nat : Area(b, m) =>
           Area(b, m)' /\ x.addr # b /\ (x.addr + size <= b \/ b + m <= x.addr)
  BY <1>3, <1>4, <1>5, <1>6, NewRange
<1>8. Sources'
  BY <1>2, <1>3, <1>4, <1>7, Zenon DEF Sources, RangeTypes, Ready
<1>9. Area(a, size)'
  BY <1>3, <1>7, Zenon DEF Area
<1> QED BY <1>3, <1>4, <1>6, <1>7, <1>8, <1>9, Zenon DEF Handed

\* What the early buffer gives lies behind all that it gave before.
LEMMA EarlyHands ==
  ASSUME RoutingAssumption, Sources, NEW size \in Nat, NEW a \in Nat,
         ~Ready, EarlyMalloc(size, a), UNCHANGED <<state, hasArena, libc, arena>>
  PROVE  Handed(size, a)
<1> USE Bases
<1>1. PICK l, n : l = Larger(size, Granule) /\ n = RoundUp(l, Granule)
  BY Zenon
<1>2. a = offset /\ offset' = offset + n /\ offset + n <= EarlySize
  BY <1>1 DEF EarlyMalloc, Null
<1>3. n \in Nat /\ size <= n /\ n > 0
  <2>1. l \in Nat /\ size <= l /\ Granule <= l
    BY <1>1 DEF Larger
  <2>2. (l + Granule - 1) % Granule \in 0..(Granule - 1)
    BY <2>1
  <2> QED BY <1>1, <2>1, <2>2 DEF RoundUp
<1>4. Ranges' = Ranges
  BY Zenon DEF Ranges
<1>5. Sources'
  BY <1>2, <1>3, <1>4 DEF Sources, RangeTypes, Ready
<1>6. Area(a, size)' /\ a + size <= ArenaBase + ArenaSize
  BY <1>2, <1>3 DEF Area
<1>7. ASSUME NEW b \in Nat, NEW m \in Nat, Area(b, m)
      PROVE  Area(b, m)' /\ a # b /\ (a + size <= b \/ b + m <= a)
  <2>1. a # b /\ (a + size <= b \/ b + m <= a) /\ offset \in Nat
    BY <1>2, <1>3, <1>7, AreaFacts
  <2> QED BY <1>2, <1>3, <1>4, <1>7, <2>1 DEF Area
<1> QED BY <1>4, <1>5, <1>6, <1>7, Zenon DEF Handed

\* Whatever the size and the alignment, what is handed out is apart from all that
\* is held, and when the library is ready a large size comes from the arena.
LEMMA Obtained ==
  ASSUME RoutingAssumption, Sources, NEW size \in Nat, NEW align, NEW a \in Nat,
         Obtain(size, align, a), UNCHANGED <<state, hasArena>>
  PROVE  Handed(size, a)
BY EarlyHands, ArenaHands, LibcHands, Zenon DEF Obtain, Routed

\* Nothing is handed out when the pointer is null.
LEMMA ObtainedNone ==
  ASSUME RoutingAssumption, Sources, NEW size \in Nat, NEW align, Obtain(size, align, Null)
  PROVE  UNCHANGED <<offset, libc, arena>>
<1> USE Bases
<1>1. offset \in Nat /\ Null \notin Nat
  BY DEF Sources, RangeTypes, Null
<1>2. ArenaAllocate(size, align, Null) => arena' = arena
  BY DEF ArenaAllocate, Null, Larger
<1>3. RealMalloc(size, align, Null) => libc' = libc
  <2>1. \A len \in Larger(size, 1)..(size + 1) : Null \notin LibcBase..(ArenaBase - len)
    BY DEF Null, Larger
  <2> QED BY <2>1, Zenon DEF RealMalloc
<1> QED BY <1>1, <1>2, <1>3, Zenon DEF Obtain, Routed, EarlyMalloc

-----------------------------------------------------------------------------
\* An area is apart from the ranges that begin elsewhere.
LEMMA Away ==
  ASSUME RoutingAssumption, Sources, NEW b \in Nat, NEW m \in Nat, Area(b, m),
         NEW i \in 0..(m - 1), NEW x \in Ranges, x.addr # b
  PROVE  b + i \notin x.addr..(x.addr + x.len - 1)
<1>1. x.addr \in Nat /\ x.len \in Nat /\ EarlySize <= x.addr
  BY Zenon, RangeFacts
<1>2. ASSUME NEW y \in Ranges, y.addr = b, m <= y.len
      PROVE  b + i \notin x.addr..(x.addr + x.len - 1)
  <2>1. ~Overlap(y, x) /\ y.len \in Nat
    BY <1>2, RangeFacts, Zenon DEF Sources
  <2> QED BY <1>1, <1>2, <2>1 DEF Overlap
<1> QED BY <1>1, <1>2, AreaFacts, Bases

\* What routed_free gives back is the range at the address, and no other: every
\* other area stays, with its bytes.
LEMMA Freed ==
  ASSUME RoutingAssumption, Sources, NEW a \in Nat, NEW n \in Nat, Area(a, n),
         RoutedFree(a), UNCHANGED <<state, hasArena, offset>>
  PROVE  /\ Sources' /\ Ranges' = {y \in Ranges : y.addr # a}
         /\ \A b, m \in Nat : Area(b, m) /\ b # a =>
              Area(b, m)' /\ \A i \in 0..(m - 1) : mem'[b + i] = mem[b + i]
<1> USE Bases
<1>1. /\ libc' = IF ~IsEarly(a) /\ ~ArenaOwns(a) THEN {x \in libc : x.addr # a} ELSE libc
      /\ arena' = IF ~IsEarly(a) /\ ArenaOwns(a) THEN {x \in arena : x.addr # a} ELSE arena
      /\ mem' = Released((libc \ libc') \union (arena \ arena'))
  BY Zenon DEF RoutedFree
<1>2. ASSUME NEW y \in Ranges, y.addr = a
      PROVE  /\ ~IsEarly(a)
             /\ y \in libc => ~ArenaOwns(a) /\ y \notin arena
             /\ y \in arena => ArenaOwns(a) /\ y \notin libc
  BY <1>2, RangeFacts DEF IsEarly, ArenaOwns
<1>3. Ranges' = {y \in Ranges : y.addr # a}
  BY <1>1, <1>2, Zenon DEF Ranges
<1>4. Sources'
  <2>1. libc' \subseteq libc /\ arena' \subseteq arena /\ Ranges' \subseteq Ranges
    BY Zenon, <1>1, <1>3
  <2> QED BY <2>1, Zenon DEF Sources, RangeTypes, Ready
<1>5. ASSUME NEW b \in Nat, NEW m \in Nat, Area(b, m), b # a, NEW i \in 0..(m - 1)
      PROVE  mem'[b + i] = mem[b + i]
  <2>1. b + i \in Address
    BY <1>5, AreaFacts DEF Address
  <2>2. \A x \in Ranges : x.addr = a => b + i \notin x.addr..(x.addr + x.len - 1)
    BY <1>5, Away, Zenon
  <2> QED BY <1>1, <2>1, <2>2, Zenon DEF Released, Ranges
<1>6. ASSUME NEW b \in Nat, NEW m \in Nat, Area(b, m), b # a PROVE Area(b, m)'
  BY <1>3, <1>6, Zenon DEF Area
<1> QED BY Zenon, <1>3, <1>4, <1>5, <1>6

\* What realloc takes for the old size is at least what was asked for, and all
\* of it can be read.
LEMMA OldSizeFacts ==
  ASSUME RoutingAssumption, Sources, NEW a \in Nat, NEW n \in Nat, Area(a, n)
  PROVE  OldSize(a) \in Nat /\ n <= OldSize(a) /\ a + OldSize(a) <= ArenaBase + ArenaSize
<1> USE Bases
<1>1. CASE a < EarlySize
  <2>1. OldSize(a) = EarlySize - a
    BY <1>1, Zenon DEF OldSize, IsEarly
  <2> QED BY <1>1, <2>1, AreaFacts
<1>2. ASSUME NEW y \in Ranges, y.addr = a, n <= y.len PROVE OldSize(a) = y.len
  <2>1. ~IsEarly(a) /\ \A z \in Ranges : z.addr = a => z = y
    BY <1>2, RangeFacts, OneRange DEF IsEarly
  <2>2. CASE y \in arena /\ ArenaOwns(a)
    <3>1. (CHOOSE z \in arena : z.addr = a) = y
      BY <1>2, <2>1, <2>2, Zenon DEF Ranges
    <3> QED BY <2>1, <2>2, <3>1, Zenon DEF OldSize
  <2>3. CASE y \in libc /\ ~ArenaOwns(a)
    <3>1. (CHOOSE z \in libc : z.addr = a) = y
      BY <1>2, <2>1, <2>3, Zenon DEF Ranges
    <3> QED BY <2>1, <2>3, <3>1, Zenon DEF OldSize
  <2> QED BY <1>2, <2>2, <2>3, RangeFacts DEF ArenaOwns
<1> QED BY <1>1, <1>2, AreaFacts, RangeFacts

-----------------------------------------------------------------------------
\* A realloc under way, from the allocation it began with to the one it returns
Old(t) ==
  [addr |-> move[t].old, size |-> move[t].valid,
   valid |-> IF pc[t] = "copy" THEN move[t].valid ELSE 0, stamp |-> move[t].stamp]

New(t) ==
  [addr |-> move[t].new, size |-> move[t].size,
   valid |-> IF pc[t] = "free" THEN move[t].valid ELSE 0, stamp |-> move[t].stamp]

\* It keeps no more bytes than both have.
Moving(t) ==
  /\ move[t] \in [old : Address, new : Address, size : Nat, keep : Nat, valid : Nat, stamp : Stamp]
  /\ move[t].valid <= move[t].keep /\ move[t].keep <= move[t].size
  /\ move[t].old + move[t].keep <= ArenaBase + ArenaSize
  /\ UsesCxl(move[t].size) => move[t].new >= ArenaBase
  /\ Ready

\* All that is held: the allocations in use, and both sides of each realloc
Olds == {Old(t) : t \in InFlight}
News == {New(t) : t \in InFlight}
Pieces == live \union Olds \union News

\* A piece has an area, and the bytes that are relied on are in it.
Fits(p) ==
  /\ p \in Allocation /\ p.valid <= p.size /\ Area(p.addr, p.size)
  /\ \A i \in 0..(p.valid - 1) : mem[p.addr + i] = p.stamp

Apart(p, q) ==
  p.addr # q.addr /\ (p.addr + p.size <= q.addr \/ q.addr + q.size <= p.addr)

Laid ==
  /\ \A p \in Pieces : Fits(p)
  /\ \A p, q \in Pieces : p # q => Apart(p, q)
  /\ \A y \in Ranges : \E p \in Pieces : p.addr = y.addr

\* No two of those who hold a piece hold it at one address.
Single ==
  \A t \in InFlight :
    /\ \A x \in live : x.addr # move[t].old /\ x.addr # move[t].new
    /\ \A u \in InFlight :
         /\ move[t].old # move[u].new
         /\ t # u => move[t].old # move[u].old /\ move[t].new # move[u].new

RoutingInv ==
  /\ TypeOK /\ Sources /\ DOMAIN move = Thread /\ \A t \in InFlight : Moving(t)
  /\ Laid /\ Single

\* The numbers of a piece
LEMMA PieceFacts ==
  ASSUME RoutingAssumption, Sources, NEW p, Fits(p)
  PROVE  /\ p.addr \in Nat /\ p.size \in Nat /\ p.valid \in Nat /\ p.stamp \in Stamp
         /\ p.valid <= p.size /\ Area(p.addr, p.size)
         /\ \A i \in 0..(p.size - 1) : p.addr + i \in Address
<1>1. /\ p.addr \in Nat /\ p.size \in Nat /\ p.valid \in Nat /\ p.stamp \in Stamp
      /\ p.valid <= p.size /\ Area(p.addr, p.size)
  BY Bases DEF Fits, Allocation, Address
<1> QED BY <1>1, AreaFacts, Bases DEF Address

\* A piece keeps its area and its bytes.
Kept(p) ==
  /\ Area(p.addr, p.size)'
  /\ \A i \in 0..(p.valid - 1) : mem'[p.addr + i] = mem[p.addr + i]

\* Pieces in place of others
LEMMA Relaid ==
  ASSUME Laid, NEW gone, NEW come, Pieces' = (Pieces \ gone) \union come,
         \A p \in Pieces \ gone : Kept(p),
         \A p \in come : Fits(p)' /\ \A q \in (Pieces \ gone) \union come : p # q => Apart(p, q),
         \A y \in Ranges' : \E p \in Pieces' : p.addr = y.addr
  PROVE  Laid'
<1>1. ASSUME NEW p \in Pieces \ gone PROVE Fits(p)'
  BY DEF Laid, Fits, Kept
<1>2. ASSUME NEW p \in Pieces', NEW q \in Pieces', p # q PROVE Apart(p, q)
  BY <1>2, Zenon DEF Laid, Apart
<1> QED BY <1>1, <1>2, Zenon DEF Laid

\* Who holds a piece, and where
LEMMA Holders ==
  ASSUME RoutingInv
  PROVE  /\ \A p \in Pieces : \/ p \in live
                              \/ \E t \in InFlight : p.addr = move[t].old \/ p.addr = move[t].new
         /\ \A x \in live : x \in Pieces /\ x \notin Olds /\ x \notin News
         /\ \A t \in InFlight :
              /\ Old(t) \in Pieces /\ Old(t).addr = move[t].old /\ Old(t).size = move[t].valid
              /\ New(t) \in Pieces /\ New(t).addr = move[t].new /\ New(t).size = move[t].size
              /\ Old(t) # New(t)
              /\ \A x \in live : x # Old(t) /\ x # New(t)
<1>1. ASSUME NEW t \in InFlight
      PROVE  /\ Old(t).addr = move[t].old /\ Old(t).size = move[t].valid
             /\ New(t).addr = move[t].new /\ New(t).size = move[t].size
  BY Zenon DEF Old, New
<1>2. \A t \in InFlight : Old(t) # New(t) /\ \A x \in live : x # Old(t) /\ x # New(t)
  BY <1>1 DEF RoutingInv, Single
<1> QED BY <1>1, <1>2 DEF Pieces, Olds, News

\* A realloc under way, in a step that is not its own
LEMMA SameMove ==
  ASSUME NEW u, move'[u] = move[u], pc'[u] = pc[u], state' = state
  PROVE  Old(u)' = Old(u) /\ New(u)' = New(u) /\ (Moving(u)' <=> Moving(u))
BY Zenon DEF Old, New, Moving, Ready

\* All reallocs under way, in a step that is none of theirs
LEMMA SameMoves ==
  ASSUME RoutingInv, UNCHANGED <<state, pc, move>>
  PROVE  /\ InFlight' = InFlight /\ DOMAIN move' = Thread
         /\ pc' \in [Thread -> {"idle", "copy", "free"}]
         /\ \A u \in InFlight : Moving(u)'
         /\ Olds' = Olds /\ News' = News
<1>1. /\ InFlight' = InFlight /\ DOMAIN move' = Thread
      /\ pc' \in [Thread -> {"idle", "copy", "free"}]
      /\ \A u \in InFlight : Old(u)' = Old(u) /\ New(u)' = New(u) /\ Moving(u)'
  BY SameMove, Zenon DEF RoutingInv, TypeOK, InFlight
<1> QED BY <1>1, Zenon DEF Olds, News

\* A move in flight stays the only holder of its ranges, where nothing new takes
\* their addresses.
LEMMA StillSingle ==
  ASSUME RoutingInv, UNCHANGED <<pc, move>>,
         \A z \in live' \ live : \A u \in InFlight : z.addr # Old(u).addr /\ z.addr # New(u).addr
  PROVE  Single'
<1>1. InFlight' = InFlight /\ Single
  BY Zenon DEF InFlight, RoutingInv
<1>2. \A z \in live' : \A u \in InFlight : z.addr # move[u].old /\ z.addr # move[u].new
  BY <1>1, Holders DEF Single
<1> QED BY <1>1, <1>2 DEF Single

\* What is left to show of a step
LEMMA Assembles ==
  ASSUME TypeOK, Sources', Laid', Single', DOMAIN move' = Thread, UNCHANGED <<state, hasArena>>,
         mem' \in [Address -> Stamp \union {Junk}], pc' \in [Thread -> {"idle", "copy", "free"}],
         \A u \in InFlight' : Moving(u)'
  PROVE  RoutingInv'
<1>1. live' \subseteq Allocation
  BY Zenon DEF Laid, Pieces, Fits
<1> QED BY <1>1, Zenon DEF RoutingInv, TypeOK, Sources, RangeTypes

\* A step that changes nothing
LEMMA Stutters ==
  ASSUME RoutingInv, UNCHANGED vars
  PROVE  RoutingInv'
<1>1. /\ Ranges' = Ranges /\ InFlight' = InFlight /\ live' = live /\ DOMAIN move' = Thread
      /\ Olds' = Olds /\ News' = News /\ \A u \in InFlight : Moving(u)'
      /\ \A b, m : Area(b, m)' <=> Area(b, m)
  BY SameMoves, Zenon DEF vars, Ranges, Area
<1>2. Pieces' = Pieces /\ TypeOK'
  BY <1>1, Zenon DEF RoutingInv, Pieces, TypeOK, vars
<1>3. Sources' /\ Laid' /\ Single'
  BY <1>1, <1>2, StillSingle, Zenon DEF vars, RoutingInv, Sources, RangeTypes, Ready, Laid, Fits
<1> QED BY <1>1, <1>2, <1>3, Zenon DEF RoutingInv

\* The constructor, before which nothing is moved
LEMMA ConstructInv ==
  ASSUME RoutingInv, Construct
  PROVE  RoutingInv' /\ NoSpillStep
<1>1. /\ UNCHANGED <<offset, libc, arena, mem, live, pc, move>> /\ ~Ready
      /\ state' \in {"early", "ready", "failed"} /\ hasArena' \in BOOLEAN
      /\ libc = {} /\ arena = {} /\ InFlight = {}
      /\ ~Ready' => ~hasArena'
  BY DEF Construct, RoutingInv, Sources, Moving, Ready, TypeOK
<1>2. /\ Ranges' = Ranges /\ InFlight' = {} /\ Pieces' = Pieces /\ Pieces = live
      /\ TypeOK' /\ Single'
  BY <1>1 DEF RoutingInv, Ranges, InFlight, Pieces, Olds, News, TypeOK, Single
<1>3. Sources' /\ Laid' /\ NoSpillStep
  BY <1>1, <1>2, Zenon DEF RoutingInv, Sources, RangeTypes, Laid, Fits, Area, NoSpillStep
<1> QED BY <1>1, <1>2, <1>3, Zenon DEF RoutingInv

\* An allocation of any kind: what the application gets is apart from all that is
\* held, and all its bytes are what they are relied on to be.
LEMMA Allocates ==
  ASSUME RoutingAssumption, RoutingInv, NEW size \in Nat, NEW align, NEW s \in Stamp,
         NEW a \in Address \union {Null}, Obtain(size, align, a),
         mem' = IF a = Null THEN mem ELSE Filled(a, size, s),
         live' = IF a = Null THEN live ELSE
           live \union {[addr |-> a, size |-> size, valid |-> size, stamp |-> s]},
         UNCHANGED <<state, hasArena, pc, move>>
  PROVE  RoutingInv' /\ NoSpillStep
<1> USE Bases
<1>1. CASE a = Null
  <2>1. UNCHANGED vars
    BY <1>1, ObtainedNone, Zenon DEF RoutingInv, vars
  <2> QED BY <2>1, Stutters, Zenon DEF NoSpillStep, vars
<1>2. CASE a \in Nat /\ a # Null
  <2>1. PICK z, gone : z = [addr |-> a, size |-> size, valid |-> size, stamp |-> s] /\ gone = {}
    BY Zenon
  <2>2. /\ z \in Allocation /\ z.addr = a /\ z.size = size /\ z.valid = size /\ z.stamp = s
        /\ live' = live \union {z} /\ mem' = Filled(a, size, s)
    BY <1>2, <2>1, Zenon DEF Allocation
  <2>3. Handed(size, a) /\ Sources
    BY <1>2, Obtained, Zenon DEF RoutingInv
  <2>4. Pieces' = (Pieces \ gone) \union {z}
    BY <2>1, <2>2, SameMoves, Zenon DEF Pieces
  <2>5. ASSUME NEW p \in Pieces PROVE Kept(p) /\ Apart(z, p)
    <3>1. /\ p.addr \in Nat /\ p.size \in Nat /\ p.valid \in Nat /\ p.valid <= p.size
          /\ Area(p.addr, p.size) /\ \A i \in 0..(p.size - 1) : p.addr + i \in Address
      BY <2>3, PieceFacts, Zenon DEF RoutingInv, Laid
    <3>2. Area(p.addr, p.size)' /\ a # p.addr /\ (a + size <= p.addr \/ p.addr + p.size <= a)
      BY <2>3, <3>1, Zenon DEF Handed
    <3> QED BY <1>2, <2>2, <3>1, <3>2 DEF Kept, Apart, Filled
  <2>6. Fits(z)'
    <3>1. \A i \in 0..(size - 1) : a + i \in Address
      BY <1>2, <2>3 DEF Handed, Address
    <3> QED BY <1>2, <2>2, <2>3, <3>1 DEF Fits, Handed, Filled
  <2>7. \A y \in Ranges' : \E p \in Pieces' : p.addr = y.addr
    BY <2>1, <2>2, <2>3, <2>4, Zenon DEF Handed, RoutingInv, Laid
  <2>8. Laid'
    <3>1. PICK come : come = {z}
      BY Zenon
    <3>2. \A r \in come : Fits(r)' /\ \A w \in (Pieces \ gone) \union come : r # w => Apart(r, w)
      BY <2>1, <2>5, <2>6, <3>1
    <3> QED BY <2>1, <2>3, <2>4, <2>5, <2>7, <3>1, <3>2, Relaid, Zenon DEF RoutingInv
  <2>9. Single'
    BY <2>2, <2>5, Holders, StillSingle, Zenon DEF Apart
  <2>10. mem' \in [Address -> Stamp \union {Junk}] /\ TypeOK
    BY <2>2, Zenon DEF RoutingInv, TypeOK, Filled
  <2>11. NoSpillStep /\ Sources'
    BY <2>2, <2>3, Zenon DEF Handed, NoSpillStep
  <2> QED BY Zenon, <2>8, <2>9, <2>10, <2>11, SameMoves, Assembles
<1> QED BY <1>1, <1>2 DEF Address, Null

\* A piece that is given back: the others stay.
LEMMA GivesBack ==
  ASSUME RoutingAssumption, RoutingInv, NEW p \in Pieces, Pieces' = Pieces \ {p},
         RoutedFree(p.addr) \/ (~Ready /\ UNCHANGED <<libc, arena, mem>>),
         UNCHANGED <<state, hasArena, offset>>
  PROVE  Sources' /\ Laid' /\ mem' \in [Address -> Stamp \union {Junk}]
<1>1. Sources /\ Laid
  BY Zenon DEF RoutingInv
<1>2. \A q \in Pieces : /\ q.addr \in Nat /\ q.size \in Nat /\ q.valid \in Nat
                        /\ q.valid <= q.size /\ Area(q.addr, q.size)
                        /\ q # p => q.addr # p.addr
  BY <1>1, PieceFacts, Zenon DEF Laid, Apart
<1>3. /\ Sources' /\ Ranges' = {y \in Ranges : y.addr # p.addr}
      /\ \A q \in Pieces \ {p} : Kept(q)
  <2>1. CASE RoutedFree(p.addr)
    <3>1. /\ Sources' /\ Ranges' = {y \in Ranges : y.addr # p.addr}
          /\ \A b, m \in Nat : Area(b, m) /\ b # p.addr =>
               Area(b, m)' /\ \A i \in 0..(m - 1) : mem'[b + i] = mem[b + i]
      BY Zenon, <1>1, <1>2, <2>1, Freed
    <3> QED BY <1>2, <3>1 DEF Kept
  <2>2. CASE ~Ready /\ UNCHANGED <<libc, arena, mem>>
    BY <1>1, <1>2, <2>2, Zenon DEF Sources, RangeTypes, Ranges, Ready, Kept, Area
  <2> QED BY Zenon, <2>1, <2>2
<1>4. Laid'
  <2>1. PICK gone, come : gone = {p} /\ come = {}
    BY Zenon
  <2> QED BY <1>1, <1>3, <2>1, Relaid DEF Laid
<1>5. mem' \in [Address -> Stamp \union {Junk}]
  BY Zenon DEF RoutedFree, Released, RoutingInv, TypeOK
<1> QED BY Zenon, <1>3, <1>4, <1>5

\* free
LEMMA FreeInv ==
  ASSUME RoutingAssumption, RoutingInv, NEW t \in Thread, NEW x \in live, Free(t, x)
  PROVE  RoutingInv' /\ NoSpillStep
<1>1. /\ live' = live \ {x} /\ UNCHANGED <<state, hasArena, offset, pc, move>>
      /\ RoutedFree(x.addr) \/ (~Ready /\ UNCHANGED <<libc, arena, mem>>)
  BY Zenon DEF Free
<1>2. x \in Pieces /\ x \notin Olds /\ x \notin News
  BY Zenon, Holders
<1>3. Pieces' = Pieces \ {x}
  BY <1>1, <1>2, SameMoves, Zenon DEF Pieces
<1>4. Sources' /\ Laid' /\ mem' \in [Address -> Stamp \union {Junk}]
  BY Zenon, <1>1, <1>2, <1>3, GivesBack
<1>5. TypeOK /\ NoSpillStep /\ Single'
  BY <1>1, StillSingle, Zenon DEF NoSpillStep, RoutingInv
<1> QED BY Zenon, <1>1, <1>4, <1>5, SameMoves, Assembles

\* The end of a realloc that moves: the old allocation is freed, and the new one,
\* which has its bytes, is the application's.
LEMMA FreeOldInv ==
  ASSUME RoutingAssumption, RoutingInv, NEW t \in Thread, FreeOld(t)
  PROVE  RoutingInv' /\ NoSpillStep
<1>1. /\ pc[t] = "free" /\ RoutedFree(move[t].old) /\ UNCHANGED <<state, hasArena, offset>>
      /\ pc' = [pc EXCEPT ![t] = "idle"] /\ move' = [move EXCEPT ![t] = NoMove]
      /\ live' = live \union {New(t)}
  BY Zenon DEF FreeOld, New
<1>2. t \in InFlight /\ InFlight' = InFlight \ {t} /\ Moving(t)
  BY <1>1, Zenon DEF InFlight, RoutingInv, TypeOK
<1>3. PICK o, z : o = Old(t) /\ z = New(t)
  BY Zenon
<1>4. /\ o \in Pieces /\ o.addr = move[t].old /\ z \in Pieces /\ z.addr = move[t].new
      /\ z.size = move[t].size /\ z # o
  BY Zenon, <1>2, <1>3, Holders
<1>5. /\ \A u \in InFlight' : Old(u)' = Old(u) /\ New(u)' = New(u) /\ Moving(u)' /\ move'[u] = move[u]
      /\ DOMAIN move' = Thread /\ pc' \in [Thread -> {"idle", "copy", "free"}] /\ TypeOK /\ Single
  <2>1. \A u \in InFlight' : u # t /\ move'[u] = move[u] /\ pc'[u] = pc[u]
    BY <1>1, <1>2
  <2> QED BY <1>1, <1>2, <2>1, SameMove, Zenon DEF RoutingInv, TypeOK
<1>6. Pieces' = Pieces \ {o}
  <2>1. \A u \in InFlight' : Old(u) # o /\ New(u) # o
    BY <1>2, <1>4, <1>5, Holders DEF Single
  <2>2. Olds' = Olds \ {o} /\ News' \subseteq News /\ News \subseteq News' \union {z} /\ o \notin News
    BY <1>2, <1>3, <1>4, <1>5, <2>1, Zenon DEF Olds, News
  <2>3. o \notin live
    BY Zenon, <1>2, <1>3, Holders
  <2> QED BY <1>1, <1>3, <1>4, <2>2, <2>3, Zenon DEF Pieces
<1>7. Sources' /\ Laid' /\ mem' \in [Address -> Stamp \union {Junk}]
  BY Zenon, <1>1, <1>4, <1>6, GivesBack
<1>8. Single'
  BY <1>1, <1>2, <1>3, <1>4, <1>5 DEF Single
<1>9. NoSpillStep
  BY <1>1, <1>2, <1>3, <1>4, Zenon DEF NoSpillStep, Moving
<1> QED BY Zenon, <1>1, <1>5, <1>7, <1>8, <1>9, Assembles

-----------------------------------------------------------------------------
\* A realloc that moves copies no byte to where another piece is.
LEMMA CopyInv ==
  ASSUME RoutingAssumption, RoutingInv, NEW t \in Thread, Copy(t)
  PROVE  RoutingInv' /\ NoSpillStep
<1>1. PICK m, o, n : m = move[t] /\ o = Old(t) /\ n = New(t)
  BY Zenon
<1>2. /\ pc[t] = "copy" /\ pc' = [pc EXCEPT ![t] = "free"]
      /\ UNCHANGED <<state, hasArena, offset, libc, arena, live, move>>
      /\ t \in InFlight /\ InFlight' = InFlight /\ Moving(t) /\ Sources /\ Laid
  BY Zenon DEF Copy, InFlight, RoutingInv, TypeOK
<1>3. mem' = [b \in Address |-> IF b \in m.new..(m.new + m.keep - 1)
                                  THEN mem[m.old + (b - m.new)] ELSE mem[b]]
  BY <1>1, Zenon DEF Copy
<1>4. /\ m.old \in Nat /\ m.new \in Nat /\ m.size \in Nat /\ m.keep \in Nat /\ m.valid \in Nat
      /\ m.valid <= m.keep /\ m.keep <= m.size /\ m.old + m.keep <= ArenaBase + ArenaSize
  BY <1>1, <1>2, Bases DEF Moving, Address
<1>5. PICK p, q : /\ p = [addr |-> m.old, size |-> m.valid, valid |-> 0, stamp |-> m.stamp]
                  /\ q = [addr |-> m.new, size |-> m.size, valid |-> m.valid, stamp |-> m.stamp]
  BY Zenon
<1>6. PICK gone, come : gone = {o, n} /\ come = {p, q}
  BY Zenon
<1>7. /\ o \in Pieces /\ o.addr = m.old /\ o.size = m.valid
      /\ n \in Pieces /\ n.addr = m.new /\ n.size = m.size /\ Apart(o, n) /\ Fits(o) /\ Fits(n)
  BY <1>1, <1>2, Holders, Zenon DEF Laid
<1>8. /\ p \in Allocation /\ p.addr = m.old /\ p.size = m.valid /\ p.valid = 0
      /\ q \in Allocation /\ q.addr = m.new /\ q.size = m.size /\ q.valid = m.valid /\ q.stamp = m.stamp
  BY <1>1, <1>2, <1>5, Zenon DEF Moving, Allocation
<1>9. Pieces' = (Pieces \ gone) \union come
  <2>1. Old(t)' = p /\ New(t)' = q
    BY <1>1, <1>2, <1>5, Zenon DEF Old, New, RoutingInv, TypeOK
  <2>2. \A u \in InFlight : u # t => Old(u)' = Old(u) /\ New(u)' = New(u)
    BY <1>2, SameMove
  <2>3. ASSUME NEW u \in InFlight, u # t
        PROVE  /\ Old(u).addr # m.old /\ Old(u).addr # m.new
               /\ New(u).addr # m.old /\ New(u).addr # m.new
    <3>1. Single
      BY Zenon DEF RoutingInv
    <3> QED BY <1>1, <1>2, <2>3, <3>1, Holders DEF Single
  <2>4. Olds' = (Olds \ gone) \union {p}
    BY <1>1, <1>2, <1>6, <1>7, <2>1, <2>2, <2>3 DEF Olds
  <2>5. News' = (News \ gone) \union {q}
    BY <1>1, <1>2, <1>6, <1>7, <2>1, <2>2, <2>3 DEF News
  <2>6. live \ gone = live
    BY Zenon, <1>1, <1>2, <1>6, Holders
  <2> QED BY <1>2, <1>6, <2>4, <2>5, <2>6, Zenon DEF Pieces
<1>10. Ranges' = Ranges /\ Sources' /\ \A b, k : Area(b, k)' <=> Area(b, k)
  BY <1>2, Zenon DEF Ranges, Sources, RangeTypes, Ready, Area
<1>11. ASSUME NEW r \in Pieces \ gone PROVE Kept(r) /\ Apart(p, r) /\ Apart(q, r)
  <2>1. /\ r.addr \in Nat /\ r.size \in Nat /\ r.valid \in Nat /\ r.valid <= r.size
        /\ Area(r.addr, r.size) /\ \A i \in 0..(r.size - 1) : r.addr + i \in Address
    BY <1>2, PieceFacts, Zenon DEF Laid
  <2>2. Apart(o, r) /\ Apart(n, r)
    BY <1>2, <1>6, <1>7, Zenon DEF Laid
  <2>3. \A i \in 0..(r.valid - 1) : r.addr + i \in Address /\ r.addr + i \notin m.new..(m.new + m.keep - 1)
    BY <1>4, <1>7, <2>1, <2>2 DEF Apart
  <2>4. Kept(r)
    BY <1>3, <1>10, <2>1, <2>3, Zenon DEF Kept
  <2> QED BY <1>7, <1>8, <2>2, <2>4, Zenon DEF Apart
<1>12. Fits(p)' /\ Fits(q)'
  <2>1. \A i \in 0..(m.size - 1) : m.new + i \in Address
    BY Zenon, <1>2, <1>7, PieceFacts
  <2>2. ASSUME NEW i \in 0..(m.valid - 1) PROVE mem'[m.new + i] = m.stamp
    <3>1. /\ m.new + i \in Address /\ m.new + i \in m.new..(m.new + m.keep - 1)
          /\ m.old + ((m.new + i) - m.new) = m.old + i
      BY <1>4, <2>1
    <3>2. mem[m.old + i] = m.stamp
      <4>1. o.valid = m.valid /\ o.stamp = m.stamp
        BY <1>1, <1>2, Zenon DEF Old
      <4> QED BY <1>7, <4>1, Zenon DEF Fits
    <3> QED BY <1>3, <3>1, <3>2, Zenon
  <2>3. Area(m.old, m.valid) /\ Area(m.new, m.size)
    BY <1>7, Zenon DEF Fits
  <2>4. Fits(p)'
    BY <1>4, <1>8, <1>10, <2>3 DEF Fits
  <2>5. Fits(q)'
    BY <1>4, <1>8, <1>10, <2>2, <2>3 DEF Fits
  <2> QED BY Zenon, <2>4, <2>5
<1>13. Laid'
  <2>1. Apart(p, q) /\ Apart(q, p)
    BY <1>7, <1>8, Zenon DEF Apart
  <2>2. \A r \in come : Fits(r)' /\ \A w \in (Pieces \ gone) \union come : r # w => Apart(r, w)
    BY <1>6, <1>11, <1>12, <2>1, ZenonT(30)
  <2>3. \A y \in Ranges' : \E r \in Pieces' : r.addr = y.addr
    BY <1>2, <1>6, <1>7, <1>8, <1>9, <1>10 DEF Laid
  <2> QED BY <1>2, <1>9, <1>11, <2>2, <2>3, Relaid, Zenon
<1>14. mem' \in [Address -> Stamp \union {Junk}]
  <2>1. ASSUME NEW b \in Address, b \in m.new..(m.new + m.keep - 1)
        PROVE  m.old + (b - m.new) \in Address
    BY <1>4, <2>1, Bases DEF Address
  <2> QED BY <1>3, <2>1, Zenon DEF RoutingInv, TypeOK
<1>15. /\ TypeOK /\ DOMAIN move' = Thread /\ Single' /\ NoSpillStep
       /\ pc' \in [Thread -> {"idle", "copy", "free"}]
  BY <1>2 DEF RoutingInv, TypeOK, Single, NoSpillStep
<1>16. \A u \in InFlight' : Moving(u)'
  BY <1>2, Zenon DEF RoutingInv, Moving, Ready
<1> QED BY Zenon, <1>2, <1>10, <1>13, <1>14, <1>15, <1>16, Assembles

\* routed_realloc has the new memory, and has yet to copy.
Begins(t, x, size, a) ==
  /\ live' = live \ {x} /\ pc' = [pc EXCEPT ![t] = "copy"]
  /\ move' = [move EXCEPT ![t] =
       [old |-> x.addr, new |-> a, size |-> size, keep |-> Lesser(OldSize(x.addr), size),
        valid |-> Lesser(x.valid, size), stamp |-> x.stamp]]
  /\ UNCHANGED <<state, hasArena, offset, mem>>

\* A realloc that moves begins: the new memory is apart from all that is held, and
\* it will copy no more bytes than there are on either side.
LEMMA MoveInv ==
  ASSUME RoutingAssumption, RoutingInv, NEW t \in Thread, NEW x \in live, NEW size \in Nat,
         NEW a \in Nat, a \in Address, pc[t] = "idle", Ready, Routed(size, 1, a),
         Begins(t, x, size, a)
  PROVE  RoutingInv' /\ NoSpillStep
<1>1. /\ Sources /\ Laid /\ x \in Pieces /\ Fits(x) /\ x \in Allocation
      /\ live' = live \ {x} /\ UNCHANGED <<state, hasArena, offset, mem>>
  BY Holders, Zenon DEF RoutingInv, Laid, TypeOK, Begins
<1>2. /\ x.addr \in Nat /\ x.size \in Nat /\ x.valid \in Nat /\ x.valid <= x.size /\ x.stamp \in Stamp
      /\ Area(x.addr, x.size) /\ x.addr \in Address
  BY <1>1, PieceFacts, Zenon DEF Allocation
<1>3. PICK b, valid, keep : /\ b = x.addr /\ valid = Lesser(x.valid, size)
                            /\ keep = Lesser(OldSize(x.addr), size)
  BY Zenon
<1>4. /\ valid \in Nat /\ valid <= x.valid /\ valid <= size /\ valid <= x.size
      /\ keep \in Nat /\ valid <= keep /\ keep <= size /\ b + keep <= ArenaBase + ArenaSize
  BY <1>1, <1>2, <1>3, OldSizeFacts, Bases DEF Lesser
<1>5. Handed(size, a)
  BY <1>1, Obtained, Zenon DEF Obtain
<1>6. PICK p, q : /\ p = [addr |-> b, size |-> valid, valid |-> valid, stamp |-> x.stamp]
                  /\ q = [addr |-> a, size |-> size, valid |-> 0, stamp |-> x.stamp]
  BY Zenon
<1>7. /\ p \in Allocation /\ p.addr = b /\ p.size = valid /\ p.valid = valid /\ p.stamp = x.stamp
      /\ q \in Allocation /\ q.addr = a /\ q.size = size /\ q.valid = 0
  BY <1>2, <1>3, <1>4, <1>6, Zenon DEF Allocation
<1>8. PICK m, gone, come :
        /\ m = [old |-> b, new |-> a, size |-> size, keep |-> keep, valid |-> valid, stamp |-> x.stamp]
        /\ gone = {x} /\ come = {p, q}
  BY Zenon
<1>9. /\ m.old = b /\ m.new = a /\ m.size = size /\ m.keep = keep /\ m.valid = valid /\ m.stamp = x.stamp
      /\ m \in [old : Address, new : Address, size : Nat, keep : Nat, valid : Nat, stamp : Stamp]
  BY <1>2, <1>3, <1>4, <1>8, Zenon
<1>10. /\ InFlight' = InFlight \union {t} /\ t \notin InFlight /\ move'[t] = m /\ pc'[t] = "copy"
       /\ \A u \in InFlight : u # t /\ move'[u] = move[u] /\ pc'[u] = pc[u]
       /\ DOMAIN move' = Thread /\ pc' \in [Thread -> {"idle", "copy", "free"}]
  BY <1>3, <1>8, Zenon DEF Begins, InFlight, RoutingInv, TypeOK
<1>11. Pieces' = (Pieces \ gone) \union come
  <2>1. Old(t)' = p /\ New(t)' = q
    BY <1>6, <1>9, <1>10, Zenon DEF Old, New
  <2>2. \A u \in InFlight : Old(u)' = Old(u) /\ New(u)' = New(u)
    BY Zenon, <1>1, <1>10, SameMove
  <2>3. Olds' = Olds \union {p} /\ News' = News \union {q}
    BY <1>10, <2>1, <2>2 DEF Olds, News
  <2>4. x \notin Olds /\ x \notin News
    BY Zenon, Holders
  <2> QED BY <1>1, <1>8, <2>3, <2>4, Zenon DEF Pieces
<1>12. ASSUME NEW r \in Pieces \ gone PROVE Kept(r) /\ Apart(p, r) /\ Apart(q, r)
  <2>1. r.addr \in Nat /\ r.size \in Nat /\ Area(r.addr, r.size) /\ Apart(x, r)
    BY <1>1, <1>8, PieceFacts, Zenon DEF Laid
  <2>2. Area(r.addr, r.size)' /\ a # r.addr /\ (a + size <= r.addr \/ r.addr + r.size <= a)
    BY <1>5, <2>1, Zenon DEF Handed
  <2>3. Kept(r)
    BY <1>1, <2>2, Zenon DEF Kept
  <2>4. b # r.addr /\ (b + valid <= r.addr \/ r.addr + r.size <= b)
    BY <1>2, <1>3, <1>4, <2>1 DEF Apart
  <2> QED BY <1>7, <2>2, <2>3, <2>4, Zenon DEF Apart
<1>13. Fits(p)' /\ Fits(q)' /\ Apart(p, q) /\ Apart(q, p)
  <2>1. Area(b, valid)
    BY <1>1, <1>2, <1>3, <1>4, AreaPart
  <2>2. /\ a # b /\ (a + size <= b \/ b + valid <= a) /\ Area(b, valid)' /\ Area(a, size)'
    BY <1>2, <1>3, <1>4, <1>5, <2>1, Zenon DEF Handed
  <2>3. \A i \in 0..(valid - 1) : mem'[b + i] = x.stamp
    BY <1>1, <1>2, <1>3, <1>4 DEF Fits
  <2>4. Fits(p)'
    BY <1>4, <1>7, <2>2, <2>3 DEF Fits
  <2>5. Fits(q)'
    BY <1>7, <2>2 DEF Fits
  <2> QED BY <1>7, <2>2, <2>4, <2>5, Zenon DEF Apart
<1>14. Laid'
  <2>1. \A y \in Ranges' : \E r \in Pieces' : r.addr = y.addr
    BY <1>1, <1>3, <1>5, <1>7, <1>8, <1>11, Zenon DEF Laid, Handed
  <2>2. \A r \in come : Fits(r)' /\ \A w \in (Pieces \ gone) \union come : r # w => Apart(r, w)
    BY <1>8, <1>12, <1>13, ZenonT(30)
  <2> QED BY <1>1, <1>11, <1>12, <2>1, <2>2, Relaid, Zenon
<1>15. Moving(t)'
  BY <1>1, <1>4, <1>5, <1>9, <1>10, Zenon DEF Moving, Handed, Ready
<1>16. Single'
  <2>1. \A u \in InFlight : Old(u) \in Pieces \ gone /\ New(u) \in Pieces \ gone
    BY <1>8, Holders, Zenon
  <2>2. /\ \A u \in InFlight : b # move[u].old /\ b # move[u].new /\ a # move[u].old /\ a # move[u].new
        /\ \A y \in live \ {x} : y.addr # b /\ y.addr # a
    <3>1. ASSUME NEW r \in Pieces \ gone PROVE r.addr # b /\ r.addr # a
      BY <1>7, <1>12, <3>1, Zenon DEF Apart
    <3>2. ASSUME NEW u \in InFlight
          PROVE  b # move[u].old /\ b # move[u].new /\ a # move[u].old /\ a # move[u].new
      <4>1. Old(u).addr = move[u].old /\ New(u).addr = move[u].new
        BY <3>2, Holders, Zenon
      <4>2. Old(u).addr # b /\ Old(u).addr # a /\ New(u).addr # b /\ New(u).addr # a
        BY <2>1, <3>1, <3>2, Zenon
      <4> QED BY <4>1, <4>2, Zenon
    <3>3. live \ {x} \subseteq Pieces \ gone
      BY <1>8, Zenon DEF Pieces
    <3> QED BY <3>1, <3>2, <3>3, Zenon
  <2>3. a # b
    BY <1>7, <1>13, Zenon DEF Apart
  <2>4. Single
    BY Zenon DEF RoutingInv
  <2>5. ASSUME NEW u \in InFlight'
        PROVE  \/ u = t /\ move'[u].old = b /\ move'[u].new = a
               \/ u \in InFlight /\ move'[u].old = move[u].old /\ move'[u].new = move[u].new
    BY <1>9, <1>10, <2>5, Zenon
  <2>6. ASSUME NEW u \in InFlight', NEW v \in InFlight'
        PROVE  /\ move'[u].old # move'[v].new
               /\ u # v => move'[u].old # move'[v].old /\ move'[u].new # move'[v].new
    BY <2>2, <2>3, <2>4, <2>5 DEF Single
  <2>7. ASSUME NEW u \in InFlight', NEW y \in live'
        PROVE  y.addr # move'[u].old /\ y.addr # move'[u].new
    BY <1>1, <2>2, <2>4, <2>5 DEF Single
  <2> QED BY <2>6, <2>7, Zenon DEF Single
<1>17. \A u \in InFlight' : Moving(u)'
  BY <1>1, <1>10, <1>15, SameMove, Zenon DEF RoutingInv
<1>18. /\ TypeOK /\ NoSpillStep /\ Sources' /\ mem' \in [Address -> Stamp \union {Junk}]
  BY <1>1, <1>5, Zenon DEF Handed, NoSpillStep, RoutingInv, TypeOK
<1> QED BY Zenon, <1>1, <1>10, <1>14, <1>16, <1>17, <1>18, Assembles

\* libc has given back the range old of x for the len bytes at a.
Replaces(x, size, keep, old, a, len) ==
  /\ a \in LibcBase..(ArenaBase - len)
  /\ \A y \in libc \ {old} : ~Overlap([addr |-> a, len |-> len], y)
  /\ libc' = (libc \ {old}) \union {[addr |-> a, len |-> len]}
  /\ mem' = [b \in Address |-> IF b \in a..(a + keep - 1) THEN x.stamp ELSE Released({old})[b]]
  /\ live' = (live \ {x}) \union {[addr |-> a, size |-> size, valid |-> keep, stamp |-> x.stamp]}

\* libc reallocates a small allocation of its own: the new range may take the place
\* of the old one and of nothing else, and has the bytes that were kept.
LEMMA ReplacesInv ==
  ASSUME RoutingAssumption, RoutingInv, NEW x \in live, NEW size \in Nat, size > 0, ~UsesCxl(size),
         Ready, NEW keep \in Nat, keep <= size, NEW old \in libc, old.addr = x.addr,
         NEW a \in Address, NEW len \in size..(size + 1), Replaces(x, size, keep, old, a, len),
         UNCHANGED <<state, hasArena, offset, arena, pc, move>>
  PROVE  RoutingInv' /\ NoSpillStep
<1>1. /\ Sources /\ Laid /\ x \in Pieces /\ x \in Allocation /\ x.stamp \in Stamp
      /\ x.addr \in Nat /\ old \in Ranges /\ old \notin arena
  <2>1. /\ Sources /\ Laid /\ x \in Pieces /\ x \in Allocation /\ old \in Ranges
    BY Holders, Zenon DEF RoutingInv, TypeOK, Ranges
  <2> QED BY <2>1, RangeFacts, Zenon DEF Allocation
<1>2. PICK new, z, gone, come, ends :
        /\ new = [addr |-> a, len |-> len]
        /\ z = [addr |-> a, size |-> size, valid |-> keep, stamp |-> x.stamp]
        /\ gone = {x} /\ come = {z} /\ ends = {old}
  BY Zenon
<1>3. /\ new.addr = a /\ new.len = len /\ len \in Nat /\ size <= len /\ len > 0 /\ a \in Nat
      /\ EarlySize <= a /\ a + len <= ArenaBase
      /\ new \in [addr : LibcBase..(ArenaBase - 1), len : 1..LibcSize]
  BY <1>2, Bases DEF Replaces
<1>4. /\ z \in Allocation /\ z.addr = a /\ z.size = size /\ z.valid = keep /\ z.stamp = x.stamp
      /\ live' = (live \ {x}) \union {z} /\ libc' = (libc \ {old}) \union {new}
  BY <1>1, <1>2, Zenon DEF Allocation, Replaces
<1>5. mem' = [b \in Address |-> IF b \in a..(a + keep - 1) THEN x.stamp ELSE Released({old})[b]]
  BY Zenon DEF Replaces
<1>6. ASSUME NEW y \in Ranges \ ends PROVE ~Overlap(new, y)
  <2>1. CASE y \in libc
    BY <1>2, <2>1, Zenon DEF Replaces
  <2>2. CASE y \in arena
    BY <1>1, <1>3, <2>2, RangeFacts, Bases DEF Overlap
  <2> QED BY <2>1, <2>2, Zenon DEF Ranges
<1>7. Ranges' = (Ranges \ ends) \union {new} /\ ends \in SUBSET Ranges
  BY <1>1, <1>2, <1>4, Zenon DEF Ranges
<1>8. /\ \A y, w \in Ranges' : y # w => ~Overlap(y, w)
      /\ Area(new.addr, size)'
      /\ \A b, m \in Nat : Area(b, m) /\ (\A y \in ends : y.addr # b) =>
           Area(b, m)' /\ new.addr # b /\ (new.addr + size <= b \/ b + m <= new.addr)
  BY Zenon, <1>1, <1>3, <1>6, <1>7, NewRange
<1>9. Sources'
  BY <1>1, <1>3, <1>4, <1>8, Zenon DEF Sources, RangeTypes, Ready
<1>10. Pieces' = (Pieces \ gone) \union come
  <2>1. x \notin Olds /\ x \notin News
    BY Zenon, Holders
  <2> QED BY <1>2, <1>4, <2>1, SameMoves, Zenon DEF Pieces
<1>11. ASSUME NEW r \in Pieces \ gone PROVE Kept(r) /\ Apart(z, r)
  <2>1. /\ r.addr \in Nat /\ r.size \in Nat /\ r.valid \in Nat /\ r.valid <= r.size
        /\ Area(r.addr, r.size) /\ \A i \in 0..(r.size - 1) : r.addr + i \in Address
        /\ r.addr # x.addr
    BY <1>1, <1>2, PieceFacts, Zenon DEF Laid, Apart
  <2>2. Area(r.addr, r.size)' /\ a # r.addr /\ (a + size <= r.addr \/ r.addr + r.size <= a)
    BY Zenon, <1>2, <1>3, <1>8, <2>1
  <2>3. \A i \in 0..(r.size - 1) : r.addr + i \notin old.addr..(old.addr + old.len - 1)
    BY Zenon, <1>1, <2>1, Away
  <2>4. \A i \in 0..(r.valid - 1) : i \in 0..(r.size - 1) /\ r.addr + i \notin a..(a + keep - 1)
    BY <1>3, <2>1, <2>2
  <2>5. \A i \in 0..(r.valid - 1) : mem'[r.addr + i] = mem[r.addr + i]
    BY <1>5, <2>1, <2>3, <2>4, Zenon DEF Released
  <2> QED BY <1>4, <2>2, <2>5, Zenon DEF Kept, Apart
<1>12. Fits(z)'
  <2>1. \A i \in 0..(keep - 1) : a + i \in Address /\ a + i \in a..(a + keep - 1)
    BY <1>3, Bases DEF Address
  <2>2. \A i \in 0..(keep - 1) : mem'[a + i] = x.stamp
    BY <1>5, <2>1, Zenon
  <2> QED BY <1>3, <1>4, <1>8, <2>2, Zenon DEF Fits, Area
<1>13. Laid'
  <2>1. \A r \in come : Fits(r)' /\ \A w \in (Pieces \ gone) \union come : r # w => Apart(r, w)
    BY <1>2, <1>11, <1>12, ZenonT(30)
  <2>2. ASSUME NEW y \in Ranges' PROVE \E p \in Pieces' : p.addr = y.addr
    <3>1. CASE y = new
      BY Zenon, <1>2, <1>3, <1>4, <1>10, <3>1
    <3>2. CASE y \in Ranges \ ends
      <4>1. y.addr # x.addr
        BY <1>1, <1>2, <3>2, OneRange, Zenon
      <4> QED BY <1>1, <1>2, <1>10, <3>2, <4>1, Zenon DEF Laid
    <3> QED BY Zenon, <1>7, <3>1, <3>2
  <2> QED BY <1>1, <1>10, <1>11, <2>1, <2>2, Relaid, Zenon
<1>14. Single'
  <2>1. \A u \in InFlight : Old(u) \in Pieces \ gone /\ New(u) \in Pieces \ gone
    BY <1>2, Holders, Zenon
  <2> QED BY <1>4, <1>11, <2>1, StillSingle, Zenon DEF Apart
<1>15. /\ TypeOK /\ NoSpillStep /\ mem' \in [Address -> Stamp \union {Junk}]
  <2>1. Released({old}) \in [Address -> Stamp \union {Junk}] /\ TypeOK
    BY Zenon DEF Released, RoutingInv, TypeOK
  <2> QED BY <1>1, <1>4, <1>5, <2>1, Zenon DEF NoSpillStep
<1> QED BY Zenon, <1>9, <1>13, <1>14, <1>15, SameMoves, Assembles

\* The real realloc serves a small allocation of libc's.
LEMMA RealReallocInv ==
  ASSUME RoutingAssumption, RoutingInv, NEW t \in Thread, NEW x \in live, NEW size \in Nat,
         size > 0, Ready, ~IsEarly(x.addr), ~ArenaOwns(x.addr), ~UsesCxl(size),
         RealRealloc(t, x, size), UNCHANGED <<state, hasArena, offset, arena, pc, move>>
  PROVE  RoutingInv' /\ NoSpillStep
<1> DEFINE o == CHOOSE y \in libc : y.addr = x.addr
           k == Lesser(x.valid, size)
<1>1. Sources /\ Laid /\ x \in Pieces
  BY Holders, Zenon DEF RoutingInv
<1>2. /\ x.addr \in Nat /\ x.size \in Nat /\ x.valid \in Nat
      /\ Area(x.addr, x.size) /\ EarlySize <= x.addr
  BY <1>1, PieceFacts, Bases DEF IsEarly, Laid
<1>3. \E y \in libc : y.addr = x.addr
  <2>1. ~(x.addr < EarlySize)
    BY <1>2, Bases
  <2>2. PICK y \in Ranges : y.addr = x.addr
    BY <1>1, <1>2, <2>1, AreaFacts, Zenon
  <2> QED BY <1>1, <2>2, RangeFacts, Zenon DEF ArenaOwns
<1>4. o \in libc /\ o.addr = x.addr
  BY <1>3, Zenon
<1>5. k \in Nat /\ k <= size
  BY <1>2 DEF Lesser
<1>6. \/ UNCHANGED <<libc, mem, live>>
      \/ \E a \in Address, len \in size..(size + 1) : Replaces(x, size, k, o, a, len)
  BY Zenon DEF RealRealloc, Replaces
<1> HIDE DEF o, k
<1>7. CASE UNCHANGED <<libc, mem, live>>
  BY <1>7, Stutters, Zenon DEF NoSpillStep, vars
<1> QED BY Zenon, <1>4, <1>5, <1>6, <1>7, ReplacesInv

\* realloc
LEMMA ReallocInv ==
  ASSUME RoutingAssumption, RoutingInv, NEW t \in Thread, NEW x \in live, NEW size \in Nat,
         Realloc(t, x, size)
  PROVE  RoutingInv' /\ NoSpillStep
<1>1. pc[t] = "idle" /\ size > 0 /\ Ready /\ UNCHANGED <<state, hasArena, offset>>
  BY Zenon DEF Realloc
<1>2. CASE ~IsEarly(x.addr) /\ ~ArenaOwns(x.addr) /\ ~UsesCxl(size)
  BY <1>1, <1>2, RealReallocInv, Zenon DEF Realloc
<1>3. ASSUME NEW a \in Address \union {Null}, Routed(size, 1, a), UNCHANGED mem,
             IF a = Null THEN UNCHANGED <<live, pc, move>>
             ELSE /\ live' = live \ {x} /\ pc' = [pc EXCEPT ![t] = "copy"]
                  /\ move' = [move EXCEPT ![t] =
                       [old |-> x.addr, new |-> a, size |-> size,
                        keep |-> Lesser(OldSize(x.addr), size),
                        valid |-> Lesser(x.valid, size), stamp |-> x.stamp]]
      PROVE  RoutingInv' /\ NoSpillStep
  <2>1. CASE a = Null
    <3>1. Obtain(size, 1, Null)
      BY <1>1, <1>3, <2>1, Zenon DEF Obtain
    <3>2. UNCHANGED vars
      BY <1>1, <1>3, <2>1, <3>1, ObtainedNone, Zenon DEF vars, RoutingInv
    <3> QED BY <3>2, Stutters, Zenon DEF NoSpillStep, vars
  <2>2. CASE a # Null
    BY <1>1, <1>3, <2>2, MoveInv, Bases DEF Address, Begins
  <2> QED BY Zenon, <2>1, <2>2
<1> QED BY <1>2, <1>3, Zenon DEF Realloc

\* malloc and the functions with an alignment, and calloc, which fills what it got
\* with zeroes
LEMMA MallocInv ==
  ASSUME RoutingAssumption, RoutingInv, NEW t \in Thread, NEW size \in Nat,
         Malloc(t, size) \/ \E align : Memalign(t, align, size)
  PROVE  RoutingInv' /\ NoSpillStep
<1>1. PICK align, a : /\ a \in Address \union {Null} /\ Obtain(size, align, a) /\ Use(t, size, a)
                      /\ UNCHANGED <<state, hasArena, pc, move>>
  BY Zenon DEF Malloc, Memalign
<1>2. /\ t \in Stamp
      /\ mem' = IF a = Null THEN mem ELSE Filled(a, size, t)
      /\ live' = IF a = Null THEN live ELSE
           live \union {[addr |-> a, size |-> size, valid |-> size, stamp |-> t]}
  BY <1>1, Zenon DEF Use, Stamp
<1> QED BY Zenon, <1>1, <1>2, Allocates

\* calloc multiplies, obtains and clears.
LEMMA CallocInv ==
  ASSUME RoutingAssumption, RoutingInv, NEW t \in Thread, NEW count \in Nat, NEW n \in Nat,
         Calloc(t, count, n)
  PROVE  RoutingInv' /\ NoSpillStep
<1>1. PICK size : size = count * n
  BY Zenon
<1>2. size \in Nat /\ Zero \in Stamp
  BY <1>1 DEF Stamp
<1>3. PICK a \in Address \union {Null} :
        /\ Obtain(size, 1, a)
        /\ mem' = IF a = Null THEN mem ELSE Filled(a, size, Zero)
        /\ live' = IF a = Null THEN live ELSE
             live \union {[addr |-> a, size |-> size, valid |-> size, stamp |-> Zero]}
  BY <1>1, Zenon DEF Calloc
<1>4. UNCHANGED <<state, hasArena, pc, move>>
  BY Zenon DEF Calloc
<1> QED BY <1>2, <1>3, <1>4, Allocates, Zenon

-----------------------------------------------------------------------------
\* The invariant holds before the constructor.
LEMMA RoutingInit ==
  ASSUME RoutingAssumption, Init
  PROVE  RoutingInv
<1>1. InFlight = {} /\ Ranges = {} /\ DOMAIN move = Thread
  BY Zenon DEF Init, InFlight, Ranges
<1>2. mem \in [Address -> Stamp \union {Junk}] /\ pc \in [Thread -> {"idle", "copy", "free"}]
  BY Zenon DEF Init
<1>3. offset \in 0..EarlySize /\ libc = {} /\ arena = {} /\ live = {}
  BY Bases DEF Init
<1>4. state \in {"early", "ready", "failed"} /\ hasArena \in BOOLEAN
  BY Zenon DEF Init
<1>5. TypeOK /\ Sources
  BY <1>1, <1>2, <1>3, <1>4, Zenon DEF Init, TypeOK, Sources, RangeTypes
<1>6. Pieces = {}
  BY <1>1, <1>3, Zenon DEF Pieces, Olds, News
<1> QED BY <1>1, <1>5, <1>6, Zenon DEF RoutingInv, Laid, Single

\* Every entry point of the library keeps the invariant, and gives
\* nothing from DRAM that belongs into the arena.
LEMMA RoutingNext ==
  ASSUME RoutingAssumption, RoutingInv, [Next]_vars
  PROVE  RoutingInv' /\ [NoSpillStep]_vars
<1>1. Sizes \subseteq Nat /\ Counts \subseteq Nat
  BY DEF RoutingAssumption
<1>2. CASE UNCHANGED vars
  BY Zenon, <1>2, Stutters
<1>3. ASSUME NEW t \in Thread, NEW n \in Nat, NEW align, Memalign(t, align, n)
      PROVE  RoutingInv' /\ NoSpillStep
  BY Zenon, <1>3, MallocInv
<1>4. ASSUME NEW t \in Thread, NEW n \in Sizes,
             \/ Valloc(t, n) \/ Pvalloc(t, n)
             \/ \E a \in Alignments : PosixMemalign(t, a, n) \/ AlignedAlloc(t, a, n)
      PROVE  RoutingInv' /\ NoSpillStep
  <2>1. (n + Page - 1) % Page \in 0..(Page - 1)
    BY <1>1, Bases
  <2>2. RoundUp(n, Page) \in Nat
    BY <1>1, <2>1, Bases DEF RoundUp
  <2> QED BY <1>1, <1>3, <1>4, <2>2, Zenon DEF Valloc, Pvalloc, PosixMemalign, AlignedAlloc
<1> QED BY Zenon, <1>1, <1>2, <1>4, ConstructInv, CopyInv, FreeOldInv, FreeInv, ReallocInv, MallocInv,
           CallocInv DEF Next

\* The invariant says that every pointer leads back.
LEMMA RoutingBack ==
  ASSUME RoutingAssumption, RoutingInv
  PROVE  RoutedBack
<1>1. TypeOK /\ Sources /\ Laid
  BY Zenon DEF RoutingInv
<1>2. BytesIntact
  BY <1>1, Holders, Zenon DEF BytesIntact, Laid, Fits
<1>3. \A a : a \in Held <=> \E p \in Pieces : p.addr = a
  BY Holders DEF Held
<1>4. ASSUME NEW y \in Ranges PROVE y.addr \in Held /\ ~IsEarly(y.addr)
  BY <1>1, <1>3, RangeFacts, Bases DEF Laid, IsEarly
<1>5. ASSUME NEW a \in Held, ~IsEarly(a) PROVE \E y \in Ranges : y.addr = a
  <2>1. PICK p \in Pieces : p.addr = a
    BY Zenon, <1>3
  <2>2. p.addr \in Nat /\ p.size \in Nat /\ Area(p.addr, p.size)
    BY <1>1, PieceFacts, Zenon DEF Laid
  <2> QED BY <1>1, <1>5, <2>1, <2>2, AreaFacts, Bases, Zenon DEF IsEarly
<1>6. RightAllocator
  BY <1>4, <1>5, Zenon DEF RightAllocator, Ranges
<1> QED BY <1>1, <1>2, <1>6, Zenon DEF RoutedBack

\* For every size of the early buffer, of libc and of the arena, every threshold and
\* any number of threads: free, realloc and malloc_usable_size find the allocator
\* that a pointer came from, that allocator has it, and the bytes that the
\* application stored are there.
THEOREM PointersGoBack ==
  ASSUME RoutingAssumption
  PROVE  Spec => []RoutedBack
<1>1. Init => RoutingInv
  BY Zenon, RoutingInit
<1>2. RoutingInv /\ [Next]_vars => RoutingInv'
  BY Zenon, RoutingNext
<1>3. RoutingInv => RoutedBack
  BY Zenon, RoutingBack
<1> QED BY <1>1, <1>2, <1>3, PTL DEF Spec

\* An allocation of a size that is routed to the arena is never given from DRAM once
\* the constructor has run, also when the arena is full or could not be opened.
THEOREM NothingSpills ==
  ASSUME RoutingAssumption
  PROVE  Spec => NoSpill
<1>1. Init => RoutingInv
  BY Zenon, RoutingInit
<1>2. RoutingInv /\ [Next]_vars => RoutingInv' /\ [NoSpillStep]_vars
  BY Zenon, RoutingNext
<1> QED BY <1>1, <1>2, PTL DEF Spec, NoSpill

-----------------------------------------------------------------------------
\* memcpy, memmove and memset, which signal handlers call as well.

\* A call: its registers follow from what is left to do, and where it overlaps it
\* goes away from the bytes it has still to read
Frame ==
  [rdi : Int, rsi : Int, rcx : Nat, step : {1, -1}, set : BOOLEAN,
   before : [Memory!Address -> Nat], to : Nat, from : Nat, size : Nat]

Bounded(f) ==
  /\ f.to + f.size <= Bytes /\ f.rcx <= f.size
  /\ ~f.set => f.from + f.size <= Bytes

Registers(f) ==
  \/ /\ f.step = 1
     /\ f.rdi = f.to + f.size - f.rcx
     /\ ~f.set => f.rsi = f.from + f.size - f.rcx
     /\ ~f.set => f.to <= f.from \/ f.from + f.size <= f.to
  \/ /\ f.step = -1 /\ ~f.set /\ f.from < f.to
     /\ f.rdi = f.to + f.rcx - 1 /\ f.rsi = f.from + f.rcx - 1

\* The bytes it has moved
Done(f, k) == IF f.step = 1 THEN k < f.size - f.rcx ELSE k >= f.rcx

Progress(f) ==
  \A k \in 0..(f.size - 1) :
    IF Done(f, k) THEN bytes[f.to + k] = IF f.set THEN 0 ELSE f.before[f.from + k]
                  ELSE ~f.set => bytes[f.from + k] = f.before[f.from + k]

\* A call keeps off the bytes of one that it interrupts
KeepsOff(g, f) ==
  \A a \in g.to..(g.to + g.size - 1) :
    /\ a \notin f.to..(f.to + f.size - 1)
    /\ ~f.set => a \notin f.from..(f.from + f.size - 1)

MemoryInv ==
  /\ bytes \in [Memory!Address -> Nat]
  /\ depth \in 0..Depth /\ calls \in Nat
  /\ frames \in [1..Depth -> Frame]
  /\ \A j \in 1..depth : Bounded(frames[j]) /\ Registers(frames[j]) /\ Progress(frames[j])
  /\ \A j, k \in 1..depth : j < k => KeepsOff(frames[k], frames[j])

\* Memory as it is found, and no call, satisfy the invariant.
LEMMA CopyInit ==
  ASSUME Memory!CopyAssumption, Memory!Init
  PROVE  MemoryInv
<1>1. Memory!Idle \in Frame
  BY DEF Memory!Idle, Frame
<1> QED
  BY <1>1 DEF MemoryInv, Memory!Init, Memory!CopyAssumption, Memory!Address

\* A call starts.
LEMMA CallStep ==
  ASSUME Memory!CopyAssumption, MemoryInv, NEW f \in Frame, Memory!Call(f),
         Bounded(f), Registers(f), f.rcx = f.size, f.before = bytes
  PROVE  MemoryInv'
<1> USE DEF MemoryInv, Memory!CopyAssumption
<1>1. /\ depth' = depth + 1 /\ depth' \in 1..Depth
      /\ frames' = [frames EXCEPT ![depth + 1] = f] /\ bytes' = bytes /\ calls' = calls + 1
  BY DEF Memory!Call
<1>2. frames' \in [1..Depth -> Frame] /\ frames'[depth'] = f
  BY Zenon, <1>1
<1>3. \A j \in 1..depth : frames'[j] = frames[j]
  BY <1>1
<1>4. Progress(f)
  BY DEF Progress, Done, Frame
<1>5. \A j \in 1..depth : KeepsOff(f, frames[j])
  <2> SUFFICES ASSUME NEW j \in 1..depth, NEW a \in f.to..(f.to + f.size - 1)
               PROVE  /\ a \notin frames[j].to..(frames[j].to + frames[j].size - 1)
                      /\ ~frames[j].set => a \notin frames[j].from..(frames[j].from + frames[j].size - 1)
    BY Zenon DEF KeepsOff
  <2>1. a \notin Memory!Busy
    BY Zenon DEF Memory!Call
  <2> QED BY <2>1 DEF Memory!Busy
<1>6. ASSUME NEW j \in 1..depth'
      PROVE  Bounded(frames'[j]) /\ Registers(frames'[j]) /\ Progress(frames[j])'
  <2>1. CASE j = depth'
    BY <1>1, <1>2, <1>4, <2>1, Zenon DEF Progress
  <2>2. CASE j # depth'
    <3>1. j \in 1..depth
      BY <1>1, <2>2
    <3> QED
      BY <1>1, <1>3, <3>1 DEF Progress
  <2> QED
    BY Zenon, <2>1, <2>2
<1>7. ASSUME NEW j \in 1..depth', NEW k \in 1..depth', j < k PROVE KeepsOff(frames'[k], frames'[j])
  <2>1. j \in 1..depth
    BY <1>1, <1>7
  <2>2. k = depth' \/ k \in 1..depth
    BY <1>1
  <2> QED
    BY Zenon, <1>2, <1>3, <1>5, <1>7, <2>1, <2>2
<1> QED
  BY <1>1, <1>2, <1>6, <1>7

\* One byte of the running call: a call that it interrupted does not notice.
LEMMA ByteStep ==
  ASSUME Memory!CopyAssumption, MemoryInv, Memory!Byte
  PROVE  MemoryInv' /\ Memory!Exact
<1>1. depth \in 1..Depth /\ depth' = depth /\ calls' = calls
  BY DEF Memory!Byte, MemoryInv, Memory!CopyAssumption
<1>2. PICK f \in Frame : f = frames[depth] /\ Bounded(f) /\ Registers(f) /\ Progress(f)
  BY <1>1 DEF MemoryInv
<1> DEFINE g == [f EXCEPT !.rdi = f.rdi + f.step, !.rsi = f.rsi + f.step, !.rcx = f.rcx - 1]
           b == IF f.set THEN 0 ELSE bytes[f.rsi]
<1>3. /\ f.rcx > 0
      /\ bytes' = [bytes EXCEPT ![f.rdi] = b] /\ frames' = [frames EXCEPT ![depth] = g]
  BY <1>2, Zenon DEF Memory!Byte, Memory!More
<1>4. /\ f.rdi \in Int /\ f.rsi \in Int /\ f.rcx \in Nat /\ f.step \in {1, -1} /\ f.set \in BOOLEAN
      /\ f.to \in Nat /\ f.from \in Nat /\ f.size \in Nat /\ Bytes \in Nat
  BY Zenon DEF Frame, Memory!CopyAssumption
<1>5. /\ g \in Frame /\ g.rdi = f.rdi + f.step /\ g.rsi = f.rsi + f.step /\ g.rcx = f.rcx - 1
      /\ g.step = f.step /\ g.set = f.set /\ g.before = f.before
      /\ g.to = f.to /\ g.from = f.from /\ g.size = f.size
  <2>1. g.rdi = f.rdi + f.step /\ g.rsi = f.rsi + f.step /\ g.rcx = f.rcx - 1
    BY Zenon DEF Frame
  <2>2. /\ g.step = f.step /\ g.set = f.set /\ g.before = f.before
        /\ g.to = f.to /\ g.from = f.from /\ g.size = f.size
    BY Zenon DEF Frame
  <2>3. f.rdi + f.step \in Int /\ f.rsi + f.step \in Int /\ f.rcx - 1 \in Nat
    BY <1>4, <1>3
  <2>4. g \in Frame
    BY <2>3, Zenon DEF Frame
  <2> QED
    BY Zenon, <2>1, <2>2, <2>4
<1> HIDE DEF g
<1> DEFINE m == IF f.step = 1 THEN f.size - f.rcx ELSE f.rcx - 1
<1>6. /\ m \in 0..(f.size - 1) /\ f.rdi = f.to + m /\ (~f.set => f.rsi = f.from + m)
      /\ ~Done(f, m)
  BY <1>3, <1>2, <1>4 DEF Bounded, Registers, Done
<1>7. f.rdi \in Memory!Address /\ (~f.set => f.rsi \in Memory!Address)
  BY <1>2, <1>4, <1>6 DEF Bounded, Memory!Address
<1>8. b = IF f.set THEN 0 ELSE f.before[f.from + m]
  BY <1>2, <1>4, <1>6, Zenon DEF Progress
<1>9. Bounded(g) /\ Registers(g)
  <2>1. Bounded(g)
    BY <1>3, <1>2, <1>4, <1>5 DEF Bounded
  <2>2. CASE f.step = 1
    <3>1. /\ f.rdi = f.to + f.size - f.rcx
          /\ ~f.set => f.rsi = f.from + f.size - f.rcx
          /\ ~f.set => f.to <= f.from \/ f.from + f.size <= f.to
      BY <1>2, <2>2 DEF Registers
    <3>2. g.rdi = g.to + g.size - g.rcx
      BY <1>4, <1>5, <2>2, <3>1
    <3>3. ~g.set => g.rsi = g.from + g.size - g.rcx
      BY <1>4, <1>5, <2>2, <3>1
    <3> QED
      BY <1>5, <2>1, <2>2, <3>1, <3>2, <3>3, Zenon DEF Registers
  <2>3. CASE f.step = -1
    <3>1. /\ ~f.set /\ f.from < f.to
          /\ f.rdi = f.to + f.rcx - 1 /\ f.rsi = f.from + f.rcx - 1
      BY <1>2, <2>3 DEF Registers
    <3>2. g.rdi = g.to + g.rcx - 1 /\ g.rsi = g.from + g.rcx - 1
      BY <1>4, <1>5, <2>3, <3>1
    <3> QED
      BY <1>5, <2>1, <2>3, <3>1, <3>2, Zenon DEF Registers
  <2> QED
    BY Zenon, <1>4, <2>1, <2>2, <2>3
<1>10. b \in Nat /\ bytes \in [Memory!Address -> Nat]
  BY <1>7, Zenon DEF MemoryInv
<1>11. \A k \in 0..(f.size - 1) : Done(g, k) <=> Done(f, k) \/ k = m
  BY <1>3, <1>4, <1>5 DEF Done
<1>12. \A k \in 0..(f.size - 1) : ~f.set /\ ~Done(g, k) => f.from + k # f.rdi
  BY <1>3, <1>2, <1>4, <1>5, <1>6 DEF Done, Registers, Bounded
<1> HIDE DEF m, b
<1>13. bytes' \in [Memory!Address -> Nat] /\ bytes'[f.rdi] = b
       /\ \A a \in Memory!Address : a # f.rdi => bytes'[a] = bytes[a]
  BY Zenon, <1>3, <1>7, <1>10
<1>14. ASSUME NEW k \in 0..(f.size - 1)
       PROVE  IF Done(g, k) THEN bytes'[f.to + k] = IF f.set THEN 0 ELSE f.before[f.from + k]
                            ELSE ~f.set => bytes'[f.from + k] = f.before[f.from + k]
  <2>1. f.to + k \in Memory!Address /\ (~f.set => f.from + k \in Memory!Address)
    BY <1>2, <1>4 DEF Bounded, Memory!Address
  <2>2. CASE k = m
    BY Zenon, <1>6, <1>8, <1>11, <1>13, <2>1, <2>2
  <2>3. CASE k # m
    <3>1. f.to + k # f.rdi
      BY <1>4, <1>6, <2>3
    <3> QED
      BY <1>2, <1>11, <1>12, <1>13, <2>1, <2>3, <3>1, Zenon DEF Progress
  <2> QED
    BY Zenon, <2>2, <2>3
<1>15. frames' \in [1..Depth -> Frame] /\ frames'[depth] = g
       /\ \A j \in 1..depth : j # depth => frames'[j] = frames[j]
  BY <1>1, <1>3, <1>5 DEF MemoryInv
<1>16. Progress(frames[depth])'
  BY <1>1, <1>5, <1>14, <1>15 DEF Progress
<1>17. ASSUME NEW j \in 1..depth, j # depth PROVE Progress(frames[j])'
  <2>1. PICK h \in Frame : h = frames[j] /\ Bounded(h) /\ Progress(h) /\ KeepsOff(f, h)
    <3>1. j \in 1..Depth /\ j < depth
      BY <1>1, <1>17 DEF Memory!CopyAssumption
    <3>2. frames[j] \in Frame
      BY <3>1, Zenon DEF MemoryInv
    <3>3. KeepsOff(f, frames[j])
      BY <1>1, <1>2, <3>1 DEF MemoryInv
    <3> QED
      BY <3>2, <3>3, Zenon DEF MemoryInv
  <2>2. h.to \in Nat /\ h.from \in Nat /\ h.size \in Nat
    BY Zenon DEF Frame
  <2>3. ASSUME NEW k \in 0..(h.size - 1)
        PROVE  bytes'[h.to + k] = bytes[h.to + k] /\ (~h.set => bytes'[h.from + k] = bytes[h.from + k])
    <3>1. f.rdi \in f.to..(f.to + f.size - 1)
      BY <1>4, <1>6
    <3>2. f.rdi # h.to + k /\ (~h.set => f.rdi # h.from + k)
      BY <2>1, <2>2, <3>1 DEF KeepsOff
    <3>3. h.to + k \in Memory!Address /\ (~h.set => h.from + k \in Memory!Address)
      BY <2>1, <2>2, <1>4 DEF Bounded, Memory!Address
    <3> QED
      BY Zenon, <1>13, <3>2, <3>3
  <2>4. frames'[j] = h
    BY Zenon, <1>15, <1>17, <2>1
  <2> QED
    BY <2>1, <2>3, <2>4, Zenon DEF Progress
<1>18. ASSUME NEW j \in 1..depth PROVE Bounded(frames'[j]) /\ Registers(frames'[j])
  BY <1>9, <1>15, Zenon DEF MemoryInv
<1>19. ASSUME NEW j \in 1..depth, NEW k \in 1..depth, j < k
       PROVE  KeepsOff(frames'[k], frames'[j])
  BY <1>1, <1>2, <1>5, <1>15, <1>19 DEF KeepsOff, MemoryInv
<1>20. MemoryInv'
  BY <1>1, <1>13, <1>15, <1>16, <1>17, <1>18, <1>19, Zenon DEF MemoryInv
<1>21. Memory!Exact
  BY <1>1, <1>2, <1>4, <1>6, <1>13 DEF Memory!Exact
<1> QED
  BY Zenon, <1>20, <1>21

\* The running call returns.
LEMMA ReturnStep ==
  ASSUME Memory!CopyAssumption, MemoryInv, Memory!Return
  PROVE  MemoryInv' /\ Memory!Exact
<1> USE DEF MemoryInv, Memory!CopyAssumption
<1>1. /\ depth \in 1..Depth /\ ~(frames[depth].rcx > 0) /\ depth' = depth - 1 /\ bytes' = bytes
      /\ calls' = calls /\ frames' = [frames EXCEPT ![depth] = Memory!Idle]
  BY DEF Memory!Return, Memory!More
<1>2. Memory!Idle \in Frame
  BY DEF Memory!Idle, Frame
<1>3. frames' \in [1..Depth -> Frame] /\ \A j \in 1..depth' : frames'[j] = frames[j]
  BY <1>1, <1>2
<1>4. MemoryInv'
  BY <1>1, <1>3 DEF Progress
<1>5. Memory!Copied
  <2>1. frames[depth] \in Frame /\ Progress(frames[depth])
    BY <1>1
  <2>2. frames[depth].rcx = 0 /\ frames[depth].size \in Nat
    BY <1>1, <2>1 DEF Frame
  <2> QED
    BY <2>1, <2>2 DEF Memory!Copied, Progress, Done
<1> QED
  BY <1>1, <1>4, <1>5, Zenon DEF Memory!Exact

\* Every step of memcpy, memmove and memset keeps the invariant, and a call that
\* returns has done what it should.
LEMMA CopyNext ==
  ASSUME Memory!CopyAssumption, MemoryInv, [Memory!Next]_(Memory!vars)
  PROVE  MemoryInv' /\ [Memory!Exact]_(Memory!vars)
<1>1. CASE UNCHANGED Memory!vars
  BY <1>1, Zenon DEF Memory!vars, MemoryInv, Progress
<1>2. ASSUME NEW f \in Frame, Memory!Call(f) PROVE Memory!Exact
  BY <1>2 DEF Memory!Call, Memory!Exact, MemoryInv
<1>3. ASSUME NEW d \in Memory!Address, NEW s \in Memory!Address, NEW n \in Memory!Address,
             d + n <= Bytes, s + n <= Bytes, Memory!Memcpy(d, s, n) \/ Memory!Memmove(d, s, n)
      PROVE  MemoryInv' /\ Memory!Exact
  <2>1. d \in Nat /\ s \in Nat /\ n \in Nat /\ bytes \in [Memory!Address -> Nat]
    BY DEF Memory!Address, MemoryInv
  <2>2. ASSUME Memory!Call(Memory!Movsb(d, s, n, TRUE)), d <= s \/ s + n <= d PROVE MemoryInv' /\ Memory!Exact
    <3> DEFINE f == Memory!Movsb(d, s, n, TRUE)
    <3>1. f \in Frame
      BY <2>1 DEF Memory!Movsb, Frame
    <3>2. /\ f.rdi = d /\ f.rsi = s /\ f.rcx = n /\ f.step = 1 /\ f.set = FALSE
          /\ f.before = bytes /\ f.to = d /\ f.from = s /\ f.size = n
      BY Zenon DEF Memory!Movsb
    <3>3. Memory!Call(f)
      BY <2>2, Zenon
    <3> HIDE DEF f
    <3>4. Bounded(f) /\ Registers(f)
      BY <1>3, <2>1, <2>2, <3>2 DEF Bounded, Registers
    <3> QED
      BY Zenon, <1>2, <3>1, <3>2, <3>3, <3>4, CallStep
  <2>3. ASSUME Memory!Call(Memory!Movsb(d, s, n, FALSE)), s < d PROVE MemoryInv' /\ Memory!Exact
    <3> DEFINE f == Memory!Movsb(d, s, n, FALSE)
    <3>1. f \in Frame
      BY <2>1 DEF Memory!Movsb, Frame
    <3>2. /\ f.rdi = d + n - 1 /\ f.rsi = s + n - 1 /\ f.rcx = n /\ f.step = -1 /\ f.set = FALSE
          /\ f.before = bytes /\ f.to = d /\ f.from = s /\ f.size = n
      BY Zenon DEF Memory!Movsb
    <3>3. Memory!Call(f)
      BY <2>3, Zenon
    <3> HIDE DEF f
    <3>4. Bounded(f) /\ Registers(f)
      BY <1>3, <2>1, <2>3, <3>2 DEF Bounded, Registers
    <3> QED
      BY Zenon, <1>2, <3>1, <3>2, <3>3, <3>4, CallStep
  <2>4. CASE Memory!Memcpy(d, s, n)
    <3>1. d <= s \/ s + n <= d
      BY <2>1, <2>4 DEF Memory!Memcpy, Memory!Overlap
    <3> QED
      BY <2>2, <2>4, <3>1, Zenon DEF Memory!Memcpy
  <2>5. CASE Memory!Memmove(d, s, n) /\ (n = 0 \/ d <= s)
    <3>1. d <= s \/ s + n <= d
      BY <2>1, <2>5
    <3>2. (n = 0 \/ d <= s) = TRUE
      BY Zenon, <2>5
    <3> QED
      BY <2>2, <2>5, <3>1, <3>2, Zenon DEF Memory!Memmove
  <2>6. CASE Memory!Memmove(d, s, n) /\ ~(n = 0 \/ d <= s)
    <3>1. s < d
      BY <2>1, <2>6
    <3>2. (n = 0 \/ d <= s) = FALSE
      BY Zenon, <2>6
    <3> QED
      BY <2>3, <2>6, <3>1, <3>2, Zenon DEF Memory!Memmove
  <2> QED
    BY Zenon, <1>3, <2>4, <2>5, <2>6
<1>4. ASSUME NEW d \in Memory!Address, NEW n \in Memory!Address, d + n <= Bytes, Memory!Memset(d, n)
      PROVE  MemoryInv' /\ Memory!Exact
  <2> DEFINE f == [rdi |-> d, rsi |-> 0, rcx |-> n, step |-> 1, set |-> TRUE,
                   before |-> bytes, to |-> d, from |-> 0, size |-> n]
  <2>1. d \in Nat /\ n \in Nat /\ bytes \in [Memory!Address -> Nat]
    BY DEF Memory!Address, MemoryInv
  <2>2. f \in Frame
    BY <2>1 DEF Frame
  <2>3. /\ f.rdi = d /\ f.rcx = n /\ f.step = 1 /\ f.set = TRUE
        /\ f.before = bytes /\ f.to = d /\ f.size = n
    BY Zenon
  <2>4. Memory!Call(f)
    BY <1>4, Zenon DEF Memory!Memset
  <2> HIDE DEF f
  <2>5. Bounded(f) /\ Registers(f)
    BY <1>4, <2>1, <2>3 DEF Bounded, Registers
  <2> QED
    BY Zenon, <1>2, <2>2, <2>3, <2>4, <2>5, CallStep
<1> QED
  BY <1>1, <1>3, <1>4, ByteStep, ReturnStep, Zenon DEF Memory!Next

\* For every size of memory and every depth of interruption: memcpy, memmove and
\* memset return with the bytes that C promises, also where source and destination
\* overlap and where a signal handler's call ran in the middle.
THEOREM CopiesAreExact ==
  ASSUME Memory!CopyAssumption
  PROVE  Memory!Spec => CopiesExact
<1>1. Memory!Init => MemoryInv
  BY Zenon, CopyInit
<1>2. MemoryInv /\ [Memory!Next]_(Memory!vars) => MemoryInv' /\ [Memory!Exact]_(Memory!vars)
  BY Zenon, CopyNext
<1> QED
  BY <1>1, <1>2, PTL DEF Memory!Spec, CopiesExact
=============================================================================
