--------------------------- MODULE CacheCoherence ---------------------------
(***************************************************************************)
(* The builds for hosts that share memory without coherent caches          *)
(* (features cxl-limited and cxl-mcas, without recover-flush).  The remote *)
(* counters, the global stack and the bump index are in coherent memory.   *)
(* The Local descriptors of the slabs are not: a host works on the copy of *)
(* a descriptor in its own cache, and flush_cxl writes the copy back and   *)
(* drops it.  A cache may also evict any copy at any time.                 *)
(*                                                                         *)
(* Of a descriptor the model keeps the first line, and of it the owner:    *)
(* what Heap::free goes by.  Every thread is on a host of its own.  One    *)
(* class of blocks is enough, and an operation is one step: the            *)
(* interleavings inside an operation are those of SlabHeap.                *)
(***************************************************************************)
EXTENDS Integers, Sequences, SequencesExt

CONSTANTS
  Thread,           \* thread ids
  Count,            \* class.count()
  MaxSlab,          \* bound: slabs of the reservation
  CountCacheSlab,   \* COUNT_CACHE_SLAB
  BatchGlobalPush,  \* BATCH_GLOBAL_PUSH
  Validate,         \* built with "validate" or debug assertions
  None, Absent      \* no owner; a line that is not in the cache

Slab == 1..MaxSlab

VARIABLES
  lines,    \* the lines in memory and in the cache of each thread's host
  truth,    \* slab -> the owner last written, whoever can see it
  left,     \* slab -> it changed hands and the giver's cache kept its line
  bits,     \* slab -> the number of set bits of Local.free
  remote,   \* slab -> Remote.free
  held,     \* slab -> the number of blocks the application holds
  unsized,  \* thread -> its `unsized` stack, head first
  sized,    \* thread -> its `sized` stack
  global,   \* the global stack
  bump      \* the first slab never used

heap == <<truth, left, bits, remote, held, unsized, sized, global, bump>>
vars == <<lines, heap>>

Init ==
  /\ lines = [mem   |-> [s \in Slab |-> None],
              cache |-> [t \in Thread |-> [s \in Slab |-> Absent]]]
  /\ truth = [s \in Slab |-> None]
  /\ left = [s \in Slab |-> FALSE]
  /\ bits = [s \in Slab |-> 0]
  /\ remote = [s \in Slab |-> 0]
  /\ held = [s \in Slab |-> 0]
  /\ unsized = [t \in Thread |-> << >>]
  /\ sized = [t \in Thread |-> << >>]
  /\ global = << >>
  /\ bump = 1

-----------------------------------------------------------------------------
(* The lines.  L is a value of `lines`.                                    *)

\* The owner that t reads.
Seen(L, t, s) ==
  IF L.cache[t][s] = Absent THEN L.mem[s] ELSE L.cache[t][s].owner

Load(L, t, s) ==
  IF L.cache[t][s] # Absent THEN L
  ELSE [L EXCEPT !.cache[t][s] = [owner |-> L.mem[s], dirty |-> FALSE]]

Store(L, t, s, o) ==
  [L EXCEPT !.cache[t][s] = [owner |-> o, dirty |-> TRUE]]

\* A store to another field of the line, such as `next`.
Touch(L, t, s) == Store(L, t, s, Seen(L, t, s))

Evicted(L, t, s) ==
  [mem   |-> IF L.cache[t][s] # Absent /\ L.cache[t][s].dirty
             THEN [L.mem EXCEPT ![s] = L.cache[t][s].owner] ELSE L.mem,
   cache |-> [L.cache EXCEPT ![t][s] = Absent]]

flush_cxl(L, t, s) == Evicted(L, t, s)

\* The cache makes room.
Evict(t, s) ==
  /\ lines.cache[t][s] # Absent
  /\ lines' = Evicted(lines, t, s)
  /\ UNCHANGED heap

-----------------------------------------------------------------------------
(* Allocation.  L are the lines, and b the free blocks of slab s, the head *)
(* of the sized stack z.                                                   *)

\* Form with a fault: the line of a disowned slab stays in the cache.
DetachUnflushed(L, t, s, r) ==
  IF r < Count THEN Store(L, t, s, None) ELSE L

Detach(L, t, s, r) ==
  IF r < Count THEN flush_cxl(Store(L, t, s, None), t, s) ELSE L

Pop(L, t, s, z, b, r, o) ==
  /\ held' = [held EXCEPT ![s] = @ + 1]
  /\ bits' = [bits EXCEPT ![s] = b - 1]
  /\ remote' = [remote EXCEPT ![s] = r]
  /\ sized' = [sized EXCEPT ![t] = IF b = 1 THEN Tail(z) ELSE z]
  /\ lines' = IF b = 1 THEN Detach(L, t, s, r) ELSE L
  /\ truth' = [truth EXCEPT ![s] = IF b = 1 /\ r < Count THEN None ELSE o]

\* The class, the bitset and `next` are written; all blocks are free.
UnsizedToSized(L, t, s) ==
  Pop(Touch(L, t, s), t, s, <<s>>, Count, Count, t)

AllocateSized(t) ==
  /\ sized[t] # << >>
  /\ LET s == Head(sized[t])
     IN  Pop(Load(lines, t, s), t, s, sized[t], bits[s], remote[s], truth[s])
  /\ UNCHANGED <<left, unsized, global, bump>>

AllocateUnsized(t) ==
  /\ sized[t] = << >> /\ unsized[t] # << >>
  /\ UnsizedToSized(lines, t, Head(unsized[t]))
  /\ unsized' = [unsized EXCEPT ![t] = Tail(@)]
  /\ UNCHANGED <<left, global, bump>>

AllocateGlobal(t) ==
  /\ sized[t] = << >> /\ unsized[t] = << >> /\ global # << >>
  /\ UnsizedToSized(Store(lines, t, Head(global), t), t, Head(global))
  /\ global' = Tail(global)
  /\ UNCHANGED <<left, unsized, bump>>

AllocateBump(t) ==
  /\ sized[t] = << >> /\ unsized[t] = << >> /\ global = << >>
  /\ bump \in Slab
  /\ UnsizedToSized(Store(lines, t, bump, t), t, bump)
  /\ bump' = bump + 1
  /\ UNCHANGED <<left, unsized, global>>

-----------------------------------------------------------------------------
(* Freeing.                                                                *)

RECURSIVE FlushAll(_, _, _)
FlushAll(L, t, q) ==
  IF q = << >> THEN L
  ELSE LET s == Head(q)
       IN  FlushAll(flush_cxl(IF Validate THEN Store(L, t, s, None) ELSE L,
                              t, s), t, Tail(q))

\* The batch is flushed, and then Global::push stores `next` of its tail.
UnsizedToGlobal(L, t, q, o, l) ==
  LET batch == SubSeq(q, 1, BatchGlobalPush)
      pushed == Len(q) > CountCacheSlab
  IN  /\ unsized' = [unsized EXCEPT ![t] =
           IF pushed THEN SubSeq(q, BatchGlobalPush + 1, Len(q)) ELSE q]
      /\ global' = IF pushed THEN batch \o global ELSE global
      /\ lines' = IF pushed
                  THEN Touch(FlushAll(L, t, batch), t, Last(batch)) ELSE L
      /\ truth' = [s \in Slab |->
           IF pushed /\ Validate /\ s \in ToSet(batch) THEN None ELSE o[s]]
      /\ left' = [s \in Slab |-> l[s] \/ (pushed /\ s = Last(batch))]

FreeLocal(t, s) ==
  LET attached == IF bits[s] = 0 THEN <<s>> \o sized[t] ELSE sized[t]
      L == IF bits[s] = 0 THEN Touch(lines, t, s) ELSE Load(lines, t, s)
  IN  /\ Seen(lines, t, s) = t
      /\ bits' = [bits EXCEPT ![s] = @ + 1]
      /\ IF bits[s] + 1 < Count
         THEN /\ sized' = [sized EXCEPT ![t] = attached]
              /\ lines' = L
              /\ UNCHANGED <<truth, left, unsized, global>>
         ELSE /\ sized' = [sized EXCEPT ![t] = Remove(attached, s)]
              /\ UnsizedToGlobal(Touch(L, t, s), t, <<s>> \o unsized[t],
                                 truth, left)
      /\ UNCHANGED remote

\* The last remote free claims the slab, whoever its line says owns it.
FreeRemote(t, s) ==
  /\ Seen(lines, t, s) # t
  /\ remote' = [remote EXCEPT ![s] = @ - 1]
  /\ IF remote[s] > 1
     THEN /\ lines' = Load(lines, t, s)
          /\ UNCHANGED <<truth, left, unsized, global>>
     ELSE UnsizedToGlobal(Store(lines, t, s, t), t, <<s>> \o unsized[t],
                          [truth EXCEPT ![s] = t],
                          [left EXCEPT ![s] = @ \/ truth[s] # None])
  /\ UNCHANGED <<bits, sized>>

\* t reads what it would read in coherent memory, as far as free goes by it.
\* A thread that does not is not followed: it would write to a bitset that is
\* not its own, or leave a block of its own to the others.
Decides(t, s) == (Seen(lines, t, s) = t) <=> (truth[s] = t)

Free(t, s) ==
  /\ held[s] > 0 /\ Decides(t, s)
  /\ held' = [held EXCEPT ![s] = @ - 1]
  /\ FreeLocal(t, s) \/ FreeRemote(t, s)
  /\ UNCHANGED bump

-----------------------------------------------------------------------------

Next ==
  \E t \in Thread :
    \/ AllocateSized(t)
    \/ AllocateUnsized(t)
    \/ AllocateGlobal(t)
    \/ AllocateBump(t)
    \/ \E s \in Slab : Free(t, s) \/ Evict(t, s)

Spec == Init /\ [][Next]_vars

-----------------------------------------------------------------------------

\* Whoever frees a block of a slab, its host's copy of the descriptor makes
\* Heap::free decide (heap.rs:335) as coherent memory would, in spite of
\* evictions in any order, unless the slab once changed hands while a cache
\* kept its line: detach flushes a slab it disowns (heap.rs:311), but not one
\* that it leaves owned and that another thread then claims (heap.rs:422), and
\* push writes to the tail of a batch after the batch was flushed.
WrongOnlyIfLeft ==
  \A t \in Thread, s \in Slab : held[s] > 0 /\ ~left[s] => Decides(t, s)

\* What the flushes of unsized_to_global are there for, "Maintain software
\* cache coherence" (heap.rs:462): Heap::free always decides as coherent
\* memory would.  This fails with Validate = FALSE and a batch that is pushed.
FreeIsRight ==
  \A t \in Thread, s \in Slab : held[s] > 0 => Decides(t, s)
=============================================================================
