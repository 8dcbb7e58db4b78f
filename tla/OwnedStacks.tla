---------------------------- MODULE OwnedStacks ----------------------------
(***************************************************************************)
(* The stacks of one thread as the code stores them: a head and a length   *)
(* each (slab::stack::Local), linked through the `next` fields of the      *)
(* slabs.  Only their thread touches them, so each operation is a step.    *)
(* The other threads appear as slabs that come and go.                     *)
(***************************************************************************)
EXTENDS Integers, Sequences, FiniteSets

CONSTANTS
  Slab,
  Class,
  Count,            \* class.count()
  CountCacheSlab,   \* COUNT_CACHE_SLAB
  BatchGlobalPush,  \* BATCH_GLOBAL_PUSH
  MaxLen,           \* bound: no push to a sized stack of this recorded length
  LenModulus,       \* bound: usize has this many values
  None

ConstantsAssumption ==
  /\ None \notin Slab \union Class
  /\ IsFiniteSet(Slab)
  /\ Count \in [Class -> Nat \ {0}]
  /\ CountCacheSlab \in Nat
  /\ BatchGlobalPush \in Nat \ {0}     \* raw.rs stores what it is given
  /\ MaxLen \in Nat
  /\ LenModulus > Cardinality(Slab) + MaxLen

VARIABLES
  next,     \* slab -> Local.next
  class,    \* slab -> Local.class
  free,     \* slab -> Local.free.len()
  unsized,  \* Owned.unsized: [head, len]
  sized,    \* class -> Owned.sized[class]: [head, len]
  away,     \* slabs that are not this thread's
  flush     \* whether the thread is about to call unsized_to_global

vars == <<next, class, free, unsized, sized, away, flush>>

Option == Slab \union {None}
Local  == [head : Option, len : Nat]
Empty  == [head |-> None, len |-> 0]

TypeOK ==
  /\ next \in [Slab -> Option]
  /\ class \in [Slab -> Class \union {None}]
  /\ free \in [Slab -> Nat]
  /\ unsized \in Local
  /\ sized \in [Class -> Local]
  /\ away \subseteq Slab
  /\ flush \in BOOLEAN

Init ==
  /\ next = [s \in Slab |-> None]
  /\ class = [s \in Slab |-> None]
  /\ free = [s \in Slab |-> 0]
  /\ unsized = Empty
  /\ sized = [c \in Class |-> Empty]
  /\ away = Slab
  /\ flush = FALSE

\* The i-th slab of the list that starts at s; None past its end.
Nth(s, i) ==
  LET after(x)         == IF x = None THEN None ELSE next[x]
      walk[j \in 1..i] == IF j = 1 THEN s ELSE after(walk[j - 1])
  IN  walk[i]

\* Slab::trace: the slabs of the list that starts at s, or more than there are
\* when the list has a cycle.
Trace(s) ==
  SelectSeq([i \in 1..(Cardinality(Slab) + 1) |-> Nth(s, i)], LAMBDA x : x # None)

\* Local::push and Local::pop, without the link that a push writes.
Pushed(st, s) == [head |-> s, len |-> (st.len + 1) % LenModulus]
Popped(st)    == [head |-> next[st.head], len |-> (st.len - 1) % LenModulus]

-----------------------------------------------------------------------------
\* A slab comes from outside: Heap::allocate gets one because it has none, or
\* Heap::claim takes one whose last block this thread freed.
Acquire(s, claimed) ==
  /\ ~flush
  /\ s \in away
  /\ claimed \/ unsized.head = None
  /\ next' = [next EXCEPT ![s] = unsized.head]
  /\ unsized' = Pushed(unsized, s)
  /\ away' = away \ {s}
  /\ flush' = claimed
  /\ UNCHANGED <<class, free, sized>>

\* A faulty UnsizedToSized, which reads `next` after the push has written it.
UnsizedToSizedLateNext(c) ==
  LET s == unsized.head IN
  /\ ~flush
  /\ sized[c].head = None
  /\ sized[c].len < MaxLen
  /\ s # None
  /\ class' = [class EXCEPT ![s] = c]
  /\ free' = [free EXCEPT ![s] = Count[c]]
  /\ next' = [next EXCEPT ![s] = sized[c].head]
  /\ sized' = [sized EXCEPT ![c] = Pushed(@, s)]
  /\ unsized' = [head |-> sized[c].head, len |-> unsized.len - 1]
  /\ UNCHANGED <<away, flush>>

\* Owned::unsized_to_sized.
UnsizedToSized(c) ==
  LET s == unsized.head IN
  /\ ~flush
  /\ sized[c].head = None
  /\ sized[c].len < MaxLen
  /\ s # None
  /\ class' = [class EXCEPT ![s] = c]
  /\ free' = [free EXCEPT ![s] = Count[c]]
  /\ next' = [next EXCEPT ![s] = sized[c].head]
  /\ sized' = [sized EXCEPT ![c] = Pushed(@, s)]
  /\ unsized' = Popped(unsized)
  /\ UNCHANGED <<away, flush>>

\* Heap::pop: the head leaves its stack with its last free block.
Pop(c) ==
  LET s == sized[c].head IN
  /\ ~flush
  /\ s # None
  /\ free' = [free EXCEPT ![s] = @ - 1]
  /\ sized' = IF free[s] = 1 THEN [sized EXCEPT ![c] = Popped(@)] ELSE sized
  /\ UNCHANGED <<next, class, unsized, away, flush>>

\* The slabs of this thread that have a class: those in no unsized list.
InUse(s) ==
  /\ s \notin away
  /\ \A i \in 1..Cardinality(Slab) : Nth(unsized.head, i) # s

\* A faulty FreeBlock, which never attaches the slab.
FreeBlockNoAttach(s) ==
  /\ ~flush
  /\ InUse(s)
  /\ free[s] + 1 < Count[class[s]]
  /\ free' = [free EXCEPT ![s] = @ + 1]
  /\ UNCHANGED <<next, class, unsized, sized, away, flush>>

\* Heap::free of a block of a slab that stays sized; its first free block
\* attaches it.
FreeBlock(s) ==
  LET c == class[s] IN
  /\ ~flush
  /\ InUse(s)
  /\ free[s] + 1 < Count[c]
  /\ sized[c].len < MaxLen
  /\ free' = [free EXCEPT ![s] = @ + 1]
  /\ IF free[s] = 0
       THEN /\ next' = [next EXCEPT ![s] = sized[c].head]
            /\ sized' = [sized EXCEPT ![c] = Pushed(@, s)]
       ELSE UNCHANGED <<next, sized>>
  /\ UNCHANGED <<class, unsized, away, flush>>

\* Heap::free of the last block in use of a slab at the head of its stack, or
\* of one that is attached by this very block: sized_to_unsized sets the head.
FreeLastAtHead(s) ==
  LET c == class[s] IN
  /\ ~flush
  /\ InUse(s)
  /\ free[s] + 1 = Count[c]
  /\ free[s] = 0 \/ sized[c].head = s
  /\ free' = [free EXCEPT ![s] = @ + 1]
  /\ sized' = IF free[s] = 0 THEN sized ELSE [sized EXCEPT ![c] = Popped(@)]
  /\ next' = [next EXCEPT ![s] = unsized.head]
  /\ unsized' = Pushed(unsized, s)
  /\ flush' = TRUE
  /\ UNCHANGED <<class, away>>

\* The same for a slab behind the head: sized_to_unsized walks to its
\* predecessor, which skips it.  The length of the stack is not touched.
FreeLastBehind(s) ==
  LET c == class[s] IN
  /\ ~flush
  /\ InUse(s)
  /\ free[s] + 1 = Count[c]
  /\ free[s] > 0 /\ sized[c].head # s
  /\ free' = [free EXCEPT ![s] = @ + 1]
  /\ LET trace == Trace(sized[c].head) IN
     \E i \in DOMAIN trace :
       /\ next[trace[i]] = s
       /\ next' = [next EXCEPT ![trace[i]] = next[s], ![s] = unsized.head]
  /\ unsized' = Pushed(unsized, s)
  /\ flush' = TRUE
  /\ UNCHANGED <<class, sized, away>>

\* Heap::unsized_to_global: cut off a batch if there are too many slabs.  A
\* batch that is larger than the list takes all of it, and the length wraps.
UnsizedToGlobal ==
  /\ flush
  /\ flush' = FALSE
  /\ IF unsized.len <= CountCacheSlab
       THEN UNCHANGED <<unsized, away>>
       ELSE /\ unsized' = [head |-> Nth(unsized.head, BatchGlobalPush + 1),
                           len  |-> (unsized.len - BatchGlobalPush) % LenModulus]
            /\ unsized.head # None     \* iter.next().unwrap()
            /\ away' = away \union
                 ({Nth(unsized.head, i) : i \in 1..BatchGlobalPush} \ {None})
  /\ UNCHANGED <<next, class, free, sized>>

\* Another thread frees the last block of a detached slab and claims it, or it
\* uses a slab of its own and leaves anything in its `next`.
Elsewhere(s) ==
  /\ \/ InUse(s) /\ free[s] = 0 /\ UNCHANGED next
     \/ s \in away /\ \E x \in Option : next' = [next EXCEPT ![s] = x]
  /\ away' = away \union {s}
  /\ UNCHANGED <<class, free, unsized, sized, flush>>

Next ==
  \/ \E s \in Slab :
       \/ \E claimed \in BOOLEAN : Acquire(s, claimed)
       \/ FreeBlock(s) \/ FreeLastAtHead(s) \/ FreeLastBehind(s)
       \/ Elsewhere(s)
  \/ \E c \in Class : UnsizedToSized(c) \/ Pop(c)
  \/ UnsizedToGlobal

Spec == Init /\ [][Next]_vars

-----------------------------------------------------------------------------
Traces ==
  [k \in Class \union {None} |->
     Trace(IF k = None THEN unsized.head ELSE sized[k].head)]

Lists == INSTANCE SlabSequences
           WITH stack <- Traces, Key <- Class \union {None},
                MaxBatch <- BatchGlobalPush

\* The linked lists behave as the sequences of SlabHeap: an operation on one
\* stack never disturbs another, though a slab has one `next` for all of them.
Implements == Lists!Init /\ [][UNCHANGED Traces \/ Lists!Next]_vars

\* Owned::is_valid, lengths apart: no slab is in two stacks or twice in one,
\* those in a sized stack have its class and a free block.
StacksAreValid ==
  LET tr == Traces IN
  /\ \A k, l \in DOMAIN tr : \A i \in DOMAIN tr[k], j \in DOMAIN tr[l] :
       tr[k][i] = tr[l][j] => k = l /\ i = j
  /\ \A c \in Class : \A i \in DOMAIN tr[c] :
       LET s == tr[c][i] IN s \notin away /\ class[s] = c /\ free[s] > 0

\* A slab with a free and a used block is in the list of its class, so the walk
\* of sized_to_unsized finds it and does not reach its panic!.
SlabIsFound ==
  LET tr == Traces IN
  \A s \in Slab : InUse(s) /\ free[s] > 0 =>
    \E i \in DOMAIN tr[class[s]] : tr[class[s]][i] = s

\* The length of the unsized stack is that of its list.
UnsizedLen == unsized.len = Len(Traces[None])

\* The lengths of the sized stacks are those of their lists.  This fails after
\* FreeLastBehind, which does not count the slab off.
SizedLen == \A c \in Class : sized[c].len = Len(Traces[c])
=============================================================================
