------------------------------ MODULE SlabHeap ------------------------------
(***************************************************************************)
(* One size bracket of the heap (Small or Large, the code is generic in    *)
(* it), shared by the threads of all attached processes, as they allocate  *)
(* and free blocks without crashing.                                       *)
(*                                                                         *)
(* A slab moves between stacks: a thread's `unsized` stack, its `sized`    *)
(* stacks (one per size class), the global free stack.  A slab with no     *)
(* free block is in no stack ("detached").  The stacks are sequences here, *)
(* head first.                                                             *)
(*                                                                         *)
(* A step is what a thread does between two accesses that another thread   *)
(* can observe: the read of a slab's owner, the update of its remote       *)
(* counter, the updates of the global stack and of the bump index.  An     *)
(* update is one step: Detectable::update retries until its compare-       *)
(* exchange succeeds.  For the counter and the bump index, whose new value *)
(* depends on the old one only, that is what the code does.  For the       *)
(* global stack it is an assumption of this module: GlobalStack models the *)
(* linked list and its tagged head, and says when the code meets it.       *)
(* OwnedStacks models the linked lists of one thread.                      *)
(***************************************************************************)
EXTENDS Integers, Sequences, FiniteSets

CONSTANTS
  Thread,           \* thread ids
  Class,            \* size classes of the bracket, without the class of size 0
  Count,            \* class.count(): the number of blocks of a slab of a class
  MaxSlab,          \* bound: slabs of the reservation; the bump index stops there
  CountCacheSlab,   \* COUNT_CACHE_SLAB, slabs a thread keeps in `unsized`
  BatchGlobalPush,  \* BATCH_GLOBAL_PUSH
  BatchBumpPop,     \* BATCH_BUMP_POP
  Validate,         \* built with "validate" or debug assertions
  None              \* Option::None

Slab == 1..MaxSlab

ASSUME ConstantsAssumption ==
  /\ None \notin Thread /\ None \notin Nat
  /\ Count \in [Class -> Nat \ {0}]
  /\ MaxSlab \in Nat
  /\ CountCacheSlab \in Nat
  /\ BatchGlobalPush \in 1..(CountCacheSlab + 1)
  /\ BatchBumpPop \in Nat \ {0}
  /\ Validate \in BOOLEAN

VARIABLES
  owner,   \* slab -> Local.owner
  class,   \* slab -> Local.class
  free,    \* slab -> Local.free, the set bits (blocks are numbered from 1)
  remote,  \* slab -> Remote.free, the blocks not freed by another thread
  stack,   \* the stacks, by key; Hand(t) holds the slabs thread t is moving
  bump,    \* Shared.bump, the first slab never used (None is Index::MIN)
  live,    \* slab -> blocks the application holds, or is getting or returning
  pc,      \* thread -> where it is in allocate_untyped or free_untyped
  cls,     \* thread -> the class it allocates
  cur,     \* thread -> the slab of the block it allocates or frees
  blk      \* thread -> that block

meta == <<owner, class, free, remote>>
op   == <<pc, cls, cur, blk>>
vars == <<owner, class, free, remote, stack, bump, live, pc, cls, cur, blk>>

Unsized(t)  == <<"unsized", t, None>>
Sized(t, c) == <<"sized", t, c>>
Hand(t)     == <<"hand", t, None>>
Global      == <<"global", None, None>>

Keys ==
  {Unsized(t) : t \in Thread} \union {Hand(t) : t \in Thread} \union {Global}
    \union {Sized(t, c) : t \in Thread, c \in Class}

PCs == {"idle", "peek", "pop", "own", "bump", "detach", "disown",
        "local", "remote", "claim", "flush", "push"}

TypeOK ==
  /\ owner \in [Slab -> Thread \union {None}]
  /\ class \in [Slab -> Class \union {None}]
  /\ free \in [Slab -> SUBSET Nat]
  /\ remote \in [Slab -> Nat]
  /\ stack \in [Keys -> Seq(Slab)]
  /\ bump \in Nat \ {0}
  /\ live \in [Slab -> SUBSET Nat]
  /\ pc \in [Thread -> PCs]
  /\ cls \in [Thread -> Class \union {None}]
  /\ cur \in [Thread -> Slab \union {None}]
  /\ blk \in [Thread -> Nat \union {None}]

\* A zeroed heap: no owner, no class, empty bitsets, empty stacks.
Init ==
  /\ owner = [s \in Slab |-> None]
  /\ class = [s \in Slab |-> None]
  /\ free = [s \in Slab |-> {}]
  /\ remote = [s \in Slab |-> 0]
  /\ stack = [k \in Keys |-> <<>>]
  /\ bump = 1
  /\ live = [s \in Slab |-> {}]
  /\ pc = [t \in Thread |-> "idle"]
  /\ cls = [t \in Thread |-> None]
  /\ cur = [t \in Thread |-> None]
  /\ blk = [t \in Thread |-> None]

Blocks(c) == 1..Count[c]

\* A block some operation is in the middle of handing out or taking back.
Busy(s, b) == \E u \in Thread : cur[u] = s /\ blk[u] = b

Goto(t, l)     == pc' = [pc EXCEPT ![t] = l]
Work(t, s, b)  == /\ cur' = [cur EXCEPT ![t] = s]
                  /\ blk' = [blk EXCEPT ![t] = b]

-----------------------------------------------------------------------------
(***************************************************************************)
(* allocate_untyped: peek a sized slab, getting one from `unsized`, from   *)
(* the global stack or from the bump index, then pop a block of it.        *)
(***************************************************************************)

\* Thread t starts to allocate in class c, or is back with a slab for it.
Allocating(t, c) ==
  \/ pc[t] = "idle"
  \/ pc[t] = "peek" /\ cls[t] = c

\* A faulty Pop, which forgets to clear the bit of the block it hands out.
PopKeepsBit(t, c) ==
  /\ Allocating(t, c)
  /\ stack[Sized(t, c)] # <<>>
  /\ LET s == Head(stack[Sized(t, c)]) IN
       \E b \in free[s] :
         /\ \A x \in free[s] : b <= x
         /\ live' = [live EXCEPT ![s] = @ \union {b}]
  /\ Goto(t, "idle")
  /\ cls' = [cls EXCEPT ![t] = None]
  /\ UNCHANGED <<meta, stack, bump, cur, blk>>

\* Heap::pop of the lowest free block of the head of the sized stack.  The
\* slab leaves the stack when that was its last one.
Pop(t, c) ==
  /\ Allocating(t, c)
  /\ stack[Sized(t, c)] # <<>>
  /\ LET s == Head(stack[Sized(t, c)]) IN
       \E b \in free[s] :
         /\ \A x \in free[s] : b <= x
         /\ free' = [free EXCEPT ![s] = @ \ {b}]
         /\ live' = [live EXCEPT ![s] = @ \union {b}]
         /\ IF free[s] = {b}
              THEN /\ stack' = [stack EXCEPT ![Sized(t, c)] = Tail(@)]
                   /\ Goto(t, "detach") /\ Work(t, s, b)
              ELSE /\ Goto(t, "idle")
                   /\ UNCHANGED <<stack, cur, blk>>
         /\ cls' = [cls EXCEPT ![t] = None]
  /\ UNCHANGED <<owner, class, remote, bump>>

\* A faulty UnsizedToSized, which leaves the remote counter of the slab's last
\* life.
UnsizedToSizedStaleRemote(t, c) ==
  /\ Allocating(t, c)
  /\ stack[Sized(t, c)] = <<>>
  /\ stack[Unsized(t)] # <<>>
  /\ LET s == Head(stack[Unsized(t)]) IN
       /\ class' = [class EXCEPT ![s] = c]
       /\ free' = [free EXCEPT ![s] = Blocks(c)]
       /\ stack' = [stack EXCEPT ![Unsized(t)] = Tail(@),
                                 ![Sized(t, c)] = <<s>>]
  /\ Goto(t, "peek")
  /\ cls' = [cls EXCEPT ![t] = c]
  /\ UNCHANGED <<owner, remote, bump, live, cur, blk>>

\* Owned::unsized_to_sized of the head of `unsized`: a full bitset and a full
\* remote counter for the new class.
UnsizedToSized(t, c) ==
  /\ Allocating(t, c)
  /\ stack[Sized(t, c)] = <<>>
  /\ stack[Unsized(t)] # <<>>
  /\ LET s == Head(stack[Unsized(t)]) IN
       /\ class' = [class EXCEPT ![s] = c]
       /\ free' = [free EXCEPT ![s] = Blocks(c)]
       /\ remote' = [remote EXCEPT ![s] = Count[c]]
       /\ stack' = [stack EXCEPT ![Unsized(t)] = Tail(@),
                                 ![Sized(t, c)] = <<s>>]
  /\ Goto(t, "peek")
  /\ cls' = [cls EXCEPT ![t] = c]
  /\ UNCHANGED <<owner, bump, live, cur, blk>>

\* Shared::pop looks whether the global stack is empty before it tries.
GlobalIsEmpty(t, c) ==
  /\ Allocating(t, c)
  /\ stack[Sized(t, c)] = <<>>
  /\ stack[Unsized(t)] = <<>>
  /\ Goto(t, IF stack[Global] = <<>> THEN "bump" ELSE "pop")
  /\ cls' = [cls EXCEPT ![t] = c]
  /\ UNCHANGED <<meta, stack, bump, live, cur, blk>>

\* Global::pop takes the head, or finds that the stack has become empty.
SharedPop(t) ==
  /\ pc[t] = "pop"
  /\ IF stack[Global] = <<>>
       THEN Goto(t, "bump") /\ UNCHANGED stack
       ELSE /\ stack' = [stack EXCEPT ![Hand(t)] = <<Head(stack[Global])>>,
                                      ![Global] = Tail(@)]
            /\ Goto(t, "own")
  /\ UNCHANGED <<meta, bump, live, cls, cur, blk>>

\* The rest of Heap::allocate after the pop: own the slab, push it to `unsized`.
GlobalToUnsized(t) ==
  /\ pc[t] = "own"
  /\ owner' = [owner EXCEPT ![Head(stack[Hand(t)])] = t]
  /\ stack' = [stack EXCEPT ![Unsized(t)] = stack[Hand(t)] \o @,
                            ![Hand(t)] = <<>>]
  /\ Goto(t, "peek")
  /\ UNCHANGED <<class, free, remote, bump, live, cls, cur, blk>>

\* Shared::bump and Slab::link: a batch of fresh slabs becomes `unsized`.
BumpToUnsized(t) ==
  /\ pc[t] = "bump"
  /\ bump + BatchBumpPop <= MaxSlab + 1
  /\ owner' = [s \in Slab |->
                 IF s \in bump..(bump + BatchBumpPop - 1) THEN t ELSE owner[s]]
  /\ stack' = [stack EXCEPT ![Unsized(t)] =
                 [i \in 1..BatchBumpPop |-> bump + i - 1]]
  /\ bump' = bump + BatchBumpPop
  /\ Goto(t, "peek")
  /\ UNCHANGED <<class, free, remote, live, cls, cur, blk>>

\* Heap::detach reads the remote counter and decides whether to disown ...
Detach(t) ==
  /\ pc[t] = "detach"
  /\ IF remote[cur[t]] < Count[class[cur[t]]]
       THEN Goto(t, "disown") /\ UNCHANGED <<cur, blk>>
       ELSE Goto(t, "idle") /\ Work(t, None, None)
  /\ UNCHANGED <<meta, stack, bump, live, cls>>

\* ... and disowns, before the block is returned to the application.
Disown(t) ==
  /\ pc[t] = "disown"
  /\ owner' = [owner EXCEPT ![cur[t]] = None]
  /\ Goto(t, "idle")
  /\ Work(t, None, None)
  /\ UNCHANGED <<class, free, remote, stack, bump, live, cls>>

-----------------------------------------------------------------------------
(***************************************************************************)
(* free_untyped.                                                           *)
(***************************************************************************)

\* A faulty Free, which frees locally into a slab that anyone owns.
FreeOwnedIsLocal(t, s, b) ==
  /\ pc[t] = "idle"
  /\ b \in live[s]
  /\ ~Busy(s, b)
  /\ Goto(t, IF owner[s] # None THEN "local" ELSE "remote")
  /\ Work(t, s, b)
  /\ UNCHANGED <<meta, stack, bump, live, cls>>

\* Heap::free reads the owner; what it read decides how the block is freed.
Free(t, s, b) ==
  /\ pc[t] = "idle"
  /\ b \in live[s]
  /\ ~Busy(s, b)
  /\ Goto(t, IF owner[s] = t THEN "local" ELSE "remote")
  /\ Work(t, s, b)
  /\ UNCHANGED <<meta, stack, bump, live, cls>>

\* The sequence q without its element at p, where the walk of sized_to_unsized
\* finds the slab and unlinks it.
RemoveAt(q, p) == [i \in 1..(Len(q) - 1) |-> IF i < p THEN q[i] ELSE q[i + 1]]

\* A faulty FreeLocal, which does not unlink a full slab from its sized stack.
FreeLocalNoUnlink(t) ==
  LET s == cur[t]
      c == class[s]
      f == free[s] \union {blk[t]}
      attached == IF Cardinality(f) = 1 THEN <<s>> \o stack[Sized(t, c)]
                                        ELSE stack[Sized(t, c)]
      full == Cardinality(f) = Count[c]
  IN
  /\ pc[t] = "local"
  /\ free' = [free EXCEPT ![s] = f]
  /\ live' = [live EXCEPT ![s] = @ \ {blk[t]}]
  /\ stack' = [stack EXCEPT ![Sized(t, c)] = attached,
                            ![Unsized(t)] = IF full THEN <<s>> \o @ ELSE @]
  /\ Goto(t, IF full THEN "flush" ELSE "idle")
  /\ Work(t, None, None)
  /\ UNCHANGED <<owner, class, remote, bump, cls>>

\* A faulty FreeLocal, which does not attach a slab that gets a free block.
FreeLocalNoAttach(t) ==
  LET s == cur[t] IN
  /\ pc[t] = "local"
  /\ free' = [free EXCEPT ![s] = @ \union {blk[t]}]
  /\ live' = [live EXCEPT ![s] = @ \ {blk[t]}]
  /\ Goto(t, "idle")
  /\ Work(t, None, None)
  /\ UNCHANGED <<owner, class, remote, stack, bump, cls>>

\* The owner's half of Heap::free: set the bit, attach the slab if it was
\* detached, move it to `unsized` (sized_to_unsized) if it is now full.
FreeLocal(t) ==
  LET s == cur[t]
      c == class[s]
      f == free[s] \union {blk[t]}
      attached == IF Cardinality(f) = 1 THEN <<s>> \o stack[Sized(t, c)]
                                        ELSE stack[Sized(t, c)]
  IN
  /\ pc[t] = "local"
  /\ free' = [free EXCEPT ![s] = f]
  /\ live' = [live EXCEPT ![s] = @ \ {blk[t]}]
  /\ IF Cardinality(f) < Count[c]
       THEN /\ stack' = [stack EXCEPT ![Sized(t, c)] = attached]
            /\ Goto(t, "idle")
       ELSE /\ \E p \in 1..Len(attached) :
                 /\ attached[p] = s
                 /\ stack' = [stack EXCEPT
                                ![Sized(t, c)] = RemoveAt(attached, p),
                                ![Unsized(t)] = <<s>> \o @]
            /\ Goto(t, "flush")
  /\ Work(t, None, None)
  /\ UNCHANGED <<owner, class, remote, bump, cls>>

\* A faulty FreeRemote, which claims the slab one block too early.
FreeRemoteEarly(t) ==
  LET s == cur[t] IN
  /\ pc[t] = "remote"
  /\ remote' = [remote EXCEPT ![s] = @ - 1]
  /\ live' = [live EXCEPT ![s] = @ \ {blk[t]}]
  /\ IF remote[s] = 2
       THEN /\ stack' = [stack EXCEPT ![Hand(t)] = <<s>>]
            /\ Goto(t, "claim")
       ELSE Goto(t, "idle") /\ UNCHANGED stack
  /\ Work(t, None, None)
  /\ UNCHANGED <<owner, class, free, bump, cls>>

\* Heap::free_remote: count the block off; whoever takes the counter to zero
\* takes the slab.
FreeRemote(t) ==
  LET s == cur[t] IN
  /\ pc[t] = "remote"
  /\ remote' = [remote EXCEPT ![s] = @ - 1]
  /\ live' = [live EXCEPT ![s] = @ \ {blk[t]}]
  /\ IF remote[s] = 1
       THEN /\ stack' = [stack EXCEPT ![Hand(t)] = <<s>>]
            /\ Goto(t, "claim")
       ELSE Goto(t, "idle") /\ UNCHANGED stack
  /\ Work(t, None, None)
  /\ UNCHANGED <<owner, class, free, bump, cls>>

\* Heap::claim: steal the slab, whoever owned it, and push it to `unsized`.
Claim(t) ==
  /\ pc[t] = "claim"
  /\ owner' = [owner EXCEPT ![Head(stack[Hand(t)])] = t]
  /\ stack' = [stack EXCEPT ![Unsized(t)] = stack[Hand(t)] \o @,
                            ![Hand(t)] = <<>>]
  /\ Goto(t, "flush")
  /\ UNCHANGED <<class, free, remote, bump, live, cls, cur, blk>>

\* A faulty UnsizedToGlobal, which does not disown the batch.
UnsizedToGlobalNoDisown(t) ==
  LET q == stack[Unsized(t)] IN
  /\ pc[t] = "flush"
  /\ IF Len(q) <= CountCacheSlab
       THEN Goto(t, "idle") /\ UNCHANGED stack
       ELSE /\ stack' = [stack EXCEPT ![Hand(t)] = SubSeq(q, 1, BatchGlobalPush),
                                      ![Unsized(t)] = SubSeq(q, BatchGlobalPush + 1, Len(q))]
            /\ Goto(t, "push")
  /\ UNCHANGED <<owner, class, free, remote, bump, live, cls, cur, blk>>

\* Heap::unsized_to_global up to the push: a batch leaves `unsized` when the
\* thread has more slabs than it may keep; a validating build disowns it.
UnsizedToGlobal(t) ==
  LET q     == stack[Unsized(t)]
      batch == SubSeq(q, 1, BatchGlobalPush)
  IN
  /\ pc[t] = "flush"
  /\ IF Len(q) <= CountCacheSlab
       THEN Goto(t, "idle") /\ UNCHANGED <<owner, stack>>
       ELSE /\ owner' = [s \in Slab |->
                 IF Validate /\ \E i \in 1..BatchGlobalPush : q[i] = s
                   THEN None ELSE owner[s]]
            /\ stack' = [stack EXCEPT
                 ![Hand(t)] = batch,
                 ![Unsized(t)] = SubSeq(q, BatchGlobalPush + 1, Len(q))]
            /\ Goto(t, "push")
  /\ UNCHANGED <<class, free, remote, bump, live, cls, cur, blk>>

\* Global::push of the batch.
SharedPush(t) ==
  /\ pc[t] = "push"
  /\ stack' = [stack EXCEPT ![Global] = stack[Hand(t)] \o @,
                            ![Hand(t)] = <<>>]
  /\ Goto(t, "idle")
  /\ UNCHANGED <<meta, bump, live, cls, cur, blk>>

-----------------------------------------------------------------------------
Allocate(t) ==
  \/ \E c \in Class : Pop(t, c) \/ UnsizedToSized(t, c) \/ GlobalIsEmpty(t, c)
  \/ SharedPop(t) \/ GlobalToUnsized(t) \/ BumpToUnsized(t)
  \/ Detach(t) \/ Disown(t)

Release(t) ==
  \/ \E s \in Slab : \E b \in live[s] : Free(t, s, b)
  \/ FreeLocal(t) \/ FreeRemote(t) \/ Claim(t)
  \/ UnsizedToGlobal(t) \/ SharedPush(t)

Next == \E t \in Thread : Allocate(t) \/ Release(t)

Spec == Init /\ [][Next]_vars

-----------------------------------------------------------------------------
(***************************************************************************)
(* Properties.                                                             *)
(***************************************************************************)

In(s, k) == \E i \in 1..Len(stack[k]) : stack[k][i] = s

\* A slab in use that is in no stack, because it has no free block.
Detached(s) == s < bump /\ \A k \in Keys : ~In(s, k)

\* Every slab is in at most one place: one position of one stack, or in the
\* hands of one thread.  A transfer (heap.rs logs "Transfer: ...") never
\* duplicates a slab, whichever thread wins the race for it.
OnePlace ==
  \A k, l \in Keys : \A i \in 1..Len(stack[k]), j \in 1..Len(stack[l]) :
    stack[k][i] = stack[l][j] => k = l /\ i = j

\* The remote counter of a slab in use is the number of its free and live
\* blocks, and no block is both: what Heap::free_remote relies on when it
\* takes a counter of zero to mean that nobody uses the slab.
Conservation ==
  \A s \in Slab :
    Detached(s) \/ (\E t \in Thread, c \in Class : In(s, Sized(t, c))) =>
      /\ class[s] \in Class
      /\ free[s] \union live[s] \subseteq Blocks(class[s])
      /\ free[s] \intersect live[s] = {}
      /\ remote[s] = Cardinality(free[s]) + Cardinality(live[s])

\* No slab leaks: once its last block is freed, locally or remotely, a slab
\* is in some stack or in the hands of the thread that claimed it.
NoSlabLost ==
  \A s \in Slab : Detached(s) => live[s] # {} /\ free[s] = {}

\* Heap::claim steals from the recorded owner without asking.  The slab it
\* takes has no block in use and no free bit, is in no stack, and no thread
\* is in the middle of freeing into it, detaching it or disowning it.
ClaimSafe ==
  \A t \in Thread : pc[t] = "claim" =>
    LET s == Head(stack[Hand(t)]) IN
      /\ live[s] = {} /\ free[s] = {}
      /\ \A u \in Thread : cur[u] # s

\* Heap::free branches on an owner read earlier, Heap::detach on a counter
\* read earlier.  What was read still decides right when it is used: the
\* reader is the owner for a local free and for a disown, and is not the
\* owner for a remote free, whose counter is above zero.
OwnerDecision ==
  \A t \in Thread :
    /\ pc[t] \in {"local", "detach", "disown"} => owner[cur[t]] = t
    /\ pc[t] = "remote" => owner[cur[t]] # t /\ remote[cur[t]] > 0

\* A slab whose bitset thread t may write: Local.free is an UnsafeCell.
MayWrite(t, s) ==
  \/ In(s, Unsized(t))
  \/ \E c \in Class : In(s, Sized(t, c))
  \/ pc[t] = "local" /\ cur[t] = s

\* Two threads never may write the same bitset, so the unsynchronised
\* accesses of Heap::pop, Heap::free and unsized_to_sized do not race.
BitsetExclusive ==
  \A t, u \in Thread : \A s \in Slab :
    MayWrite(t, s) /\ MayWrite(u, s) => t = u

\* Owned::is_valid of every thread: its stacks hold slabs it owns, those of
\* the sized stacks have the class of the stack and a free block.
OwnedValid ==
  \A t \in Thread :
    /\ \A s \in Slab : In(s, Unsized(t)) => owner[s] = t
    /\ \A c \in Class : \A s \in Slab : In(s, Sized(t, c)) =>
         owner[s] = t /\ class[s] = c /\ free[s] # {}

\* Local::own finds no owner (validate_eq in local.rs), both for a slab popped
\* from the global stack and for a fresh one: checked by a validating build.
OwnFindsNone ==
  Validate =>
    /\ \A t \in Thread : pc[t] = "own" => owner[Head(stack[Hand(t)])] = None
    /\ \A s \in Slab : s >= bump => owner[s] = None

\* Heap::pop hands out a block that nobody has: with Implements, which a second
\* hand-out of the same block would leave unchanged, no block has two holders.
FreshBlock ==
  [][\A t \in Thread, c \in Class : Pop(t, c) => live' # live]_vars

\* The blocks in use, as the application sees them, and the promise about
\* them: every step of the heap is a step of BlockAllocator, or none.
HeldBlocks ==
  UNION {{[slab |-> s, class |-> class[s], block |-> b] : b \in live[s]} :
           s \in Slab}

\* Two blocks of a slab share memory unless they are different blocks of the
\* same class.
Overlap(x, y) == x.slab = y.slab /\ (x.class # y.class \/ x.block = y.block)

AllBlocks == UNION {[slab : Slab, class : {c}, block : Blocks(c)] : c \in Class}

Promise == INSTANCE BlockAllocator
             WITH Block <- AllBlocks, Overlap <- Overlap, used <- HeldBlocks

\* The heap implements the abstract allocator: no block is handed out that
\* overlaps one in use, none changes class or disappears before it is freed.
Implements == Promise!Init /\ [][UNCHANGED HeldBlocks \/ Promise!Next]_vars
=============================================================================
