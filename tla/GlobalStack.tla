---------------------------- MODULE GlobalStack ----------------------------
(***************************************************************************)
(* The global free stack of a size bracket: a linked list through the      *)
(* `next` fields of the slabs, whose head is a detectable compare-exchange *)
(* cell tagged with the id of its last writer and a version.  The          *)
(* `unsized` stacks of the threads are linked through the same fields, so  *)
(* a thread popping from the global stack may read the `next` of a slab    *)
(* that has long moved elsewhere; only the tag can make its exchange fail. *)
(*                                                                         *)
(* A slab in use has one block here (the largest class of Large), so a     *)
(* thread that takes a slab from `unsized` detaches it at once, and        *)
(* whoever frees the block takes it.                                       *)
(*                                                                         *)
(* A thread counts its versions in its entry of its own row of the help    *)
(* array.  Detectable::help writes that entry too: whatever cell the       *)
(* thread reads, if it wrote the cell last it takes over the version found *)
(* there, which may be an older one.                                       *)
(***************************************************************************)
EXTENDS Integers, Sequences, FiniteSets

LOCAL INSTANCE FiniteSetsExt

CONSTANTS
  Thread,
  Allocator,        \* the threads that allocate; all of them free
  Slab,
  CountCacheSlab,   \* COUNT_CACHE_SLAB
  BatchGlobalPush,  \* BATCH_GLOBAL_PUSH
  RecoverCas,       \* built with the feature "recover-cas"
  MaxVersion,       \* bound: a thread starts nothing beyond this version
  None

ConstantsAssumption ==
  /\ None \notin Thread \union Slab
  /\ Allocator \subseteq Thread
  /\ IsFiniteSet(Slab)
  /\ CountCacheSlab \in Nat
  /\ BatchGlobalPush \in 1..(CountCacheSlab + 1)
  /\ RecoverCas \in BOOLEAN
  /\ MaxVersion \in Nat

VARIABLES
  head,     \* Global.head: [id, version, inner]
  next,     \* slab -> Local.next
  owner,    \* slab -> Local.owner
  unsized,  \* thread -> Local { head, len } of its unsized stack
  used,     \* slabs in use, in no stack
  help,     \* thread -> help[t][t], from which it takes its next version
  version,  \* thread -> the version of the update it is in
  pc,       \* thread -> where it is
  old,      \* thread -> the cell as it last read it
  batch     \* thread -> [head, tail] that it pushes; head is also what it pops to

vars == <<head, next, owner, unsized, used, help, version, pc, old, batch>>

Option == Slab \union {None}
Cell   == [id : Thread \union {None}, version : Nat, inner : Option]

TypeOK ==
  /\ head \in Cell
  /\ next \in [Slab -> Option]
  /\ owner \in [Slab -> Thread \union {None}]
  /\ unsized \in [Thread -> [head : Option, len : Nat]]
  /\ used \subseteq Slab
  /\ help \in [Thread -> Nat]
  /\ version \in [Thread -> Nat]
  /\ pc \in [Thread -> {"idle", "pop", "next", "exchange_pop", "own", "use",
                        "push", "link", "exchange_push"}]
  /\ old \in [Thread -> Cell]
  /\ batch \in [Thread -> [head : Option, tail : Option]]

Zero    == [id |-> None, version |-> 0, inner |-> None]
NoCell  == [id |-> None]
NoBatch == [head |-> None, tail |-> None]

\* All slabs are in use, by whoever took them from the bump index.
Init ==
  /\ head = Zero
  /\ next = [s \in Slab |-> None]
  /\ owner \in [Slab -> Allocator]
  /\ unsized = [t \in Thread |-> [head |-> None, len |-> 0]]
  /\ used = Slab
  /\ help = [t \in Thread |-> 0]
  /\ version = [t \in Thread |-> 0]
  /\ pc = [t \in Thread |-> "idle"]
  /\ old = [t \in Thread |-> Zero]
  /\ batch = [t \in Thread |-> NoBatch]

Goto(t, l) == pc' = [pc EXCEPT ![t] = l]

\* The i-th slab of the list that starts at s; None past its end.
Nth(nx, s, i) ==
  LET after(x)         == IF x = None THEN None ELSE nx[x]
      walk[j \in 1..i] == IF j = 1 THEN s ELSE after(walk[j - 1])
  IN  walk[i]

-----------------------------------------------------------------------------
\* Detectable::help after thread t has read `cell`, with v in its own entry.
Helped(t, v, cell) ==
  help' = [help EXCEPT ![t] = IF ~RecoverCas THEN @
                              ELSE IF cell.id = t THEN cell.version ELSE v]

\* Detectable::update up to its loop, and the help that starts the loop.
\* Without recover-cas the version is not stored, and the next one is the same.
Update(t, l) ==
  /\ version' = [version EXCEPT ![t] = help[t] + 1]
  /\ old' = [old EXCEPT ![t] = head]
  /\ Helped(t, help[t] + 1, head)
  /\ Goto(t, l)

\* A faulty CompareExchange, which retries with the value it read before.
CompareExchangeStale(t, new, done, retry) ==
  /\ IF head = old[t]
       THEN /\ head' = [id |-> t, version |-> version[t], inner |-> new]
            /\ Goto(t, done)
       ELSE Goto(t, retry) /\ UNCHANGED head
  /\ UNCHANGED <<old, help>>

\* A faulty CompareExchange, which does not compute the new value again.
CompareExchangeNoClosure(t, new, done, retry) ==
  IF head = old[t]
    THEN /\ head' = [id |-> t, version |-> version[t], inner |-> new]
         /\ Goto(t, done)
         /\ UNCHANGED <<old, help>>
    ELSE /\ old' = [old EXCEPT ![t] = head]
         /\ Helped(t, help[t], head)
         /\ UNCHANGED <<head, pc>>

\* The compare-exchange: write `new` and go on at `done`, or take the value
\* found, help, and retry at `retry`.
CompareExchange(t, new, done, retry) ==
  IF head = old[t]
    THEN /\ head' = [id |-> t, version |-> version[t], inner |-> new]
         /\ Goto(t, done)
         /\ UNCHANGED <<old, help>>
    ELSE /\ old' = [old EXCEPT ![t] = head]
         /\ Helped(t, help[t], head)
         /\ Goto(t, retry)
         /\ UNCHANGED head

-----------------------------------------------------------------------------
\* Shared::pop when the unsized stack is empty: a load of the global stack
\* tells whether to try.
IsEmpty(t) ==
  /\ pc[t] = "idle"
  /\ t \in Allocator
  /\ help[t] < MaxVersion /\ head.version < MaxVersion
  /\ unsized[t].head = None
  /\ Helped(t, help[t], head)
  /\ Goto(t, IF head.inner = None THEN "idle" ELSE "pop")
  /\ UNCHANGED <<head, next, owner, unsized, used, version, old, batch>>

StartPop(t) ==
  /\ pc[t] = "pop"
  /\ Update(t, "next")
  /\ UNCHANGED <<head, next, owner, unsized, used, batch>>

\* The closure of Global::pop: nothing to pop, or read `next` of the head.
ReadNext(t) ==
  /\ pc[t] = "next"
  /\ IF old[t].inner = None
       THEN /\ Goto(t, "idle")
            /\ UNCHANGED batch
       ELSE /\ Goto(t, "exchange_pop")
            /\ batch' = [batch EXCEPT ![t].head = next[old[t].inner]]
  /\ UNCHANGED <<head, next, owner, unsized, used, help, version, old>>

ExchangePop(t) ==
  /\ pc[t] = "exchange_pop"
  /\ CompareExchange(t, batch[t].head, "own", "next")
  /\ batch' = [batch EXCEPT ![t] = NoBatch]
  /\ UNCHANGED <<next, owner, unsized, used, version>>

\* Heap::allocate owns the slab it popped and pushes it to `unsized`.
Own(t) ==
  LET s == old[t].inner IN
  /\ pc[t] = "own"
  /\ owner' = [owner EXCEPT ![s] = t]
  /\ next' = [next EXCEPT ![s] = unsized[t].head]
  /\ unsized' = [unsized EXCEPT ![t] = [head |-> s, len |-> @.len + 1]]
  /\ Goto(t, "use")
  /\ UNCHANGED <<head, used, help, version, old, batch>>

\* unsized_to_sized and, with its only block, detach: the sized stack was
\* empty, so `next` ends as None.  The first stores the remote cell with
\* version 0, the second loads and helps it.
Use(t) ==
  LET s == unsized[t].head IN
  /\ pc[t] \in {"idle", "use"}
  /\ t \in Allocator
  /\ s # None
  /\ unsized' = [unsized EXCEPT ![t] = [head |-> next[s], len |-> @.len - 1]]
  /\ next' = [next EXCEPT ![s] = None]
  /\ used' = used \union {s}
  /\ Helped(t, 0, [id |-> t, version |-> 0])
  /\ Goto(t, "idle")
  /\ UNCHANGED <<head, owner, version, old, batch>>

\* Freeing the block, by the owner or by another thread, whose update of the
\* remote cell takes a version and claims the slab: push the slab to `unsized`;
\* with more slabs there than the thread may keep, unsized_to_global cuts off a
\* batch.
Release(t, s) ==
  LET nx   == [next EXCEPT ![s] = unsized[t].head]
      len  == unsized[t].len + 1
      tail == Nth(nx, s, BatchGlobalPush)
  IN
  /\ pc[t] = "idle"
  /\ help[t] < MaxVersion
  /\ s \in used
  /\ used' = used \ {s}
  /\ owner' = [owner EXCEPT ![s] = t]
  /\ Helped(t, IF owner[s] = t THEN help[t] ELSE help[t] + 1, NoCell)
  /\ next' = nx
  /\ IF len <= CountCacheSlab
       THEN /\ unsized' = [unsized EXCEPT ![t] = [head |-> s, len |-> len]]
            /\ UNCHANGED <<batch, pc>>
       ELSE /\ unsized' = [unsized EXCEPT ![t] =
                             [head |-> nx[tail], len |-> len - BatchGlobalPush]]
            /\ batch' = [batch EXCEPT ![t] = [head |-> s, tail |-> tail]]
            /\ Goto(t, "push")
  /\ UNCHANGED <<head, version, old>>

StartPush(t) ==
  /\ pc[t] = "push"
  /\ Update(t, "link")
  /\ UNCHANGED <<head, next, owner, unsized, used, batch>>

\* The closure of Global::push: link the tail of the batch to the head read.
Link(t) ==
  /\ pc[t] = "link"
  /\ next' = [next EXCEPT ![batch[t].tail] = old[t].inner]
  /\ Goto(t, "exchange_push")
  /\ UNCHANGED <<head, owner, unsized, used, help, version, old, batch>>

ExchangePush(t) ==
  /\ pc[t] = "exchange_push"
  /\ CompareExchange(t, batch[t].head, "idle", "link")
  /\ batch' = IF head = old[t] THEN [batch EXCEPT ![t] = NoBatch] ELSE batch
  /\ UNCHANGED <<next, owner, unsized, used, version>>

-----------------------------------------------------------------------------
\* A thread in the middle of an operation goes on.
Continue(t) ==
  \/ StartPop(t) \/ ReadNext(t) \/ ExchangePop(t) \/ Own(t) \/ (pc[t] = "use" /\ Use(t))
  \/ StartPush(t) \/ Link(t) \/ ExchangePush(t)

Next ==
  \E t \in Thread :
    Continue(t) \/ IsEmpty(t) \/ Use(t) \/ \E s \in Slab : Release(t, s)

Spec == Init /\ [][Next]_vars /\ \A t \in Thread : WF_vars(Continue(t))

-----------------------------------------------------------------------------
\* The slabs of the list that starts at s, or more than there are when the
\* list has a cycle.
Chain(s) ==
  SelectSeq([i \in 1..(Cardinality(Slab) + 1) |-> Nth(next, s, i)], LAMBDA x : x # None)

\* The slabs that thread t moves: popped and not yet owned, or in its batch.
Moving(t) ==
  CASE pc[t] = "own" -> <<old[t].inner>>
    [] pc[t] \in {"push", "link", "exchange_push"} ->
         [i \in 1..BatchGlobalPush |-> Nth(next, batch[t].head, i)]
    [] OTHER -> <<>>

Occurrences(q, s) == Cardinality({i \in DOMAIN q : q[i] = s})

\* Every slab is in exactly one place, however pops and pushes of several
\* threads overlap: in the global list, in one unsized list, moved by one
\* thread, or in use.  In particular no list has a cycle.
EachSlabOnce ==
  \A s \in Slab :
    LET moving(t) == Occurrences(Moving(t), s)
        local(t)  == Occurrences(Chain(unsized[t].head), s)
    IN  1 = Occurrences(Chain(head.inner), s) + (IF s \in used THEN 1 ELSE 0)
            + MapThenSumSet(moving, Thread) + MapThenSumSet(local, Thread)

\* Local::is_valid of the unsized stacks, on which unsized_to_global relies
\* when it cuts off a batch: `len` is the length of the list.
LenIsCount ==
  \A t \in Thread : unsized[t].len = Len(Chain(unsized[t].head))

\* Owned::is_valid: all slabs of an unsized stack have its thread as owner.
UnsizedIsOwned ==
  \A t \in Thread : \A i \in DOMAIN Chain(unsized[t].head) :
    owner[Chain(unsized[t].head)[i]] = t

Stack == INSTANCE SlabStack
           WITH stack <- Chain(head.inner), MaxBatch <- BatchGlobalPush

\* The linked list behaves as a stack whose pushes and pops are atomic.
ImplementsStep == UNCHANGED Chain(head.inner) \/ Stack!Next
Implements == Stack!Init /\ [][ImplementsStep]_vars

\* Lock-freedom: while some thread is in the middle of an operation, threads
\* keep completing operations, because an exchange fails only if another one
\* succeeded.  A single operation may fail for ever.
LockFree ==
  \/ <>[](\A t \in Thread : pc[t] = "idle")
  \/ []<><<\E t \in Thread : pc[t] # "idle" /\ pc'[t] = "idle">>_vars
=============================================================================
