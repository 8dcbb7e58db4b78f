------------------------------- MODULE Recovery -------------------------------
(***************************************************************************)
(* What a thread does to its own stacks, to the global stack and to the    *)
(* bump pointer, store by store, with a crash between any two stores, and  *)
(* what recovery makes of the log entry that it finds.                     *)
(*                                                                         *)
(* All memory is one function from locations to values, and survives a     *)
(* crash.  An operation is the sequence of stores it makes, which follows  *)
(* from the memory it starts from: no other thread runs, and stores take   *)
(* effect in order.  Recovery is such a sequence too, and may crash again. *)
(* The answer of detect is taken to be right (DetectableCas has what it    *)
(* is): location Did says whether the update of the log entry happened.    *)
(*                                                                         *)
(* One size class, of Count blocks in a slab; a bitset is its cardinality. *)
(***************************************************************************)
EXTENDS Integers, FiniteSets, Sequences, TLC
LOCAL INSTANCE SequencesExt

CONSTANTS
  Slabs,       \* bound: slabs that can be bumped
  Foreign,     \* how many slabs of another thread this one holds all blocks of
  Pushed,      \* how many it has pushed on the global stack
  Count,       \* blocks in a slab
  BatchBump,   \* BATCH_BUMP_POP
  BatchGlobal, \* BATCH_GLOBAL_PUSH
  Cache,       \* COUNT_CACHE_SLAB
  CrashIn,     \* when crashes are considered: under these kinds of log entry, or
               \* "Unlogged", before the operation has written one
  MaxCrashes,  \* bound
  None

RecoveryAssumption ==
  /\ {Slabs, Foreign, Pushed, MaxCrashes} \subseteq Nat
  /\ Foreign + Pushed <= Slabs
  /\ {Count, BatchBump, BatchGlobal, Cache} \subseteq Nat \ {0}
  /\ BatchGlobal <= Cache + 1

VARIABLES
  mem,      \* location -> value
  todo,     \* the stores that remain of the operation
  down,     \* whether the thread has crashed and not begun to recover
  logged,   \* whether the log entry is of the operation that runs
  crashes

vars == <<mem, todo, down, logged, crashes>>

-----------------------------------------------------------------------------
(* Locations: a field, and the slab or the stack that it belongs to.        *)
Slab == 1..Slabs
Unsized == -1
Sized   == -2
Global  == -3

Head_(k)  == <<"head", k>>
Len_(k)   == <<"len", k>>
Next_(s)  == <<"next", s>>
Owner(s)  == <<"owner", s>>
Free_(s)  == <<"free", s>>
Remote(s) == <<"remote", s>>
Held(s)   == <<"held", s>>   \* the blocks that the application holds
Bump == <<"bump", 0>>
Log_ == <<"log", 0>>
Did  == <<"did", 0>>

Me    == "me"
Other == "other"

NoEntry == [kind |-> "None", slab |-> None]

\* The slabs below the bump pointer are the other thread's.  Those it has
\* detached come first, and then those on the global stack.
Init ==
  LET pushed == (Foreign + 1)..(Foreign + Pushed) IN
  /\ mem = [l \in {Head_(k) : k \in {Unsized, Sized, Global}} |->
              IF l[2] = Global /\ Pushed > 0 THEN Foreign + 1 ELSE None]
        @@ [l \in {Len_(k) : k \in {Unsized, Sized}} |-> 0]
        @@ (Bump :> Foreign + Pushed + 1) @@ (Log_ :> NoEntry) @@ (Did :> FALSE)
        @@ [l \in {Next_(s) : s \in Slab} |->
              IF l[2] \in pushed /\ l[2] + 1 \in pushed THEN l[2] + 1 ELSE None]
        @@ [l \in {Owner(s) : s \in Slab} |-> IF l[2] <= Foreign + Pushed THEN Other ELSE None]
        @@ [l \in {Free_(s) : s \in Slab} |-> 0]
        @@ [l \in {"remote", "held"} \X Slab |-> IF l[2] <= Foreign THEN Count ELSE 0]
  /\ todo = << >>
  /\ down = FALSE /\ logged = FALSE
  /\ crashes = 0

-----------------------------------------------------------------------------
(* Sequences of stores.                                                     *)
Run(m, stores) == FoldLeft(LAMBDA acc, store : store @@ acc, m, stores)

\* Two parts of an operation, the second from where the first has led.
Then(m, first, Second(_)) == first \o Second(Run(m, first))

\* What is on a stack, once around if it is a cycle.
Trace(m, k) ==
  LET walk[n \in 0..Slabs] ==
        IF n = 0 THEN << m[Head_(k)] >>
        ELSE LET w == walk[n - 1] IN
             IF w[Len(w)] = None THEN w ELSE Append(w, m[Next_(w[Len(w)])])
  IN  SelectSeq(walk[Slabs], LAMBDA s : s # None)

OnStack(m, k) == {Trace(m, k)[i] : i \in 1..Len(Trace(m, k))}

\* A log entry; the update that it announces has not happened.
Log(kind, slab) == << (Log_ :> [kind |-> kind, slab |-> slab]) @@ (Did :> FALSE) >>

\* The length of `sized` decides nothing, and is left to OwnedStacks.
Set(k, head, len) ==
  IF k = Sized THEN << Head_(k) :> head >> ELSE << Head_(k) :> head, Len_(k) :> len >>

Push(m, k, s) == << Next_(s) :> m[Head_(k)] >> \o Set(k, s, m[Len_(k)] + 1)

PopStack(m, k) == Set(k, m[Next_(m[Head_(k)])], m[Len_(k)] - 1)

RecoverLen(m, k) == << Len_(k) :> Len(Trace(m, k)) >>

RecoverPush(m, k, s) ==
  Then(m, IF m[Head_(k)] # s THEN Push(m, k, s) ELSE << >>, LAMBDA n : RecoverLen(n, k))

-----------------------------------------------------------------------------
(* The transfers.                                                           *)
UnsizedToSized(m) ==
  LET s == m[Head_(Unsized)]  next == m[Next_(s)] IN
  IF s = None THEN << >> ELSE
    Log("UnsizedToSized", next)
      \o << Free_(s) :> Count >>
      \o Push(m, Sized, s)
      \o << Remote(s) :> Count >>
      \o Set(Unsized, next, m[Len_(Unsized)] - 1)

GlobalToUnsized(m) ==
  LET s == m[Head_(Global)] IN
  Log("GlobalToUnsized", s)
    \o << (Head_(Global) :> m[Next_(s)]) @@ (Did :> TRUE), Owner(s) :> Me >>
    \o Push(m, Unsized, s)

\* Slab::link, and a stack of what it linked.
Adopt(start) ==
  LET last == start + BatchBump - 1 IN
  << [l \in {Next_(s) : s \in start..last} |-> IF l[2] = last THEN None ELSE l[2] + 1]
     @@ [l \in {Owner(s) : s \in start..last} |-> Me] >>
  \o Set(Unsized, start, BatchBump)

BumpToUnsized(m) ==
  Log("BumpToUnsized", m[Bump])
    \o << (Bump :> m[Bump] + BatchBump) @@ (Did :> TRUE) >>
    \o Adopt(m[Bump])

\* unsized_to_global: a batch leaves `unsized`, and is pushed as a whole.
UnsizedToGlobal(m) ==
  LET batch == SubSeq(Trace(m, Unsized), 1, BatchGlobal)
      head  == batch[1]
      tail  == batch[Len(batch)]
  IN
  IF m[Len_(Unsized)] <= Cache THEN << >> ELSE
    Log("UnsizedToGlobalSave", head)
      \o Set(Unsized, m[Next_(tail)], m[Len_(Unsized)] - BatchGlobal)
      \o << Next_(tail) :> m[Head_(Global)] >>
      \o Log("UnsizedToGlobal", head)
      \o << (Head_(Global) :> head) @@ (Did :> TRUE) >>

\* sized_to_unsized: the slab leaves its stack, wherever it is on it.
SizedToUnsized(m, s) ==
  LET next == m[Next_(s)]
      out  == IF m[Head_(Sized)] = s
                THEN Set(Sized, next, m[Len_(Sized)] - 1)
                ELSE << Next_(CHOOSE p \in OnStack(m, Sized) : m[Next_(p)] = s) :> next >>
  IN  Then(m, out, LAMBDA n : Push(n, Unsized, s))

\* pop: the block is taken; a slab that has none left is detached, and
\* disowned if blocks of it were freed remotely.
Pop(m) ==
  LET s == m[Head_(Sized)]  left == m[Free_(s)] - 1 IN
  << Free_(s) :> left >>
    \o (IF left > 0 THEN << >>
        ELSE PopStack(m, Sized)
               \o (IF m[Remote(s)] < Count THEN << Owner(s) :> None >> ELSE << >>))
    \o << (Log_ :> NoEntry) @@ (Held(s) :> m[Held(s)] + 1) >>

\* The application has the block when the log entry is erased.
AllocateStores(m) ==
  LET refill == IF m[Head_(Sized)] # None \/ m[Head_(Unsized)] # None THEN << >>
                ELSE IF m[Head_(Global)] # None THEN GlobalToUnsized(m)
                ELSE BumpToUnsized(m)
      size(n) == IF n[Head_(Sized)] # None THEN << >> ELSE UnsizedToSized(n)
  IN  Then(m, Then(m, refill, size), Pop)

FreeLocal(m, s) ==
  LET count == m[Free_(s)] + 1
      attach(n) == IF count = 1 THEN Push(n, Sized, s) ELSE << >>
      return(n) == IF count = Count
                     THEN Then(n, SizedToUnsized(n, s), UnsizedToGlobal) ELSE << >>
      set == Log("ApplicationToSized", s) \o << Free_(s) :> count >>
  IN  Then(m, Then(m, set, attach), return)

\* free_remote and claim.
FreeRemote(m, s) ==
  LET last == m[Remote(s)] = 1
      update == Log(IF last THEN "RemoteLast" ELSE "Remote", s)
                  \o << (Remote(s) :> m[Remote(s)] - 1) @@ (Did :> TRUE) >>
  IN  IF ~last THEN update
      ELSE Then(m, update \o << Owner(s) :> Me >> \o Push(m, Unsized, s), UnsizedToGlobal)

FreeStores(m, s) ==
  (IF m[Owner(s)] = Me THEN FreeLocal(m, s) ELSE FreeRemote(m, s)) \o << Log_ :> NoEntry >>

-----------------------------------------------------------------------------
(* recover_heap.                                                            *)
UndoPop(m, s) ==
  << Head_(Unsized) :> s >> \o RecoverLen((Head_(Unsized) :> s) @@ m, Unsized)

\* A faulty RecoverBump, which does not ask whether the update happened.
RecoverBumpAlways(m, start) == Adopt(start)

RecoverBump(m, start) == IF m[Did] THEN Adopt(start) ELSE << >>

RecoverRemote(m, s) == IF m[Did] THEN << >> ELSE FreeRemote(m, s)

\* The entry of a local free is left to do, with a panic.
RecoverStores(m) ==
  LET s == m[Log_].slab  kind == m[Log_].kind IN
  CASE kind = "UnsizedToSized" ->
         IF m[Head_(Unsized)] # s THEN RecoverLen(m, Unsized) ELSE UnsizedToSized(m)
    [] kind = "GlobalToUnsized" -> IF m[Did] THEN RecoverPush(m, Unsized, s) ELSE << >>
    [] kind = "BumpToUnsized" -> RecoverBump(m, s)
    [] kind = "UnsizedToGlobalSave" ->
         IF m[Head_(Unsized)] = s THEN RecoverLen(m, Unsized) ELSE UndoPop(m, s)
    [] kind = "UnsizedToGlobal" -> IF m[Did] THEN << >> ELSE UndoPop(m, s)
    [] kind = "Remote" -> RecoverRemote(m, s)
    [] kind = "RemoteLast" ->
         IF ~m[Did] THEN FreeRemote(m, s)
         ELSE Then(m, RecoverPush(m, Unsized, s), UnsizedToGlobal)
    [] OTHER -> << >>

-----------------------------------------------------------------------------
Idle == todo = << >> /\ ~down

Allocate ==
  /\ Idle
  /\ \/ \E k \in {Unsized, Sized, Global} : mem[Head_(k)] # None
     \/ mem[Bump] + BatchBump - 1 <= Slabs
  /\ todo' = AllocateStores(mem)
  /\ logged' = FALSE
  /\ UNCHANGED <<mem, down, crashes>>

\* The application has given the block up when the log entry is written: a
\* free that crashed before is one it repeats.
Free(s) ==
  LET stores == FreeStores(mem, s) IN
  /\ Idle /\ mem[Held(s)] > 0
  /\ todo' = << (Held(s) :> mem[Held(s)] - 1) @@ Head(stores) >> \o Tail(stores)
  /\ logged' = FALSE
  /\ UNCHANGED <<mem, down, crashes>>

Store ==
  /\ todo # << >>
  /\ mem' = Head(todo) @@ mem
  /\ todo' = Tail(todo)
  /\ logged' = (logged \/ Log_ \in DOMAIN Head(todo))
  /\ UNCHANGED <<down, crashes>>

Crash ==
  /\ ~down /\ crashes < MaxCrashes
  /\ (IF logged THEN mem[Log_].kind ELSE "Unlogged") \in CrashIn
  /\ crashes' = crashes + 1
  /\ todo' = << >> /\ down' = TRUE
  /\ UNCHANGED <<mem, logged>>

Recover ==
  /\ down
  /\ todo' = RecoverStores(mem)
  /\ down' = FALSE /\ logged' = TRUE
  /\ UNCHANGED <<mem, crashes>>

Next == Allocate \/ (\E s \in Slab : Free(s)) \/ Store \/ Crash \/ Recover

Spec == Init /\ [][Next]_vars

-----------------------------------------------------------------------------
\* is_valid, between operations and after every recovery: the length of
\* `unsized` is what is on it, and all of it is this thread's; what is on
\* `sized` is this thread's and has a free block; no slab is on both.
StacksValid ==
  Idle =>
    /\ mem[Len_(Unsized)] = Len(Trace(mem, Unsized))
    /\ \A s \in OnStack(mem, Unsized) : mem[Owner(s)] = Me
    /\ \A s \in OnStack(mem, Sized) : mem[Owner(s)] = Me /\ mem[Free_(s)] > 0
    /\ OnStack(mem, Unsized) \intersect OnStack(mem, Sized) = {}

\* What is on the global stack is on no stack of the thread.
GlobalExclusive ==
  Idle => OnStack(mem, Global) \intersect (OnStack(mem, Unsized) \union OnStack(mem, Sized)) = {}

\* No slab is lost by a crash that recovery handles: below the bump pointer,
\* a slab is on a stack or has a block in use.
NothingLost ==
  Idle => \A s \in 1..(mem[Bump] - 1) :
            \/ \E k \in {Unsized, Sized, Global} : s \in OnStack(mem, k)
            \/ mem[Held(s)] > 0
=============================================================================
