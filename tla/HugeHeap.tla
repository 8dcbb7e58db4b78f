------------------------------- MODULE HugeHeap -------------------------------
(***************************************************************************)
(* The heap of huge allocations.  A thread claims slots of the address     *)
(* space and carves ranges from them; which ranges are free it keeps only  *)
(* in its own DRAM.  A descriptor, a block of the small heap on a list of  *)
(* the thread that made it, says what a range is: Live, Free once it was   *)
(* freed, Safe once nobody has it mapped any more and it may be carved     *)
(* again.  A process maps the file of a range when one of its threads      *)
(* allocates it or faults on it, and that thread records the range as a    *)
(* hazard; it unmaps when it sees that the descriptor is Free.             *)
(*                                                                         *)
(* The hazards of a thread are a set here; HazardArray is the array.  The  *)
(* small heap is external: peek returns the first block nobody popped.     *)
(***************************************************************************)
EXTENDS Integers, FiniteSets

CONSTANTS
  Process,
  Thread,
  ProcessOf,    \* thread -> process
  SlotCount,    \* the slots of the address space
  SlotSize,     \* SIZE_SLAB, in pages
  Sizes,        \* the sizes that are requested, in pages
  DescCount,    \* bound: blocks of the small heap for descriptors
  BlocksOf,     \* thread -> those that lie in its slabs
  MaxCrashes,   \* bound: crashes of a process
  MaxHeld,      \* bound: allocations in use
  Prompt,       \* whether nothing runs between the two steps of an unmapping
  None

HugeAssumption ==
  /\ ProcessOf \in [Thread -> Process]
  /\ BlocksOf \in [Thread -> SUBSET (1..DescCount)]
  /\ \A t, u \in Thread : t # u => BlocksOf[t] \intersect BlocksOf[u] = {}
  /\ SlotCount \in Nat /\ SlotSize \in Nat \ {0}
  /\ Sizes \subseteq Nat \ {0}
  /\ {DescCount, MaxCrashes, MaxHeld} \subseteq Nat
  /\ Prompt \in BOOLEAN
  /\ None \notin 1..DescCount /\ None \notin [id : Thread, count : Nat \ {0}]

VARIABLES
  slots,     \* slot -> claim or None
  hint,
  head,      \* thread -> its newest descriptor or None
  next,      \* descriptor -> the one linked before it or None
  desc,      \* descriptor -> [offset, size, state]
  popped,    \* the blocks of the small heap that are allocated
  hazards,   \* thread -> the offsets it protects
  free,      \* thread -> the pages it may carve; DRAM
  files,     \* the offsets whose file has a name
  mapping,   \* process -> page -> the file mapped there: [name, linked] or None
  pc, job,   \* thread -> what it does: [size, desc, reuse, slot, offset, todo, old, then]
  held,      \* the descriptors of the allocations that the application holds
  crashes

shared == <<slots, hint, head, next, desc, popped, hazards>>
memory == <<files, mapping>>
vars   == <<shared, free, memory, pc, job, held, crashes>>

Desc == 1..DescCount
Slot == 0..(SlotCount - 1)
Page == 0..(SlotCount * SlotSize - 1)

NoJob  == [size |-> 0, desc |-> None, reuse |-> FALSE, slot |-> 0,
           offset |-> 0, todo |-> {}, old |-> None, then |-> "idle"]
NoDesc == [offset |-> 0, size |-> 0, state |-> "Safe"]

Init ==
  /\ slots = [s \in Slot |-> None]
  /\ hint = 0
  /\ head = [t \in Thread |-> None]
  /\ next = [d \in Desc |-> None]
  /\ desc = [d \in Desc |-> NoDesc]
  /\ popped = {}
  /\ hazards = [t \in Thread |-> {}]
  /\ free = [t \in Thread |-> {}]
  /\ files = {}
  /\ mapping = [p \in Process |-> [g \in Page |-> None]]
  /\ pc = [t \in Thread |-> "idle"]
  /\ job = [t \in Thread |-> NoJob]
  /\ held = {}
  /\ crashes = 0

Pages(offset, size) == offset..(offset + size - 1)
Extent(d) == Pages(desc[d].offset, desc[d].size)

\* trace: the descriptors of a list from the first, and None after its end.
Walk(first, link) ==
  LET walk[n \in 0..DescCount] ==
        IF n = 0 THEN first
        ELSE IF walk[n - 1] = None THEN None ELSE link[walk[n - 1]]
  IN  walk

Trace(t) == Walk(head[t], next)

OnList(t) == {Trace(t)[n] : n \in 0..DescCount} \ {None}

Goto(t, label) == pc' = [pc EXCEPT ![t] = label]

\* The first descriptor of a list that is in a set, or None.
First(trace, S) ==
  LET hits == {n \in 0..DescCount : trace[n] \in S}
  IN  IF hits = {} THEN None ELSE trace[CHOOSE n \in hits : \A m \in hits : n <= m]

-----------------------------------------------------------------------------
(* Files and mappings.                                                      *)

\* region::Random::map: opens the file of this name, or creates it.
Map(p, offset, size) ==
  /\ files' = files \union {offset}
  /\ mapping' = [mapping EXCEPT ![p] = [g \in Page |->
       IF g \in Pages(offset, size) THEN [name |-> offset, linked |-> TRUE] ELSE @[g]]]

\* region::Random::unmap: unmaps here, and takes the name from the file: what
\* others have mapped of it is no longer what its name stands for.
Unmap(p, offset, size) ==
  /\ files' = files \ {offset}
  /\ mapping' = [q \in Process |-> [g \in Page |->
       IF q = p /\ g \in Pages(offset, size) THEN None
       ELSE IF mapping[q][g] # None /\ mapping[q][g].name = offset
              THEN [mapping[q][g] EXCEPT !.linked = FALSE]
       ELSE mapping[q][g]]]

-----------------------------------------------------------------------------
(* Finding the descriptor of an offset.                                     *)

\* Shared::find: the nearest claim at or below the slot.
Owner(offset) ==
  LET below == {s \in Slot : s <= offset \div SlotSize /\ slots[s] # None}
  IN  slots[CHOOSE s \in below : \A r \in below : r <= s].id

Find(offset) ==
  First(Trace(Owner(offset)), {d \in Desc : offset \in Extent(d)})

-----------------------------------------------------------------------------
(* refresh, the first part of allocate and of free.                         *)
Quiet == Prompt => \A t \in Thread : pc[t] # "unmap"

\* A thread that is about to unmap goes first when Prompt is set.
Turn(t, label) == pc[t] = label /\ (label # "unmap" => Quiet)

BeginRefresh(t, j, then) ==
  /\ job' = [job EXCEPT ![t] = [j EXCEPT !.then = then,
                                         !.todo = UNION {OnList(u) : u \in Thread}]]
  /\ Goto(t, "refresh")

\* A faulty Refresh, which does not look at the state.
RefreshAll(t) ==
  LET found == {d \in job[t].todo : desc[d].offset \in hazards[t]} IN
  /\ Turn(t, "refresh")
  /\ \/ \E d \in found :
          /\ hazards' = [hazards EXCEPT ![t] = @ \ {desc[d].offset}]
          /\ job' = [job EXCEPT ![t].todo = @ \ {d}, ![t].old = d]
          /\ Goto(t, "unmap")
     \/ /\ found = {}
        /\ job' = [job EXCEPT ![t].todo = {}]
        /\ Goto(t, job[t].then)
        /\ UNCHANGED hazards
  /\ UNCHANGED <<slots, hint, head, next, desc, popped, free, memory, held, crashes>>

\* Each Free descriptor whose offset this thread protects: the hazard is
\* removed first, then the range is unmapped.
Refresh(t) ==
  LET found == {d \in job[t].todo : desc[d].state = "Free" /\ desc[d].offset \in hazards[t]} IN
  /\ Turn(t, "refresh")
  /\ \/ \E d \in found :
          /\ hazards' = [hazards EXCEPT ![t] = @ \ {desc[d].offset}]
          /\ job' = [job EXCEPT ![t].todo = @ \ {d}, ![t].old = d]
          /\ Goto(t, "unmap")
     \/ /\ found = {}
        /\ job' = [job EXCEPT ![t].todo = {}]
        /\ Goto(t, job[t].then)
        /\ UNCHANGED hazards
  /\ UNCHANGED <<slots, hint, head, next, desc, popped, free, memory, held, crashes>>

RefreshUnmap(t) ==
  LET d == job[t].old IN
  /\ Turn(t, "unmap")
  /\ Unmap(ProcessOf[t], desc[d].offset, desc[d].size)
  /\ job' = [job EXCEPT ![t].old = None]
  /\ Goto(t, "refresh")
  /\ UNCHANGED <<shared, free, held, crashes>>

-----------------------------------------------------------------------------
(* allocate_huge.                                                           *)

Unprotected(d) == \A u \in Thread : desc[d].offset \notin hazards[u]

Retired(t) == {d \in OnList(t) : desc[d].state = "Free" /\ Unprotected(d)}

\* What reuse does with the first descriptor that is Safe, or with a block of
\* the small heap if there is none.
ReuseWith(t, size, retired, choice) ==
  /\ Turn(t, "idle") /\ Cardinality(held) < MaxHeld
  /\ free' = [free EXCEPT ![t] = @ \union UNION {Extent(d) : d \in retired}]
  /\ desc' = [d \in Desc |-> IF d \in retired THEN [desc[d] EXCEPT !.state = "Safe"] ELSE desc[d]]
  /\ \/ /\ choice # None
        /\ BeginRefresh(t, [NoJob EXCEPT !.size = size, !.desc = choice, !.reuse = TRUE], "carve")
     \/ /\ choice = None
        /\ \E d \in BlocksOf[t] \ popped :
             /\ \A e \in BlocksOf[t] \ popped : d <= e
             /\ BeginRefresh(t, [NoJob EXCEPT !.size = size, !.desc = d], "carve")
  /\ UNCHANGED <<slots, hint, head, next, popped, hazards, memory, held, crashes>>

SafeAfter(t) == {d \in OnList(t) : desc[d].state = "Safe"} \union Retired(t)

\* A faulty Reuse, which ignores the hazards.
ReuseUnprotected(t, size) ==
  LET retired == {d \in OnList(t) : desc[d].state = "Free"} IN
  ReuseWith(t, size, retired, First(Trace(t), SafeAfter(t) \union retired))

\* A faulty Reuse, which takes the last descriptor that is Safe.
ReuseLast(t, size) ==
  LET back == [n \in 0..DescCount |-> Trace(t)[DescCount - n]] IN
  ReuseWith(t, size, Retired(t), First(back, SafeAfter(t)))

Reuse(t, size) ==
  ReuseWith(t, size, Retired(t), First(Trace(t), SafeAfter(t)))

\* Allocator::allocate: first fit in the intervals of free pages.
FirstFit(t, size) ==
  LET starts == {g \in free[t] : g - 1 \notin free[t] /\ Pages(g, size) \subseteq free[t]}
  IN  IF starts = {} THEN None ELSE CHOOSE g \in starts : \A h \in starts : g <= h

\* The descriptor is written, and, when it is a new one, linked in two steps.
Carve(t) ==
  LET j == job[t]  offset == FirstFit(t, j.size) IN
  /\ Turn(t, "carve") /\ offset # None
  /\ free' = [free EXCEPT ![t] = @ \ Pages(offset, j.size)]
  /\ desc' = [desc EXCEPT ![j.desc] = [offset |-> offset, size |-> j.size, state |-> "Live"]]
  /\ Goto(t, IF j.reuse THEN "protect" ELSE "link")
  /\ UNCHANGED <<slots, hint, head, next, popped, hazards, memory, job, held, crashes>>

BeginClaim(t) ==
  /\ Turn(t, "carve") /\ FirstFit(t, job[t].size) = None
  /\ job' = [job EXCEPT ![t].slot = hint]
  /\ Goto(t, "claim")
  /\ UNCHANGED <<shared, free, memory, held, crashes>>

SlotsFor(size) == (size + SlotSize - 1) \div SlotSize

\* A faulty Claim, which goes on with the next slot when it loses one.
ClaimNext(t) ==
  LET i == job[t].slot  count == SlotsFor(job[t].size) IN
  /\ Turn(t, "claim") /\ i + count <= SlotCount
  /\ IF slots[i] = None
       THEN /\ slots' = [slots EXCEPT ![i] = [id |-> t, count |-> count]]
            /\ Goto(t, "hint")
            /\ UNCHANGED job
       ELSE /\ job' = [job EXCEPT ![t].slot = i + 1]
            /\ UNCHANGED <<slots, pc>>
  /\ UNCHANGED <<hint, head, next, desc, popped, hazards, free, memory, held, crashes>>

\* Shared::claim: compare-exchange at i; a slot that is lost is skipped with
\* all that its claim covers.  The hint is stored without regard to others.
Claim(t) ==
  LET i == job[t].slot  count == SlotsFor(job[t].size) IN
  /\ Turn(t, "claim") /\ i + count <= SlotCount
  /\ IF slots[i] = None
       THEN /\ slots' = [slots EXCEPT ![i] = [id |-> t, count |-> count]]
            /\ Goto(t, "hint")
            /\ UNCHANGED job
       ELSE /\ job' = [job EXCEPT ![t].slot = i + slots[i].count]
            /\ UNCHANGED <<slots, pc>>
  /\ UNCHANGED <<hint, head, next, desc, popped, hazards, free, memory, held, crashes>>

ClaimHint(t) ==
  LET i == job[t].slot  count == SlotsFor(job[t].size) IN
  /\ Turn(t, "hint")
  /\ hint' = i + count
  /\ free' = [free EXCEPT ![t] = @ \union Pages(i * SlotSize, count * SlotSize)]
  /\ job' = [job EXCEPT ![t].slot = 0]
  /\ Goto(t, "carve")
  /\ UNCHANGED <<slots, head, next, desc, popped, hazards, memory, held, crashes>>

\* "Out of virtual address space": the thread panics.
ClaimPanic(t) ==
  /\ Turn(t, "claim") /\ job[t].slot + SlotsFor(job[t].size) > SlotCount
  /\ job' = [job EXCEPT ![t] = NoJob]
  /\ Goto(t, "panic")
  /\ UNCHANGED <<shared, free, memory, held, crashes>>

Link(t) ==
  /\ Turn(t, "link")
  /\ next' = [next EXCEPT ![job[t].desc] = head[t]]
  /\ Goto(t, "set")
  /\ UNCHANGED <<slots, hint, head, desc, popped, hazards, free, memory, job, held, crashes>>

SetHead(t) ==
  /\ Turn(t, "set")
  /\ head' = [head EXCEPT ![t] = job[t].desc]
  /\ Goto(t, "protect")
  /\ UNCHANGED <<slots, hint, next, desc, popped, hazards, free, memory, job, held, crashes>>

\* The rest of allocate and of try_map: hazard first, then the mapping.
Protect(t) ==
  /\ Turn(t, "protect")
  /\ hazards' = [hazards EXCEPT ![t] = @ \union {desc[job[t].desc].offset}]
  /\ Goto(t, "map")
  /\ UNCHANGED <<slots, hint, head, next, desc, popped, free, memory, job, held, crashes>>

MapRange(t) ==
  LET d == job[t].desc IN
  /\ Turn(t, "map")
  /\ Map(ProcessOf[t], desc[d].offset, desc[d].size)
  /\ Goto(t, IF d \in held THEN "idle" ELSE "pop")
  /\ job' = IF d \in held THEN [job EXCEPT ![t] = NoJob] ELSE job
  /\ UNCHANGED <<shared, free, held, crashes>>

\* The block of the small heap is only popped now.  The application gets the
\* pointer.
Pop(t) ==
  LET j == job[t] IN
  /\ Turn(t, "pop")
  /\ popped' = IF j.reuse THEN popped ELSE popped \union {j.desc}
  /\ held' = held \union {j.desc}
  /\ job' = [job EXCEPT ![t] = NoJob]
  /\ Goto(t, "idle")
  /\ UNCHANGED <<slots, hint, head, next, desc, hazards, free, memory, crashes>>

-----------------------------------------------------------------------------
(* free and the fault handler.                                              *)
Faulting(d) == \E u \in Thread : pc[u] \in {"protect", "map"} /\ job[u].desc = d

Free(t, d) ==
  /\ Turn(t, "idle") /\ d \in held /\ ~Faulting(d)
  /\ held' = held \ {d}
  /\ BeginRefresh(t, [NoJob EXCEPT !.offset = desc[d].offset], "drop")
  /\ UNCHANGED <<shared, free, memory, crashes>>

Drop(t) ==
  LET d == Find(job[t].offset) IN
  /\ Turn(t, "drop")
  /\ Unmap(ProcessOf[t], desc[d].offset, desc[d].size)
  /\ job' = [job EXCEPT ![t] = [NoJob EXCEPT !.desc = d]]
  /\ Goto(t, "unprotect")
  /\ UNCHANGED <<shared, free, held, crashes>>

Unprotect(t) ==
  /\ Turn(t, "unprotect")
  /\ hazards' = [hazards EXCEPT ![t] = @ \ {desc[job[t].desc].offset}]
  /\ Goto(t, "retire")
  /\ UNCHANGED <<slots, hint, head, next, desc, popped, free, memory, job, held, crashes>>

Retire(t) ==
  /\ Turn(t, "retire")
  /\ desc' = [desc EXCEPT ![job[t].desc].state = "Free"]
  /\ job' = [job EXCEPT ![t] = NoJob]
  /\ Goto(t, "idle")
  /\ UNCHANGED <<slots, hint, head, next, popped, hazards, free, memory, held, crashes>>

\* An access to an allocation in use that is not mapped here: SIGSEGV,
\* try_map.
Fault(t, d) ==
  /\ Turn(t, "idle") /\ d \in held
  /\ mapping[ProcessOf[t]][desc[d].offset] = None
  /\ job' = [job EXCEPT ![t] = [NoJob EXCEPT !.desc = Find(desc[d].offset)]]
  /\ Goto(t, "protect")
  /\ UNCHANGED <<shared, free, memory, held, crashes>>

-----------------------------------------------------------------------------
\* The process is gone with its mappings and its DRAM; the rest is shared.
Crash(p) ==
  LET mine == {t \in Thread : ProcessOf[t] = p} IN
  /\ Quiet /\ crashes < MaxCrashes
  /\ crashes' = crashes + 1
  /\ mapping' = [mapping EXCEPT ![p] = [g \in Page |-> None]]
  /\ free' = [t \in Thread |-> IF t \in mine THEN {} ELSE free[t]]
  /\ pc' = [t \in Thread |-> IF t \in mine THEN "down" ELSE pc[t]]
  /\ job' = [t \in Thread |-> IF t \in mine THEN NoJob ELSE job[t]]
  /\ UNCHANGED <<shared, files, held>>

Claimed(t) ==
  UNION {Pages(s * SlotSize, slots[s].count * SlotSize) :
           s \in {r \in Slot : slots[r] # None /\ slots[r].id = t}}

\* focus: what was claimed, without what is Live.
Focus(t) ==
  /\ Turn(t, "down")
  /\ free' = [free EXCEPT ![t] =
       Claimed(t) \ UNION {Extent(d) : d \in {e \in OnList(t) : desc[e].state = "Live"}}]
  /\ Goto(t, "idle")
  /\ UNCHANGED <<shared, memory, job, held, crashes>>

-----------------------------------------------------------------------------
Next ==
  \/ \E p \in Process : Crash(p)
  \/ \E t \in Thread :
       \/ \E n \in Sizes : Reuse(t, n)
       \/ \E d \in Desc : Free(t, d) \/ Fault(t, d)
       \/ Refresh(t) \/ RefreshUnmap(t)
       \/ Carve(t) \/ BeginClaim(t) \/ Claim(t) \/ ClaimHint(t) \/ ClaimPanic(t)
       \/ Link(t) \/ SetHead(t) \/ Protect(t) \/ MapRange(t) \/ Pop(t)
       \/ Drop(t) \/ Unprotect(t) \/ Retire(t)
       \/ Focus(t)

Spec == Init /\ [][Next]_vars

-----------------------------------------------------------------------------
Held == {[offset |-> desc[d].offset, size |-> desc[d].size] : d \in held}

TypeOK ==
  /\ \A s \in Slot : slots[s] # None => slots[s].id \in Thread /\ slots[s].count \in 1..SlotCount
  /\ hint \in 0..SlotCount
  /\ \A d \in Desc : Extent(d) \subseteq Page /\ desc[d].state \in {"Live", "Free", "Safe"}
  /\ popped \subseteq Desc /\ held \subseteq Desc
  /\ \A t \in Thread : hazards[t] \subseteq Page /\ free[t] \subseteq Page
  /\ files \subseteq Page

\* Claims never overlap, whatever the races on the slots and the hint: no page
\* can be carved by two threads.
ClaimsDisjoint ==
  /\ \A t, u \in Thread : t # u => Claimed(t) \intersect Claimed(u) = {}
  /\ \A t \in Thread : free[t] \subseteq Claimed(t)

\* The pages of an allocation in use are those of no other allocation, and no
\* thread can carve them: reuse returns a range once.
RangesExclusive ==
  /\ \A d, e \in held : d # e => Extent(d) \intersect Extent(e) = {}
  /\ \A d \in held, t \in Thread : Extent(d) \intersect free[t] = {}

\* The descriptor that free, class and the fault handler find for a pointer in
\* use is its own, and Live: no stale descriptor of the same range comes
\* before it on the list.
FindIsLive ==
  \A d \in held : desc[d].state = "Live" /\ \A g \in Extent(d) : Find(g) = d

\* The lists of descriptors end.
ListsEnd ==
  \A t \in Thread : Trace(t)[DescCount] = None

\* No page belongs to two threads or to two allocations.
AddressesExclusive == ClaimsDisjoint /\ RangesExclusive

\* A search ends, with the descriptor of the pointer.
SearchFindsLive == FindIsLive /\ ListsEnd

\* A step that carves a range leaves out what some thread protects.
CarvesNoHazard ==
  \A t \in Thread : pc[t] = "carve" /\ pc'[t] \in {"link", "protect"} =>
    \A u \in Thread : \A g \in hazards[u] :
      g \notin Pages(desc'[job[t].desc].offset, desc'[job[t].desc].size)

\* "Protected by hazard pointer" (huge.rs:259): a range that some thread protects
\* is not carved for another allocation.
HazardProtects == [][CarvesNoHazard]_vars

\* All processes see the same memory: whatever a process has mapped where an
\* allocation in use lies is the file that others find by its name.
Coherent ==
  \A d \in held, p \in Process, g \in Page :
    g \in Extent(d) /\ mapping[p][g] # None =>
      mapping[p][g] = [name |-> desc[d].offset, linked |-> TRUE]
=============================================================================
