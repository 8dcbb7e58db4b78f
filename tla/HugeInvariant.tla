--------------------------- MODULE HugeInvariant ------------------------------
(***************************************************************************)
(* The invariants of the huge heap, for every number of threads, slots and *)
(* descriptors.  ClaimInv ties the slots that threads have claimed to the  *)
(* descriptors that lie in them and to what the threads are about to do;   *)
(* crashes keep it.  RangeInv says which pages each thread may carve and   *)
(* which descriptors it may turn to.  After ClaimInv come the steps that   *)
(* leave the descriptors on their lists and preserve RangeInv.             *)
(***************************************************************************)
EXTENDS HugeHeap, TLAPS, WellFoundedInduction, FiniteSetTheorems

-----------------------------------------------------------------------------
(* Lists.  What a walk along the links meets is a recursive function; these  *)
(* lemmas are inductions, by a least counterexample.                         *)

\* A set of naturals has a least one.
LEMMA LeastNatural ==
  ASSUME NEW T, T \subseteq Nat, T # {}
  PROVE  \E x \in T : \A y \in T : x <= y
<1>1. PICK x \in T : \A y \in T : ~(<<y, x>> \in OpToRel(<, Nat))
  BY WFMin, NatLessThanWellFounded, Zenon
<1>2. \A y \in T : ~(y < x)
  BY <1>1, Zenon DEF OpToRel
<1> QED
  BY <1>2

\* What holds of 0, and of n + 1 where it holds of n, holds up to k.
LEMMA UpTo ==
  ASSUME NEW k \in Nat, NEW G, 0 \in G,
         \A n \in 0..(k - 1) : n \in G => n + 1 \in G
  PROVE  \A n \in 0..k : n \in G
<1> DEFINE T == {n \in 0..k : n \notin G}
<1> SUFFICES ASSUME T # {} PROVE FALSE
  BY Zenon
<1>1. PICK x \in T : \A y \in T : x <= y
  <2> T \subseteq Nat
    OBVIOUS
  <2> HIDE DEF T
  <2> QED
    BY LeastNatural, Zenon
<1>2. x # 0 /\ x \in 0..k /\ x \notin G
  BY <1>1
<1>3. x - 1 \in 0..(k - 1) /\ x - 1 \in 0..k /\ (x - 1) + 1 = x /\ ~(x <= x - 1)
  BY <1>2
<1>4. x - 1 \in G
  BY <1>1, <1>3
<1> QED
  BY <1>2, <1>3, <1>4, Zenon

\* What Walk is defined to be, up to the k-th descriptor
IsWalk(k, first, link, w) ==
  w = [n \in 0..k |->
         IF n = 0 THEN first ELSE IF w[n - 1] = None THEN None ELSE link[w[n - 1]]]

\* A walk of any length exists.
LEMMA WalkExists ==
  ASSUME NEW first, NEW link, NEW k \in Nat
  PROVE  \E w : IsWalk(k, first, link, w)
<1> DEFINE G == {n \in Nat : \E w : IsWalk(n, first, link, w)}
<1>1. 0 \in G
  <2>1. 0..0 = {0}
    BY SMT
  <2>2. IsWalk(0, first, link, [n \in 0..0 |-> first])
    BY <2>1 DEF IsWalk
  <2> QED
    BY <2>2, Zenon
<1>2. ASSUME NEW x \in 0..(k - 1), x \in G PROVE x + 1 \in G
  <2>1. PICK w : IsWalk(x, first, link, w)
    BY <1>2, Zenon
  <2>2. x \in Nat /\ x + 1 \in Nat /\ x + 1 # 0 /\ (x + 1) - 1 = x /\ x \in 0..x /\ x \in 0..(x + 1)
    BY <1>2
  <2> DEFINE last == IF w[x] = None THEN None ELSE link[w[x]]
  <2> DEFINE v == [n \in 0..(x + 1) |-> IF n = x + 1 THEN last ELSE w[n]]
  <2>3. \A n \in 0..(x + 1) : n = x + 1 \/ n = 0 \/ (n \in 0..x /\ n - 1 \in 0..x)
    BY <2>2
  <2>4. \A n \in 0..x : v[n] = w[n] /\ n \in 0..(x + 1) /\ n # x + 1
    BY <2>2
  <2>5. v[x + 1] = last
    BY <2>2
  <2>6. \A n \in 0..(x + 1) :
          v[n] = IF n = 0 THEN first ELSE IF v[n - 1] = None THEN None ELSE link[v[n - 1]]
    <3> TAKE n \in 0..(x + 1)
    <3> HIDE DEF v
    <3>1. CASE n = x + 1
      <4>1. v[(x + 1) - 1] = w[x]
        BY <2>2, <2>4, Zenon
      <4> QED
        BY <2>2, <2>5, <3>1, <4>1, Zenon
    <3>2. CASE n = 0
      <4>1. 0 \in 0..x
        BY <2>2
      <4> QED
        BY <2>1, <2>4, <3>2, <4>1, Zenon DEF IsWalk
    <3>3. CASE n \in 0..x /\ n - 1 \in 0..x /\ n # 0
      <4>1. w[n] = IF w[n - 1] = None THEN None ELSE link[w[n - 1]]
        BY <2>1, <3>3, Zenon DEF IsWalk
      <4> QED
        BY <2>4, <3>3, <4>1, Zenon
    <3> QED
      BY <2>3, <3>1, <3>2, <3>3, Zenon
  <2>7. v = [n \in 0..(x + 1) |-> v[n]]
    OBVIOUS
  <2> HIDE DEF v
  <2>8. IsWalk(x + 1, first, link, v)
    BY <2>6, <2>7, Zenon DEF IsWalk
  <2> QED
    BY <2>2, <2>8, Zenon
<1> HIDE DEF G
<1>3. k \in G
  <2>1. k \in 0..k
    OBVIOUS
  <2> QED
    BY <1>1, <1>2, <2>1, UpTo, Zenon
<1> QED
  BY <1>3, Zenon DEF G

\* What trace goes by: the first descriptor, then each one's link, to the end.
LEMMA WalkSteps ==
  ASSUME NEW first, NEW link, DescCount \in Nat
  PROVE  /\ Walk(first, link)[0] = first
         /\ \A n \in 0..(DescCount - 1) :
              Walk(first, link)[n + 1] =
                IF Walk(first, link)[n] = None THEN None ELSE link[Walk(first, link)[n]]
<1>1. PICK w : IsWalk(DescCount, first, link, w)
  BY WalkExists, Zenon
<1>2. IsWalk(DescCount, first, link, Walk(first, link))
  BY <1>1, Zenon DEF Walk, IsWalk
<1> DEFINE v == Walk(first, link)
<1> HIDE DEF v
<1>3. \A n \in 0..DescCount :
         v[n] = IF n = 0 THEN first ELSE IF v[n - 1] = None THEN None ELSE link[v[n - 1]]
  BY <1>2, Zenon DEF IsWalk, v
<1>4. 0 \in 0..DescCount
  OBVIOUS
<1>5. \A n \in 0..(DescCount - 1) : n + 1 \in 0..DescCount /\ n + 1 # 0 /\ (n + 1) - 1 = n
  OBVIOUS
<1>6. v[0] = first
  BY <1>3, <1>4, Zenon
<1>7. \A n \in 0..(DescCount - 1) : v[n + 1] = IF v[n] = None THEN None ELSE link[v[n]]
  BY <1>3, <1>5
<1> QED
  BY <1>6, <1>7, Zenon DEF v

\* A walk stays among descriptors whose links do not leave them.
LEMMA WalkStays ==
  ASSUME NEW S, NEW first \in S \union {None}, NEW link, DescCount \in Nat,
         \A d \in S : link[d] \in S \union {None}
  PROVE  \A n \in 0..DescCount : Walk(first, link)[n] \in S \union {None}
<1> DEFINE G == {n \in Nat : Walk(first, link)[n] \in S \union {None}}
<1>1. 0 \in G
  BY WalkSteps
<1>2. ASSUME NEW n \in 0..(DescCount - 1), n \in G PROVE n + 1 \in G
  <2>1. n + 1 \in Nat
    BY <1>2
  <2> QED
    BY <1>2, <2>1, WalkSteps
<1> HIDE DEF G
<1>3. \A n \in 0..DescCount : n \in G
  BY <1>1, <1>2, UpTo, Zenon
<1> QED
  BY <1>3, Zenon DEF G

\* Two walks that start alike and take the same links are the same.
LEMMA WalkUnique ==
  ASSUME NEW first, NEW link, DescCount \in Nat, NEW w, w[0] = first,
         \A n \in 0..(DescCount - 1) : w[n + 1] = IF w[n] = None THEN None ELSE link[w[n]]
  PROVE  \A n \in 0..DescCount : Walk(first, link)[n] = w[n]
<1> DEFINE G == {n \in Nat : Walk(first, link)[n] = w[n]}
<1>1. 0 \in G
  BY WalkSteps
<1>2. ASSUME NEW n \in 0..(DescCount - 1), n \in G PROVE n + 1 \in G
  <2>1. n + 1 \in Nat
    BY <1>2
  <2> QED
    BY <1>2, <2>1, WalkSteps
<1> HIDE DEF G
<1>3. \A n \in 0..DescCount : n \in G
  BY <1>1, <1>2, UpTo, Zenon
<1> QED
  BY <1>3, Zenon DEF G

\* Links of descriptors that are not on a list do not matter to it.
LEMMA WalkFrame ==
  ASSUME NEW first, NEW link, NEW link2, DescCount \in Nat,
         \A n \in 0..DescCount : Walk(first, link)[n] # None =>
           link2[Walk(first, link)[n]] = link[Walk(first, link)[n]]
  PROVE  \A n \in 0..DescCount : Walk(first, link2)[n] = Walk(first, link)[n]
<1> DEFINE w == Walk(first, link)
<1>1. w[0] = first /\ \A n \in 0..(DescCount - 1) : w[n + 1] = IF w[n] = None THEN None ELSE link[w[n]]
  BY WalkSteps
<1>2. \A n \in 0..(DescCount - 1) : n \in 0..DescCount
  OBVIOUS
<1>3. \A n \in 0..(DescCount - 1) : w[n + 1] = IF w[n] = None THEN None ELSE link2[w[n]]
  BY <1>1, <1>2, Zenon
<1> HIDE DEF w
<1>4. \A n \in 0..DescCount : Walk(first, link2)[n] = w[n]
  BY <1>1, <1>3, WalkUnique
<1> QED
  BY <1>4, Zenon DEF w

\* A descriptor that is linked before the first one comes first.
LEMMA WalkPush ==
  ASSUME NEW first, NEW link, NEW d, d # None, link[d] = first, DescCount \in Nat
  PROVE  /\ Walk(d, link)[0] = d
         /\ \A n \in 0..(DescCount - 1) : Walk(d, link)[n + 1] = Walk(first, link)[n]
<1> DEFINE G == {n \in Nat : n + 1 <= DescCount => Walk(d, link)[n + 1] = Walk(first, link)[n]}
<1>1. 0 \in G
  <2> SUFFICES ASSUME 0 + 1 <= DescCount PROVE Walk(d, link)[0 + 1] = Walk(first, link)[0]
    BY Zenon
  <2>1. 0 \in 0..(DescCount - 1)
    OBVIOUS
  <2> QED
    BY <2>1, WalkSteps
<1>2. ASSUME NEW n \in 0..(DescCount - 1), n \in G PROVE n + 1 \in G
  <2>1. n + 1 \in Nat /\ n + 1 <= DescCount
    BY <1>2
  <2> SUFFICES ASSUME (n + 1) + 1 <= DescCount
               PROVE  Walk(d, link)[(n + 1) + 1] = Walk(first, link)[n + 1]
    BY <2>1, Zenon
  <2>2. n + 1 \in 0..(DescCount - 1)
    OBVIOUS
  <2>3. Walk(d, link)[n + 1] = Walk(first, link)[n]
    BY <1>2, <2>1, Zenon
  <2> QED
    BY <2>2, <2>3, WalkSteps
<1> HIDE DEF G
<1>3. \A n \in 0..DescCount : n \in G
  BY <1>1, <1>2, UpTo, Zenon
<1>4. \A n \in 0..(DescCount - 1) : n \in 0..DescCount /\ n + 1 <= DescCount
  OBVIOUS
<1> QED
  BY <1>3, <1>4, WalkSteps, Zenon DEF G

\* A walk that meets no descriptor twice comes to an end.
LEMMA WalkEnds ==
  ASSUME NEW first, NEW link, DescCount \in Nat,
         \A n \in 0..DescCount : Walk(first, link)[n] \in Desc \union {None},
         \A m, n \in 0..DescCount :
           Walk(first, link)[m] = Walk(first, link)[n] /\ Walk(first, link)[m] # None => m = n
  PROVE  Walk(first, link)[DescCount] = None
<1> DEFINE w == Walk(first, link)
<1> SUFFICES ASSUME w[DescCount] # None PROVE FALSE
  BY Zenon
<1> DEFINE G == {n \in Nat : w[DescCount - n] # None}
<1>1. 0 \in G
  BY DescCount - 0 = DescCount, Zenon
<1>2. ASSUME NEW n \in 0..(DescCount - 1), n \in G PROVE n + 1 \in G
  <2>1. n + 1 \in Nat /\ DescCount - (n + 1) \in 0..(DescCount - 1)
        /\ (DescCount - (n + 1)) + 1 = DescCount - n
    BY <1>2
  <2> QED
    BY <1>2, <2>1, WalkSteps
<1> HIDE DEF G
<1>3. \A n \in 0..DescCount : n \in G
  BY <1>1, <1>2, UpTo, Zenon
<1>4. \A n \in 0..DescCount : DescCount - n \in 0..DescCount /\ DescCount - (DescCount - n) = n
  OBVIOUS
<1>5. \A n \in 0..DescCount : w[n] # None
  BY <1>3, <1>4 DEF G
<1> DEFINE f == [n \in 0..DescCount |-> w[n]]
<1>6. f \in [0..DescCount -> Desc]
  BY <1>5
<1>7. IsFiniteSet(0..DescCount) /\ Cardinality(0..DescCount) = DescCount + 1
  BY FS_Interval
<1>8. IsFiniteSet(Desc) /\ Cardinality(Desc) = DescCount
  BY FS_Interval DEF Desc
<1>9. Cardinality(0..DescCount) > Cardinality(Desc)
  BY <1>7, <1>8
<1>10. \E m, n \in 0..DescCount : m # n /\ f[m] = f[n]
  <2> HIDE DEF f
  <2> QED
    BY <1>6, <1>7, <1>8, <1>9, FS_PigeonHole
<1> QED
  BY <1>5, <1>10

-----------------------------------------------------------------------------
(* What is claimed.                                                         *)

Label == {"idle", "refresh", "unmap", "carve", "claim", "hint", "panic", "link", "set",
          "protect", "map", "pop", "drop", "unprotect", "retire", "down"}
Job == [size : Nat, desc : Desc \union {None}, reuse : BOOLEAN, slot : Nat, offset : Nat,
        todo : SUBSET Desc, old : Desc \union {None}, then : {"idle", "carve", "drop"}]

Types ==
  /\ slots \in [Slot -> [id : Thread, count : Nat \ {0}] \union {None}]
  /\ hint \in Nat
  /\ head \in [Thread -> Desc \union {None}]
  /\ next \in [Desc -> Desc \union {None}]
  /\ desc \in [Desc -> [offset : Nat, size : Nat, state : {"Live", "Free", "Safe"}]]
  /\ free \in [Thread -> SUBSET Nat]
  /\ pc \in [Thread -> Label]
  /\ job \in [Thread -> Job]

\* An allocation has a size and a block for its descriptor.
Jobs ==
  \A t \in Thread :
    /\ job[t].size # 0 => job[t].size \in Sizes /\ job[t].desc \in BlocksOf[t]
    /\ pc[t] \in {"carve", "claim", "hint", "link", "set"} => job[t].size # 0
    /\ pc[t] \in {"refresh", "unmap"} =>
         job[t].then \in {"carve", "drop"} /\ (job[t].then = "carve" <=> job[t].size # 0)

\* The slots at which a claim may be tried.
Boundary ==
  {0, hint} \union {s + slots[s].count : s \in {r \in Slot : slots[r] # None}}
            \union {job[t].slot : t \in {u \in Thread : pc[u] = "claim"}}

\* Up to n each of them starts a claim: a claim that is lost goes on behind it.
Top(n) ==
  \A i \in Boundary : i <= n /\ (i < n => slots[i] # None)

Chain == \E n \in 0..SlotCount : Top(n)

\* Claims do not reach into each other.
Apart ==
  \A r, s \in Slot : slots[r] # None /\ slots[s] # None /\ r < s => r + slots[r].count <= s

\* A thread that has won a slot claims all of it.
Taken ==
  \A t \in Thread : pc[t] = "hint" =>
    job[t].slot \in Slot /\ slots[job[t].slot] = [id |-> t, count |-> SlotsFor(job[t].size)]

\* The list of a thread is of its own descriptors.
Closed ==
  \A t \in Thread :
    /\ head[t] \in BlocksOf[t] \union {None}
    /\ \A d \in BlocksOf[t] : next[d] \in BlocksOf[t] \union {None}

\* What a thread may carve, and has carved, lies in what it claimed.
Inside ==
  \A t \in Thread :
    /\ free[t] \subseteq Claimed(t)
    /\ \A d \in BlocksOf[t] : Extent(d) \subseteq Claimed(t)

ClaimInv == Types /\ Jobs /\ Chain /\ Apart /\ Taken /\ Closed /\ Inside
-----------------------------------------------------------------------------
(* Slots and pages.                                                          *)

\* Products of naturals.
LEMMA Products ==
  ASSUME NEW a \in Nat, NEW b \in Nat, NEW z \in Nat
  PROVE  /\ a * z \in Nat /\ (a + b) * z = a * z + b * z
         /\ a <= b => a * z <= b * z
<1>1. a * z \in Nat /\ (a + b) * z = a * z + b * z
  BY SMT
<1>2. ASSUME a <= b PROVE a * z <= b * z
  <2>1. PICK c \in Nat : b = a + c
    BY <1>2, b - a \in Nat, b = a + (b - a)
  <2>2. b * z = a * z + c * z /\ c * z \in Nat /\ a * z \in Nat
    BY <2>1
  <2> QED
    BY <2>2
<1> QED
  BY <1>1, <1>2

\* A request needs a slot at least.
LEMMA SomeSlots ==
  ASSUME HugeAssumption, NEW n \in Nat \ {0}
  PROVE  SlotsFor(n) \in Nat \ {0}
<1> DEFINE a == n + SlotSize - 1
<1>1. a \in Nat /\ SlotSize \in Nat \ {0} /\ a >= SlotSize
  BY DEF HugeAssumption
<1> HIDE DEF a
<1>2. a \div SlotSize \in Nat /\ a \div SlotSize # 0
  BY <1>1
<1> QED
  BY <1>2 DEF SlotsFor, a

\* The pages of slots.
LEMMA SlotPages ==
  ASSUME HugeAssumption, NEW s \in Nat, NEW c \in Nat, NEW g
  PROVE  /\ g \in Pages(s * SlotSize, c * SlotSize) <=>
              g \in Nat /\ s * SlotSize <= g /\ g < (s + c) * SlotSize
         /\ g \in Pages(s * SlotSize, c * SlotSize) =>
              s <= g \div SlotSize /\ g \div SlotSize < s + c
<1> DEFINE z == SlotSize
<1>1. z \in Nat \ {0}
  BY DEF HugeAssumption
<1> HIDE DEF z
<1>2. s * z \in Nat /\ c * z \in Nat /\ (s + c) * z = s * z + c * z
  BY <1>1, Products
<1>3. g \in Pages(s * z, c * z) <=> g \in Nat /\ s * z <= g /\ g < (s + c) * z
  BY <1>2 DEF Pages
<1>4. ASSUME g \in Nat, s * z <= g, g < (s + c) * z
      PROVE  s <= g \div z /\ g \div z < s + c
  <2>1. PICK q \in Nat : q = g \div z /\ q * z <= g /\ g < (q + 1) * z
    BY <1>1, <1>4
  <2>2. s <= q
    <3> SUFFICES ASSUME q + 1 <= s PROVE FALSE
      BY <2>1
    <3>1. (q + 1) * z <= s * z /\ (q + 1) * z \in Nat
      BY <1>1, Products
    <3> QED
      BY <1>2, <1>4, <2>1, <3>1
  <2>3. q < s + c
    <3> SUFFICES ASSUME s + c <= q PROVE FALSE
      BY <2>1
    <3>1. (s + c) * z <= q * z /\ q * z \in Nat /\ (s + c) * z \in Nat
      BY <1>1, Products
    <3> QED
      BY <1>4, <2>1, <3>1
  <2> QED
    BY <2>1, <2>2, <2>3
<1> QED
  BY <1>3, <1>4 DEF z

\* What a thread has claimed.
LEMMA ClaimedPages ==
  \A t, g : g \in Claimed(t) <=>
    \E s \in Slot : /\ slots[s] # None /\ slots[s].id = t
                    /\ g \in Pages(s * SlotSize, slots[s].count * SlotSize)
BY DEF Claimed

\* What a thread does with its job: an allocation before its descriptor is
\* written, while it is linked, and after; a free before its descriptor is
\* found, and after; a fault.
Early(label, j) == j.size # 0 /\ label \in {"refresh", "unmap", "carve", "claim", "hint"}
Linking(label) == label \in {"link", "set"}
Late(label, j) == j.size # 0 /\ label \in {"protect", "map", "pop"}
Waits(label, j) == label = "drop" \/ (label \in {"refresh", "unmap"} /\ j.then = "drop")
Retires(label) == label \in {"unprotect", "retire"}
Faults(label, j) == j.size = 0 /\ label \in {"protect", "map"}

\* A job that goes on is the same job.
SameRole(label, j, l, k) ==
  /\ j.size = k.size /\ j.desc = k.desc /\ j.reuse = k.reuse /\ j.offset = k.offset
  /\ Early(label, j) <=> Early(l, k)
  /\ Linking(label) <=> Linking(l)
  /\ Late(label, j) <=> Late(l, k)
  /\ Waits(label, j) <=> Waits(l, k)
  /\ Retires(label) <=> Retires(l)
  /\ Faults(label, j) <=> Faults(l, k)

\* What Jobs says of a thread.
JobOf(t, label, j) ==
  /\ j.size # 0 => j.size \in Sizes /\ j.desc \in BlocksOf[t]
  /\ label \in {"carve", "claim", "hint", "link", "set"} => j.size # 0
  /\ label \in {"refresh", "unmap"} =>
       j.then \in {"carve", "drop"} /\ (j.then = "carve" <=> j.size # 0)

\* One thread goes on, with its job.
Proceeds(t, label, j) ==
  /\ label \in Label /\ pc' = [pc EXCEPT ![t] = label]
  /\ j \in Job /\ job' = [job EXCEPT ![t] = j]

\* No job is one.
LEMMA NoJobIsJob == NoJob \in Job /\ NoJob.size = 0
BY DEF NoJob, Job

\* Other threads keep what they do.
LEMMA ProceedsFacts ==
  ASSUME Types, NEW t \in Thread, NEW label, NEW j, Proceeds(t, label, j)
  PROVE  /\ pc' \in [Thread -> Label] /\ job' \in [Thread -> Job]
         /\ pc'[t] = label /\ job'[t] = j
         /\ \A u \in Thread : u # t => pc'[u] = pc[u] /\ job'[u] = job[u]
<1>1. /\ pc \in [Thread -> Label] /\ pc' = [pc EXCEPT ![t] = label] /\ label \in Label
      /\ job \in [Thread -> Job] /\ job' = [job EXCEPT ![t] = j] /\ j \in Job
  BY Zenon DEF Types, Proceeds
<1> QED
  BY <1>1, Zenon

\* A thread that goes on with a right job.
LEMMA JobsStep ==
  ASSUME Types, Jobs, NEW t \in Thread, NEW label, NEW j, Proceeds(t, label, j), JobOf(t, label, j)
  PROVE  Jobs'
<1>1. /\ pc'[t] = label /\ job'[t] = j
      /\ \A u \in Thread : u # t => pc'[u] = pc[u] /\ job'[u] = job[u]
  BY ProceedsFacts, Zenon
<1> SUFFICES ASSUME NEW u \in Thread
             PROVE  JobOf(u, pc'[u], job'[u])
  BY Zenon DEF Jobs, JobOf
<1>2. CASE u = t
  BY <1>1, <1>2, Zenon
<1>3. CASE u # t
  BY <1>1, <1>3, Zenon DEF Jobs, JobOf
<1> QED
  BY <1>2, <1>3, Zenon

\* Claims stay as they are, and no thread starts to claim at a wrong place.
LEMMA ClaimsStep ==
  ASSUME Types, Chain, Apart, Taken, slots' = slots, hint' = hint,
         NEW t \in Thread, NEW label, NEW j, Proceeds(t, label, j),
         label = "claim" => j.slot \in Boundary, label # "hint"
  PROVE  Chain' /\ Apart' /\ Taken'
<1>1. /\ pc'[t] = label /\ job'[t] = j
      /\ \A u \in Thread : u # t => pc'[u] = pc[u] /\ job'[u] = job[u]
  BY ProceedsFacts, Zenon
<1>2. Boundary' \subseteq Boundary
  <2> SUFFICES ASSUME NEW u \in Thread, pc'[u] = "claim" PROVE job'[u].slot \in Boundary
    BY DEF Boundary
  <2> QED
    BY <1>1, Zenon DEF Boundary
<1>3. Chain'
  BY <1>2, Zenon DEF Chain, Top
<1>4. Apart'
  BY Zenon DEF Apart
<1>5. Taken'
  BY <1>1, Zenon DEF Taken
<1> QED
  BY <1>3, <1>4, <1>5

\* Blocks are blocks of descriptors.
LEMMA BlocksAre == HugeAssumption => \A t \in Thread : BlocksOf[t] \subseteq Desc
BY Zenon DEF HugeAssumption, Desc

\* Only what the thread does changes.
LEMMA StillClaimed ==
  ASSUME HugeAssumption, ClaimInv, UNCHANGED <<slots, hint, head, next, desc, free>>,
         NEW t \in Thread, NEW label, NEW j, Proceeds(t, label, j), JobOf(t, label, j),
         label = "claim" => j.slot \in Boundary, label # "hint"
  PROVE  ClaimInv'
<1>1. Types /\ Jobs /\ Chain /\ Apart /\ Taken /\ Closed /\ Inside
  BY Zenon DEF ClaimInv
<1>2. Types'
  BY <1>1, ProceedsFacts, Zenon DEF Types
<1>3. Jobs'
  BY <1>1, JobsStep, Zenon
<1>4. Chain' /\ Apart' /\ Taken'
  BY <1>1, ClaimsStep, Zenon
<1>5. Closed'
  BY <1>1, Zenon DEF Closed
<1>6. Inside'
  <2>1. /\ \A u \in Thread : Claimed(u)' = Claimed(u)
        /\ \A d \in Desc : Extent(d)' = Extent(d)
    BY DEF Claimed, Extent
  <2> QED
    BY <1>1, <2>1, BlocksAre, Zenon DEF Inside
<1> QED
  BY <1>2, <1>3, <1>4, <1>5, <1>6, Zenon DEF ClaimInv

-----------------------------------------------------------------------------
\* The descriptors of a list are blocks of its thread.
LEMMA ListsOwn ==
  ASSUME HugeAssumption, Closed, NEW t \in Thread
  PROVE  /\ \A n \in 0..DescCount : Trace(t)[n] \in BlocksOf[t] \union {None}
         /\ OnList(t) \subseteq BlocksOf[t] /\ BlocksOf[t] \subseteq Desc
<1>1. DescCount \in Nat /\ BlocksOf[t] \subseteq Desc
  BY Zenon DEF HugeAssumption, Desc
<1>2. \A n \in 0..DescCount : Walk(head[t], next)[n] \in BlocksOf[t] \union {None}
  <2>1. head[t] \in BlocksOf[t] \union {None} /\ \A d \in BlocksOf[t] : next[d] \in BlocksOf[t] \union {None}
    BY Zenon DEF Closed
  <2> QED
    BY <1>1, <2>1, WalkStays, Zenon
<1> QED
  BY <1>1, <1>2, Zenon DEF Trace, OnList

\* The first descriptor in a set.
LEMMA FirstFacts ==
  ASSUME NEW w, NEW S
  PROVE  \/ First(w, S) = None /\ \A n \in 0..DescCount : w[n] \notin S
         \/ \E n \in 0..DescCount : /\ First(w, S) = w[n] /\ w[n] \in S
                                   /\ \A m \in 0..DescCount : m < n => w[m] \notin S
<1> DEFINE hits == {n \in 0..DescCount : w[n] \in S}
<1>1. CASE hits = {}
  BY <1>1, Zenon DEF First
<1>2. CASE hits # {}
  <2>1. hits \subseteq Nat
    OBVIOUS
  <2>2. \E n \in hits : \A m \in hits : n <= m
    <3> HIDE DEF hits
    <3> QED
      BY <1>2, <2>1, LeastNatural, Zenon
  <2> DEFINE least == CHOOSE n \in hits : \A m \in hits : n <= m
  <2>3. least \in hits /\ \A m \in hits : least <= m
    BY <2>2, Zenon
  <2>4. First(w, S) = w[least]
    BY <1>2, Zenon DEF First
  <2> HIDE DEF least
  <2>5. \A m \in 0..DescCount : m < least => m \notin hits
    BY <2>1, <2>3
  <2> QED
    BY <2>3, <2>4, <2>5, Zenon
<1> QED
  BY <1>1, <1>2, Zenon

\* A search ends with a descriptor or without.
LEMMA FindsOne == \A g : Find(g) \in Desc \union {None}
<1> TAKE g
<1> DEFINE S == {d \in Desc : g \in Extent(d)}
<1>1. Find(g) = First(Trace(Owner(g)), S) /\ S \subseteq Desc
  BY Zenon DEF Find
<1> HIDE DEF S
<1> QED
  BY <1>1, FirstFacts, Zenon

-----------------------------------------------------------------------------

\* A thread goes on with its job, and changes nothing that claims depend on.
GoesOn(t, label, j) ==
  /\ Proceeds(t, label, j) /\ JobOf(t, label, j) /\ SameRole(label, j, pc[t], job[t])
  /\ label \notin {"set", "hint", "down"}
  /\ label = "claim" => j.slot \in Boundary
  /\ label = "pop" => j.size # 0
  /\ UNCHANGED <<slots, hint, head, next, desc, free>>

\* refresh.
LEMMA RefreshGoesOn ==
  ASSUME HugeAssumption, ClaimInv, NEW t \in Thread, Refresh(t)
  PROVE  \E label, j : GoesOn(t, label, j)
<1>1. Types /\ Jobs
  BY Zenon DEF ClaimInv
<1>2. pc[t] = "refresh" /\ UNCHANGED <<slots, hint, head, next, desc, free>>
  BY Zenon DEF Refresh, Turn
<1>3. job[t] \in Job /\ JobOf(t, "refresh", job[t])
  BY <1>1, <1>2, Zenon DEF Types, Jobs, JobOf
<1>4. ASSUME NEW d \in job[t].todo, pc' = [pc EXCEPT ![t] = "unmap"],
             job' = [job EXCEPT ![t].todo = @ \ {d}, ![t].old = d]
      PROVE  \E label, j : GoesOn(t, label, j)
  <2> DEFINE j == [job[t] EXCEPT !.todo = @ \ {d}, !.old = d]
  <2>1. job' = [job EXCEPT ![t] = j]
    BY <1>1, <1>4, Zenon DEF Types
  <2>2. /\ j \in Job /\ j.size = job[t].size /\ j.desc = job[t].desc /\ j.then = job[t].then
        /\ j.reuse = job[t].reuse /\ j.offset = job[t].offset
    BY <1>3, Zenon DEF Job
  <2> HIDE DEF j
  <2>3. Proceeds(t, "unmap", j) /\ JobOf(t, "unmap", j)
    BY <1>3, <1>4, <2>1, <2>2, Zenon DEF Proceeds, Label, JobOf
  <2>4. SameRole("unmap", j, "refresh", job[t])
    BY <2>2, Zenon DEF SameRole, Early, Linking, Late, Waits, Retires, Faults
  <2> QED
    BY <1>2, <2>3, <2>4, Zenon DEF GoesOn
<1>5. ASSUME pc' = [pc EXCEPT ![t] = job[t].then], job' = [job EXCEPT ![t].todo = {}]
      PROVE  \E label, j : GoesOn(t, label, j)
  <2> DEFINE j == [job[t] EXCEPT !.todo = {}]
  <2>1. job' = [job EXCEPT ![t] = j]
    BY <1>1, <1>5 DEF Types
  <2>2. /\ j \in Job /\ j.size = job[t].size /\ j.desc = job[t].desc /\ j.then = job[t].then
        /\ j.reuse = job[t].reuse /\ j.offset = job[t].offset
    BY <1>3, Zenon DEF Job
  <2> HIDE DEF j
  <2>3. job[t].then \in {"carve", "drop"} /\ (job[t].then = "carve" <=> job[t].size # 0)
    BY <1>3, Zenon DEF JobOf
  <2>4. Proceeds(t, job[t].then, j) /\ JobOf(t, job[t].then, j)
    BY <1>3, <1>5, <2>1, <2>2, <2>3, Zenon DEF Proceeds, Label, JobOf
  <2>5. SameRole(job[t].then, j, "refresh", job[t])
    BY <2>2, <2>3, Zenon DEF SameRole, Early, Linking, Late, Waits, Retires, Faults
  <2> QED
    BY <1>2, <2>3, <2>4, <2>5, Zenon DEF GoesOn
<1> QED
  BY <1>4, <1>5, Zenon DEF Refresh, Goto

\* Unmapping, in refresh.
LEMMA RefreshUnmapGoesOn ==
  ASSUME HugeAssumption, ClaimInv, NEW t \in Thread, RefreshUnmap(t)
  PROVE  \E label, j : GoesOn(t, label, j)
<1>1. Types /\ Jobs
  BY Zenon DEF ClaimInv
<1>2. /\ pc[t] = "unmap" /\ UNCHANGED <<slots, hint, head, next, desc, free>>
      /\ pc' = [pc EXCEPT ![t] = "refresh"] /\ job' = [job EXCEPT ![t].old = None]
  BY Zenon DEF RefreshUnmap, Turn, shared, Goto
<1>3. job[t] \in Job /\ JobOf(t, "unmap", job[t])
  BY <1>1, <1>2, Zenon DEF Types, Jobs, JobOf
<1> DEFINE j == [job[t] EXCEPT !.old = None]
<1>4. job' = [job EXCEPT ![t] = j]
  BY <1>1, <1>2, Zenon DEF Types
<1>5. /\ j \in Job /\ j.size = job[t].size /\ j.desc = job[t].desc /\ j.then = job[t].then
      /\ j.reuse = job[t].reuse /\ j.offset = job[t].offset
  BY <1>3, Zenon DEF Job
<1> HIDE DEF j
<1>6. Proceeds(t, "refresh", j) /\ JobOf(t, "refresh", j)
  BY <1>2, <1>3, <1>4, <1>5, Zenon DEF Proceeds, Label, JobOf
<1>7. SameRole("refresh", j, "unmap", job[t])
  BY <1>5, Zenon DEF SameRole, Early, Linking, Late, Waits, Retires, Faults
<1> QED
  BY <1>2, <1>6, <1>7, Zenon DEF GoesOn

\* A claim begins at the hint.
LEMMA BeginClaimGoesOn ==
  ASSUME HugeAssumption, ClaimInv, NEW t \in Thread, BeginClaim(t)
  PROVE  \E label, j : GoesOn(t, label, j)
<1>1. Types /\ Jobs
  BY Zenon DEF ClaimInv
<1>2. /\ pc[t] = "carve" /\ UNCHANGED <<slots, hint, head, next, desc, free>>
      /\ pc' = [pc EXCEPT ![t] = "claim"] /\ job' = [job EXCEPT ![t].slot = hint]
  BY Zenon DEF BeginClaim, Turn, shared, Goto
<1>3. job[t] \in Job /\ JobOf(t, "carve", job[t]) /\ hint \in Nat
  BY <1>1, <1>2, Zenon DEF Types, Jobs, JobOf
<1> DEFINE j == [job[t] EXCEPT !.slot = hint]
<1>4. job' = [job EXCEPT ![t] = j]
  BY <1>1, <1>2, Zenon DEF Types
<1>5. /\ j \in Job /\ j.size = job[t].size /\ j.desc = job[t].desc
      /\ j.reuse = job[t].reuse /\ j.offset = job[t].offset /\ j.slot = hint
  BY <1>3, Zenon DEF Job
<1> HIDE DEF j
<1>6. Proceeds(t, "claim", j) /\ JobOf(t, "claim", j) /\ j.slot \in Boundary
  BY <1>2, <1>3, <1>4, <1>5, Zenon DEF Proceeds, Label, JobOf, Boundary
<1>7. SameRole("claim", j, "carve", job[t])
  BY <1>5, Zenon DEF SameRole, Early, Linking, Late, Waits, Retires, Faults
<1> QED
  BY <1>2, <1>6, <1>7, Zenon DEF GoesOn

\* A hazard is set, or removed.
LEMMA ProtectGoesOn ==
  ASSUME HugeAssumption, ClaimInv, NEW t \in Thread, Protect(t) \/ Unprotect(t)
  PROVE  \E label, j : GoesOn(t, label, j)
<1>1. /\ UNCHANGED <<slots, hint, head, next, desc, free>>
      /\ job' = job
      /\ \/ pc[t] = "protect" /\ pc' = [pc EXCEPT ![t] = "map"]
         \/ pc[t] = "unprotect" /\ pc' = [pc EXCEPT ![t] = "retire"]
  BY Zenon DEF Protect, Unprotect, Turn, Goto
<1>2. job[t] \in Job /\ JobOf(t, "map", job[t]) /\ JobOf(t, "retire", job[t])
  BY Zenon DEF ClaimInv, Types, Jobs, JobOf
<1>3. job = [job EXCEPT ![t] = job[t]]
  BY Zenon DEF ClaimInv, Types
<1>4. /\ SameRole("map", job[t], "protect", job[t])
      /\ SameRole("retire", job[t], "unprotect", job[t])
  BY Zenon DEF SameRole, Early, Linking, Late, Waits, Retires, Faults
<1>5. CASE pc[t] = "protect" /\ pc' = [pc EXCEPT ![t] = "map"]
  BY <1>1, <1>2, <1>3, <1>4, <1>5, Zenon DEF GoesOn, Proceeds, Label
<1>6. CASE pc[t] = "unprotect" /\ pc' = [pc EXCEPT ![t] = "retire"]
  BY <1>1, <1>2, <1>3, <1>4, <1>6, Zenon DEF GoesOn, Proceeds, Label
<1> QED
  BY <1>1, <1>5, <1>6, Zenon

\* Such a step leaves the claims as they are.
LEMMA GoesOnClaims ==
  ASSUME HugeAssumption, ClaimInv, NEW t \in Thread, \E label, j : GoesOn(t, label, j)
  PROVE  ClaimInv'
<1>1. PICK label, j : GoesOn(t, label, j)
  BY Zenon
<1> QED
  BY <1>1, StillClaimed, Zenon DEF GoesOn

\* The steps after which the thread has no job, or only goes on.
LEMMA OtherClaims ==
  ASSUME HugeAssumption, ClaimInv, NEW t \in Thread,
         MapRange(t) \/ Pop(t) \/ ClaimPanic(t)
  PROVE  ClaimInv'
<1>1. Types /\ Jobs
  BY Zenon DEF ClaimInv
<1>2. UNCHANGED <<slots, hint, head, next, desc, free>>
  BY Zenon DEF MapRange, Pop, ClaimPanic, shared
<1>3. job[t] \in Job /\ JobOf(t, "idle", job[t]) /\ NoJob \in Job /\ JobOf(t, "idle", NoJob)
  <2>1. job[t] \in Job /\ JobOf(t, "idle", job[t])
    BY <1>1, Zenon DEF Types, Jobs, JobOf
  <2>2. JobOf(t, "idle", NoJob)
    BY NoJobIsJob DEF JobOf
  <2> QED
    BY <2>1, <2>2, NoJobIsJob, Zenon
<1>4. ASSUME NEW label \in {"idle", "pop", "panic"}, NEW j \in {job[t], NoJob},
             pc' = [pc EXCEPT ![t] = label], job' = [job EXCEPT ![t] = j]
      PROVE  ClaimInv'
  <2>1. Proceeds(t, label, j) /\ label # "hint" /\ label # "claim"
    BY <1>3, <1>4, Zenon DEF Proceeds, Label
  <2>2. JobOf(t, label, j)
    BY <1>3, <1>4, Zenon DEF JobOf
  <2> QED
    BY <1>2, <2>1, <2>2, StillClaimed, Zenon
<1>5. job = [job EXCEPT ![t] = job[t]]
  BY <1>1, Zenon DEF Types
<1>6. CASE MapRange(t)
  BY <1>4, <1>5, <1>6, Zenon DEF MapRange, Goto
<1>7. CASE Pop(t) \/ ClaimPanic(t)
  BY <1>4, <1>7, Zenon DEF Pop, ClaimPanic, Goto
<1> QED
  BY <1>6, <1>7, Zenon

\* The searches: free comes to the descriptor, and a fault does.
LEMMA SearchClaims ==
  ASSUME HugeAssumption, ClaimInv, NEW t \in Thread,
         Drop(t) \/ \E d \in Desc : Fault(t, d)
  PROVE  ClaimInv'
<1>1. UNCHANGED <<slots, hint, head, next, desc, free>>
  BY Zenon DEF Drop, Fault, shared
<1>2. PICK e \in Desc \union {None}, label \in {"unprotect", "protect"} :
        /\ job' = [job EXCEPT ![t] = [NoJob EXCEPT !.desc = e]]
        /\ pc' = [pc EXCEPT ![t] = label]
  BY FindsOne, Zenon DEF Drop, Fault, Goto
<1> DEFINE j == [NoJob EXCEPT !.desc = e]
<1>3. j \in Job /\ j.size = 0
  BY Zenon DEF Job, NoJob
<1> HIDE DEF j
<1>4. Proceeds(t, label, j) /\ JobOf(t, label, j)
  BY <1>2, <1>3, Zenon DEF Proceeds, Label, JobOf, j
<1> QED
  BY <1>1, <1>2, <1>4, StillClaimed, Zenon

\* free begins.
LEMMA FreeClaims ==
  ASSUME HugeAssumption, ClaimInv, NEW t \in Thread, NEW d \in Desc, Free(t, d)
  PROVE  ClaimInv'
<1>1. Types /\ Closed
  BY Zenon DEF ClaimInv
<1>2. UNCHANGED <<slots, hint, head, next, desc, free>>
  BY Zenon DEF Free, shared
<1>3. UNION {OnList(u) : u \in Thread} \subseteq Desc
  BY <1>1, ListsOwn
<1> DEFINE j == [NoJob EXCEPT !.offset = desc[d].offset, !.then = "drop",
                              !.todo = UNION {OnList(u) : u \in Thread}]
<1>4. /\ job' = [job EXCEPT ![t] = j] /\ pc' = [pc EXCEPT ![t] = "refresh"]
  BY DEF Free, BeginRefresh, Goto, NoJob
<1>5. desc[d].offset \in Nat
  BY <1>1 DEF Types
<1>6. j \in Job /\ j.size = 0 /\ j.then = "drop"
  BY <1>3, <1>5, Zenon DEF Job, NoJob
<1> HIDE DEF j
<1>7. Proceeds(t, "refresh", j) /\ JobOf(t, "refresh", j)
  BY <1>4, <1>6, Zenon DEF Proceeds, Label, JobOf
<1> QED
  BY <1>2, <1>7, StillClaimed, Zenon

\* Free ends.
LEMMA RetireClaims ==
  ASSUME HugeAssumption, ClaimInv, NEW t \in Thread, Retire(t)
  PROVE  ClaimInv'
<1>1. Types /\ Jobs /\ Chain /\ Apart /\ Taken /\ Closed /\ Inside
  BY Zenon DEF ClaimInv
<1>2. /\ UNCHANGED <<slots, hint, head, next, free>>
      /\ desc' = [desc EXCEPT ![job[t].desc].state = "Free"]
      /\ job' = [job EXCEPT ![t] = NoJob] /\ pc' = [pc EXCEPT ![t] = "idle"]
  BY Zenon DEF Retire, Goto
<1>3. Proceeds(t, "idle", NoJob) /\ JobOf(t, "idle", NoJob)
  BY <1>2, NoJobIsJob DEF Proceeds, Label, JobOf
<1>4. /\ desc' \in [Desc -> [offset : Nat, size : Nat, state : {"Live", "Free", "Safe"}]]
      /\ \A d \in Desc : desc'[d].offset = desc[d].offset /\ desc'[d].size = desc[d].size
  BY <1>1, <1>2, Zenon DEF Types
<1>5. Types'
  BY <1>1, <1>2, <1>3, <1>4, ProceedsFacts, Zenon DEF Types
<1>6. Jobs' /\ Chain' /\ Apart' /\ Taken'
  BY <1>1, <1>2, <1>3, JobsStep, ClaimsStep, Zenon
<1>7. Closed'
  BY <1>1, <1>2, Zenon DEF Closed
<1>8. Inside'
  <2>1. /\ \A u \in Thread : Claimed(u)' = Claimed(u)
        /\ \A d \in Desc : Extent(d)' = Extent(d)
    BY <1>2, <1>4 DEF Claimed, Extent
  <2> QED
    BY <1>1, <1>2, <2>1, BlocksAre, Zenon DEF Inside
<1> QED
  BY <1>5, <1>6, <1>7, <1>8, Zenon DEF ClaimInv

\* What is claimed only grows, and so does what it may contain.
LEMMA ClaimedGrows ==
  ASSUME NEW t, \A s \in Slot : slots[s] # None => slots'[s] = slots[s]
  PROVE  Claimed(t) \subseteq Claimed(t)'
BY Zenon DEF Claimed

\* A new descriptor is linked, and the head is set to it.
LEMMA LinkClaims ==
  ASSUME HugeAssumption, ClaimInv, NEW t \in Thread, Link(t) \/ SetHead(t)
  PROVE  ClaimInv'
<1>1. Types /\ Jobs /\ Chain /\ Apart /\ Taken /\ Closed /\ Inside
  BY Zenon DEF ClaimInv
<1>2. UNCHANGED <<slots, hint, desc, free>> /\ pc[t] \in {"link", "set"}
  BY Zenon DEF Link, SetHead, Turn
<1>3. job[t] \in Job /\ JobOf(t, "set", job[t]) /\ job[t].desc \in BlocksOf[t]
  BY <1>1, <1>2, Zenon DEF Types, Jobs, JobOf
<1>4. job = [job EXCEPT ![t] = job[t]]
  BY <1>1, Zenon DEF Types
<1>5. PICK label \in {"set", "protect"} : Proceeds(t, label, job[t])
  BY <1>3, <1>4, Zenon DEF Link, SetHead, Goto, Proceeds, Label
<1>6. JobOf(t, label, job[t])
  BY <1>3, Zenon DEF JobOf
<1>7. Jobs' /\ Chain' /\ Apart' /\ Taken'
  BY <1>1, <1>2, <1>5, <1>6, JobsStep, ClaimsStep, Zenon
<1>8. Closed' /\ head' \in [Thread -> Desc \union {None}] /\ next' \in [Desc -> Desc \union {None}]
  <2>1. head \in [Thread -> Desc \union {None}] /\ next \in [Desc -> Desc \union {None}]
    BY <1>1, Zenon DEF Types
  <2>2. head[t] \in BlocksOf[t] \union {None} /\ BlocksOf[t] \subseteq Desc
    BY <1>1, BlocksAre, Zenon DEF Closed
  <2>3. \A u \in Thread : u # t => job[t].desc \notin BlocksOf[u]
    BY <1>3 DEF HugeAssumption
  <2>4. CASE Link(t)
    <3>1. head' = head /\ next' = [next EXCEPT ![job[t].desc] = head[t]]
      BY <2>4, Zenon DEF Link
    <3>2. \A d \in Desc : next'[d] = IF d = job[t].desc THEN head[t] ELSE next[d]
      BY <2>1, <3>1, Zenon
    <3> QED
      BY <1>1, <1>3, <2>1, <2>2, <2>3, <3>1, <3>2, BlocksAre DEF Closed
  <2>5. CASE SetHead(t)
    <3>1. next' = next /\ head' = [head EXCEPT ![t] = job[t].desc]
      BY <2>5, Zenon DEF SetHead
    <3> QED
      BY <1>1, <1>3, <2>1, <2>2, <3>1 DEF Closed
  <2> QED
    BY <2>4, <2>5, Zenon
<1>9. Types'
  BY <1>1, <1>2, <1>5, <1>8, ProceedsFacts, Zenon DEF Types
<1>10. Inside'
  <2>1. /\ \A u \in Thread : Claimed(u)' = Claimed(u)
        /\ \A d \in Desc : Extent(d)' = Extent(d)
    BY <1>2 DEF Claimed, Extent
  <2> QED
    BY <1>1, <1>2, <2>1, BlocksAre, Zenon DEF Inside
<1> QED
  BY <1>7, <1>8, <1>9, <1>10, Zenon DEF ClaimInv

\* What is carved was free.
LEMMA FitIsFree ==
  ASSUME Types, NEW t \in Thread, NEW size, FirstFit(t, size) # None
  PROVE  /\ FirstFit(t, size) \in free[t] /\ FirstFit(t, size) \in Nat
         /\ Pages(FirstFit(t, size), size) \subseteq free[t]
<1> DEFINE starts == {g \in free[t] : g - 1 \notin free[t] /\ Pages(g, size) \subseteq free[t]}
<1>1. FirstFit(t, size) = CHOOSE g \in starts : \A h \in starts : g <= h
  BY Zenon DEF FirstFit
<1>2. starts # {}
  BY Zenon DEF FirstFit
<1>3. starts \subseteq Nat
  BY DEF Types
<1>4. \E g \in starts : \A h \in starts : g <= h
  <2> HIDE DEF starts
  <2> QED
    BY <1>2, <1>3, LeastNatural, Zenon
<1>5. FirstFit(t, size) \in starts
  BY <1>1, <1>4, Zenon
<1> QED
  BY <1>3, <1>5, Zenon

\* A range is carved.
LEMMA CarveClaims ==
  ASSUME HugeAssumption, ClaimInv, NEW t \in Thread, Carve(t)
  PROVE  ClaimInv'
<1>1. Types /\ Jobs /\ Chain /\ Apart /\ Taken /\ Closed /\ Inside
  BY Zenon DEF ClaimInv
<1> DEFINE j == job[t]  offset == FirstFit(t, j.size)
<1>2. /\ UNCHANGED <<slots, hint, head, next>> /\ pc[t] = "carve"
      /\ offset # None
      /\ free' = [free EXCEPT ![t] = @ \ Pages(offset, j.size)]
      /\ desc' = [desc EXCEPT ![j.desc] = [offset |-> offset, size |-> j.size, state |-> "Live"]]
  BY Zenon DEF Carve, Turn
<1>3. j \in Job /\ JobOf(t, "carve", j) /\ j.desc \in BlocksOf[t] /\ j.size \in Nat
  BY <1>1, <1>2, Zenon DEF Types, Jobs, JobOf, Job
<1>4. job = [job EXCEPT ![t] = j]
  BY <1>1, Zenon DEF Types
<1>5. PICK label \in {"link", "protect"} : Proceeds(t, label, j)
  BY <1>3, <1>4, Zenon DEF Carve, Goto, Proceeds, Label
<1>6. JobOf(t, label, j)
  BY <1>3, Zenon DEF JobOf
<1>7. Jobs' /\ Chain' /\ Apart' /\ Taken'
  BY <1>1, <1>2, <1>5, <1>6, JobsStep, ClaimsStep, Zenon
<1>8. offset \in Nat /\ Pages(offset, j.size) \subseteq free[t]
  BY <1>1, <1>2, FitIsFree, Zenon
<1> HIDE DEF j, offset
<1>9. /\ free' \in [Thread -> SUBSET Nat]
      /\ desc' \in [Desc -> [offset : Nat, size : Nat, state : {"Live", "Free", "Safe"}]]
  BY <1>1, <1>2, <1>3, <1>8, Zenon DEF Types
<1>10. Types'
  BY <1>1, <1>2, <1>5, <1>9, ProceedsFacts, Zenon DEF Types
<1>11. Closed'
  BY <1>1, <1>2, Zenon DEF Closed
<1>12. Inside'
  <2>1. \A u \in Thread : Claimed(u)' = Claimed(u)
    BY <1>2 DEF Claimed
  <2>4. \A u \in Thread : free'[u] \subseteq free[u]
    <3>1. free \in [Thread -> SUBSET Nat]
      BY <1>1, Zenon DEF Types
    <3> QED
      BY <1>2, <3>1
  <2>2. /\ \A d \in Desc : d # j.desc => Extent(d)' = Extent(d)
        /\ \A d \in Desc : d = j.desc => Extent(d)' = Pages(offset, j.size)
    <3> DEFINE new == [offset |-> offset, size |-> j.size, state |-> "Live"]
    <3>1. desc \in [Desc -> [offset : Nat, size : Nat, state : {"Live", "Free", "Safe"}]] /\ j.desc \in Desc
      BY <1>1, <1>3, BlocksAre, Zenon DEF Types
    <3>2. desc'[j.desc] = new /\ \A d \in Desc : d # j.desc => desc'[d] = desc[d]
      BY <1>2, <3>1, Zenon
    <3>3. new.offset = offset /\ new.size = j.size
      OBVIOUS
    <3> HIDE DEF new
    <3> QED
      BY <3>2, <3>3, Zenon DEF Extent
  <2>3. \A u \in Thread : u # t => j.desc \notin BlocksOf[u]
    BY <1>3 DEF HugeAssumption
  <2>5. \A u \in Thread : free'[u] \subseteq Claimed(u)'
    BY <1>1, <2>1, <2>4, Zenon DEF Inside
  <2>6. ASSUME NEW u \in Thread, NEW d \in BlocksOf[u] PROVE Extent(d)' \subseteq Claimed(u)'
    <3>1. Extent(d) \subseteq Claimed(u) /\ d \in Desc
      BY <1>1, <2>6, BlocksAre, Zenon DEF Inside
    <3>2. CASE d = j.desc
      <4>1. u = t
        BY <2>3, <2>6, <3>2, Zenon
      <4> QED
        BY <1>1, <1>8, <2>1, <2>2, <3>1, <3>2, <4>1, Zenon DEF Inside
    <3> QED
      BY <2>1, <2>2, <3>1, <3>2, Zenon
  <2> QED
    BY <2>5, <2>6, Zenon DEF Inside
<1> QED
  BY <1>7, <1>10, <1>11, <1>12, Zenon DEF ClaimInv

\* The first descriptor in a set is in the set.
LEMMA FirstIn ==
  ASSUME NEW w, NEW S
  PROVE  First(w, S) = None \/ First(w, S) \in S
<1> DEFINE f == First(w, S)
<1>1. f = None \/ \E n \in 0..DescCount : f = w[n] /\ w[n] \in S
  BY FirstFacts, Zenon
<1> HIDE DEF f
<1>2. f = None \/ f \in S
  BY <1>1, Zenon
<1> QED
  BY <1>2, Zenon DEF f

\* The job of an allocation, as reuse leaves it.
LEMMA ReuseJob ==
  ASSUME HugeAssumption, Closed, NEW t \in Thread, NEW size \in Sizes, Reuse(t, size)
  PROVE  \E j \in Job :
           /\ job' = [job EXCEPT ![t] = j]
           /\ j.size = size /\ j.then = "carve" /\ j.desc \in BlocksOf[t]
           /\ j.reuse => j.desc = First(Trace(t), SafeAfter(t)) /\ j.desc \in SafeAfter(t)
           /\ ~j.reuse => First(Trace(t), SafeAfter(t)) = None /\ j.desc \notin popped
<1> DEFINE todo == UNION {OnList(u) : u \in Thread}  choice == First(Trace(t), SafeAfter(t))
<1>1. todo \subseteq Desc /\ OnList(t) \subseteq BlocksOf[t] /\ BlocksOf[t] \subseteq Desc
  BY ListsOwn, Zenon
<1>2. size \in Nat
  BY Zenon DEF HugeAssumption
<1>3. SafeAfter(t) \subseteq OnList(t)
  BY Zenon DEF SafeAfter, Retired
<1>4. choice = None \/ choice \in SafeAfter(t)
  BY FirstIn, Zenon
<1>5. CASE choice # None
  <2> DEFINE j == [[NoJob EXCEPT !.size = size, !.desc = choice, !.reuse = TRUE]
                     EXCEPT !.then = "carve", !.todo = todo]
  <2>1. job' = [job EXCEPT ![t] = j]
    BY <1>5, Zenon DEF Reuse, ReuseWith, BeginRefresh
  <2>2. choice \in BlocksOf[t] /\ choice \in Desc /\ choice \in SafeAfter(t)
    BY <1>1, <1>3, <1>4, <1>5, Zenon
  <2> HIDE DEF choice, todo
  <2>3. /\ j \in Job /\ j.size = size /\ j.then = "carve" /\ j.desc = choice /\ j.reuse
    BY <1>1, <1>2, <2>2, Zenon DEF NoJob, Job
  <2> HIDE DEF j
  <2> QED
    BY <2>1, <2>2, <2>3, Zenon DEF choice
<1>6. CASE choice = None
  <2>1. PICK d \in BlocksOf[t] \ popped :
          BeginRefresh(t, [NoJob EXCEPT !.size = size, !.desc = d], "carve")
    BY <1>6, Zenon DEF Reuse, ReuseWith
  <2> DEFINE j == [[NoJob EXCEPT !.size = size, !.desc = d] EXCEPT !.then = "carve", !.todo = todo]
  <2>2. job' = [job EXCEPT ![t] = j]
    BY <2>1, Zenon DEF BeginRefresh
  <2>3. d \in Desc
    BY <1>1, <2>1, Zenon
  <2> HIDE DEF choice, todo
  <2>4. /\ j \in Job /\ j.size = size /\ j.then = "carve" /\ j.desc = d /\ ~j.reuse
    BY <1>1, <1>2, <2>3, Zenon DEF NoJob, Job
  <2> HIDE DEF j
  <2> QED
    BY <1>6, <2>1, <2>2, <2>4, Zenon DEF choice
<1> QED
  BY <1>5, <1>6, Zenon

\* A descriptor is chosen, and what nobody protects any more is free again.
LEMMA ReuseClaims ==
  ASSUME HugeAssumption, ClaimInv, NEW t \in Thread, NEW size \in Sizes, Reuse(t, size)
  PROVE  ClaimInv'
<1>1. Types /\ Jobs /\ Chain /\ Apart /\ Taken /\ Closed /\ Inside
  BY Zenon DEF ClaimInv
<1>2. /\ UNCHANGED <<slots, hint, head, next>> /\ pc[t] = "idle"
      /\ free' = [free EXCEPT ![t] = @ \union UNION {Extent(d) : d \in Retired(t)}]
      /\ desc' = [d \in Desc |-> IF d \in Retired(t) THEN [desc[d] EXCEPT !.state = "Safe"] ELSE desc[d]]
      /\ pc' = [pc EXCEPT ![t] = "refresh"]
  BY Zenon DEF Reuse, ReuseWith, Turn, BeginRefresh, Goto
<1>3. /\ OnList(t) \subseteq BlocksOf[t] /\ BlocksOf[t] \subseteq Desc
      /\ Retired(t) \subseteq OnList(t) /\ SafeAfter(t) \subseteq OnList(t)
  BY <1>1, ListsOwn, Zenon DEF Retired, SafeAfter
<1>4. PICK j \in Job : /\ job' = [job EXCEPT ![t] = j]
                       /\ j.size = size /\ j.then = "carve" /\ j.desc \in BlocksOf[t]
  BY <1>1, ReuseJob, Zenon
<1>5. size # 0
  BY Zenon DEF HugeAssumption
<1>9. Proceeds(t, "refresh", j)
  BY <1>2, <1>4, Zenon DEF Proceeds, Label
<1>10. JobOf(t, "refresh", j)
  BY <1>4, <1>5, Zenon DEF JobOf
<1>11. Jobs' /\ Chain' /\ Apart' /\ Taken'
  BY <1>1, <1>2, <1>9, <1>10, JobsStep, ClaimsStep, Zenon
<1>12. /\ desc' \in [Desc -> [offset : Nat, size : Nat, state : {"Live", "Free", "Safe"}]]
       /\ \A e \in Desc : desc'[e].offset = desc[e].offset /\ desc'[e].size = desc[e].size
  <2>1. desc \in [Desc -> [offset : Nat, size : Nat, state : {"Live", "Free", "Safe"}]]
    BY <1>1, Zenon DEF Types
  <2> QED
    BY <1>2, <2>1
<1>13. \A u \in Thread : free'[u] = IF u = t THEN free[t] \union UNION {Extent(e) : e \in Retired(t)} ELSE free[u]
  <2>1. free \in [Thread -> SUBSET Nat]
    BY <1>1, Zenon DEF Types
  <2> QED
    BY <1>2, <2>1, Zenon
<1>14. ASSUME NEW u \in Thread PROVE free'[u] \subseteq Claimed(u)
  <2>1. free[u] \subseteq Claimed(u) /\ \A e \in BlocksOf[u] : Extent(e) \subseteq Claimed(u)
    BY <1>1, Zenon DEF Inside
  <2>2. CASE u = t
    <3>1. UNION {Extent(e) : e \in Retired(t)} \subseteq Claimed(t)
      BY <1>3, <2>1, <2>2, Zenon
    <3> QED
      BY <1>13, <2>1, <2>2, <3>1, Zenon
  <2> QED
    BY <1>13, <2>1, <2>2, Zenon
<1>15. free' \in [Thread -> SUBSET Nat]
  <2>1. \A e \in Desc : Extent(e) \subseteq Nat
    BY <1>1 DEF Extent, Pages, Types
  <2>2. free \in [Thread -> SUBSET Nat]
    BY <1>1, Zenon DEF Types
  <2>3. UNION {Extent(e) : e \in Retired(t)} \subseteq Nat
    BY <1>3, <2>1, Zenon
  <2> QED
    BY <1>2, <2>2, <2>3
<1>16. Types'
  BY <1>1, <1>2, <1>9, <1>12, <1>15, ProceedsFacts, Zenon DEF Types
<1>17. Closed'
  BY <1>1, <1>2, Zenon DEF Closed
<1>18. Inside'
  <2>1. \A u \in Thread : Claimed(u)' = Claimed(u)
    BY <1>2 DEF Claimed
  <2>2. \A e \in Desc : Extent(e)' = Extent(e)
    BY <1>12 DEF Extent
  <2> QED
    BY <1>1, <1>14, <2>1, <2>2, BlocksAre, Zenon DEF Inside
<1> QED
  BY <1>11, <1>16, <1>17, <1>18, Zenon DEF ClaimInv

\* Where a thread claims.
LEMMA ClaimFacts ==
  ASSUME HugeAssumption, ClaimInv, NEW t \in Thread, Claim(t)
  PROVE  /\ pc[t] = "claim" /\ job[t].slot + SlotsFor(job[t].size) <= SlotCount
         /\ job[t] \in Job /\ JobOf(t, "claim", job[t]) /\ job[t].slot \in Nat
         /\ SlotsFor(job[t].size) \in Nat \ {0}
         /\ job[t].slot \in Slot /\ SlotCount \in Nat
         /\ job[t].slot \in Boundary
         /\ slots \in [Slot -> [id : Thread, count : Nat \ {0}] \union {None}]
<1>1. Types /\ Jobs
  BY Zenon DEF ClaimInv
<1> DEFINE i == job[t].slot  count == SlotsFor(job[t].size)
<1>2. pc[t] = "claim" /\ i + count <= SlotCount
  BY Zenon DEF Claim, Turn
<1>3. job[t] \in Job /\ JobOf(t, "claim", job[t]) /\ i \in Nat
  BY <1>1, <1>2, Zenon DEF Types, Jobs, JobOf, Job
<1>4. count \in Nat \ {0}
  <2>1. job[t].size \in Nat \ {0}
    BY <1>3, Zenon DEF JobOf, HugeAssumption
  <2> QED
    BY <2>1, SomeSlots, Zenon
<1>5. i \in Slot /\ SlotCount \in Nat
  BY <1>2, <1>3, <1>4 DEF Slot, HugeAssumption
<1>6. i \in Boundary
  BY <1>2, Zenon DEF Boundary
<1>7. slots \in [Slot -> [id : Thread, count : Nat \ {0}] \union {None}]
  BY <1>1, Zenon DEF Types
<1> QED
  BY <1>2, <1>3, <1>4, <1>5, <1>6, <1>7, Zenon

\* A slot that is taken is skipped with all that its claim covers: the thread is
\* at a boundary again.
LEMMA ClaimGoesOn ==
  ASSUME HugeAssumption, ClaimInv, NEW t \in Thread, Claim(t), slots[job[t].slot] # None
  PROVE  \E label, j : GoesOn(t, label, j)
<1> DEFINE i == job[t].slot  j == [job[t] EXCEPT !.slot = i + slots[i].count]
<1>1. /\ UNCHANGED <<slots, hint, head, next, desc, free>>
      /\ pc' = pc /\ job' = [job EXCEPT ![t].slot = i + slots[i].count]
  BY Zenon DEF Claim
<1>2. job[t] \in Job /\ pc[t] = "claim" /\ JobOf(t, "claim", job[t]) /\ i \in Slot /\ i \in Nat
  BY ClaimFacts, Zenon
<1>3. slots[i].count \in Nat
  <2>1. slots \in [Slot -> [id : Thread, count : Nat \ {0}] \union {None}]
    BY ClaimFacts, Zenon
  <2> QED
    BY <1>2, <2>1
<1>4. pc \in [Thread -> Label] /\ job \in [Thread -> Job]
  BY Zenon DEF ClaimInv, Types
<1>5. job' = [job EXCEPT ![t] = j] /\ pc' = [pc EXCEPT ![t] = "claim"]
  BY <1>1, <1>2, <1>4, Zenon
<1>6. i + slots[i].count \in Nat
  BY <1>2, <1>3
<1>7. /\ j \in Job /\ j.size = job[t].size /\ j.desc = job[t].desc /\ j.slot = i + slots[i].count
      /\ j.reuse = job[t].reuse /\ j.offset = job[t].offset
  BY <1>2, <1>6, Zenon DEF Job
<1> HIDE DEF j
<1>8. Proceeds(t, "claim", j) /\ JobOf(t, "claim", j)
  BY <1>2, <1>5, <1>7, Zenon DEF Proceeds, Label, JobOf
<1>9. j.slot \in Boundary
  BY <1>2, <1>7, Zenon DEF Boundary
<1>10. SameRole("claim", j, "claim", job[t])
  BY <1>7, Zenon DEF SameRole, Early, Linking, Late, Waits, Retires, Faults
<1> QED
  BY <1>1, <1>2, <1>8, <1>9, <1>10, Zenon DEF GoesOn

\* A slot at a boundary is free only above all claims.
LEMMA ClaimAbove ==
  ASSUME HugeAssumption, ClaimInv, NEW t \in Thread, Claim(t), slots[job[t].slot] = None
  PROVE  /\ Top(job[t].slot)
         /\ \A s \in Slot : slots[s] # None => s + slots[s].count <= job[t].slot /\ s < job[t].slot
<1> DEFINE i == job[t].slot
<1>1. i \in Nat /\ i \in Boundary
  BY ClaimFacts, Zenon
<1>2. PICK n \in 0..SlotCount : Top(n)
  BY Zenon DEF ClaimInv, Chain
<1>3. i = n
  <2>1. i <= n /\ (i < n => slots[i] # None)
    BY <1>1, <1>2, Zenon DEF Top
  <2> QED
    BY <1>1, <2>1
<1>4. ASSUME NEW s \in Slot, slots[s] # None
      PROVE  s + slots[s].count <= i /\ s < i
  <2>1. slots \in [Slot -> [id : Thread, count : Nat \ {0}] \union {None}]
    BY ClaimFacts, Zenon
  <2>2. s + slots[s].count \in Boundary
    BY <1>4, Zenon DEF Boundary
  <2>3. slots[s].count \in Nat \ {0}
    BY <1>4, <2>1
  <2>4. s + slots[s].count <= i
    BY <1>2, <1>3, <2>2, Zenon DEF Top
  <2>5. s < i
    BY <1>1, <2>3, <2>4 DEF Slot
  <2> QED
    BY <2>4, <2>5, Zenon
<1> QED
  BY <1>2, <1>3, <1>4, Zenon

\* A thread that claims is at a boundary; the slot there is free only above all
\* claims, and a claim that covers it is followed by another boundary.
LEMMA ClaimClaims ==
  ASSUME HugeAssumption, ClaimInv, NEW t \in Thread, Claim(t)
  PROVE  ClaimInv'
<1>1. Types /\ Jobs /\ Chain /\ Apart /\ Taken /\ Closed /\ Inside
  BY Zenon DEF ClaimInv
<1> DEFINE i == job[t].slot  count == SlotsFor(job[t].size)
<1>2. pc[t] = "claim" /\ i + count <= SlotCount /\ UNCHANGED <<hint, head, next, desc, free>>
  BY ClaimFacts, Zenon DEF Claim
<1>3. job[t] \in Job /\ JobOf(t, "claim", job[t]) /\ i \in Nat
  BY ClaimFacts, Zenon
<1>4. count \in Nat \ {0}
  BY ClaimFacts, Zenon
<1>5. i \in Slot /\ SlotCount \in Nat
  BY ClaimFacts, Zenon
<1>7. slots \in [Slot -> [id : Thread, count : Nat \ {0}] \union {None}]
  BY ClaimFacts, Zenon
<1>8. CASE slots[i] # None
  BY <1>8, ClaimGoesOn, GoesOnClaims, Zenon
<1>9. CASE slots[i] = None
  <2> DEFINE new == [id |-> t, count |-> count]
  <2>1. /\ slots' = [slots EXCEPT ![i] = new] /\ pc' = [pc EXCEPT ![t] = "hint"]
        /\ job' = job
    BY <1>9, Zenon DEF Claim, Goto
  <2>2. new \in [id : Thread, count : Nat \ {0}] /\ new # None /\ new.count = count /\ new.id = t
    <3>1. new \in [id : Thread, count : Nat \ {0}] /\ new.count = count /\ new.id = t
      BY <1>4
    <3> QED
      BY <3>1, Zenon DEF HugeAssumption
  <2>3. job = [job EXCEPT ![t] = job[t]]
    BY <1>1, Zenon DEF Types
  <2>4. Proceeds(t, "hint", job[t]) /\ JobOf(t, "hint", job[t])
    BY <1>3, <2>1, <2>3, Zenon DEF Proceeds, Label, JobOf
  <2>5. Jobs'
    BY <1>1, <2>4, JobsStep, Zenon
  <2>6. /\ slots'[i] = new /\ \A s \in Slot : s # i => slots'[s] = slots[s]
        /\ slots' \in [Slot -> [id : Thread, count : Nat \ {0}] \union {None}]
    BY <1>5, <1>7, <2>1, <2>2, Zenon
  <2>7. Types'
    BY <1>1, <1>2, <2>4, <2>6, ProceedsFacts, Zenon DEF Types
  <2>8. Top(i) /\ \A s \in Slot : slots[s] # None => s + slots[s].count <= i /\ s < i
    BY <1>9, ClaimAbove, Zenon
  <2>10. ASSUME NEW b \in Boundary' PROVE b \in Boundary \/ b = i + count
    <3>1. \A u \in Thread : pc'[u] = "claim" => pc[u] = "claim"
      BY <1>1, <2>4, ProceedsFacts, Zenon
    <3>2. CASE b \in {0, hint'}
      BY <1>2, <3>2, Zenon DEF Boundary
    <3>3. ASSUME NEW s \in Slot, slots'[s] # None, b = s + slots'[s].count
          PROVE  b \in Boundary \/ b = i + count
      <4>1. CASE s = i
        BY <2>2, <2>6, <3>3, <4>1, Zenon
      <4>2. CASE s # i
        BY <2>6, <3>3, <4>2, Zenon DEF Boundary
      <4> QED BY <4>1, <4>2, Zenon
    <3>4. ASSUME NEW u \in Thread, pc'[u] = "claim", b = job'[u].slot PROVE b \in Boundary
      BY <2>1, <3>1, <3>4, Zenon DEF Boundary
    <3> QED
      BY <3>2, <3>3, <3>4, Zenon DEF Boundary
  <2>11. \A b \in Boundary : b \in Nat
    <3>1. \A s \in Slot : slots[s] # None => s + slots[s].count \in Nat
      BY <1>7, <1>5 DEF Slot
    <3>2. \A u \in Thread : job[u].slot \in Nat
      BY <1>1 DEF Types, Job
    <3>3. hint \in Nat /\ 0 \in Nat
      BY <1>1 DEF Types
    <3> QED
      BY <3>1, <3>2, <3>3, Zenon DEF Boundary
  <2>12. Top(i + count)'
    <3> SUFFICES ASSUME NEW b \in Boundary'
                 PROVE  b <= i + count /\ (b < i + count => slots'[b] # None)
      BY <2>1, Zenon DEF Top
    <3>1. CASE b = i + count
      BY <1>3, <1>4, <3>1
    <3>2. CASE b \in Boundary /\ b # i + count
      <4>1. b \in Nat /\ b <= i /\ (b < i => slots[b] # None)
        BY <2>8, <2>11, <3>2, Zenon DEF Top
      <4>2. b \in Slot /\ b <= i + count
        BY <1>3, <1>4, <1>5, <4>1 DEF Slot
      <4>3. CASE b = i
        BY <2>2, <2>6, <4>2, <4>3, Zenon
      <4>4. CASE b # i
        <5>1. b < i
          BY <1>3, <4>1, <4>4
        <5> QED
          BY <2>6, <4>1, <4>2, <4>4, <5>1, Zenon
      <4> QED
        BY <4>3, <4>4, Zenon
    <3> QED
      BY <2>10, <3>1, <3>2, Zenon
  <2>13. Chain'
    <3>1. i + count \in 0..SlotCount
      BY <1>2, <1>3, <1>4, <1>5
    <3> QED
      BY <2>1, <2>12, <3>1 DEF Chain
  <2>14. ASSUME NEW s \in Slot, slots[s] # None
         PROVE  /\ s + slots[s].count <= i /\ s < i /\ s # i
                /\ slots'[s] = slots[s]
    <3>1. s + slots[s].count <= i /\ s < i
      BY <2>8, <2>14, Zenon
    <3>2. s # i
      BY <1>3, <3>1 DEF Slot
    <3> QED
      BY <2>6, <3>1, <3>2, Zenon
  <2>15. Apart'
    <3> SUFFICES ASSUME NEW r \in Slot, NEW s \in Slot, slots'[r] # None, slots'[s] # None, r < s
                 PROVE  r + slots'[r].count <= s
      BY Zenon DEF Apart
    <3>1. CASE r # i /\ s # i
      BY <1>1, <2>6, <3>1, Zenon DEF Apart
    <3>2. CASE s = i /\ r # i
      BY <2>6, <2>14, <3>2, Zenon
    <3>3. CASE r = i
      <4>1. s # i
        BY <3>3, <1>3
      <4>2. s < i
        BY <2>6, <2>14, <4>1, Zenon
      <4> QED
        BY <1>3, <3>3, <4>2 DEF Slot
    <3> QED
      BY <3>1, <3>2, <3>3, Zenon
  <2>16. Taken'
    <3> SUFFICES ASSUME NEW u \in Thread, pc'[u] = "hint"
                 PROVE  /\ job[u].slot \in Slot
                        /\ slots'[job[u].slot] = [id |-> u, count |-> SlotsFor(job[u].size)]
      BY <2>1, Zenon DEF Taken
    <3>1. CASE u = t
      BY <1>5, <2>6, <3>1, Zenon
    <3>2. CASE u # t
      <4>1. pc[u] = "hint"
        BY <1>1, <2>4, <3>2, ProceedsFacts, Zenon
      <4>2. job[u].slot \in Slot /\ slots[job[u].slot] = [id |-> u, count |-> SlotsFor(job[u].size)]
        BY <1>1, <4>1, Zenon DEF Taken
      <4>3. job[u].size \in Nat \ {0}
        BY <1>1, <4>1, Zenon DEF Jobs, HugeAssumption
      <4>4. [id |-> u, count |-> SlotsFor(job[u].size)] \in [id : Thread, count : Nat \ {0}]
        BY <4>3, SomeSlots
      <4>5. slots[job[u].slot] # None
        BY <4>2, <4>4, Zenon DEF HugeAssumption
      <4> QED
        BY <2>14, <4>2, <4>5, Zenon
    <3> QED
      BY <3>1, <3>2, Zenon
  <2>17. Closed'
    BY <1>1, <1>2, Zenon DEF Closed
  <2>18. Inside'
    <3>1. \A u \in Thread : Claimed(u) \subseteq Claimed(u)'
      BY <2>14, ClaimedGrows, Zenon
    <3>2. \A d \in Desc : Extent(d)' = Extent(d)
      BY <1>2 DEF Extent
    <3> QED
      BY <1>1, <1>2, <3>1, <3>2, BlocksAre, Zenon DEF Inside
  <2> QED
    BY <2>5, <2>7, <2>13, <2>15, <2>16, <2>17, <2>18, Zenon DEF ClaimInv
<1> QED
  BY <1>8, <1>9, Zenon

\* The hint is set behind the own claim, and the claimed pages are free.
LEMMA ClaimHintClaims ==
  ASSUME HugeAssumption, ClaimInv, NEW t \in Thread, ClaimHint(t)
  PROVE  ClaimInv'
<1>1. Types /\ Jobs /\ Chain /\ Apart /\ Taken /\ Closed /\ Inside
  BY Zenon DEF ClaimInv
<1> DEFINE i == job[t].slot  count == SlotsFor(job[t].size)
           new == Pages(i * SlotSize, count * SlotSize)
<1>2. /\ pc[t] = "hint" /\ UNCHANGED <<slots, head, next, desc>> /\ hint' = i + count
      /\ free' = [free EXCEPT ![t] = @ \union new]
      /\ job' = [job EXCEPT ![t].slot = 0] /\ pc' = [pc EXCEPT ![t] = "carve"]
  BY Zenon DEF ClaimHint, Turn, Goto
<1>3. job[t] \in Job /\ JobOf(t, "hint", job[t])
  BY <1>1, <1>2, Zenon DEF Types, Jobs, JobOf
<1>4. i \in Slot /\ slots[i] = [id |-> t, count |-> count]
  BY <1>1, <1>2, Zenon DEF Taken
<1>5. count \in Nat \ {0}
  <2>1. job[t].size \in Nat \ {0}
    BY <1>3, Zenon DEF JobOf, HugeAssumption
  <2> QED
    BY <2>1, SomeSlots, Zenon
<1>6. slots[i] # None /\ slots[i].id = t /\ slots[i].count = count /\ i \in Nat
  <2>1. [id |-> t, count |-> count] \in [id : Thread, count : Nat \ {0}] /\ i \in Nat
    BY <1>4, <1>5 DEF Slot
  <2>2. slots[i].id = t /\ slots[i].count = count
    BY <1>4
  <2> QED
    BY <1>4, <2>1, <2>2, Zenon DEF HugeAssumption
<1>7. hint' \in Boundary /\ hint' \in Nat
  BY <1>2, <1>4, <1>5, <1>6 DEF Boundary
<1>8. new \subseteq Claimed(t) /\ new \subseteq Nat
  <2>1. new \subseteq Claimed(t)
    BY <1>4, <1>6, ClaimedPages, Zenon
  <2>2. \A g : g \in new => g \in Nat
    BY <1>5, <1>6, SlotPages, Zenon
  <2> QED
    BY <2>1, <2>2, Zenon
<1> DEFINE j == [job[t] EXCEPT !.slot = 0]
<1>9. job' = [job EXCEPT ![t] = j]
  BY <1>1, <1>2 DEF Types
<1>10. j \in Job /\ j.size = job[t].size /\ j.desc = job[t].desc
  BY <1>3 DEF Job
<1> HIDE DEF i, count, new, j
<1>11. Proceeds(t, "carve", j) /\ JobOf(t, "carve", j)
  BY <1>2, <1>3, <1>9, <1>10, Zenon DEF Proceeds, Label, JobOf
<1>12. Jobs'
  BY <1>1, <1>11, JobsStep, Zenon
<1>13. /\ pc'[t] = "carve" /\ \A u \in Thread : u # t => pc'[u] = pc[u] /\ job'[u] = job[u]
  BY <1>1, <1>11, ProceedsFacts, Zenon
<1>14. Boundary' \subseteq Boundary
  <2>1. \A u \in Thread : pc'[u] = "claim" => job'[u].slot \in Boundary
    BY <1>13, Zenon DEF Boundary
  <2> QED
    BY <1>2, <1>7, <2>1 DEF Boundary
<1>15. Chain'
  BY <1>1, <1>2, <1>14, Zenon DEF Chain, Top
<1>16. Apart'
  BY <1>1, <1>2, Zenon DEF Apart
<1>17. Taken'
  BY <1>1, <1>2, <1>13, Zenon DEF Taken
<1>18. Closed'
  BY <1>1, <1>2, Zenon DEF Closed
<1>19. /\ free' \in [Thread -> SUBSET Nat]
       /\ \A u \in Thread : free'[u] \subseteq free[u] \union new /\ (u # t => free'[u] = free[u])
  <2>1. free \in [Thread -> SUBSET Nat]
    BY <1>1, Zenon DEF Types
  <2> QED
    BY <1>2, <1>8, <2>1
<1>20. Types'
  BY <1>1, <1>2, <1>7, <1>11, <1>19, ProceedsFacts, Zenon DEF Types
<1>21. Inside'
  <2>1. \A u \in Thread : Claimed(u)' = Claimed(u)
    BY <1>2 DEF Claimed
  <2>2. \A d \in Desc : Extent(d)' = Extent(d)
    BY <1>2 DEF Extent
  <2>3. \A u \in Thread : free[u] \subseteq Claimed(u) /\ \A d \in BlocksOf[u] : Extent(d) \subseteq Claimed(u)
    BY <1>1, Zenon DEF Inside
  <2>4. \A u \in Thread : free'[u] \subseteq Claimed(u)
    BY <1>8, <1>19, <2>3
  <2> QED
    BY <2>1, <2>2, <2>3, <2>4, BlocksAre, Zenon DEF Inside
<1> QED
  BY <1>12, <1>15, <1>16, <1>17, <1>18, <1>20, <1>21, Zenon DEF ClaimInv

\* A process dies: its threads do nothing and have nothing free.
LEMMA CrashClaims ==
  ASSUME HugeAssumption, ClaimInv, NEW p \in Process, Crash(p)
  PROVE  ClaimInv'
<1>1. Types /\ Jobs /\ Chain /\ Apart /\ Taken /\ Closed /\ Inside
  BY Zenon DEF ClaimInv
<1> DEFINE mine == {t \in Thread : ProcessOf[t] = p}
<1>2. /\ UNCHANGED <<slots, hint, head, next, desc>>
      /\ free' = [t \in Thread |-> IF t \in mine THEN {} ELSE free[t]]
      /\ pc' = [t \in Thread |-> IF t \in mine THEN "down" ELSE pc[t]]
      /\ job' = [t \in Thread |-> IF t \in mine THEN NoJob ELSE job[t]]
  BY Zenon DEF Crash, shared
<1> HIDE DEF mine
<1>3. \A u \in Thread :
        \/ pc'[u] = "down" /\ job'[u] = NoJob /\ free'[u] = {}
        \/ pc'[u] = pc[u] /\ job'[u] = job[u] /\ free'[u] = free[u]
  BY <1>2, Zenon
<1>4. Types'
  <2>1. free \in [Thread -> SUBSET Nat] /\ pc \in [Thread -> Label] /\ job \in [Thread -> Job]
    BY <1>1, Zenon DEF Types
  <2>2. "down" \in Label
    BY Zenon DEF Label
  <2>3. /\ \A u \in Thread : free'[u] \in SUBSET Nat /\ pc'[u] \in Label /\ job'[u] \in Job
    BY <1>3, <2>1, <2>2, NoJobIsJob, Zenon
  <2>4. free' \in [Thread -> SUBSET Nat] /\ pc' \in [Thread -> Label] /\ job' \in [Thread -> Job]
    <3> DEFINE f[u \in Thread] == free'[u]
    <3>1. /\ free' = [u \in Thread |-> free'[u]] /\ pc' = [u \in Thread |-> pc'[u]]
          /\ job' = [u \in Thread |-> job'[u]]
      BY <1>2, Zenon
    <3> QED
      BY <2>3, <3>1, Zenon
  <2> QED
    BY <1>1, <1>2, <2>4, Zenon DEF Types
<1>5. Jobs'
  <2> SUFFICES ASSUME NEW u \in Thread PROVE JobOf(u, pc'[u], job'[u])
    BY Zenon DEF Jobs, JobOf
  <2>1. JobOf(u, "down", NoJob)
    BY NoJobIsJob, Zenon DEF JobOf
  <2> QED
    BY <1>1, <1>3, <2>1, Zenon DEF Jobs, JobOf
<1>6. Boundary' \subseteq Boundary
  <2>1. \A u \in Thread : pc'[u] = "claim" => job'[u].slot \in Boundary
    BY <1>3, Zenon DEF Boundary
  <2> QED
    BY <1>2, <2>1 DEF Boundary
<1>7. Chain' /\ Apart'
  BY <1>1, <1>2, <1>6, Zenon DEF Chain, Top, Apart
<1>8. Taken'
  BY <1>1, <1>2, <1>3, Zenon DEF Taken
<1>9. Closed'
  BY <1>1, <1>2, Zenon DEF Closed
<1>10. Inside'
  <2>1. \A u \in Thread : Claimed(u)' = Claimed(u)
    BY <1>2 DEF Claimed
  <2>2. \A d \in Desc : Extent(d)' = Extent(d)
    BY <1>2 DEF Extent
  <2> QED
    BY <1>1, <1>3, <2>1, <2>2, BlocksAre, Zenon DEF Inside
<1> QED
  BY <1>4, <1>5, <1>7, <1>8, <1>9, <1>10, Zenon DEF ClaimInv

\* focus: what is free again was claimed.
LEMMA FocusClaims ==
  ASSUME HugeAssumption, ClaimInv, NEW t \in Thread, Focus(t)
  PROVE  ClaimInv'
<1>1. Types /\ Jobs /\ Chain /\ Apart /\ Taken /\ Closed /\ Inside
  BY Zenon DEF ClaimInv
<1>2. PICK lost : /\ UNCHANGED <<slots, hint, head, next, desc>>
                  /\ free' = [free EXCEPT ![t] = Claimed(t) \ lost]
                  /\ pc' = [pc EXCEPT ![t] = "idle"] /\ job' = job
  BY Zenon DEF Focus, shared, Goto
<1>3. job = [job EXCEPT ![t] = job[t]] /\ job[t] \in Job
  BY <1>1, Zenon DEF Types
<1>4. Proceeds(t, "idle", job[t])
  BY <1>2, <1>3, Zenon DEF Proceeds, Label
<1>5. JobOf(t, "idle", job[t])
  BY <1>1, Zenon DEF Jobs, JobOf
<1>6. Jobs' /\ Chain' /\ Apart' /\ Taken'
  BY <1>1, <1>2, <1>4, <1>5, JobsStep, ClaimsStep, Zenon
<1>7. Closed'
  BY <1>1, <1>2, Zenon DEF Closed
<1>8. Claimed(t) \subseteq Nat
  <2> SUFFICES ASSUME NEW g \in Claimed(t) PROVE g \in Nat
    BY Zenon
  <2>1. PICK s \in Slot : slots[s] # None /\ g \in Pages(s * SlotSize, slots[s].count * SlotSize)
    BY ClaimedPages, Zenon
  <2>2. s \in Nat /\ slots[s].count \in Nat
    <3>1. slots \in [Slot -> [id : Thread, count : Nat \ {0}] \union {None}]
      BY <1>1, Zenon DEF Types
    <3> QED
      BY <2>1, <3>1 DEF Slot
  <2> QED
    BY <2>1, <2>2, SlotPages, Zenon
<1>9. free' \in [Thread -> SUBSET Nat] /\ free'[t] \subseteq Claimed(t)
      /\ \A u \in Thread : u # t => free'[u] = free[u]
  <2>1. free \in [Thread -> SUBSET Nat]
    BY <1>1, Zenon DEF Types
  <2> QED
    BY <1>2, <1>8, <2>1
<1>10. Types'
  BY <1>1, <1>2, <1>4, <1>9, ProceedsFacts, Zenon DEF Types
<1>11. Inside'
  <2>1. \A u \in Thread : Claimed(u)' = Claimed(u)
    BY <1>2 DEF Claimed
  <2>2. \A d \in Desc : Extent(d)' = Extent(d)
    BY <1>2 DEF Extent
  <2>3. \A u \in Thread : free'[u] \subseteq Claimed(u)
    BY <1>1, <1>9, Zenon DEF Inside
  <2> QED
    BY <1>1, <2>1, <2>2, <2>3, BlocksAre, Zenon DEF Inside
<1> QED
  BY <1>6, <1>7, <1>10, <1>11, Zenon DEF ClaimInv

\* Nothing is claimed at first.
LEMMA InitClaims == HugeAssumption /\ Init => ClaimInv
<1> SUFFICES ASSUME HugeAssumption, Init PROVE ClaimInv
  BY Zenon
<1>1. Types
  <2>1. NoDesc \in [offset : Nat, size : Nat, state : {"Live", "Free", "Safe"}]
    BY DEF NoDesc
  <2> QED
    BY <2>1, NoJobIsJob, Zenon DEF Init, Types, Label
<1>2. /\ \A u \in Thread : pc[u] = "idle" /\ job[u] = NoJob /\ free[u] = {} /\ head[u] = None
      /\ \A s \in Slot : slots[s] = None
      /\ \A d \in Desc : next[d] = None /\ desc[d] = NoDesc
      /\ hint = 0
  BY Zenon DEF Init
<1>3. Jobs /\ Apart /\ Taken /\ Closed
  <2>1. Jobs
    BY <1>2, NoJobIsJob, Zenon DEF Jobs
  <2> QED
    BY <1>2, <2>1, BlocksAre, Zenon DEF Apart, Taken, Closed
<1>4. Chain
  <2>1. Boundary = {0}
    BY <1>2 DEF Boundary
  <2>2. 0 \in 0..SlotCount /\ Top(0)
    BY <2>1 DEF Top, HugeAssumption
  <2> QED
    BY <2>2, Zenon DEF Chain
<1>5. Inside
  <2>1. \A d \in Desc : Extent(d) = {}
    <3>1. NoDesc.offset = 0 /\ NoDesc.size = 0
      BY DEF NoDesc
    <3>2. Pages(0, 0) = {}
      BY DEF Pages
    <3> QED
      BY <1>2, <3>1, <3>2, Zenon DEF Extent
  <2> QED
    BY <1>2, <2>1, BlocksAre, Zenon DEF Inside
<1> QED
  BY <1>1, <1>3, <1>4, <1>5, Zenon DEF ClaimInv

\* Every step keeps the claims in order.
LEMMA NextClaims == HugeAssumption /\ ClaimInv /\ [Next]_vars => ClaimInv'
<1> SUFFICES ASSUME HugeAssumption, ClaimInv, [Next]_vars PROVE ClaimInv'
  BY Zenon
<1>1. CASE UNCHANGED vars
  <2>1. UNCHANGED <<slots, hint, head, next, desc, free, pc, job>>
    BY <1>1, Zenon DEF vars, shared
  <2> QED
    <3>1. Types' /\ Jobs' /\ Taken' /\ Closed' /\ Apart'
      BY <2>1, Zenon DEF ClaimInv, Types, Jobs, Taken, Closed, Apart
    <3>2. Boundary' = Boundary
      BY <2>1 DEF Boundary
    <3>3. Chain'
      BY <2>1, <3>2, Zenon DEF ClaimInv, Chain, Top
    <3>4. Inside'
      BY <2>1 DEF ClaimInv, Inside, Claimed, Extent
    <3> QED
      BY <3>1, <3>3, <3>4, Zenon DEF ClaimInv
<1>2. ASSUME NEW p \in Process, Crash(p) PROVE ClaimInv'
  BY <1>2, CrashClaims, Zenon
<1>3. ASSUME NEW t \in Thread,
             \/ \E n \in Sizes : Reuse(t, n)
             \/ \E d \in Desc : Free(t, d) \/ Fault(t, d)
             \/ Refresh(t) \/ RefreshUnmap(t)
             \/ Carve(t) \/ BeginClaim(t) \/ Claim(t) \/ ClaimHint(t) \/ ClaimPanic(t)
             \/ Link(t) \/ SetHead(t) \/ Protect(t) \/ MapRange(t) \/ Pop(t)
             \/ Drop(t) \/ Unprotect(t) \/ Retire(t)
             \/ Focus(t)
      PROVE  ClaimInv'
  <2>1. CASE \E n \in Sizes : Reuse(t, n)
    BY <2>1, ReuseClaims, Zenon
  <2>2. CASE Drop(t) \/ \E d \in Desc : Free(t, d) \/ Fault(t, d)
    BY <2>2, FreeClaims, SearchClaims, Zenon
  <2>3. CASE Refresh(t) \/ RefreshUnmap(t) \/ Retire(t) \/ Focus(t)
    BY <2>3, RefreshGoesOn, RefreshUnmapGoesOn, GoesOnClaims, RetireClaims, FocusClaims, Zenon
  <2>4. CASE Carve(t) \/ BeginClaim(t) \/ Claim(t) \/ ClaimHint(t)
    BY <2>4, CarveClaims, BeginClaimGoesOn, GoesOnClaims, ClaimClaims, ClaimHintClaims, Zenon
  <2>5. CASE Link(t) \/ SetHead(t)
    BY <2>5, LinkClaims, Zenon
  <2>6. CASE Protect(t) \/ Unprotect(t) \/ MapRange(t) \/ Pop(t) \/ ClaimPanic(t)
    BY <2>6, ProtectGoesOn, GoesOnClaims, OtherClaims, Zenon
  <2> QED
    BY <1>3, <2>1, <2>2, <2>3, <2>4, <2>5, <2>6, Zenon
<1> QED
  BY <1>1, <1>2, <1>3, Zenon DEF Next

\* Claims that are apart share no page.
LEMMA ClaimsApart == HugeAssumption /\ ClaimInv => ClaimsDisjoint
<1> SUFFICES ASSUME HugeAssumption, ClaimInv PROVE ClaimsDisjoint
  BY Zenon
<1>1. ASSUME NEW t \in Thread, NEW u \in Thread, t # u, NEW g \in Claimed(t), g \in Claimed(u)
      PROVE  FALSE
  <2>1. PICK r \in Slot : /\ slots[r] # None /\ slots[r].id = t
                          /\ g \in Pages(r * SlotSize, slots[r].count * SlotSize)
    BY ClaimedPages, Zenon
  <2>2. PICK s \in Slot : /\ slots[s] # None /\ slots[s].id = u
                          /\ g \in Pages(s * SlotSize, slots[s].count * SlotSize)
    BY <1>1, ClaimedPages, Zenon
  <2>3. slots[r].count \in Nat /\ slots[s].count \in Nat /\ r \in Nat /\ s \in Nat
    <3>1. slots \in [Slot -> [id : Thread, count : Nat \ {0}] \union {None}]
      BY Zenon DEF ClaimInv, Types
    <3> QED
      BY <2>1, <2>2, <3>1 DEF Slot
  <2> DEFINE q == g \div SlotSize
  <2>4. r <= q /\ q < r + slots[r].count /\ s <= q /\ q < s + slots[s].count
    BY <2>1, <2>2, <2>3, SlotPages, Zenon
  <2>5. r # s
    BY <1>1, <2>1, <2>2, Zenon
  <2>6. r < s \/ s < r
    BY <2>3, <2>5
  <2>7. r + slots[r].count <= s \/ s + slots[s].count <= r
    BY <2>1, <2>2, <2>6, Zenon DEF ClaimInv, Apart
  <2>8. g \in Nat /\ SlotSize \in Nat \ {0}
    BY <2>1, <2>3, SlotPages, Zenon DEF HugeAssumption
  <2>9. q \in Nat
    BY <2>8
  <2> HIDE DEF q
  <2> QED
    BY <2>3, <2>4, <2>7, <2>9
<1> QED
  BY <1>1, Zenon DEF ClaimsDisjoint, ClaimInv, Inside

\* The runs of slots that claim (huge.rs:344) gives out never overlap, whatever
\* crashes between its stores: a thread owns the whole of the run whose first
\* slot it wrote.
THEOREM ClaimsNeverOverlap == HugeAssumption => (Spec => []ClaimsDisjoint)
<1> SUFFICES ASSUME HugeAssumption PROVE Spec => []ClaimsDisjoint
  OBVIOUS
<1>1. Init => ClaimInv
  BY InitClaims, Zenon
<1>2. ClaimInv /\ [Next]_vars => ClaimInv'
  BY NextClaims, Zenon
<1>3. ClaimInv => ClaimsDisjoint
  BY ClaimsApart, Zenon
<1> QED
  BY <1>1, <1>2, <1>3, PTL DEF Spec

(* What is carved.                                                           *)

Safe(d) == desc[d].state = "Safe"
Live(d) == desc[d].state = "Live" /\ \E t \in Thread : d \in OnList(t)

\* The descriptors that a thread allocates or frees.
Busy(label, j, d) ==
  \/ Waits(label, j) /\ desc[d].offset = j.offset
  \/ (Retires(label) \/ Late(label, j)) /\ d = j.desc

\* Nothing is twice on a list.
Simple(t) ==
  \A m, n \in 0..DescCount : Trace(t)[m] = Trace(t)[n] /\ Trace(t)[m] # None => m = n

\* What a thread does and its list: a descriptor that is to be linked is not on it,
\* and one that is to be reused is the first that is Safe.
ShapeOf(t, label, j) ==
  /\ label # "down"
  /\ label = "pop" => j.size # 0
  /\ j.size # 0 => Early(label, j) \/ Linking(label) \/ Late(label, j)
  /\ Linking(label) => ~j.reuse /\ desc[j.desc].state = "Live"
  /\ OnList(t) \subseteq popped \union {d \in Desc : Late(label, j) /\ ~j.reuse /\ d = j.desc}
  /\ (Early(label, j) \/ Linking(label)) /\ ~j.reuse =>
       j.desc \notin OnList(t) \union popped /\ \A d \in OnList(t) : ~Safe(d)
  /\ label = "set" => next[j.desc] = head[t]
  /\ Early(label, j) /\ j.reuse =>
       /\ j.desc \in OnList(t) /\ Safe(j.desc)
       /\ \A m, n \in 0..DescCount, e \in BlocksOf[t] :
            m < n /\ Trace(t)[m] = e /\ Trace(t)[n] = j.desc => ~Safe(e)

\* The descriptors of a thread whose ranges it cannot carve.
Mine(t, label, j) ==
  {d \in BlocksOf[t] : ~Safe(d) /\ (d \in OnList(t) \/ (Linking(label) /\ d = j.desc))}

\* What is Safe does not cover what comes after it on the list.
Ordered(t) ==
  \A m, n \in 0..DescCount, d, e \in BlocksOf[t] :
    m < n /\ Trace(t)[m] = d /\ Trace(t)[n] = e /\ Safe(d) /\ ~Safe(e) =>
      Extent(d) \intersect Extent(e) = {}

\* They share no page with each other, nor with what the thread may carve now or
\* after the claim it is making.
RangesOf(t, label, j) ==
  /\ \A d, e \in Mine(t, label, j) : d # e => Extent(d) \intersect Extent(e) = {}
  /\ \A d \in Mine(t, label, j) :
       /\ Extent(d) \intersect free[t] = {} /\ desc[d].size # 0
       /\ label = "hint" =>
            Extent(d) \intersect Pages(j.slot * SlotSize, SlotsFor(j.size) * SlotSize) = {}

\* Whoever frees has a Live descriptor for it.
UsesOf(label, j) ==
  /\ Waits(label, j) \/ Retires(label) \/ Late(label, j) =>
       \E d \in Desc : Live(d) /\ Busy(label, j, d)
  /\ Faults(label, j) => j.desc \in held

Lists == \A t \in Thread : Simple(t) /\ Ordered(t)
Shape == \A t \in Thread : ShapeOf(t, pc[t], job[t])
Ranges == \A t \in Thread : RangesOf(t, pc[t], job[t])
Uses == \A t \in Thread : UsesOf(pc[t], job[t])

\* What a thread allocates or frees is not in use, and nobody else does.
Exclusive ==
  \A t \in Thread, d \in Desc : Live(d) /\ Busy(pc[t], job[t], d) =>
    d \notin held /\ \A u \in Thread : Busy(pc[u], job[u], d) => u = t

\* What the application holds is Live.
HeldLive == held \subseteq {d \in Desc : Live(d)}

RangeInv == crashes \in Nat /\ Lists /\ Shape /\ Ranges /\ Uses /\ Exclusive /\ HeldLive

\* What the invariants of claims say of a thread.
LEMMA ThreadFacts ==
  ASSUME HugeAssumption, ClaimInv, NEW t \in Thread
  PROVE  /\ JobOf(t, pc[t], job[t]) /\ job[t] \in Job /\ pc[t] \in Label
         /\ \A n \in 0..DescCount : Trace(t)[n] \in BlocksOf[t] \union {None}
         /\ OnList(t) \subseteq BlocksOf[t] /\ BlocksOf[t] \subseteq Desc
<1>1. JobOf(t, pc[t], job[t]) /\ job[t] \in Job /\ pc[t] \in Label
  BY Zenon DEF ClaimInv, Types, Jobs, JobOf
<1> QED
  BY <1>1, ListsOwn, Zenon DEF ClaimInv

\* A step that leaves alone what concerns a thread.
LEMMA ThreadFrame ==
  ASSUME HugeAssumption, ClaimInv, NEW t \in Thread, NEW label, NEW j, JobOf(t, label, j),
         head'[t] = head[t],
         \A n \in 0..DescCount : Trace(t)'[n] = Trace(t)[n],
         \A d \in BlocksOf[t] :
           /\ Extent(d)' = Extent(d) /\ desc'[d].size = desc[d].size
           /\ Safe(d)' <=> Safe(d)
           /\ d \in popped' <=> d \in popped,
         label = "set" => next'[j.desc] = next[j.desc],
         Linking(label) => desc'[j.desc].state = desc[j.desc].state
  PROVE  /\ OnList(t)' = OnList(t)
         /\ Simple(t) => Simple(t)'
         /\ Ordered(t) => Ordered(t)'
         /\ ShapeOf(t, label, j) => ShapeOf(t, label, j)'
         /\ Mine(t, label, j)' = Mine(t, label, j)
         /\ RangesOf(t, label, j) /\ free'[t] = free[t] => RangesOf(t, label, j)'
<1>1. /\ \A n \in 0..DescCount : Trace(t)[n] \in BlocksOf[t] \union {None}
      /\ OnList(t) \subseteq BlocksOf[t]
  BY ThreadFacts, Zenon
<1>2. OnList(t)' = OnList(t)
  BY Zenon DEF OnList
<1>3. ASSUME Simple(t) PROVE Simple(t)'
  BY <1>3, Zenon DEF Simple
<1>4. ASSUME Ordered(t) PROVE Ordered(t)'
  <2> SUFFICES ASSUME NEW m \in 0..DescCount, NEW n \in 0..DescCount,
                      NEW d \in BlocksOf[t], NEW e \in BlocksOf[t],
                      m < n, Trace(t)'[m] = d, Trace(t)'[n] = e, Safe(d)', ~Safe(e)'
               PROVE  Extent(d)' \intersect Extent(e)' = {}
    BY Zenon DEF Ordered
  <2>1. Trace(t)[m] = d /\ Trace(t)[n] = e /\ Safe(d) /\ ~Safe(e)
    BY Zenon
  <2>2. Extent(d) \intersect Extent(e) = {}
    BY <1>4, <2>1, Zenon DEF Ordered
  <2> QED
    BY <2>2, Zenon
<1>5. Early(label, j) \/ Linking(label) => j.desc \in BlocksOf[t]
  BY Zenon DEF JobOf, Early, Linking
<1>6. ASSUME ShapeOf(t, label, j) PROVE ShapeOf(t, label, j)'
  <2>1. OnList(t)' \subseteq popped' \union {d \in Desc : Late(label, j) /\ ~j.reuse /\ d = j.desc}
    BY <1>1, <1>2, <1>6, Zenon DEF ShapeOf
  <2>2. (Early(label, j) \/ Linking(label)) /\ ~j.reuse =>
          j.desc \notin OnList(t)' \union popped' /\ \A d \in OnList(t)' : ~Safe(d)'
    BY <1>1, <1>2, <1>5, <1>6, Zenon DEF ShapeOf
  <2>3. label = "set" => next'[j.desc] = head'[t]
    BY <1>5, <1>6, Zenon DEF ShapeOf, Linking
  <2>4. Early(label, j) /\ j.reuse =>
          /\ j.desc \in OnList(t)' /\ Safe(j.desc)'
          /\ \A m, n \in 0..DescCount, e \in BlocksOf[t] :
               m < n /\ Trace(t)'[m] = e /\ Trace(t)'[n] = j.desc => ~Safe(e)'
    <3> SUFFICES ASSUME Early(label, j), j.reuse
                 PROVE  /\ j.desc \in OnList(t)' /\ Safe(j.desc)'
                        /\ \A m, n \in 0..DescCount, e \in BlocksOf[t] :
                             m < n /\ Trace(t)'[m] = e /\ Trace(t)'[n] = j.desc => ~Safe(e)'
      BY Zenon
    <3>1. /\ j.desc \in OnList(t) /\ Safe(j.desc)
          /\ \A m, n \in 0..DescCount, e \in BlocksOf[t] :
               m < n /\ Trace(t)[m] = e /\ Trace(t)[n] = j.desc => ~Safe(e)
      BY <1>6, Zenon DEF ShapeOf
    <3>2. j.desc \in OnList(t)' /\ Safe(j.desc)'
      BY <1>2, <1>5, <3>1, Zenon
    <3>3. ASSUME NEW m \in 0..DescCount, NEW n \in 0..DescCount, NEW e \in BlocksOf[t],
                 m < n, Trace(t)'[m] = e, Trace(t)'[n] = j.desc
          PROVE  ~Safe(e)'
      <4>1. Trace(t)[m] = e /\ Trace(t)[n] = j.desc
        BY <3>3, Zenon
      <4> QED
        BY <3>1, <3>3, <4>1, Zenon
    <3> QED
      BY <3>2, <3>3, Zenon
  <2> QED
    BY <1>6, <2>1, <2>2, <2>3, <2>4, Zenon DEF ShapeOf
<1>7. Mine(t, label, j)' = Mine(t, label, j)
  BY <1>2, Zenon DEF Mine
<1>8. ASSUME RangesOf(t, label, j), free'[t] = free[t] PROVE RangesOf(t, label, j)'
  <2>1. \A d \in Mine(t, label, j) : d \in BlocksOf[t]
    BY Zenon DEF Mine
  <2>2. \A d, e \in Mine(t, label, j) : d # e => Extent(d)' \intersect Extent(e)' = {}
    BY <1>8, <2>1, Zenon DEF RangesOf
  <2>3. ASSUME NEW d \in Mine(t, label, j)
        PROVE  /\ Extent(d)' \intersect free'[t] = {} /\ desc'[d].size # 0
               /\ label = "hint" =>
                    Extent(d)' \intersect Pages(j.slot * SlotSize, SlotsFor(j.size) * SlotSize) = {}
    BY <1>8, <2>1, Zenon DEF RangesOf
  <2> QED
    BY <1>7, <2>2, <2>3, Zenon DEF RangesOf
<1> QED
  BY <1>2, <1>3, <1>4, <1>6, <1>7, <1>8, Zenon

\* Lists and descriptors stay as they are.
LEMMA SameThread ==
  ASSUME HugeAssumption, ClaimInv, UNCHANGED <<head, next, desc>>, NEW t \in Thread,
         NEW label, NEW j, JobOf(t, label, j),
         \A d \in BlocksOf[t] : d \in popped' <=> d \in popped
  PROVE  /\ OnList(t)' = OnList(t)
         /\ Simple(t) => Simple(t)'
         /\ Ordered(t) => Ordered(t)'
         /\ ShapeOf(t, label, j) => ShapeOf(t, label, j)'
         /\ Mine(t, label, j)' = Mine(t, label, j)
         /\ RangesOf(t, label, j) /\ free'[t] = free[t] => RangesOf(t, label, j)'
<1>1. \A n \in 0..DescCount : Trace(t)'[n] = Trace(t)[n]
  BY Zenon DEF Trace
<1>2. /\ \A d : Extent(d)' = Extent(d) /\ desc'[d].size = desc[d].size
      /\ \A d : Safe(d)' <=> Safe(d)
  BY Zenon DEF Extent, Safe
<1>3. /\ head'[t] = head[t] /\ next'[j.desc] = next[j.desc]
      /\ Linking(label) => desc'[j.desc].state = desc[j.desc].state
  BY Zenon
<1> QED
  BY <1>1, <1>2, <1>3, ThreadFrame, Zenon

\* So do the descriptors that are Live and those that threads work on.
LEMMA SameUses ==
  ASSUME HugeAssumption, ClaimInv, UNCHANGED <<head, next, desc>>
  PROVE  /\ \A d : Live(d)' <=> Live(d)
         /\ \A label, j, d : Busy(label, j, d)' <=> Busy(label, j, d)
         /\ \A label, j : UsesOf(label, j) /\ held' = held => UsesOf(label, j)'
<1>1. \A t \in Thread : OnList(t)' = OnList(t)
  BY Zenon DEF OnList, Trace
<1>2. \A d : Live(d)' <=> Live(d)
  BY <1>1, Zenon DEF Live
<1>3. \A label, j, d : Busy(label, j, d)' <=> Busy(label, j, d)
  BY Zenon DEF Busy
<1>4. ASSUME NEW label, NEW j, UsesOf(label, j), held' = held PROVE UsesOf(label, j)'
  BY <1>2, <1>3, <1>4, Zenon DEF UsesOf
<1> QED
  BY <1>2, <1>3, <1>4, Zenon

\* Only what a thread does changes, and it takes on no descriptor.
LEMMA QuietStep ==
  ASSUME HugeAssumption, ClaimInv, RangeInv,
         UNCHANGED <<head, next, desc, free, popped, held, crashes>>,
         NEW t \in Thread, NEW label, NEW j, Proceeds(t, label, j), JobOf(t, label, j),
         ShapeOf(t, label, j), RangesOf(t, label, j), UsesOf(label, j),
         \A d \in Desc : Live(d) /\ Busy(label, j, d) => Busy(pc[t], job[t], d) 
  PROVE  RangeInv'
<1>1. crashes \in Nat /\ Lists /\ Shape /\ Ranges /\ Uses /\ Exclusive /\ HeldLive
  BY Zenon DEF RangeInv
<1>2. /\ pc'[t] = label /\ job'[t] = j
      /\ \A u \in Thread : u # t => pc'[u] = pc[u] /\ job'[u] = job[u]
  BY ProceedsFacts, Zenon DEF ClaimInv
<1>3. ASSUME NEW u \in Thread, NEW l, NEW k, l = pc'[u], k = job'[u]
      PROVE  /\ JobOf(u, l, k)
             /\ ShapeOf(u, l, k) /\ RangesOf(u, l, k) /\ UsesOf(l, k)
             /\ \A d \in Desc : Live(d) /\ Busy(l, k, d) => Busy(pc[u], job[u], d)
  <2>1. CASE u = t
    BY <1>2, <1>3, <2>1, Zenon
  <2>2. CASE u # t
    BY <1>1, <1>2, <1>3, <2>2, ThreadFacts, Zenon DEF Shape, Ranges, Uses
  <2> QED
    BY <2>1, <2>2, Zenon
<1>4. ASSUME NEW u \in Thread, NEW l, NEW k, l = pc'[u], k = job'[u]
      PROVE  /\ Simple(u)' /\ Ordered(u)' /\ ShapeOf(u, l, k)' /\ RangesOf(u, l, k)'
             /\ UsesOf(l, k)'
  <2>1. Simple(u) /\ Ordered(u) /\ free'[u] = free[u] /\ popped' = popped /\ held' = held
    BY <1>1, Zenon DEF Lists
  <2>2. JobOf(u, l, k) /\ ShapeOf(u, l, k) /\ RangesOf(u, l, k) /\ UsesOf(l, k)
    BY <1>3, <1>4, Zenon
  <2>3. UsesOf(l, k)'
    BY <2>1, <2>2, SameUses, Zenon
  <2> QED
    BY <2>1, <2>2, <2>3, SameThread, Zenon
<1>5. Lists' /\ Shape' /\ Ranges' /\ Uses'
  BY <1>4, Zenon DEF Lists, Shape, Ranges, Uses
<1>6. Exclusive'
  <2> SUFFICES ASSUME NEW u \in Thread, NEW d \in Desc, Live(d)', Busy(pc[u], job[u], d)'
               PROVE  d \notin held /\ \A w \in Thread : Busy(pc[w], job[w], d)' => w = u
    BY Zenon DEF Exclusive
  <2>1. Live(d)
    BY SameUses, Zenon
  <2>2. \A w \in Thread : Busy(pc[w], job[w], d)' => Busy(pc[w], job[w], d)
    <3> SUFFICES ASSUME NEW w \in Thread, Busy(pc[w], job[w], d)' PROVE Busy(pc[w], job[w], d)
      BY Zenon
    <3>1. PICK l, k : l = pc'[w] /\ k = job'[w]
      BY Zenon
    <3>2. Busy(l, k, d)'
      BY <3>1, Zenon
    <3>3. Busy(l, k, d)
      BY <3>2, SameUses, Zenon
    <3> QED
      BY <1>3, <2>1, <3>1, <3>3, Zenon
  <2> QED
    BY <1>1, <2>1, <2>2, Zenon DEF Exclusive
<1>7. HeldLive'
  BY <1>1, SameUses, Zenon DEF HeldLive
<1> QED
  BY <1>1, <1>5, <1>6, <1>7, Zenon DEF RangeInv

\* The parts of the invariant.
LEMMA RangeParts ==
  ASSUME RangeInv, NEW t \in Thread
  PROVE  /\ Simple(t) /\ Ordered(t) /\ ShapeOf(t, pc[t], job[t]) /\ RangesOf(t, pc[t], job[t])
         /\ UsesOf(pc[t], job[t])
         /\ crashes \in Nat /\ Exclusive /\ HeldLive
BY Zenon DEF RangeInv, Lists, Shape, Ranges, Uses

\* A thread that goes on with its job has the same descriptors.
LEMMA RoleKept ==
  ASSUME HugeAssumption, ClaimInv, RangeInv, NEW t \in Thread, NEW label, NEW j,
         SameRole(label, j, pc[t], job[t]), label \notin {"set", "down"}, label = "pop" => j.size # 0
  PROVE  /\ ShapeOf(t, label, j) /\ UsesOf(label, j)
         /\ Mine(t, label, j) = Mine(t, pc[t], job[t])
         /\ label # "hint" => RangesOf(t, label, j)
         /\ \A d \in Desc : Busy(label, j, d) <=> Busy(pc[t], job[t], d)
<1> DEFINE l == pc[t]  k == job[t]
<1>1. /\ ShapeOf(t, l, k) /\ RangesOf(t, l, k) /\ UsesOf(l, k)
  BY RangeParts, Zenon
<1>2. /\ j.size = k.size /\ j.desc = k.desc /\ j.reuse = k.reuse /\ j.offset = k.offset
      /\ Early(label, j) <=> Early(l, k)
      /\ Linking(label) <=> Linking(l)
      /\ Late(label, j) <=> Late(l, k)
      /\ Waits(label, j) <=> Waits(l, k)
      /\ Retires(label) <=> Retires(l)
      /\ Faults(label, j) <=> Faults(l, k)
  BY Zenon DEF SameRole
<1> HIDE DEF l, k
<1>3. ShapeOf(t, label, j)
  BY <1>1, <1>2, Zenon DEF ShapeOf
<1>4. Mine(t, label, j) = Mine(t, l, k)
  BY <1>2, Zenon DEF Mine
<1>5. label # "hint" => RangesOf(t, label, j)
  BY <1>1, <1>2, <1>4, Zenon DEF RangesOf
<1>6. \A d \in Desc : Busy(label, j, d) <=> Busy(l, k, d)
  BY <1>2, Zenon DEF Busy
<1>7. UsesOf(label, j)
  BY <1>1, <1>2, <1>6, Zenon DEF UsesOf
<1> QED
  BY <1>3, <1>4, <1>5, <1>6, <1>7, Zenon DEF l, k

\* Such a step leaves the ranges as they are.
LEMMA GoesOnRanges ==
  ASSUME HugeAssumption, ClaimInv, RangeInv, NEW t \in Thread, \E label, j : GoesOn(t, label, j),
         UNCHANGED <<popped, held, crashes>>
  PROVE  RangeInv'
<1>1. PICK label, j : GoesOn(t, label, j)
  BY Zenon
<1>2. /\ ShapeOf(t, label, j) /\ UsesOf(label, j) /\ RangesOf(t, label, j)
      /\ \A d \in Desc : Busy(label, j, d) <=> Busy(pc[t], job[t], d)
  BY <1>1, RoleKept, Zenon DEF GoesOn
<1> QED
  BY <1>1, <1>2, QuietStep, Zenon DEF GoesOn

\* A thread that has no allocation under way.
LEMMA NoRole ==
  ASSUME HugeAssumption, ClaimInv, RangeInv, NEW t \in Thread, NEW label, NEW j, j.size = 0,
         label \notin {"down", "pop", "link", "set", "hint"},
         ~Late(pc[t], job[t]), ~Linking(pc[t])
  PROVE  ShapeOf(t, label, j) /\ RangesOf(t, label, j)
<1>1. ShapeOf(t, pc[t], job[t]) /\ RangesOf(t, pc[t], job[t])
  BY RangeParts, Zenon
<1>2. ~Early(label, j) /\ ~Linking(label) /\ ~Late(label, j)
  BY Zenon DEF Early, Linking, Late
<1>3. ShapeOf(t, label, j)
  BY <1>1, <1>2, Zenon DEF ShapeOf
<1>4. RangesOf(t, label, j)
  <2>1. Mine(t, label, j) = Mine(t, pc[t], job[t])
    BY <1>2, Zenon DEF Mine
  <2> QED
    BY <1>1, <2>1, Zenon DEF RangesOf
<1> QED
  BY <1>3, <1>4, Zenon

\* An idle thread needs nothing.
LEMMA IdleUses ==
  ASSUME NEW label \in {"idle", "panic"}
  PROVE  UsesOf(label, NoJob) /\ \A d : ~Busy(label, NoJob, d)
BY Zenon DEF UsesOf, Busy, Waits, Retires, Late, Faults

\* A range is mapped: after an allocation, or after a fault.
LEMMA MapRangeRanges ==
  ASSUME HugeAssumption, ClaimInv, RangeInv, NEW t \in Thread, MapRange(t)
  PROVE  RangeInv'
<1> DEFINE d == job[t].desc
<1>1. /\ pc[t] = "map" /\ UNCHANGED <<slots, hint, head, next, desc, free, popped, held, crashes>>
      /\ d \in held => pc' = [pc EXCEPT ![t] = "idle"] /\ job' = [job EXCEPT ![t] = NoJob]
      /\ d \notin held => pc' = [pc EXCEPT ![t] = "pop"] /\ job' = job
  BY Zenon DEF MapRange, Turn, shared, Goto
<1>2. job[t] \in Job /\ JobOf(t, "map", job[t]) /\ job = [job EXCEPT ![t] = job[t]]
  BY <1>1, ThreadFacts, Zenon DEF ClaimInv, Types
<1>3. UsesOf(pc[t], job[t]) /\ Exclusive
  BY RangeParts, Zenon
<1>4. CASE job[t].size = 0
  <2>1. d \in held
    BY <1>1, <1>3, <1>4, Zenon DEF UsesOf, Faults
  <2>2. ~Late(pc[t], job[t]) /\ ~Linking(pc[t])
    BY <1>1, <1>4, Zenon DEF Late, Linking
  <2>3. Proceeds(t, "idle", NoJob) /\ JobOf(t, "idle", NoJob)
    BY <1>1, <2>1, NoJobIsJob, Zenon DEF Proceeds, Label, JobOf
  <2> QED
    BY <1>1, <2>2, <2>3, NoRole, NoJobIsJob, IdleUses, QuietStep, Zenon
<1>5. CASE job[t].size # 0
  <2>1. PICK e \in Desc : Live(e) /\ Busy(pc[t], job[t], e)
    BY <1>1, <1>3, <1>5, Zenon DEF UsesOf, Late
  <2>2. e = d
    BY <1>1, <2>1, Zenon DEF Busy, Waits
  <2>3. d \notin held
    BY <1>3, <2>1, <2>2, Zenon DEF Exclusive
  <2>4. Proceeds(t, "pop", job[t]) /\ JobOf(t, "pop", job[t])
    BY <1>1, <1>2, <2>3, Zenon DEF Proceeds, Label, JobOf
  <2>5. SameRole("pop", job[t], "map", job[t])
    BY <1>5, Zenon DEF SameRole, Early, Linking, Late, Waits, Retires, Faults
  <2>6. GoesOn(t, "pop", job[t])
    BY <1>1, <1>5, <2>4, <2>5, Zenon DEF GoesOn
  <2> QED
    BY <1>1, <2>6, GoesOnRanges, Zenon
<1> QED
  BY <1>4, <1>5, Zenon

\* The address space is exhausted.
LEMMA PanicRanges ==
  ASSUME HugeAssumption, ClaimInv, RangeInv, NEW t \in Thread, ClaimPanic(t)
  PROVE  RangeInv'
<1>1. /\ pc[t] = "claim" /\ UNCHANGED <<head, next, desc, free, popped, held, crashes>>
      /\ pc' = [pc EXCEPT ![t] = "panic"] /\ job' = [job EXCEPT ![t] = NoJob]
  BY Zenon DEF ClaimPanic, Turn, shared, Goto
<1>2. ~Late(pc[t], job[t]) /\ ~Linking(pc[t])
  BY <1>1, Zenon DEF Late, Linking
<1>3. Proceeds(t, "panic", NoJob) /\ JobOf(t, "panic", NoJob)
  BY <1>1, NoJobIsJob, Zenon DEF Proceeds, Label, JobOf
<1> QED
  BY <1>1, <1>2, <1>3, NoRole, NoJobIsJob, IdleUses, QuietStep, Zenon

\* The ranges that threads cannot carve share no page, nor with what is free.
LEMMA MineApart ==
  ASSUME HugeAssumption, ClaimInv, RangeInv, NEW u \in Thread, NEW w \in Thread,
         NEW d \in Mine(u, pc[u], job[u])
  PROVE  /\ \A e \in Mine(w, pc[w], job[w]) : d # e => Extent(d) \intersect Extent(e) = {}
         /\ Extent(d) \intersect free[w] = {}
         /\ desc[d].offset \in Extent(d)
<1>1. RangesOf(u, pc[u], job[u])
  BY RangeParts, Zenon
<1>2. ClaimsDisjoint /\ Inside /\ d \in BlocksOf[u]
  BY ClaimsApart, Zenon DEF ClaimInv, Mine
<1>3. /\ \A e \in Mine(w, pc[w], job[w]) : d # e => Extent(d) \intersect Extent(e) = {}
      /\ Extent(d) \intersect free[w] = {}
  <2>1. CASE u = w
    BY <1>1, <2>1, Zenon DEF RangesOf
  <2>2. CASE u # w
    <3>1. /\ Extent(d) \subseteq Claimed(u) /\ free[w] \subseteq Claimed(w)
          /\ Claimed(u) \intersect Claimed(w) = {}
      BY <1>2, <2>2, Zenon DEF Inside, ClaimsDisjoint
    <3>2. \A e \in Mine(w, pc[w], job[w]) : Extent(e) \subseteq Claimed(w)
      BY <1>2, Zenon DEF Inside, Mine
    <3> QED
      BY <3>1, <3>2, Zenon
  <2> QED
    BY <2>1, <2>2, Zenon
<1>5. desc[d].offset \in Extent(d)
  <2>1. desc[d].size # 0
    BY <1>1, Zenon DEF RangesOf
  <2>2. desc[d] \in [offset : Nat, size : Nat, state : {"Live", "Free", "Safe"}]
    BY <1>2, BlocksAre, Zenon DEF ClaimInv, Types
  <2> QED
    BY <2>1, <2>2 DEF Extent, Pages
<1> QED
  BY <1>3, <1>5, Zenon

\* What is Live is such a range of the thread on whose list it is.
LEMMA LiveMine ==
  ASSUME HugeAssumption, ClaimInv, NEW d, Live(d)
  PROVE  \E u \in Thread : d \in OnList(u) /\ d \in BlocksOf[u] /\ d \in Mine(u, pc[u], job[u])
<1>1. PICK u \in Thread : d \in OnList(u)
  BY Zenon DEF Live
<1>2. d \in BlocksOf[u]
  BY <1>1, ThreadFacts, Zenon
<1>3. ~Safe(d)
  BY Zenon DEF Live, Safe
<1> QED
  BY <1>1, <1>2, <1>3, Zenon DEF Mine

\* An offset stands for one descriptor that is Live.
LEMMA LiveUnique ==
  ASSUME HugeAssumption, ClaimInv, RangeInv, NEW d, NEW e, Live(d), Live(e),
         desc[d].offset = desc[e].offset
  PROVE  d = e
<1>1. PICK u \in Thread : d \in Mine(u, pc[u], job[u])
  BY LiveMine, Zenon
<1>2. PICK w \in Thread : e \in Mine(w, pc[w], job[w])
  BY LiveMine, Zenon
<1>3. desc[d].offset \in Extent(d) /\ desc[e].offset \in Extent(e)
  BY <1>1, <1>2, MineApart, Zenon
<1>4. d # e => Extent(d) \intersect Extent(e) = {}
  BY <1>1, <1>2, MineApart, Zenon
<1> QED
  BY <1>3, <1>4, Zenon

\* find starts with the list of the thread that claimed the page.
LEMMA OwnerFound ==
  ASSUME HugeAssumption, ClaimInv, NEW u \in Thread, NEW g \in Claimed(u)
  PROVE  Owner(g) = u
<1> DEFINE q == g \div SlotSize
           below == {s \in Slot : s <= q /\ slots[s] # None}
<1>1. PICK s \in Slot : /\ slots[s] # None /\ slots[s].id = u
                        /\ g \in Pages(s * SlotSize, slots[s].count * SlotSize)
  BY ClaimedPages, Zenon
<1>2. s \in Nat /\ slots[s].count \in Nat
  <2>1. slots \in [Slot -> [id : Thread, count : Nat \ {0}] \union {None}]
    BY Zenon DEF ClaimInv, Types
  <2> QED
    BY <1>1, <2>1 DEF Slot
<1>3. s <= q /\ q < s + slots[s].count /\ g \in Nat
  BY <1>1, <1>2, SlotPages, Zenon
<1>4. q \in Nat
  BY <1>3 DEF HugeAssumption
<1>5. s \in below
  BY <1>1, <1>3, Zenon
<1>6. Owner(g) = slots[CHOOSE x \in below : \A r \in below : r <= x].id
  BY Zenon DEF Owner
<1> HIDE DEF q
<1>7. ASSUME NEW r \in below PROVE r <= s
  <2>1. r \in Nat /\ r <= q /\ slots[r] # None /\ r \in Slot
    BY DEF Slot
  <2>2. s < r => s + slots[s].count <= r
    BY <1>1, <2>1, Zenon DEF ClaimInv, Apart
  <2> QED
    BY <1>2, <1>3, <1>4, <2>1, <2>2
<1>8. \A x \in below : (\A r \in below : r <= x) => x = s
  <2> SUFFICES ASSUME NEW x \in below, s <= x, x <= s PROVE x = s
    BY <1>5, <1>7, Zenon
  <2>1. x \in Nat
    BY DEF Slot
  <2> QED
    BY <1>2, <2>1
<1> HIDE DEF below
<1>9. (CHOOSE x \in below : \A r \in below : r <= x) = s
  BY <1>5, <1>7, <1>8, Zenon
<1> QED
  BY <1>1, <1>6, <1>9, Zenon

\* find comes to the descriptor that is Live, not to one that was.
LEMMA FindsLive ==
  ASSUME HugeAssumption, ClaimInv, RangeInv, NEW d, Live(d), NEW g \in Extent(d)
  PROVE  Find(g) = d
<1>1. PICK u \in Thread : d \in OnList(u) /\ d \in BlocksOf[u] /\ d \in Mine(u, pc[u], job[u])
  BY LiveMine, Zenon
<1>2. g \in Claimed(u)
  BY <1>1, Zenon DEF ClaimInv, Inside
<1> DEFINE S == {e \in Desc : g \in Extent(e)}
<1>3. Find(g) = First(Trace(u), S)
  BY <1>2, OwnerFound, Zenon DEF Find
<1>4. d \in S
  BY <1>1, BlocksAre, Zenon
<1>5. PICK n \in 0..DescCount : Trace(u)[n] = d
  BY <1>1, Zenon DEF OnList
<1>6. PICK m \in 0..DescCount : /\ First(Trace(u), S) = Trace(u)[m] /\ Trace(u)[m] \in S
                                /\ \A i \in 0..DescCount : i < m => Trace(u)[i] \notin S
  <2> HIDE DEF S
  <2> QED
    BY <1>4, <1>5, FirstFacts, Zenon
<1>7. ~(n < m)
  BY <1>4, <1>5, <1>6, Zenon
<1> DEFINE e == Trace(u)[m]
<1>8. e \in BlocksOf[u] /\ e \in OnList(u) /\ g \in Extent(e)
  <2>1. e \in Desc /\ g \in Extent(e)
    BY <1>6, Zenon
  <2>2. e # None
    BY <2>1, Zenon DEF HugeAssumption, Desc
  <2>3. e \in BlocksOf[u]
    BY <2>2, ThreadFacts, Zenon
  <2> QED
    BY <2>1, <2>2, <2>3, Zenon DEF OnList
<1>9. ~(m < n)
  <2> SUFFICES ASSUME m < n PROVE FALSE
    BY Zenon
  <2>1. CASE Safe(e)
    <3>1. Ordered(u) /\ ~Safe(d)
      BY <1>1, RangeParts, Zenon DEF Mine
    <3>2. Extent(e) \intersect Extent(d) = {}
      BY <1>1, <1>5, <1>8, <2>1, <3>1, Zenon DEF Ordered
    <3> QED
      BY <1>8, <3>2, Zenon
  <2>2. CASE ~Safe(e)
    <3>1. e \in Mine(u, pc[u], job[u])
      BY <1>8, <2>2, Zenon DEF Mine
    <3>2. e # d
      <4>1. m # n
        OBVIOUS
      <4>2. d # None
        BY <1>1, Zenon DEF OnList
      <4> QED
        BY <1>5, <4>1, <4>2, RangeParts, Zenon DEF Simple
    <3>3. Extent(d) \intersect Extent(e) = {}
      BY <1>1, <3>1, <3>2, MineApart, Zenon
    <3> QED
      BY <1>8, <3>3, Zenon
  <2> QED
    BY <2>1, <2>2, Zenon
<1>10. m = n
  BY <1>7, <1>9
<1> QED
  BY <1>3, <1>5, <1>6, <1>10, Zenon

\* A step of one thread keeps the ranges apart if it does so for the thread, for
\* every other thread, and for what these have in hand.
LEMMA StepRanges ==
  ASSUME HugeAssumption, ClaimInv, RangeInv, crashes' = crashes,
         NEW t \in Thread, NEW label, NEW j, Proceeds(t, label, j),
         Simple(t)', Ordered(t)', ShapeOf(t, label, j)', RangesOf(t, label, j)', UsesOf(label, j)',
         \A u \in Thread : \A l, k :
           u # t /\ l = pc[u] /\ k = job[u] =>
             /\ Simple(u)' /\ Ordered(u)' /\ ShapeOf(u, l, k)' /\ RangesOf(u, l, k)' /\ UsesOf(l, k)'
             /\ \A d \in Desc : Live(d)' /\ Busy(l, k, d)' =>
                  /\ Live(d) /\ Busy(l, k, d)
                  /\ d \in held' => d \in held
                  /\ ~Busy(label, j, d)',
         \A d \in Desc : Live(d)' /\ Busy(label, j, d)' => d \notin held',
         HeldLive'
  PROVE  RangeInv'
<1>1. crashes \in Nat /\ Lists /\ Shape /\ Ranges /\ Uses /\ Exclusive /\ HeldLive
  BY Zenon DEF RangeInv
<1>2. /\ pc'[t] = label /\ job'[t] = j
      /\ \A u \in Thread : u # t => pc'[u] = pc[u] /\ job'[u] = job[u]
  BY ProceedsFacts, Zenon DEF ClaimInv
<1>3. ASSUME NEW u \in Thread, NEW l, NEW k, l = pc'[u], k = job'[u]
      PROVE  Simple(u)' /\ Ordered(u)' /\ ShapeOf(u, l, k)' /\ RangesOf(u, l, k)' /\ UsesOf(l, k)'
  <2>1. CASE u = t
    <3>1. l = label /\ k = j
      BY <1>2, <1>3, <2>1, Zenon
    <3> QED
      BY <2>1, <3>1, Zenon
  <2>2. CASE u # t
    <3>1. l = pc[u] /\ k = job[u]
      BY <1>2, <1>3, <2>2, Zenon
    <3> QED
      BY <2>2, <3>1, Zenon
  <2> QED
    BY <2>1, <2>2, Zenon
<1>4. Lists' /\ Shape' /\ Ranges' /\ Uses'
  BY <1>3, Zenon DEF Lists, Shape, Ranges, Uses
<1>5. Exclusive'
  <2> SUFFICES ASSUME NEW u \in Thread, NEW d \in Desc, Live(d)', Busy(pc[u], job[u], d)',
                      NEW w \in Thread
               PROVE  d \notin held' /\ (Busy(pc[w], job[w], d)' => w = u)
    BY Zenon DEF Exclusive
  <2>1. PICK l, k : l = pc'[u] /\ k = job'[u]
    BY Zenon
  <2>2. PICK m, i : m = pc'[w] /\ i = job'[w]
    BY Zenon
  <2>3. Busy(l, k, d)'
    BY <2>1, Zenon
  <2>4. SUFFICES d \notin held' /\ (Busy(m, i, d)' => w = u)
    BY <2>2, Zenon
  <2>5. CASE u = t
    <3>1. l = label /\ k = j
      BY <1>2, <2>1, <2>5, Zenon
    <3>2. w # t => m = pc[w] /\ i = job[w]
      BY <1>2, <2>2, Zenon
    <3> QED
      BY <2>3, <2>5, <3>1, <3>2, Zenon
  <2>6. CASE u # t
    <3>1. l = pc[u] /\ k = job[u]
      BY <1>2, <2>1, <2>6, Zenon
    <3>2. Live(d) /\ Busy(l, k, d) /\ (d \in held' => d \in held) /\ ~Busy(label, j, d)'
      BY <2>3, <2>6, <3>1, Zenon
    <3>3. d \notin held /\ (Busy(pc[w], job[w], d) => w = u)
      BY <1>1, <3>1, <3>2, Zenon DEF Exclusive
    <3>4. CASE w = t
      <4>1. m = label /\ i = j
        BY <1>2, <2>2, <3>4, Zenon
      <4> QED
        BY <3>2, <3>3, <4>1, Zenon
    <3>5. CASE w # t
      <4>1. m = pc[w] /\ i = job[w]
        BY <1>2, <2>2, <3>5, Zenon
      <4>2. Busy(m, i, d)' => Busy(m, i, d)
        BY <3>5, <4>1, Zenon
      <4> QED
        BY <3>2, <3>3, <4>1, <4>2, Zenon
    <3> QED
      BY <3>4, <3>5, Zenon
  <2> QED
    BY <2>5, <2>6, Zenon
<1> QED
  BY <1>1, <1>4, <1>5, Zenon DEF RangeInv

\* A step that leaves the blocks of another thread alone.
LEMMA OtherThread ==
  ASSUME HugeAssumption, ClaimInv, RangeInv, NEW u \in Thread, NEW l, NEW k,
         l = pc[u], k = job[u], head'[u] = head[u], free'[u] = free[u],
         \A d \in BlocksOf[u] :
           next'[d] = next[d] /\ desc'[d] = desc[d] /\ (d \in popped' <=> d \in popped)
  PROVE  /\ Simple(u)' /\ Ordered(u)' /\ ShapeOf(u, l, k)' /\ RangesOf(u, l, k)'
         /\ OnList(u)' = OnList(u)
<1>1. /\ \A n \in 0..DescCount : Trace(u)[n] \in BlocksOf[u] \union {None}
      /\ JobOf(u, l, k) /\ DescCount \in Nat
  BY ThreadFacts, Zenon DEF HugeAssumption
<1>2. \A n \in 0..DescCount : Trace(u)'[n] = Trace(u)[n]
  <2>1. PICK first, link, link2 : first = head[u] /\ link = next /\ link2 = next'
    BY Zenon
  <2>2. Trace(u) = Walk(first, link)
    BY <2>1, Zenon DEF Trace
  <2>3. Trace(u)' = Walk(first, link2)
    BY <2>1, Zenon DEF Trace
  <2>4. \A n \in 0..DescCount : Walk(first, link)[n] # None =>
          link2[Walk(first, link)[n]] = link[Walk(first, link)[n]]
    BY <1>1, <2>1, <2>2, Zenon
  <2>5. \A n \in 0..DescCount : Walk(first, link2)[n] = Walk(first, link)[n]
    <3>1. DescCount \in Nat
      BY <1>1, Zenon
    <3> QED
      BY <2>4, <3>1, WalkFrame
  <2> QED
    BY <2>2, <2>3, <2>5, Zenon
<1>3. \A d \in BlocksOf[u] :
        /\ Extent(d)' = Extent(d) /\ desc'[d].size = desc[d].size
        /\ Safe(d)' <=> Safe(d)
        /\ d \in popped' <=> d \in popped
  BY Zenon DEF Extent, Safe
<1>4. Linking(l) => k.desc \in BlocksOf[u]
  BY <1>1, Zenon DEF JobOf, Linking
<1>5. /\ l = "set" => next'[k.desc] = next[k.desc]
      /\ Linking(l) => desc'[k.desc].state = desc[k.desc].state
  BY <1>4, Zenon DEF Linking
<1>6. Simple(u) /\ Ordered(u) /\ ShapeOf(u, l, k) /\ RangesOf(u, l, k)
  BY RangeParts, Zenon
<1> QED
  BY <1>1, <1>2, <1>3, <1>5, <1>6, ThreadFrame, Zenon

\* The steps after which a thread goes on with the same job.
LEMMA GoingOnRanges ==
  ASSUME HugeAssumption, ClaimInv, RangeInv, NEW t \in Thread,
         Refresh(t) \/ RefreshUnmap(t) \/ BeginClaim(t) \/ Protect(t) \/ Unprotect(t)
  PROVE  RangeInv'
<1>1. UNCHANGED <<popped, held, crashes>>
  BY Zenon DEF Refresh, RefreshUnmap, BeginClaim, Protect, Unprotect, shared
<1>2. \E label, j : GoesOn(t, label, j)
  BY RefreshGoesOn, RefreshUnmapGoesOn, BeginClaimGoesOn, ProtectGoesOn, Zenon
<1> QED
  BY <1>1, <1>2, GoesOnRanges, Zenon

\* free comes to the descriptor of what is freed.
LEMMA DropRanges ==
  ASSUME HugeAssumption, ClaimInv, RangeInv, NEW t \in Thread, Drop(t)
  PROVE  RangeInv'
<1>1. /\ pc[t] = "drop" /\ UNCHANGED <<head, next, desc, free, popped, held, crashes>>
      /\ pc' = [pc EXCEPT ![t] = "unprotect"]
      /\ job' = [job EXCEPT ![t] = [NoJob EXCEPT !.desc = Find(job[t].offset)]]
  BY Zenon DEF Drop, Turn, shared, Goto
<1>2. PICK d \in Desc : Live(d) /\ desc[d].offset = job[t].offset
  <2>1. UsesOf("drop", job[t])
    BY <1>1, RangeParts, Zenon
  <2>2. Waits("drop", job[t]) /\ ~Retires("drop") /\ ~Late("drop", job[t])
    BY Zenon DEF Waits, Retires, Late
  <2> QED
    BY <2>1, <2>2, Zenon DEF UsesOf, Busy
<1>3. Find(job[t].offset) = d
  <2>1. PICK u \in Thread : d \in Mine(u, pc[u], job[u])
    BY <1>2, LiveMine, Zenon
  <2>2. desc[d].offset \in Extent(d)
    BY <2>1, MineApart, Zenon
  <2> QED
    BY <1>2, <2>2, FindsLive, Zenon
<1>4. PICK j : j = [NoJob EXCEPT !.desc = d]
  BY Zenon
<1>5. j \in Job /\ j.size = 0 /\ j.desc = d
  BY <1>4, Zenon DEF NoJob, Job
<1>6. Proceeds(t, "unprotect", j) /\ JobOf(t, "unprotect", j)
  BY <1>1, <1>3, <1>4, <1>5, Zenon DEF Proceeds, Label, JobOf
<1>7. \A e \in Desc : Busy("unprotect", j, e) <=> e = d
  BY <1>5, Zenon DEF Busy, Waits, Retires
<1>8. \A e \in Desc : Busy("unprotect", j, e) => Busy(pc[t], job[t], e)
  BY <1>1, <1>2, <1>7, Zenon DEF Busy, Waits
<1>9. UsesOf("unprotect", j)
  BY <1>2, <1>7, Zenon DEF UsesOf, Faults
<1>10. ShapeOf(t, "unprotect", j) /\ RangesOf(t, "unprotect", j)
  <2>1. ~Late(pc[t], job[t]) /\ ~Linking(pc[t])
    BY <1>1, Zenon DEF Late, Linking
  <2> QED
    BY <1>5, <2>1, NoRole, Zenon
<1> QED
  BY <1>1, <1>6, <1>8, <1>9, <1>10, QuietStep, Zenon

\* A fault comes to the descriptor of what is in use.
LEMMA FaultRanges ==
  ASSUME HugeAssumption, ClaimInv, RangeInv, NEW t \in Thread, NEW d \in Desc, Fault(t, d)
  PROVE  RangeInv'
<1>1. /\ pc[t] = "idle" /\ d \in held
      /\ UNCHANGED <<head, next, desc, free, popped, held, crashes>>
      /\ pc' = [pc EXCEPT ![t] = "protect"]
      /\ job' = [job EXCEPT ![t] = [NoJob EXCEPT !.desc = Find(desc[d].offset)]]
  BY Zenon DEF Fault, Turn, shared, Goto
<1>2. Live(d)
  BY <1>1, RangeParts, Zenon DEF HeldLive
<1>3. Find(desc[d].offset) = d
  <2>1. PICK u \in Thread : d \in Mine(u, pc[u], job[u])
    BY <1>2, LiveMine, Zenon
  <2>2. desc[d].offset \in Extent(d)
    BY <2>1, MineApart, Zenon
  <2> QED
    BY <1>2, <2>2, FindsLive, Zenon
<1>4. PICK j : j = [NoJob EXCEPT !.desc = d]
  BY Zenon
<1>5. j \in Job /\ j.size = 0 /\ j.desc = d
  BY <1>4, Zenon DEF NoJob, Job
<1>6. Proceeds(t, "protect", j) /\ JobOf(t, "protect", j)
  BY <1>1, <1>3, <1>4, <1>5, Zenon DEF Proceeds, Label, JobOf
<1>7. \A e : ~Busy("protect", j, e)
  BY <1>5, Zenon DEF Busy, Waits, Retires, Late
<1>8. UsesOf("protect", j)
  BY <1>1, <1>5, Zenon DEF UsesOf, Waits, Retires, Late
<1>9. ShapeOf(t, "protect", j) /\ RangesOf(t, "protect", j)
  <2>1. ~Late(pc[t], job[t]) /\ ~Linking(pc[t])
    BY <1>1, Zenon DEF Late, Linking
  <2> QED
    BY <1>5, <2>1, NoRole, Zenon
<1> QED
  BY <1>1, <1>6, <1>7, <1>8, <1>9, QuietStep, Zenon

\* The application frees what it holds.
LEMMA FreeRanges ==
  ASSUME HugeAssumption, ClaimInv, RangeInv, NEW t \in Thread, NEW d \in Desc, Free(t, d)
  PROVE  RangeInv'
<1> DEFINE todo == UNION {OnList(u) : u \in Thread}
<1>1. /\ pc[t] = "idle" /\ d \in held /\ ~Faulting(d) /\ held' = held \ {d}
      /\ UNCHANGED <<head, next, desc, free, popped, crashes>>
      /\ pc' = [pc EXCEPT ![t] = "refresh"]
      /\ job' = [job EXCEPT ![t] = [[NoJob EXCEPT !.offset = desc[d].offset]
                                    EXCEPT !.then = "drop", !.todo = todo]]
  BY Zenon DEF Free, Turn, shared, BeginRefresh, Goto
<1>2. Live(d) /\ Exclusive /\ HeldLive
  BY <1>1, RangeParts, Zenon DEF HeldLive
<1>3. PICK j : j = [[NoJob EXCEPT !.offset = desc[d].offset] EXCEPT !.then = "drop", !.todo = todo]
  BY Zenon
<1>4. j \in Job /\ j.size = 0 /\ j.then = "drop" /\ j.offset = desc[d].offset
  <2>1. todo \subseteq Desc
    BY ThreadFacts, Zenon
  <2>2. desc[d].offset \in Nat
    BY Zenon DEF ClaimInv, Types
  <2> HIDE DEF todo
  <2> QED
    BY <1>3, <2>1, <2>2, Zenon DEF NoJob, Job
<1>5. Proceeds(t, "refresh", j) /\ JobOf(t, "refresh", j)
  BY <1>1, <1>3, <1>4, Zenon DEF Proceeds, Label, JobOf
<1>6. \A e : Busy("refresh", j, e) <=> desc[e].offset = desc[d].offset
  BY <1>4, Zenon DEF Busy, Waits, Retires, Late
<1>7. \A e \in Desc : Live(e) /\ Busy("refresh", j, e) => e = d
  BY <1>2, <1>6, LiveUnique, Zenon
<1>8. UsesOf("refresh", j)'
  <2>1. Live(d)' /\ Busy("refresh", j, d)'
    BY <1>1, <1>2, <1>6, SameUses, Zenon
  <2> QED
    BY <2>1, Zenon DEF UsesOf, Faults
<1>9. ASSUME NEW u \in Thread, NEW l, NEW k, JobOf(u, l, k), ShapeOf(u, l, k), RangesOf(u, l, k)
      PROVE  Simple(u)' /\ Ordered(u)' /\ ShapeOf(u, l, k)' /\ RangesOf(u, l, k)'
  <2>1. Simple(u) /\ Ordered(u) /\ free'[u] = free[u] /\ popped' = popped
    BY <1>1, RangeParts, Zenon
  <2> QED
    BY <1>1, <1>9, <2>1, SameThread, Zenon
<1>10. ShapeOf(t, "refresh", j) /\ RangesOf(t, "refresh", j)
  <2>1. ~Late(pc[t], job[t]) /\ ~Linking(pc[t])
    BY <1>1, Zenon DEF Late, Linking
  <2> QED
    BY <1>4, <2>1, NoRole, Zenon
<1>11. ASSUME NEW u \in Thread, NEW l, NEW k, u # t, l = pc[u], k = job[u]
       PROVE  /\ Simple(u)' /\ Ordered(u)' /\ ShapeOf(u, l, k)' /\ RangesOf(u, l, k)' /\ UsesOf(l, k)'
              /\ \A e \in Desc : Live(e)' /\ Busy(l, k, e)' =>
                   /\ Live(e) /\ Busy(l, k, e)
                   /\ e \in held' => e \in held
                   /\ ~Busy("refresh", j, e)'
  <2>1. JobOf(u, l, k) /\ ShapeOf(u, l, k) /\ RangesOf(u, l, k) /\ UsesOf(l, k)
    BY <1>11, ThreadFacts, RangeParts, Zenon
  <2>2. /\ \A e : Live(e)' <=> Live(e)
        /\ \A m, i, e : Busy(m, i, e)' <=> Busy(m, i, e)
    BY <1>1, SameUses, Zenon
  <2>3. UsesOf(l, k)'
    <3>1. Faults(l, k) => k.desc # d
      BY <1>1, <1>11, Zenon DEF Faults, Faulting
    <3> QED
      BY <1>1, <2>1, <2>2, <3>1, Zenon DEF UsesOf
  <2>4. ASSUME NEW e \in Desc, Live(e)', Busy(l, k, e)'
        PROVE  /\ Live(e) /\ Busy(l, k, e)
               /\ e \in held' => e \in held
               /\ ~Busy("refresh", j, e)'
    <3>1. Live(e) /\ Busy(l, k, e)
      BY <2>2, <2>4, Zenon
    <3>2. e \notin held
      BY <1>2, <1>11, <3>1, Zenon DEF Exclusive
    <3>3. ~Busy("refresh", j, e)
      BY <1>1, <1>7, <3>1, <3>2, Zenon
    <3> QED
      BY <1>1, <2>2, <3>1, <3>3, Zenon
  <2> QED
    BY <1>9, <2>1, <2>3, <2>4, Zenon
<1>12. \A e \in Desc : Live(e)' /\ Busy("refresh", j, e)' => e \notin held'
  BY <1>1, <1>7, SameUses, Zenon
<1>13. HeldLive'
  BY <1>1, <1>2, SameUses, Zenon DEF HeldLive
<1>14. Simple(t)' /\ Ordered(t)' /\ ShapeOf(t, "refresh", j)' /\ RangesOf(t, "refresh", j)'
  BY <1>5, <1>9, <1>10, Zenon
<1> QED
  BY <1>1, <1>5, <1>8, <1>11, <1>12, <1>13, <1>14, StepRanges, Zenon

\* The allocation is handed out.
LEMMA PopRanges ==
  ASSUME HugeAssumption, ClaimInv, RangeInv, NEW t \in Thread, Pop(t)
  PROVE  RangeInv'
<1>1. PICK j, d : j = job[t] /\ d = j.desc
  BY Zenon
<1>2. /\ pc[t] = "pop" /\ UNCHANGED <<head, next, desc, free, crashes>>
      /\ popped' = IF j.reuse THEN popped ELSE popped \union {d}
      /\ held' = held \union {d}
      /\ pc' = [pc EXCEPT ![t] = "idle"] /\ job' = [job EXCEPT ![t] = NoJob]
  BY <1>1, Zenon DEF Pop, Turn, Goto
<1>3. ShapeOf(t, "pop", j) /\ RangesOf(t, "pop", j) /\ UsesOf("pop", j) /\ JobOf(t, "pop", j)
  BY <1>1, <1>2, RangeParts, ThreadFacts, Zenon
<1>4. j.size # 0 /\ Late("pop", j) /\ ~Early("pop", j) /\ ~Linking("pop")
  BY <1>3, Zenon DEF ShapeOf, Late, Early, Linking
<1>5. d \in BlocksOf[t] /\ Live(d) /\ Busy("pop", j, d)
  <2>1. PICK e \in Desc : Live(e) /\ Busy("pop", j, e)
    BY <1>3, <1>4, Zenon DEF UsesOf
  <2>2. e = d
    BY <1>1, <2>1, Zenon DEF Busy, Waits
  <2> QED
    BY <1>1, <1>3, <1>4, <2>1, <2>2, Zenon DEF JobOf
<1>6. Exclusive /\ HeldLive
  BY RangeParts, Zenon
<1>7. d \in Desc
  BY <1>5, BlocksAre, Zenon
<1>8. Proceeds(t, "idle", NoJob) /\ JobOf(t, "idle", NoJob)
  BY <1>2, NoJobIsJob, Zenon DEF Proceeds, Label, JobOf
<1>9. /\ \A e : Live(e)' <=> Live(e)
      /\ \A m, i, e : Busy(m, i, e)' <=> Busy(m, i, e)
      /\ OnList(t)' = OnList(t)
  BY <1>2, SameUses, Zenon DEF OnList, Trace
<1>10. Simple(t)' /\ Ordered(t)'
  <2>1. Simple(t) /\ Ordered(t)
    BY RangeParts, Zenon
  <2>2. \A e : (Safe(e)' <=> Safe(e)) /\ Extent(e)' = Extent(e)
    BY <1>2, Zenon DEF Safe, Extent
  <2>3. Trace(t)' = Trace(t)
    BY <1>2, Zenon DEF Trace
  <2>4. Simple(t)'
    BY <2>1, <2>3, Zenon DEF Simple
  <2>5. Ordered(t)'
    BY <2>1, <2>2, <2>3, Zenon DEF Ordered
  <2> QED
    BY <2>4, <2>5, Zenon
<1>11. ShapeOf(t, "idle", NoJob)'
  <2>1. OnList(t)' \subseteq popped'
    <3>1. OnList(t) \subseteq popped \union {e \in Desc : Late("pop", j) /\ ~j.reuse /\ e = j.desc}
      BY <1>3, Zenon DEF ShapeOf
    <3> QED
      BY <1>1, <1>2, <1>9, <3>1, Zenon
  <2>2. ~Early("idle", NoJob) /\ ~Linking("idle") /\ ~Late("idle", NoJob)
    BY Zenon DEF Early, Linking, Late
  <2> QED
    BY <2>1, <2>2, NoJobIsJob, Zenon DEF ShapeOf
<1>12. RangesOf(t, "idle", NoJob)'
  <2>1. Mine(t, "idle", NoJob)' = Mine(t, "pop", j)
    BY <1>2, <1>4, <1>9, Zenon DEF Mine, Safe, Linking
  <2>2. \A e : Extent(e)' = Extent(e)
    BY <1>2, Zenon DEF Extent
  <2> QED
    BY <1>2, <1>3, <2>1, <2>2, Zenon DEF RangesOf
<1>13. UsesOf("idle", NoJob)' /\ \A e \in Desc : ~Busy("idle", NoJob, e)'
  <2>1. \A e : ~Busy("idle", NoJob, e)
    BY IdleUses, Zenon
  <2>2. UsesOf("idle", NoJob)'
    BY Zenon DEF UsesOf, Waits, Retires, Late, Faults
  <2> QED
    BY <1>9, <2>1, <2>2, Zenon
<1>14. ASSUME NEW u \in Thread, NEW l, NEW k, u # t, l = pc[u], k = job[u]
       PROVE  /\ Simple(u)' /\ Ordered(u)' /\ ShapeOf(u, l, k)' /\ RangesOf(u, l, k)' /\ UsesOf(l, k)'
              /\ \A e \in Desc : Live(e)' /\ Busy(l, k, e)' =>
                   /\ Live(e) /\ Busy(l, k, e)
                   /\ e \in held' => e \in held
                   /\ ~Busy("idle", NoJob, e)'
  <2>1. d \notin BlocksOf[u]
    BY <1>5, <1>14, Zenon DEF HugeAssumption
  <2>2. \A e \in BlocksOf[u] :
          next'[e] = next[e] /\ desc'[e] = desc[e] /\ (e \in popped' <=> e \in popped)
    BY <1>2, <2>1, Zenon
  <2>3. head'[u] = head[u] /\ free'[u] = free[u] /\ UsesOf(l, k)
    BY <1>2, <1>14, RangeParts, Zenon
  <2>4. UsesOf(l, k)'
    BY <1>2, <1>9, <2>3, Zenon DEF UsesOf
  <2>5. ASSUME NEW e \in Desc, Live(e)', Busy(l, k, e)'
        PROVE  Live(e) /\ Busy(l, k, e) /\ (e \in held' => e \in held)
    <3>1. Live(e) /\ Busy(l, k, e)
      BY <1>9, <2>5, Zenon
    <3>2. e # d
      BY <1>1, <1>2, <1>5, <1>6, <1>7, <1>14, <3>1, Zenon DEF Exclusive
    <3> QED
      BY <1>2, <3>1, <3>2, Zenon
  <2>6. Simple(u)' /\ Ordered(u)' /\ ShapeOf(u, l, k)' /\ RangesOf(u, l, k)'
    BY <1>14, <2>2, <2>3, OtherThread, Zenon
  <2> QED
    BY <1>13, <2>4, <2>5, <2>6, Zenon
<1>15. HeldLive'
  BY <1>2, <1>5, <1>6, <1>7, <1>9, Zenon DEF HeldLive
<1> QED
  BY <1>2, <1>8, <1>10, <1>11, <1>12, <1>13, <1>14, <1>15, StepRanges, Zenon

\* The descriptor of what is freed is no longer Live.
LEMMA RetireRanges ==
  ASSUME HugeAssumption, ClaimInv, RangeInv, NEW t \in Thread, Retire(t)
  PROVE  RangeInv'
<1>1. PICK j, d : j = job[t] /\ d = j.desc
  BY Zenon
<1>2. /\ pc[t] = "retire" /\ UNCHANGED <<head, next, free, popped, held, crashes>>
      /\ desc' = [desc EXCEPT ![d].state = "Free"]
      /\ pc' = [pc EXCEPT ![t] = "idle"] /\ job' = [job EXCEPT ![t] = NoJob]
  BY <1>1, Zenon DEF Retire, Turn, Goto
<1>3. d \in Desc /\ Live(d) /\ Busy("retire", j, d)
  <2>1. UsesOf("retire", j)
    BY <1>1, <1>2, RangeParts, Zenon
  <2>2. PICK e \in Desc : Live(e) /\ Busy("retire", j, e)
    BY <2>1, Zenon DEF UsesOf, Retires
  <2>3. e = d
    BY <1>1, <2>2, Zenon DEF Busy, Waits
  <2> QED
    BY <2>2, <2>3, Zenon
<1>4. /\ \A e \in Desc : e # d => desc'[e] = desc[e]
      /\ desc'[d].offset = desc[d].offset /\ desc'[d].size = desc[d].size
      /\ desc'[d].state = "Free"
  <2>1. desc \in [Desc -> [offset : Nat, size : Nat, state : {"Live", "Free", "Safe"}]]
    BY Zenon DEF ClaimInv, Types
  <2> QED
    BY <1>2, <1>3, <2>1
<1>5. /\ \A e \in Desc : Extent(e)' = Extent(e) /\ desc'[e].size = desc[e].size
      /\ \A e \in Desc : desc'[e].offset = desc[e].offset
      /\ \A e \in Desc : Safe(e)' <=> Safe(e)
  <2>1. \A e \in Desc : desc'[e].size = desc[e].size /\ desc'[e].offset = desc[e].offset
    BY <1>4, Zenon
  <2>2. ~Safe(d) /\ ~Safe(d)'
    BY <1>3, <1>4, Zenon DEF Safe, Live
  <2> QED
    BY <1>4, <2>1, <2>2, Zenon DEF Extent, Safe
<1>6. \A u \in Thread : OnList(u)' = OnList(u) /\ Trace(u)' = Trace(u)
  BY <1>2, Zenon DEF OnList, Trace
<1>7. /\ \A e \in Desc : Live(e)' <=> Live(e) /\ e # d
      /\ \A m, i : \A e \in Desc : Busy(m, i, e)' <=> Busy(m, i, e)
  BY <1>4, <1>5, <1>6, Zenon DEF Live, Busy
<1>8. Exclusive /\ HeldLive
  BY RangeParts, Zenon
<1>9. Proceeds(t, "idle", NoJob) /\ JobOf(t, "idle", NoJob)
  BY <1>2, NoJobIsJob, Zenon DEF Proceeds, Label, JobOf
<1>10. ASSUME NEW u \in Thread, NEW l, NEW k, JobOf(u, l, k), ShapeOf(u, l, k), RangesOf(u, l, k)
       PROVE  Simple(u)' /\ Ordered(u)' /\ ShapeOf(u, l, k)' /\ RangesOf(u, l, k)'
  <2>1. Simple(u) /\ Ordered(u) /\ free'[u] = free[u] /\ popped' = popped /\ head'[u] = head[u]
        /\ next' = next
    BY <1>2, RangeParts, Zenon
  <2>2. BlocksOf[u] \subseteq Desc
    BY BlocksAre, Zenon
  <2>3. Linking(l) => k.desc \in BlocksOf[u] /\ k.desc \notin OnList(u)
    BY <1>10, Zenon DEF JobOf, Linking, ShapeOf
  <2>4. Linking(l) => k.desc # d
    <3>1. PICK w \in Thread : d \in OnList(w)
      BY <1>3, Zenon DEF Live
    <3>2. d \in BlocksOf[w]
      BY <3>1, ThreadFacts, Zenon
    <3> QED
      BY <2>3, <3>1, <3>2, Zenon DEF HugeAssumption
  <2>5. Linking(l) => desc'[k.desc].state = desc[k.desc].state
    BY <1>4, <2>2, <2>3, <2>4, Zenon
  <2>6. \A e \in BlocksOf[u] :
          /\ Extent(e)' = Extent(e) /\ desc'[e].size = desc[e].size
          /\ Safe(e)' <=> Safe(e)
          /\ e \in popped' <=> e \in popped
    BY <1>5, <2>1, <2>2, Zenon
  <2>7. /\ \A n \in 0..DescCount : Trace(u)'[n] = Trace(u)[n]
        /\ l = "set" => next'[k.desc] = next[k.desc]
    BY <1>6, <2>1, Zenon
  <2> QED
    BY <1>10, <2>1, <2>5, <2>6, <2>7, ThreadFrame, Zenon
<1>11. ShapeOf(t, "idle", NoJob) /\ RangesOf(t, "idle", NoJob)
  <2>1. ~Late(pc[t], job[t]) /\ ~Linking(pc[t])
    BY <1>2, Zenon DEF Late, Linking
  <2> QED
    BY <2>1, NoRole, NoJobIsJob, Zenon
<1>12. UsesOf("idle", NoJob)' /\ \A e \in Desc : ~Busy("idle", NoJob, e)'
  <2>1. \A e : ~Busy("idle", NoJob, e)
    BY IdleUses, Zenon
  <2>2. UsesOf("idle", NoJob)'
    BY Zenon DEF UsesOf, Waits, Retires, Late, Faults
  <2> QED
    BY <1>7, <2>1, <2>2, Zenon
<1>13. ASSUME NEW u \in Thread, NEW l, NEW k, u # t, l = pc[u], k = job[u]
       PROVE  /\ Simple(u)' /\ Ordered(u)' /\ ShapeOf(u, l, k)' /\ RangesOf(u, l, k)' /\ UsesOf(l, k)'
              /\ \A e \in Desc : Live(e)' /\ Busy(l, k, e)' =>
                   /\ Live(e) /\ Busy(l, k, e)
                   /\ e \in held' => e \in held
                   /\ ~Busy("idle", NoJob, e)'
  <2>1. JobOf(u, l, k) /\ ShapeOf(u, l, k) /\ RangesOf(u, l, k) /\ UsesOf(l, k)
    BY <1>13, ThreadFacts, RangeParts, Zenon
  <2>2. \A e \in Desc : Live(e) /\ Busy(l, k, e) => e # d
    BY <1>1, <1>2, <1>3, <1>8, <1>13, Zenon DEF Exclusive
  <2>3. UsesOf(l, k)'
    BY <1>2, <1>7, <2>1, <2>2, Zenon DEF UsesOf
  <2> QED
    BY <1>2, <1>7, <1>10, <1>12, <2>1, <2>3, Zenon
<1>14. HeldLive'
  <2>1. d \notin held
    BY <1>1, <1>2, <1>3, <1>8, Zenon DEF Exclusive
  <2> QED
    BY <1>2, <1>7, <1>8, <2>1, Zenon DEF HeldLive
<1>15. Simple(t)' /\ Ordered(t)' /\ ShapeOf(t, "idle", NoJob)' /\ RangesOf(t, "idle", NoJob)'
  BY <1>9, <1>10, <1>11, Zenon
<1> QED
  BY <1>2, <1>9, <1>12, <1>13, <1>14, <1>15, StepRanges, Zenon

=============================================================================
