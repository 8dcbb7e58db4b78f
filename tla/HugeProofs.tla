----------------------------- MODULE HugeProofs -------------------------------
(***************************************************************************)
(* The huge heap is correct for every number of threads, slots and         *)
(* descriptors: the steps that claim, carve, link and reuse preserve       *)
(* RangeInv, and HazardInv ties the hazards to the ranges that are kept.   *)
(* RangeInv needs that nobody crashes: focus takes for free whatever no    *)
(* Live descriptor covers, also what a thread had in hand.                 *)
(***************************************************************************)
EXTENDS HugeInvariant

\* A claim that succeeds covers nothing that a descriptor of the thread covers.
LEMMA ClaimRanges ==
  ASSUME HugeAssumption, ClaimInv, RangeInv, NEW t \in Thread, Claim(t)
  PROVE  RangeInv'
<1>1. UNCHANGED <<head, next, desc, free, popped, held, crashes>>
  BY Zenon DEF Claim
<1>2. CASE slots[job[t].slot] # None
  BY <1>1, <1>2, ClaimGoesOn, GoesOnRanges, Zenon
<1>3. CASE slots[job[t].slot] = None
  <2>1. PICK j : j = job[t]
    BY Zenon
  <2>2. /\ pc[t] = "claim" /\ j \in Job /\ JobOf(t, "claim", j)
        /\ j.slot \in Nat /\ SlotsFor(j.size) \in Nat
        /\ slots \in [Slot -> [id : Thread, count : Nat \ {0}] \union {None}]
    BY <2>1, ClaimFacts, Zenon
  <2>3. pc' = [pc EXCEPT ![t] = "hint"] /\ job' = [job EXCEPT ![t] = j]
    BY <1>3, <2>1, Zenon DEF Claim, Goto, ClaimInv, Types
  <2>4. Proceeds(t, "hint", j) /\ JobOf(t, "hint", j)
    BY <2>2, <2>3, Zenon DEF Proceeds, Label, JobOf
  <2>5. SameRole("hint", j, pc[t], job[t])
    BY <2>1, <2>2, Zenon DEF SameRole, Early, Linking, Late, Waits, Retires, Faults
  <2>6. /\ ShapeOf(t, "hint", j) /\ UsesOf("hint", j)
        /\ Mine(t, "hint", j) = Mine(t, pc[t], job[t])
        /\ \A d \in Desc : Busy("hint", j, d) <=> Busy(pc[t], job[t], d)
    BY <2>5, RoleKept, Zenon
  <2> DEFINE P == Pages(j.slot * SlotSize, SlotsFor(j.size) * SlotSize)
  <2>7. ASSUME NEW g \in Claimed(t), g \in P PROVE FALSE
    <3>1. PICK s \in Slot : /\ slots[s] # None
                            /\ g \in Pages(s * SlotSize, slots[s].count * SlotSize)
      BY ClaimedPages, Zenon
    <3>2. s + slots[s].count <= j.slot
      BY <1>3, <2>1, <3>1, ClaimAbove, Zenon
    <3>3. s \in Nat /\ slots[s].count \in Nat
      BY <2>2, <3>1 DEF Slot
    <3>4. g \div SlotSize < s + slots[s].count /\ g \in Nat
      BY <3>1, <3>3, SlotPages, Zenon
    <3>5. j.slot <= g \div SlotSize
      BY <2>2, <2>7, SlotPages, Zenon
    <3>6. g \div SlotSize \in Nat
      BY <3>4 DEF HugeAssumption
    <3> QED
      BY <2>2, <3>2, <3>3, <3>4, <3>5, <3>6
  <2> HIDE DEF P
  <2>8. \A d \in Mine(t, "hint", j) : Extent(d) \intersect P = {}
    BY <2>7, Zenon DEF Mine, ClaimInv, Inside
  <2>9. RangesOf(t, "hint", j)
    <3>1. RangesOf(t, pc[t], job[t])
      BY RangeParts, Zenon
    <3> QED
      BY <2>6, <2>8, <3>1, Zenon DEF RangesOf, P
  <2> QED
    BY <1>1, <2>4, <2>6, <2>9, QuietStep, Zenon
<1> QED
  BY <1>2, <1>3, Zenon

\* What was claimed can be carved.
LEMMA ClaimHintRanges ==
  ASSUME HugeAssumption, ClaimInv, RangeInv, NEW t \in Thread, ClaimHint(t)
  PROVE  RangeInv'
<1>1. PICK i, P : i = job[t] /\ P = Pages(i.slot * SlotSize, SlotsFor(i.size) * SlotSize)
  BY Zenon
<1>2. /\ pc[t] = "hint" /\ UNCHANGED <<head, next, desc, popped, held, crashes>>
      /\ free' = [free EXCEPT ![t] = @ \union P]
      /\ pc' = [pc EXCEPT ![t] = "carve"] /\ job' = [job EXCEPT ![t].slot = 0]
  BY <1>1, Zenon DEF ClaimHint, Turn, Goto
<1>3. PICK j : j = [i EXCEPT !.slot = 0]
  BY Zenon
<1>4. i \in Job /\ JobOf(t, "hint", i)
  BY <1>1, <1>2, ThreadFacts, Zenon
<1>5. /\ j \in Job /\ j.size = i.size /\ j.desc = i.desc /\ j.reuse = i.reuse
      /\ j.offset = i.offset
  BY <1>3, <1>4 DEF Job
<1>6. Proceeds(t, "carve", j) /\ JobOf(t, "carve", j)
  <2>1. job' = [job EXCEPT ![t] = j]
    BY <1>1, <1>2, <1>3, Zenon DEF ClaimInv, Types
  <2> QED
    BY <1>2, <1>4, <1>5, <2>1, Zenon DEF Proceeds, Label, JobOf
<1>7. SameRole("carve", j, pc[t], job[t])
  BY <1>1, <1>2, <1>5, Zenon DEF SameRole, Early, Linking, Late, Waits, Retires, Faults
<1>8. /\ ShapeOf(t, "carve", j) /\ UsesOf("carve", j)
      /\ Mine(t, "carve", j) = Mine(t, pc[t], job[t])
      /\ \A d \in Desc : Busy("carve", j, d) <=> Busy(pc[t], job[t], d)
  BY <1>7, RoleKept, Zenon
<1>9. /\ Simple(t)' /\ Ordered(t)' /\ ShapeOf(t, "carve", j)'
      /\ Mine(t, "carve", j)' = Mine(t, "carve", j)
  <2>1. Simple(t) /\ Ordered(t) /\ popped' = popped
    BY <1>2, RangeParts, Zenon
  <2> QED
    BY <1>2, <1>6, <1>8, <2>1, SameThread, Zenon
<1>10. RangesOf(t, "carve", j)'
  <2>1. RangesOf(t, "hint", i)
    BY <1>1, <1>2, RangeParts, Zenon
  <2>2. /\ \A d : Extent(d)' = Extent(d) /\ desc'[d].size = desc[d].size
        /\ Mine(t, "carve", j)' = Mine(t, "hint", i)
    BY <1>1, <1>2, <1>8, <1>9, Zenon DEF Extent
  <2>3. \A d \in Mine(t, "hint", i) :
          Extent(d) \intersect free[t] = {} /\ Extent(d) \intersect P = {} /\ desc[d].size # 0
    BY <1>1, <2>1, Zenon DEF RangesOf
  <2>4. free'[t] = free[t] \union P
    BY <1>2, Zenon DEF ClaimInv, Types
  <2>5. \A d, e \in Mine(t, "hint", i) : d # e => Extent(d) \intersect Extent(e) = {}
    BY <2>1, Zenon DEF RangesOf
  <2>6. \A d \in Mine(t, "hint", i) : Extent(d) \intersect free'[t] = {}
    BY <2>3, <2>4, Zenon
  <2> QED
    BY <2>2, <2>3, <2>5, <2>6, Zenon DEF RangesOf
<1>11. /\ \A e : Live(e)' <=> Live(e)
       /\ \A m, k, e : Busy(m, k, e)' <=> Busy(m, k, e)
       /\ \A m, k : UsesOf(m, k) => UsesOf(m, k)'
  BY <1>2, SameUses, Zenon
<1>12. Exclusive /\ HeldLive
  BY RangeParts, Zenon
<1>13. ASSUME NEW u \in Thread, NEW l, NEW k, u # t, l = pc[u], k = job[u]
       PROVE  /\ Simple(u)' /\ Ordered(u)' /\ ShapeOf(u, l, k)' /\ RangesOf(u, l, k)' /\ UsesOf(l, k)'
              /\ \A e \in Desc : Live(e)' /\ Busy(l, k, e)' =>
                   /\ Live(e) /\ Busy(l, k, e)
                   /\ e \in held' => e \in held
                   /\ ~Busy("carve", j, e)'
  <2>1. /\ head'[u] = head[u] /\ free'[u] = free[u]
        /\ \A d \in BlocksOf[u] :
             next'[d] = next[d] /\ desc'[d] = desc[d] /\ (d \in popped' <=> d \in popped)
    BY <1>2, <1>13, Zenon DEF ClaimInv, Types
  <2>2. Simple(u)' /\ Ordered(u)' /\ ShapeOf(u, l, k)' /\ RangesOf(u, l, k)'
    BY <1>13, <2>1, OtherThread, Zenon
  <2>3. UsesOf(l, k)'
    BY <1>11, <1>13, RangeParts, Zenon
  <2>4. ASSUME NEW e \in Desc, Live(e)', Busy(l, k, e)'
        PROVE  Live(e) /\ Busy(l, k, e) /\ (e \in held' => e \in held) /\ ~Busy("carve", j, e)'
    <3>1. Live(e) /\ Busy(l, k, e)
      BY <1>11, <2>4, Zenon
    <3>2. ~Busy(pc[t], job[t], e)
      BY <1>12, <1>13, <3>1, Zenon DEF Exclusive
    <3> QED
      BY <1>2, <1>8, <1>11, <3>1, <3>2, Zenon
  <2> QED
    BY <2>2, <2>3, <2>4, Zenon
<1>14. \A e \in Desc : Live(e)' /\ Busy("carve", j, e)' => e \notin held'
  BY <1>2, <1>8, <1>11, <1>12, Zenon DEF Exclusive
<1>15. HeldLive'
  BY <1>2, <1>11, <1>12, Zenon DEF HeldLive
<1>16. UsesOf("carve", j)'
  BY <1>8, <1>11, Zenon
<1> QED
  BY <1>2, <1>6, <1>9, <1>10, <1>13, <1>14, <1>15, <1>16, StepRanges, Zenon

\* The link of a new descriptor, which no list has yet, is on no list.
LEMMA LinkLists ==
  ASSUME HugeAssumption, ClaimInv, RangeInv, NEW t \in Thread, Link(t), NEW u \in Thread
  PROVE  (\A n \in 0..DescCount : Trace(u)'[n] = Trace(u)[n]) /\ OnList(u)' = OnList(u)
<1> DEFINE d == job[t].desc
<1>1. pc[t] = "link" /\ head' = head /\ next' = [next EXCEPT ![d] = head[t]]
  BY Zenon DEF Link, Turn
<1>2. d \in BlocksOf[t] /\ d \in Desc /\ d \notin OnList(t)
  <2>1. JobOf(t, "link", job[t]) /\ ShapeOf(t, "link", job[t])
    BY <1>1, ThreadFacts, RangeParts, Zenon
  <2> QED
    BY <2>1, BlocksAre, Zenon DEF JobOf, ShapeOf, Linking
<1> HIDE DEF d
<1>3. \A e \in Desc : e # d => next'[e] = next[e]
  BY <1>1, <1>2, Zenon DEF ClaimInv, Types
<1>4. d \notin OnList(u) /\ OnList(u) \subseteq Desc
  BY <1>2, ThreadFacts, Zenon DEF HugeAssumption
<1>5. PICK first, link, link2 : first = head[u] /\ link = next /\ link2 = next'
  BY Zenon
<1>6. Trace(u) = Walk(first, link) /\ Trace(u)' = Walk(first, link2)
  BY <1>1, <1>5, Zenon DEF Trace
<1>7. \A n \in 0..DescCount : Walk(first, link)[n] # None =>
        link2[Walk(first, link)[n]] = link[Walk(first, link)[n]]
  <2> SUFFICES ASSUME NEW n \in 0..DescCount, Trace(u)[n] # None
               PROVE  next'[Trace(u)[n]] = next[Trace(u)[n]]
    BY <1>5, <1>6, Zenon
  <2>1. Trace(u)[n] \in OnList(u)
    BY Zenon DEF OnList
  <2> QED
    BY <1>3, <1>4, <2>1, Zenon
<1>8. \A n \in 0..DescCount : Walk(first, link2)[n] = Walk(first, link)[n]
  <2>1. DescCount \in Nat
    BY Zenon DEF HugeAssumption
  <2> QED
    BY <1>7, <2>1, WalkFrame
<1>9. \A n \in 0..DescCount : Trace(u)'[n] = Trace(u)[n]
  BY <1>6, <1>8, Zenon
<1> QED
  BY <1>9, Zenon DEF OnList

\* The link of a new descriptor is written.
LEMMA LinkRanges ==
  ASSUME HugeAssumption, ClaimInv, RangeInv, NEW t \in Thread, Link(t)
  PROVE  RangeInv'
<1>1. PICK j, d : j = job[t] /\ d = j.desc
  BY Zenon
<1>2. /\ pc[t] = "link" /\ UNCHANGED <<head, desc, free, popped, held, crashes>>
      /\ next' = [next EXCEPT ![d] = head[t]]
      /\ pc' = [pc EXCEPT ![t] = "set"] /\ job' = [job EXCEPT ![t] = j]
  BY <1>1, Zenon DEF Link, Turn, Goto, ClaimInv, Types
<1>3. j \in Job /\ JobOf(t, "link", j) /\ d \in BlocksOf[t] /\ d \in Desc
  BY <1>1, <1>2, ThreadFacts, BlocksAre, Zenon DEF JobOf
<1>4. Proceeds(t, "set", j) /\ JobOf(t, "set", j)
  BY <1>2, <1>3, Zenon DEF Proceeds, Label, JobOf
<1>5. ShapeOf(t, "link", j) /\ RangesOf(t, "link", j) /\ Simple(t) /\ Ordered(t)
  BY <1>1, <1>2, RangeParts, Zenon
<1>7. next'[d] = head[t] /\ \A e \in Desc : e # d => next'[e] = next[e]
  BY <1>2, <1>3, Zenon DEF ClaimInv, Types
<1>8. \A n \in 0..DescCount : Trace(t)'[n] = Trace(t)[n]
  BY LinkLists, Zenon
<1>9. \A e : Extent(e)' = Extent(e) /\ (Safe(e)' <=> Safe(e)) /\ desc'[e] = desc[e]
  BY <1>2, Zenon DEF Extent, Safe
<1>10. /\ OnList(t)' = OnList(t)
       /\ Simple(t)' /\ Ordered(t)' /\ ShapeOf(t, "link", j)' /\ RangesOf(t, "link", j)'
  BY <1>2, <1>3, <1>5, <1>8, <1>9, ThreadFrame, Zenon
<1>11. ShapeOf(t, "set", j)'
  <2>1. next'[j.desc] = head'[t]
    BY <1>1, <1>2, <1>7, Zenon
  <2>2. /\ ~Early("link", j) /\ ~Early("set", j) /\ ~Late("link", j) /\ ~Late("set", j)
        /\ Linking("link") /\ Linking("set")
    BY Zenon DEF Early, Late, Linking
  <2> QED
    BY <1>10, <2>1, <2>2, Zenon DEF ShapeOf
<1>12. RangesOf(t, "set", j)'
  <2>1. Mine(t, "set", j)' = Mine(t, "link", j)'
    BY Zenon DEF Mine, Linking
  <2> QED
    BY <1>10, <2>1, Zenon DEF RangesOf
<1>13. \A u \in Thread : u # t => OnList(u)' = OnList(u) /\ \A l, k : l = pc[u] /\ k = job[u] =>
         Simple(u)' /\ Ordered(u)' /\ ShapeOf(u, l, k)' /\ RangesOf(u, l, k)'
  <2> SUFFICES ASSUME NEW u \in Thread, u # t, NEW l, NEW k, l = pc[u], k = job[u]
               PROVE  /\ OnList(u)' = OnList(u)
                      /\ Simple(u)' /\ Ordered(u)' /\ ShapeOf(u, l, k)' /\ RangesOf(u, l, k)'
    BY Zenon
  <2>1. d \notin BlocksOf[u] /\ BlocksOf[u] \subseteq Desc
    BY <1>3, BlocksAre, Zenon DEF HugeAssumption
  <2>2. /\ head'[u] = head[u] /\ free'[u] = free[u]
        /\ \A e \in BlocksOf[u] :
             next'[e] = next[e] /\ desc'[e] = desc[e] /\ (e \in popped' <=> e \in popped)
    BY <1>2, <1>7, <2>1, Zenon
  <2> QED
    BY <2>2, OtherThread, Zenon
<1>14. /\ \A e : Live(e)' <=> Live(e)
       /\ \A m, k, e : Busy(m, k, e)' <=> Busy(m, k, e)
  BY <1>2, <1>10, <1>13, Zenon DEF Live, Busy
<1>15. UsesOf("set", j)' /\ \A e : ~Busy("set", j, e)'
  BY Zenon DEF UsesOf, Busy, Waits, Retires, Late, Faults
<1>16. ASSUME NEW u \in Thread, NEW l, NEW k, u # t, l = pc[u], k = job[u]
       PROVE  /\ Simple(u)' /\ Ordered(u)' /\ ShapeOf(u, l, k)' /\ RangesOf(u, l, k)' /\ UsesOf(l, k)'
              /\ \A e \in Desc : Live(e)' /\ Busy(l, k, e)' =>
                   /\ Live(e) /\ Busy(l, k, e)
                   /\ e \in held' => e \in held
                   /\ ~Busy("set", j, e)'
  <2>1. UsesOf(l, k)
    BY <1>16, RangeParts, Zenon
  <2>2. UsesOf(l, k)'
    BY <1>2, <1>14, <2>1, Zenon DEF UsesOf
  <2> QED
    BY <1>2, <1>13, <1>14, <1>15, <1>16, <2>2, Zenon
<1>17. HeldLive'
  BY <1>2, <1>14, RangeParts, Zenon DEF HeldLive
<1> QED
  BY <1>2, <1>4, <1>10, <1>11, <1>12, <1>15, <1>16, <1>17, StepRanges, Zenon

\* Nobody else has in hand a descriptor that is about to be Live, nor waits for
\* an offset that is nowhere Live.
LEMMA NobodyElse ==
  ASSUME HugeAssumption, ClaimInv, RangeInv, NEW u \in Thread, NEW l, NEW k,
         l = pc[u], k = job[u], NEW d, ~Live(d), NEW offset,
         \A e \in Desc : Live(e) => desc[e].offset # offset
  PROVE  /\ ~(Waits(l, k) /\ k.offset = offset)
         /\ ~((Retires(l) \/ Late(l, k)) /\ d = k.desc)
<1>1. UsesOf(l, k)
  BY RangeParts, Zenon
<1>2. ASSUME Waits(l, k), k.offset = offset PROVE FALSE
  <2>1. ~Retires(l) /\ ~Late(l, k)
    BY <1>2, Zenon DEF Waits, Retires, Late
  <2> QED
    BY <1>1, <1>2, <2>1, Zenon DEF UsesOf, Busy
<1>3. ASSUME Retires(l) \/ Late(l, k), d = k.desc PROVE FALSE
  <2>1. ~Waits(l, k)
    BY <1>3, Zenon DEF Waits, Retires, Late
  <2> QED
    BY <1>1, <1>3, <2>1, Zenon DEF UsesOf, Busy
<1> QED
  BY <1>2, <1>3, Zenon

\* The new descriptor is the first of the list.
LEMMA PushedList ==
  ASSUME HugeAssumption, ClaimInv, NEW t \in Thread, NEW d \in BlocksOf[t], d \notin OnList(t),
         Simple(t), next[d] = head[t], next' = next, head'[t] = d
  PROVE  /\ DescCount \in Nat \ {0}
         /\ Trace(t)'[0] = d
         /\ \A n \in 0..(DescCount - 1) : Trace(t)'[n + 1] = Trace(t)[n]
         /\ OnList(t)' = OnList(t) \union {d}
         /\ Simple(t)'
<1>1. d \in Desc /\ DescCount \in Nat \ {0} /\ d # None
  <2>1. d \in 1..DescCount /\ DescCount \in Nat
    BY BlocksAre, Zenon DEF HugeAssumption, Desc
  <2>2. d # None
    BY <2>1, Zenon DEF HugeAssumption
  <2> QED
    BY <2>1, <2>2 DEF Desc
<1>2. /\ Trace(t)'[0] = d
      /\ \A n \in 0..(DescCount - 1) : Trace(t)'[n + 1] = Trace(t)[n]
  <2>1. PICK first, link : first = head[t] /\ link = next
    BY Zenon
  <2>2. Trace(t) = Walk(first, link) /\ Trace(t)' = Walk(d, link)
    BY <2>1, Zenon DEF Trace
  <2>3. link[d] = first /\ DescCount \in Nat
    BY <1>1, <2>1, Zenon
  <2>4. /\ Walk(d, link)[0] = d
        /\ \A n \in 0..(DescCount - 1) : Walk(d, link)[n + 1] = Walk(first, link)[n]
    BY <1>1, <2>3, WalkPush
  <2> QED
    BY <2>2, <2>4, Zenon
<1>3. Trace(t)[DescCount] = None
  <2>1. \A n \in 0..DescCount : Trace(t)[n] \in Desc \union {None}
    BY ThreadFacts, Zenon
  <2>2. PICK first, link : first = head[t] /\ link = next
    BY Zenon
  <2>3. Trace(t) = Walk(first, link) /\ DescCount \in Nat
    BY <1>1, <2>2, Zenon DEF Trace
  <2>4. \A n \in 0..DescCount : Walk(first, link)[n] \in Desc \union {None}
    BY <2>1, <2>3, Zenon
  <2>5. \A m, n \in 0..DescCount :
          Walk(first, link)[m] = Walk(first, link)[n] /\ Walk(first, link)[m] # None => m = n
    BY <2>3, Zenon DEF Simple
  <2>6. Walk(first, link)[DescCount] = None
    BY <2>3, <2>4, <2>5, WalkEnds
  <2> QED
    BY <2>3, <2>6, Zenon
<1> DEFINE tr == Trace(t)  new == Trace(t)'
<1>4. /\ new[0] = d /\ \A n \in 0..(DescCount - 1) : new[n + 1] = tr[n]
      /\ tr[DescCount] = None
      /\ \A n \in 0..DescCount : tr[n] # None => tr[n] # d
  <2>1. \A n \in 0..DescCount : Trace(t)[n] # None => Trace(t)[n] # d
    BY Zenon DEF OnList
  <2> QED
    BY <1>2, <1>3, <2>1, Zenon
<1>5. OnList(t) = {tr[n] : n \in 0..DescCount} \ {None}
  BY Zenon DEF OnList
<1>6. OnList(t)' = {new[n] : n \in 0..DescCount} \ {None}
  BY Zenon DEF OnList
<1>7. \A m, n \in 0..DescCount : tr[m] = tr[n] /\ tr[m] # None => m = n
  BY Zenon DEF Simple
<1>8. Simple(t)' <=> \A m, n \in 0..DescCount : new[m] = new[n] /\ new[m] # None => m = n
  BY Zenon DEF Simple
<1> HIDE DEF tr, new
<1>9. \A n \in 1..DescCount : n - 1 \in 0..(DescCount - 1) /\ new[n] = tr[n - 1] /\ n - 1 \in 0..DescCount
  <2> SUFFICES ASSUME NEW n \in 1..DescCount
               PROVE  n - 1 \in 0..(DescCount - 1) /\ new[n] = tr[n - 1] /\ n - 1 \in 0..DescCount
    BY Zenon
  <2>1. n - 1 \in 0..(DescCount - 1) /\ n - 1 \in 0..DescCount /\ (n - 1) + 1 = n
    BY <1>1
  <2>2. new[(n - 1) + 1] = tr[n - 1]
    BY <1>4, <2>1, Zenon
  <2> QED
    BY <2>1, <2>2
<1>10. OnList(t)' = OnList(t) \union {d}
  <2>1. ASSUME NEW e \in OnList(t)' PROVE e \in OnList(t) \union {d}
    <3>1. PICK n \in 0..DescCount : e = new[n] /\ e # None
      BY <1>6, <2>1, Zenon
    <3>2. CASE n = 0
      BY <1>4, <3>1, <3>2, Zenon
    <3>3. CASE n # 0
      <4>1. n \in 1..DescCount
        BY <1>1, <3>3
      <4> QED
        BY <1>5, <1>9, <3>1, <4>1, Zenon
    <3> QED
      BY <3>2, <3>3, Zenon
  <2>2. ASSUME NEW e \in OnList(t) PROVE e \in OnList(t)'
    <3>1. PICK n \in 0..DescCount : e = tr[n] /\ e # None
      BY <1>5, <2>2, Zenon
    <3>2. n # DescCount
      BY <1>4, <3>1, Zenon
    <3>3. n \in 0..(DescCount - 1) /\ n + 1 \in 0..DescCount
      BY <1>1, <3>2
    <3> QED
      BY <1>4, <1>6, <3>1, <3>3, Zenon
  <2>3. d \in OnList(t)'
    <3>1. 0 \in 0..DescCount
      BY <1>1
    <3> QED
      BY <1>1, <1>4, <1>6, <3>1, Zenon
  <2> QED
    BY <2>1, <2>2, <2>3, Zenon
<1>11. Simple(t)'
  <2> SUFFICES ASSUME NEW m \in 0..DescCount, NEW n \in 0..DescCount, new[m] = new[n], new[m] # None
               PROVE  m = n
    BY <1>8, Zenon
  <2>1. \A i \in 0..DescCount : i # 0 => i \in 1..DescCount
    BY <1>1
  <2>2. CASE m = 0 /\ n = 0
    BY <2>2, Zenon
  <2>3. CASE m = 0 /\ n # 0
    BY <1>4, <1>9, <2>1, <2>3, Zenon
  <2>4. CASE m # 0 /\ n = 0
    BY <1>4, <1>9, <2>1, <2>4, Zenon
  <2>5. CASE m # 0 /\ n # 0
    <3>1. m - 1 = n - 1
      BY <1>7, <1>9, <2>1, <2>5, Zenon
    <3> QED
      BY <3>1
  <2> QED
    BY <2>2, <2>3, <2>4, <2>5, Zenon
<1> QED
  BY <1>1, <1>2, <1>10, <1>11, Zenon

\* The new descriptor is on the list: it is Live, and nobody else has it.
LEMMA SetHeadRanges ==
  ASSUME HugeAssumption, ClaimInv, RangeInv, NEW t \in Thread, SetHead(t)
  PROVE  RangeInv'
<1>1. PICK j, d : j = job[t] /\ d = j.desc
  BY Zenon
<1>2. /\ pc[t] = "set" /\ UNCHANGED <<next, desc, free, popped, held, crashes>>
      /\ head' = [head EXCEPT ![t] = d]
      /\ pc' = [pc EXCEPT ![t] = "protect"] /\ job' = [job EXCEPT ![t] = j]
  BY <1>1, Zenon DEF SetHead, Turn, Goto, ClaimInv, Types
<1>3. j \in Job /\ JobOf(t, "set", j) /\ d \in BlocksOf[t] /\ d \in Desc /\ j.size # 0
  BY <1>1, <1>2, ThreadFacts, BlocksAre, Zenon DEF JobOf
<1>4. Proceeds(t, "protect", j)
  BY <1>2, <1>3, Zenon DEF Proceeds, Label
<1>5. ShapeOf(t, "set", j) /\ RangesOf(t, "set", j) /\ Simple(t) /\ Ordered(t)
  BY <1>1, <1>2, RangeParts, Zenon
<1>6. /\ d \notin OnList(t) /\ ~j.reuse /\ desc[d].state = "Live" /\ next[d] = head[t]
      /\ OnList(t) \subseteq popped
  BY <1>1, <1>5, Zenon DEF ShapeOf, Linking, Late
<1>7. head'[t] = d /\ \A u \in Thread : u # t => head'[u] = head[u]
  BY <1>2, Zenon DEF ClaimInv, Types
<1>8. /\ DescCount \in Nat \ {0}
      /\ Trace(t)'[0] = d
      /\ \A n \in 0..(DescCount - 1) : Trace(t)'[n + 1] = Trace(t)[n]
      /\ OnList(t)' = OnList(t) \union {d}
      /\ Simple(t)'
  BY <1>2, <1>3, <1>5, <1>6, <1>7, PushedList, Zenon
<1>9. \A e : Extent(e)' = Extent(e) /\ (Safe(e)' <=> Safe(e))
  BY <1>2, Zenon DEF Extent, Safe
<1>10. ~Safe(d)
  BY <1>6, Zenon DEF Safe
<1>11. Ordered(t)'
  <2> SUFFICES ASSUME NEW m \in 0..DescCount, NEW n \in 0..DescCount,
                      NEW e \in BlocksOf[t], NEW f \in BlocksOf[t],
                      m < n, Trace(t)'[m] = e, Trace(t)'[n] = f, Safe(e), ~Safe(f)
               PROVE  Extent(e) \intersect Extent(f) = {}
    BY <1>9, Zenon DEF Ordered
  <2>1. m # 0
    BY <1>8, <1>10, Zenon
  <2>2. /\ m - 1 \in 0..(DescCount - 1) /\ n - 1 \in 0..(DescCount - 1) /\ m - 1 < n - 1
        /\ m - 1 \in 0..DescCount /\ n - 1 \in 0..DescCount
        /\ (m - 1) + 1 = m /\ (n - 1) + 1 = n
    BY <1>8, <2>1
  <2>3. Trace(t)'[(m - 1) + 1] = Trace(t)[m - 1] /\ Trace(t)'[(n - 1) + 1] = Trace(t)[n - 1]
    BY <1>8, <2>2, Zenon
  <2>4. Trace(t)[m - 1] = e /\ Trace(t)[n - 1] = f
    BY <2>2, <2>3, Zenon
  <2> QED
    BY <1>5, <2>2, <2>4, Zenon DEF Ordered
<1>12. ShapeOf(t, "protect", j)'
  <2>1. Late("protect", j) /\ ~Early("protect", j) /\ ~Linking("protect")
    BY <1>3, Zenon DEF Late, Early, Linking
  <2>2. OnList(t)' \subseteq popped' \union {e \in Desc : Late("protect", j) /\ ~j.reuse /\ e = j.desc}
    BY <1>1, <1>2, <1>3, <1>6, <1>8, <2>1, Zenon
  <2> QED
    BY <2>1, <2>2, Zenon DEF ShapeOf
<1>13. RangesOf(t, "protect", j)'
  <2>1. Mine(t, "protect", j)' = Mine(t, "set", j)
    BY <1>1, <1>8, <1>9, <1>10, Zenon DEF Mine, Linking
  <2> QED
    BY <1>2, <1>5, <1>9, <2>1, Zenon DEF RangesOf
<1>14. \A u \in Thread : u # t => OnList(u)' = OnList(u) /\ \A l, k : l = pc[u] /\ k = job[u] =>
         Simple(u)' /\ Ordered(u)' /\ ShapeOf(u, l, k)' /\ RangesOf(u, l, k)'
  <2> SUFFICES ASSUME NEW u \in Thread, u # t, NEW l, NEW k, l = pc[u], k = job[u]
               PROVE  /\ OnList(u)' = OnList(u)
                      /\ Simple(u)' /\ Ordered(u)' /\ ShapeOf(u, l, k)' /\ RangesOf(u, l, k)'
    BY Zenon
  <2>1. /\ head'[u] = head[u] /\ free'[u] = free[u]
        /\ \A e \in BlocksOf[u] :
             next'[e] = next[e] /\ desc'[e] = desc[e] /\ (e \in popped' <=> e \in popped)
    BY <1>2, <1>7, Zenon
  <2> QED
    BY <2>1, OtherThread, Zenon
<1>15. ~Live(d)
  <2> SUFFICES ASSUME NEW u \in Thread, d \in OnList(u) PROVE FALSE
    BY Zenon DEF Live
  <2>1. d \in BlocksOf[u]
    BY ThreadFacts, Zenon
  <2> QED
    BY <1>3, <1>6, <2>1, Zenon DEF HugeAssumption
<1>16. /\ \A e : Live(e)' <=> Live(e) \/ e = d
       /\ \A m, k, e : Busy(m, k, e)' <=> Busy(m, k, e)
  <2>1. \A u \in Thread : \A e : e \in OnList(u)' <=> e \in OnList(u) \/ (u = t /\ e = d)
    BY <1>8, <1>14, Zenon
  <2> QED
    BY <1>2, <1>6, <2>1, Zenon DEF Live, Busy
<1>17. \A e \in Desc : Live(e) => desc[e].offset # desc[d].offset
  <2> SUFFICES ASSUME NEW e \in Desc, Live(e), desc[e].offset = desc[d].offset PROVE FALSE
    BY Zenon
  <2>1. d \in Mine(t, pc[t], job[t])
    BY <1>1, <1>2, <1>3, <1>10, Zenon DEF Mine, Linking
  <2>2. PICK w \in Thread : e \in Mine(w, pc[w], job[w])
    BY LiveMine, Zenon
  <2>3. e # d
    BY <1>15, Zenon
  <2>4. desc[d].offset \in Extent(d) /\ Extent(d) \intersect Extent(e) = {}
    BY <2>1, <2>2, <2>3, MineApart, Zenon
  <2>5. desc[e].offset \in Extent(e)
    BY <2>2, MineApart, Zenon
  <2> QED
    BY <2>4, <2>5, Zenon
<1>18. \A e : Busy("protect", j, e) <=> e = d
  BY <1>1, <1>3, Zenon DEF Busy, Waits, Retires, Late
<1>19. UsesOf("protect", j)'
  BY <1>3, <1>16, <1>18, Zenon DEF UsesOf, Faults
<1>20. Exclusive /\ HeldLive
  BY RangeParts, Zenon
<1>21. ASSUME NEW u \in Thread, NEW l, NEW k, u # t, l = pc[u], k = job[u]
       PROVE  /\ Simple(u)' /\ Ordered(u)' /\ ShapeOf(u, l, k)' /\ RangesOf(u, l, k)' /\ UsesOf(l, k)'
              /\ \A e \in Desc : Live(e)' /\ Busy(l, k, e)' =>
                   /\ Live(e) /\ Busy(l, k, e)
                   /\ e \in held' => e \in held
                   /\ ~Busy("protect", j, e)'
  <2>1. UsesOf(l, k)
    BY <1>21, RangeParts, Zenon
  <2>2. UsesOf(l, k)'
    BY <1>2, <1>16, <2>1, Zenon DEF UsesOf
  <2>3. ~Busy(l, k, d)
    BY <1>15, <1>17, <1>21, NobodyElse, Zenon DEF Busy
  <2>4. \A e \in Desc : Live(e)' /\ Busy(l, k, e)' =>
          /\ Live(e) /\ Busy(l, k, e)
          /\ e \in held' => e \in held
          /\ ~Busy("protect", j, e)'
    BY <1>2, <1>16, <1>18, <2>3, Zenon
  <2> QED
    BY <1>14, <1>21, <2>2, <2>4, Zenon
<1>22. \A e \in Desc : Live(e)' /\ Busy("protect", j, e)' => e \notin held'
  BY <1>2, <1>15, <1>16, <1>18, <1>20, Zenon DEF HeldLive
<1>23. HeldLive'
  BY <1>2, <1>16, <1>20, Zenon DEF HeldLive
<1> QED
  BY <1>2, <1>4, <1>8, <1>11, <1>12, <1>13, <1>19, <1>21, <1>22, <1>23, StepRanges, Zenon

\* A range is carved from the pages that are free, and its descriptor is written.
LEMMA CarveRanges ==
  ASSUME HugeAssumption, ClaimInv, RangeInv, NEW t \in Thread, Carve(t)
  PROVE  RangeInv'
<1>1. PICK j, d, offset, P, label :
        /\ j = job[t] /\ d = j.desc /\ offset = FirstFit(t, j.size)
        /\ P = Pages(offset, j.size) /\ label = IF j.reuse THEN "protect" ELSE "link"
  BY Zenon
<1>2. /\ pc[t] = "carve" /\ UNCHANGED <<head, next, popped, held, crashes>>
      /\ offset # None /\ free' = [free EXCEPT ![t] = @ \ P]
      /\ desc' = [desc EXCEPT ![d] = [offset |-> offset, size |-> j.size, state |-> "Live"]]
      /\ pc' = [pc EXCEPT ![t] = label] /\ job' = [job EXCEPT ![t] = j]
  BY <1>1, Zenon DEF Carve, Turn, Goto, ClaimInv, Types
<1>3. j \in Job /\ JobOf(t, "carve", j) /\ d \in BlocksOf[t] /\ d \in Desc /\ j.size # 0
  BY <1>1, <1>2, ThreadFacts, BlocksAre, Zenon DEF JobOf
<1>4. label \in {"protect", "link"} /\ Proceeds(t, label, j)
  BY <1>1, <1>2, <1>3, Zenon DEF Proceeds, Label
<1>5. ShapeOf(t, "carve", j) /\ RangesOf(t, "carve", j) /\ Simple(t) /\ Ordered(t)
  BY <1>1, <1>2, RangeParts, Zenon
<1>6. offset \in free[t] /\ P \subseteq free[t]
  BY <1>1, <1>2, FitIsFree, Zenon DEF ClaimInv
<1>7. /\ desc'[d] = [offset |-> offset, size |-> j.size, state |-> "Live"]
      /\ \A e \in Desc : e # d => desc'[e] = desc[e]
      /\ free'[t] = free[t] \ P /\ \A u \in Thread : u # t => free'[u] = free[u]
  BY <1>2, <1>3, Zenon DEF ClaimInv, Types
<1>8. desc'[d].offset = offset /\ desc'[d].size = j.size /\ desc'[d].state = "Live"
  BY <1>7
<1>9. /\ Extent(d)' = P /\ ~Safe(d)'
      /\ \A e \in Desc : e # d => Extent(e)' = Extent(e) /\ (Safe(e)' <=> Safe(e))
  BY <1>1, <1>7, <1>8, Zenon DEF Extent, Safe
<1>10. Trace(t)' = Trace(t) /\ \A u \in Thread : OnList(u)' = OnList(u)
  BY <1>2, Zenon DEF OnList, Trace
<1>11. /\ OnList(t) \subseteq popped /\ OnList(t) \subseteq BlocksOf[t] /\ BlocksOf[t] \subseteq Desc
       /\ ~j.reuse => d \notin OnList(t) /\ d \notin popped /\ \A e \in OnList(t) : ~Safe(e)
       /\ j.reuse => d \in OnList(t) /\ Safe(d)
       /\ j.reuse => \A m, n \in 0..DescCount, e \in BlocksOf[t] :
            m < n /\ Trace(t)[m] = e /\ Trace(t)[n] = d => ~Safe(e)
  <2>1. Early("carve", j) /\ ~Late("carve", j)
    BY <1>3, Zenon DEF Early, Late
  <2> QED
    BY <1>1, <1>5, <2>1, ThreadFacts, Zenon DEF ShapeOf
<1>12. Simple(t)'
  BY <1>5, <1>10, Zenon DEF Simple
<1>13. Ordered(t)'
  <2> SUFFICES ASSUME NEW m \in 0..DescCount, NEW n \in 0..DescCount,
                      NEW e \in BlocksOf[t], NEW f \in BlocksOf[t],
                      m < n, Trace(t)[m] = e, Trace(t)[n] = f, Safe(e)', ~Safe(f)'
               PROVE  Extent(e)' \intersect Extent(f)' = {}
    BY <1>10, Zenon DEF Ordered
  <2>1. e # d /\ e \in Desc /\ f \in Desc /\ Safe(e)
    BY <1>9, <1>11, Zenon
  <2>2. f # None
    BY <2>1, Zenon DEF HugeAssumption, Desc
  <2>3. f \in OnList(t)
    BY <2>2, Zenon DEF OnList
  <2>4. f # d
    BY <1>11, <2>1, <2>3, Zenon
  <2>5. ~Safe(f) /\ Extent(e)' = Extent(e) /\ Extent(f)' = Extent(f)
    BY <1>9, <2>1, <2>4, Zenon
  <2> QED
    BY <1>5, <2>1, <2>5, Zenon DEF Ordered
<1>14. ShapeOf(t, label, j)'
  <2>1. CASE j.reuse
    <3>1. label = "protect" /\ Late(label, j) /\ ~Early(label, j) /\ ~Linking(label)
      BY <1>1, <1>3, <2>1, Zenon DEF Late, Early, Linking
    <3>2. OnList(t)' \subseteq popped'
      BY <1>2, <1>10, <1>11, Zenon
    <3> QED
      BY <3>1, <3>2, Zenon DEF ShapeOf
  <2>2. CASE ~j.reuse
    <3>1. label = "link" /\ ~Late(label, j) /\ ~Early(label, j) /\ Linking(label)
      BY <1>1, <2>2, Zenon DEF Late, Early, Linking
    <3>2. OnList(t)' \subseteq popped'
      BY <1>2, <1>10, <1>11, Zenon
    <3>3. j.desc \notin OnList(t)' \union popped' /\ desc'[j.desc].state = "Live"
      BY <1>1, <1>2, <1>8, <1>10, <1>11, <2>2, Zenon
    <3>4. \A e \in OnList(t)' : ~Safe(e)'
      BY <1>9, <1>10, <1>11, <2>2, Zenon
    <3> QED
      BY <2>2, <3>1, <3>2, <3>3, <3>4, Zenon DEF ShapeOf
  <2> QED
    BY <2>1, <2>2, Zenon
<1>15. RangesOf(t, label, j)'
  <2>1. Mine(t, label, j)' \subseteq Mine(t, "carve", j) \union {d} /\ d \notin Mine(t, "carve", j)
    <3>1. ~Linking("carve") /\ (Linking(label) <=> ~j.reuse)
      BY <1>1, Zenon DEF Linking
    <3>2. d \notin Mine(t, "carve", j)
      BY <1>11, <3>1, Zenon DEF Mine
    <3>3. ASSUME NEW e \in Mine(t, label, j)', e # d PROVE e \in Mine(t, "carve", j)
      <4>1. e \in BlocksOf[t] /\ ~Safe(e)' /\ e \in OnList(t)'
        BY <1>1, <3>3, Zenon DEF Mine
      <4>2. ~Safe(e) /\ e \in OnList(t)
        BY <1>9, <1>10, <1>11, <3>3, <4>1, Zenon
      <4> QED
        BY <4>1, <4>2, Zenon DEF Mine
    <3> QED
      BY <3>2, <3>3, Zenon
  <2>2. \A e \in Mine(t, "carve", j) : e \in Desc /\ Extent(e)' = Extent(e) /\ desc'[e] = desc[e]
    BY <1>7, <1>9, <1>11, <2>1, Zenon DEF Mine
  <2>3. /\ \A e, f \in Mine(t, "carve", j) : e # f => Extent(e) \intersect Extent(f) = {}
        /\ \A e \in Mine(t, "carve", j) : Extent(e) \intersect free[t] = {} /\ desc[e].size # 0
    BY <1>5, Zenon DEF RangesOf
  <2>4. \A e \in Mine(t, "carve", j) :
          /\ Extent(e)' \intersect P = {} /\ Extent(e)' \intersect free'[t] = {}
          /\ desc'[e].size # 0
    BY <1>6, <1>7, <2>2, <2>3, Zenon
  <2>5. Extent(d)' \intersect free'[t] = {} /\ desc'[d].size # 0
    BY <1>3, <1>7, <1>8, <1>9, Zenon
  <2>6. ASSUME NEW e \in Mine(t, label, j)', NEW f \in Mine(t, label, j)', e # f
        PROVE  Extent(e)' \intersect Extent(f)' = {}
    <3>1. CASE e = d
      BY <1>9, <2>1, <2>4, <2>6, <3>1, Zenon
    <3>2. CASE f = d
      BY <1>9, <2>1, <2>4, <2>6, <3>2, Zenon
    <3>3. CASE e # d /\ f # d
      BY <2>1, <2>2, <2>3, <2>6, <3>3, Zenon
    <3> QED
      BY <3>1, <3>2, <3>3, Zenon
  <2>7. label # "hint"
    BY <1>4, Zenon
  <2>8. \A e \in Mine(t, label, j)' : Extent(e)' \intersect free'[t] = {} /\ desc'[e].size # 0
    BY <2>1, <2>4, <2>5, Zenon
  <2> QED
    BY <2>6, <2>7, <2>8, Zenon DEF RangesOf
<1>16. ~Live(d)
  <2>1. CASE j.reuse
    BY <1>11, <2>1, Zenon DEF Live, Safe
  <2>2. CASE ~j.reuse
    <3> SUFFICES ASSUME NEW u \in Thread, d \in OnList(u) PROVE FALSE
      BY Zenon DEF Live
    <3>1. d \in BlocksOf[u]
      BY ThreadFacts, Zenon
    <3> QED
      BY <1>3, <1>11, <2>2, <3>1, Zenon DEF HugeAssumption
  <2> QED
    BY <2>1, <2>2, Zenon
<1>17. /\ \A e \in Desc : e # d => (Live(e)' <=> Live(e))
       /\ \A m, k : \A e \in Desc : e # d => (Busy(m, k, e)' <=> Busy(m, k, e))
  BY <1>7, <1>10, Zenon DEF Live, Busy
<1>18. \A e \in Desc : Live(e) => desc[e].offset # offset
  <2> SUFFICES ASSUME NEW e \in Desc, Live(e), desc[e].offset = offset PROVE FALSE
    BY Zenon
  <2>1. PICK w \in Thread : e \in Mine(w, pc[w], job[w])
    BY LiveMine, Zenon
  <2>2. desc[e].offset \in Extent(e) /\ Extent(e) \intersect free[t] = {}
    BY <2>1, MineApart, Zenon
  <2> QED
    BY <1>6, <2>2, Zenon
<1>19. \A e : Busy(label, j, e)' => e = d
  BY <1>1, Zenon DEF Busy, Waits, Retires, Late
<1>20. UsesOf(label, j)'
  <2>1. CASE j.reuse
    <3>1. Live(d)'
      BY <1>8, <1>10, <1>11, <2>1, Zenon DEF Live
    <3>2. Busy(label, j, d)'
      BY <1>1, <1>3, <2>1, Zenon DEF Busy, Late
    <3>3. ~Faults(label, j)
      BY <1>3, Zenon DEF Faults
    <3> QED
      BY <1>3, <3>1, <3>2, <3>3, Zenon DEF UsesOf
  <2>2. CASE ~j.reuse
    BY <1>1, <2>2, Zenon DEF UsesOf, Waits, Retires, Late, Faults
  <2> QED
    BY <2>1, <2>2, Zenon
<1>21. Exclusive /\ HeldLive
  BY RangeParts, Zenon
<1>22. ASSUME NEW u \in Thread, NEW l, NEW k, u # t, l = pc[u], k = job[u]
       PROVE  /\ Simple(u)' /\ Ordered(u)' /\ ShapeOf(u, l, k)' /\ RangesOf(u, l, k)' /\ UsesOf(l, k)'
              /\ \A e \in Desc : Live(e)' /\ Busy(l, k, e)' =>
                   /\ Live(e) /\ Busy(l, k, e)
                   /\ e \in held' => e \in held
                   /\ ~Busy(label, j, e)'
  <2>1. UsesOf(l, k)
    BY <1>22, RangeParts, Zenon
  <2>2. UsesOf(l, k)'
    BY <1>2, <1>16, <1>17, <2>1, Zenon DEF UsesOf
  <2>3. ~Busy(l, k, d)'
    <3>1. /\ ~(Waits(l, k) /\ k.offset = offset)
          /\ ~((Retires(l) \/ Late(l, k)) /\ d = k.desc)
      BY <1>16, <1>18, <1>22, NobodyElse, Zenon
    <3> QED
      BY <1>8, <3>1, Zenon DEF Busy
  <2>4. \A e \in Desc : Live(e)' /\ Busy(l, k, e)' =>
          /\ Live(e) /\ Busy(l, k, e)
          /\ e \in held' => e \in held
          /\ ~Busy(label, j, e)'
    BY <1>2, <1>17, <1>19, <2>3, Zenon
  <2>5. d \notin BlocksOf[u] /\ BlocksOf[u] \subseteq Desc
    BY <1>3, <1>22, BlocksAre, Zenon DEF HugeAssumption
  <2>6. /\ head'[u] = head[u] /\ free'[u] = free[u]
        /\ \A e \in BlocksOf[u] :
             next'[e] = next[e] /\ desc'[e] = desc[e] /\ (e \in popped' <=> e \in popped)
    BY <1>2, <1>7, <1>22, <2>5, Zenon
  <2>7. Simple(u)' /\ Ordered(u)' /\ ShapeOf(u, l, k)' /\ RangesOf(u, l, k)'
    BY <1>22, <2>6, OtherThread, Zenon
  <2> QED
    BY <2>2, <2>4, <2>7, Zenon
<1>23. \A e \in Desc : Live(e)' /\ Busy(label, j, e)' => e \notin held'
  BY <1>2, <1>16, <1>19, <1>21, Zenon DEF HeldLive
<1>24. HeldLive'
  BY <1>2, <1>16, <1>17, <1>21, Zenon DEF HeldLive
<1> QED
  BY <1>2, <1>4, <1>12, <1>13, <1>14, <1>15, <1>20, <1>22, <1>23, <1>24, StepRanges, Zenon

\* The descriptor that reuse takes: the first of the list that is Safe then, or,
\* if none is, one that is not on the list.
LEMMA ChosenFirst ==
  ASSUME HugeAssumption, ClaimInv, NEW t \in Thread, Simple(t)
  PROVE  /\ First(Trace(t), SafeAfter(t)) = None => \A e \in OnList(t) : e \notin SafeAfter(t)
         /\ \A m, n \in 0..DescCount :
              /\ m < n /\ Trace(t)[n] = First(Trace(t), SafeAfter(t))
              /\ First(Trace(t), SafeAfter(t)) # None
              => Trace(t)[m] \notin SafeAfter(t)
<1>1. PICK w, S : w = Trace(t) /\ S = SafeAfter(t)
  BY Zenon
<1>2. \A m, n \in 0..DescCount : w[m] = w[n] /\ w[m] # None => m = n
  BY <1>1, Zenon DEF Simple
<1>3. None \notin S
  BY <1>1, Zenon DEF SafeAfter, Retired, OnList
<1>4. \/ First(w, S) = None /\ \A n \in 0..DescCount : w[n] \notin S
      \/ \E n \in 0..DescCount : /\ First(w, S) = w[n] /\ w[n] \in S
                                /\ \A m \in 0..DescCount : m < n => w[m] \notin S
  BY FirstFacts, Zenon
<1>5. First(w, S) = None => \A n \in 0..DescCount : w[n] \notin S
  BY <1>3, <1>4, Zenon
<1>6. ASSUME NEW m \in 0..DescCount, NEW n \in 0..DescCount, m < n, w[n] = First(w, S),
             First(w, S) # None
      PROVE  w[m] \notin S
  <2>1. PICK i \in 0..DescCount : /\ First(w, S) = w[i] /\ w[i] \in S
                                  /\ \A k \in 0..DescCount : k < i => w[k] \notin S
    BY <1>4, <1>6, Zenon
  <2>2. i = n
    BY <1>2, <1>6, <2>1, Zenon
  <2> QED
    BY <1>6, <2>1, <2>2, Zenon
<1>7. First(Trace(t), SafeAfter(t)) = First(w, S)
  BY <1>1, Zenon
<1>8. First(Trace(t), SafeAfter(t)) = None => \A e \in OnList(t) : e \notin SafeAfter(t)
  BY <1>1, <1>5, <1>7, Zenon DEF OnList
<1> QED
  BY <1>1, <1>6, <1>7, <1>8, Zenon

\* What was freed and nobody protects can be carved, once.
LEMMA ReuseRanges ==
  ASSUME HugeAssumption, ClaimInv, RangeInv, NEW t \in Thread, NEW size \in Sizes, Reuse(t, size)
  PROVE  RangeInv'
<1>1. PICK R : R = Retired(t)
  BY Zenon
<1>2. /\ UNCHANGED <<head, next, popped, held, crashes>> /\ pc[t] = "idle"
      /\ free' = [free EXCEPT ![t] = @ \union UNION {Extent(d) : d \in R}]
      /\ desc' = [d \in Desc |-> IF d \in R THEN [desc[d] EXCEPT !.state = "Safe"] ELSE desc[d]]
      /\ pc' = [pc EXCEPT ![t] = "refresh"]
  BY <1>1, Zenon DEF Reuse, ReuseWith, Turn, BeginRefresh, Goto
<1>3. PICK j \in Job :
        /\ job' = [job EXCEPT ![t] = j]
        /\ j.size = size /\ j.then = "carve" /\ j.desc \in BlocksOf[t]
        /\ j.reuse => j.desc = First(Trace(t), SafeAfter(t)) /\ j.desc \in SafeAfter(t)
        /\ ~j.reuse => First(Trace(t), SafeAfter(t)) = None /\ j.desc \notin popped
  BY ReuseJob, Zenon DEF ClaimInv
<1>4. j.size # 0
  BY <1>3 DEF HugeAssumption
<1>5. Proceeds(t, "refresh", j)
  BY <1>2, <1>3, Zenon DEF Proceeds, Label
<1>6. /\ OnList(t) \subseteq BlocksOf[t] /\ BlocksOf[t] \subseteq Desc
      /\ R \subseteq OnList(t) /\ \A e \in R : desc[e].state = "Free"
      /\ \A e : e \in SafeAfter(t) <=> e \in OnList(t) /\ (Safe(e) \/ e \in R)
  BY <1>1, ThreadFacts, Zenon DEF Retired, SafeAfter, Safe
<1>7. /\ \A e \in R : /\ desc'[e].offset = desc[e].offset /\ desc'[e].size = desc[e].size
                      /\ desc'[e].state = "Safe"
      /\ \A e \in Desc : e \notin R => desc'[e] = desc[e]
  <2>1. desc \in [Desc -> [offset : Nat, size : Nat, state : {"Live", "Free", "Safe"}]]
    BY Zenon DEF ClaimInv, Types
  <2>2. \A e \in Desc : e \notin R => desc'[e] = desc[e]
    BY <1>2, Zenon
  <2>3. ASSUME NEW e \in R
        PROVE  /\ desc'[e].offset = desc[e].offset /\ desc'[e].size = desc[e].size
               /\ desc'[e].state = "Safe"
    <3>1. e \in Desc
      BY <1>6, Zenon
    <3>2. desc[e] \in [offset : Nat, size : Nat, state : {"Live", "Free", "Safe"}]
      BY <2>1, <3>1, Zenon
    <3>3. desc'[e] = [desc[e] EXCEPT !.state = "Safe"]
      BY <1>2, <3>1, Zenon
    <3> QED
      BY <3>2, <3>3
  <2> QED
    BY <2>2, <2>3, Zenon
<1>8. /\ \A e \in Desc : desc'[e].offset = desc[e].offset /\ desc'[e].size = desc[e].size
      /\ \A e \in Desc : Extent(e)' = Extent(e)
      /\ \A e \in Desc : Safe(e)' <=> Safe(e) \/ e \in R
      /\ \A e \in R : ~Safe(e)
  <2>1. \A e \in Desc : desc'[e].offset = desc[e].offset /\ desc'[e].size = desc[e].size
    BY <1>7, Zenon
  <2>2. \A e \in R : ~Safe(e)
    BY <1>6, Zenon DEF Safe
  <2>3. \A e \in Desc : Safe(e)' <=> Safe(e) \/ e \in R
    BY <1>7, Zenon DEF Safe
  <2> QED
    BY <2>1, <2>2, <2>3, Zenon DEF Extent
<1>9. Trace(t)' = Trace(t) /\ \A u \in Thread : OnList(u)' = OnList(u)
  BY <1>2, Zenon DEF OnList, Trace
<1>10. /\ \A e \in Desc : Live(e)' <=> Live(e)
       /\ \A m, k : \A e \in Desc : Busy(m, k, e)' <=> Busy(m, k, e)
  <2>1. \A e \in Desc : desc'[e].state = "Live" <=> desc[e].state = "Live"
    BY <1>6, <1>7, Zenon
  <2> QED
    BY <1>8, <1>9, <2>1, Zenon DEF Live, Busy
<1>11. PICK i : i = job[t]
  BY Zenon
<1>12. ShapeOf(t, "idle", i) /\ RangesOf(t, "idle", i) /\ Simple(t) /\ Ordered(t)
  BY <1>2, <1>11, RangeParts, Zenon
<1>13. OnList(t) \subseteq popped
  BY <1>12, Zenon DEF ShapeOf, Late
<1>14. \A e : e \in Mine(t, "idle", i) <=> e \in BlocksOf[t] /\ ~Safe(e) /\ e \in OnList(t)
  BY Zenon DEF Mine, Linking
<1>15. /\ \A e, f \in Mine(t, "idle", i) : e # f => Extent(e) \intersect Extent(f) = {}
       /\ \A e \in Mine(t, "idle", i) : Extent(e) \intersect free[t] = {} /\ desc[e].size # 0
  BY <1>12, Zenon DEF RangesOf
<1>16. \A n \in 0..DescCount, e \in BlocksOf[t] : Trace(t)[n] = e => e \in OnList(t)
  <2>1. \A e \in BlocksOf[t] : e # None
    BY <1>6, Zenon DEF HugeAssumption, Desc
  <2> QED
    BY <2>1, Zenon DEF OnList
<1>17. Simple(t)'
  BY <1>9, <1>12, Zenon DEF Simple
<1>18. Ordered(t)'
  <2> SUFFICES ASSUME NEW m \in 0..DescCount, NEW n \in 0..DescCount,
                      NEW e \in BlocksOf[t], NEW f \in BlocksOf[t],
                      m < n, Trace(t)[m] = e, Trace(t)[n] = f, Safe(e)', ~Safe(f)'
               PROVE  Extent(e)' \intersect Extent(f)' = {}
    BY <1>9, Zenon DEF Ordered
  <2>1. /\ e \in Desc /\ f \in Desc /\ e # f /\ ~Safe(f) /\ f \notin R /\ (Safe(e) \/ e \in R)
        /\ Extent(e)' = Extent(e) /\ Extent(f)' = Extent(f)
    BY <1>6, <1>8, Zenon
  <2>2. CASE Safe(e)
    BY <1>12, <2>1, <2>2, Zenon DEF Ordered
  <2>3. CASE e \in R
    <3>1. e \in Mine(t, "idle", i) /\ f \in Mine(t, "idle", i)
      BY <1>8, <1>14, <1>16, <2>1, <2>3, Zenon
    <3> QED
      BY <1>15, <2>1, <3>1, Zenon
  <2> QED
    BY <2>1, <2>2, <2>3, Zenon
<1>19. ShapeOf(t, "refresh", j)'
  <2>1. Early("refresh", j) /\ ~Late("refresh", j) /\ ~Linking("refresh")
    BY <1>4, Zenon DEF Early, Late, Linking
  <2>2. OnList(t)' \subseteq popped'
    BY <1>2, <1>9, <1>13, Zenon
  <2>3. \A e \in OnList(t) : Safe(e)' <=> e \in SafeAfter(t)
    BY <1>6, <1>8, Zenon
  <2>4. ASSUME ~j.reuse
        PROVE  j.desc \notin OnList(t)' \union popped' /\ \A e \in OnList(t)' : ~Safe(e)'
    <3>1. \A e \in OnList(t) : e \notin SafeAfter(t)
      BY <1>3, <1>12, <2>4, ChosenFirst, Zenon
    <3> QED
      BY <1>2, <1>3, <1>9, <1>13, <2>3, <2>4, <3>1, Zenon
  <2>5. ASSUME j.reuse
        PROVE  /\ j.desc \in OnList(t)' /\ Safe(j.desc)'
               /\ \A m, n \in 0..DescCount, e \in BlocksOf[t] :
                    m < n /\ Trace(t)'[m] = e /\ Trace(t)'[n] = j.desc => ~Safe(e)'
    <3>1. j.desc \in OnList(t) /\ j.desc \in SafeAfter(t) /\ j.desc = First(Trace(t), SafeAfter(t))
      BY <1>3, <1>6, <2>5, Zenon
    <3>2. j.desc # None
      BY <3>1, Zenon DEF OnList
    <3>3. Safe(j.desc)'
      BY <1>6, <1>8, <3>1, Zenon
    <3>4. ASSUME NEW m \in 0..DescCount, NEW n \in 0..DescCount, NEW e \in BlocksOf[t],
                 m < n, Trace(t)[m] = e, Trace(t)[n] = j.desc
          PROVE  ~Safe(e)'
      <4>1. Trace(t)[m] \notin SafeAfter(t)
        BY <1>12, <3>1, <3>2, <3>4, ChosenFirst, Zenon
      <4>2. e \in OnList(t)
        BY <1>16, <3>4, Zenon
      <4> QED
        BY <2>3, <3>4, <4>1, <4>2, Zenon
    <3> QED
      BY <1>9, <3>1, <3>3, <3>4, Zenon
  <2> QED
    BY <2>1, <2>2, <2>4, <2>5, Zenon DEF ShapeOf
<1>20. RangesOf(t, "refresh", j)'
  <2>1. \A e : e \in Mine(t, "refresh", j)' => e \in Mine(t, "idle", i) /\ e \notin R /\ e \in Desc
    <3> SUFFICES ASSUME NEW e, e \in BlocksOf[t], ~Safe(e)', e \in OnList(t)'
                 PROVE  e \in Mine(t, "idle", i) /\ e \notin R /\ e \in Desc
      BY Zenon DEF Mine, Linking
    <3> QED
      BY <1>6, <1>8, <1>9, <1>14, Zenon
  <2>2. R \subseteq Mine(t, "idle", i)
    BY <1>6, <1>8, <1>14, Zenon
  <2>3. free'[t] = free[t] \union UNION {Extent(d) : d \in R}
    BY <1>2, Zenon DEF ClaimInv, Types
  <2>4. \A e \in Mine(t, "refresh", j)' :
          Extent(e)' \intersect free'[t] = {} /\ desc'[e].size # 0
    <3> SUFFICES ASSUME NEW e \in Mine(t, "refresh", j)'
                 PROVE  Extent(e)' \intersect free'[t] = {} /\ desc'[e].size # 0
      BY Zenon
    <3>1. e \in Mine(t, "idle", i) /\ e \notin R /\ e \in Desc
      BY <2>1, Zenon
    <3>2. \A r \in R : Extent(e) \intersect Extent(r) = {}
      BY <1>15, <2>2, <3>1, Zenon
    <3>3. Extent(e) \intersect free[t] = {} /\ desc[e].size # 0
      BY <1>15, <3>1, Zenon
    <3>4. Extent(e) \intersect free'[t] = {}
      <4>1. \A g : g \in free'[t] => g \in free[t] \/ \E r \in R : g \in Extent(r)
        BY <2>3, Zenon
      <4>2. \A g : g \in Extent(e) => g \notin free[t] /\ \A r \in R : g \notin Extent(r)
        BY <3>2, <3>3, Zenon
      <4> QED
        BY <4>1, <4>2, Zenon
    <3> QED
      BY <1>8, <3>1, <3>3, <3>4, Zenon
  <2>5. \A e, f \in Mine(t, "refresh", j)' : e # f => Extent(e)' \intersect Extent(f)' = {}
    BY <1>8, <1>15, <2>1, Zenon
  <2> QED
    BY <2>4, <2>5, Zenon DEF RangesOf
<1>21. UsesOf("refresh", j)' /\ \A e : ~Busy("refresh", j, e)'
  BY <1>3, Zenon DEF UsesOf, Busy, Waits, Retires, Late, Faults
<1>22. ASSUME NEW u \in Thread, NEW l, NEW k, u # t, l = pc[u], k = job[u]
       PROVE  /\ Simple(u)' /\ Ordered(u)' /\ ShapeOf(u, l, k)' /\ RangesOf(u, l, k)' /\ UsesOf(l, k)'
              /\ \A e \in Desc : Live(e)' /\ Busy(l, k, e)' =>
                   /\ Live(e) /\ Busy(l, k, e)
                   /\ e \in held' => e \in held
                   /\ ~Busy("refresh", j, e)'
  <2>1. UsesOf(l, k)
    BY <1>22, RangeParts, Zenon
  <2>2. UsesOf(l, k)'
    BY <1>2, <1>10, <2>1, Zenon DEF UsesOf
  <2>3. \A e \in BlocksOf[u] : e \notin R /\ e \in Desc
    BY <1>6, <1>22, BlocksAre, Zenon DEF HugeAssumption
  <2>4. /\ head'[u] = head[u] /\ free'[u] = free[u]
        /\ \A e \in BlocksOf[u] :
             next'[e] = next[e] /\ desc'[e] = desc[e] /\ (e \in popped' <=> e \in popped)
    BY <1>2, <1>7, <1>22, <2>3, Zenon DEF ClaimInv, Types
  <2>5. Simple(u)' /\ Ordered(u)' /\ ShapeOf(u, l, k)' /\ RangesOf(u, l, k)'
    BY <1>22, <2>4, OtherThread, Zenon
  <2> QED
    BY <1>2, <1>10, <1>21, <2>2, <2>5, Zenon
<1>23. HeldLive'
  BY <1>2, <1>10, RangeParts, Zenon DEF HeldLive
<1> QED
  BY <1>2, <1>5, <1>17, <1>18, <1>19, <1>20, <1>21, <1>22, <1>23, StepRanges, Zenon

\* At the start no list has a descriptor, and none is in use.
LEMMA InitRanges == HugeAssumption /\ Init => RangeInv
<1> SUFFICES ASSUME HugeAssumption, Init PROVE RangeInv
  BY Zenon
<1>1. ClaimInv
  BY InitClaims, Zenon
<1>2. ASSUME NEW t \in Thread PROVE \A n \in 0..DescCount : Trace(t)[n] = None
  <2>1. PICK first, link : first = head[t] /\ link = next
    BY Zenon
  <2>2. Trace(t) = Walk(first, link) /\ first \in {} \union {None} /\ DescCount \in Nat
    BY <2>1, Zenon DEF Trace, Init, HugeAssumption
  <2>3. \A n \in 0..DescCount : Walk(first, link)[n] \in {} \union {None}
    BY <2>2, WalkStays, Zenon
  <2> QED
    BY <2>2, <2>3, Zenon
<1>3. \A t \in Thread : OnList(t) = {}
  BY <1>2, Zenon DEF OnList
<1>4. ASSUME NEW t \in Thread
      PROVE  Simple(t) /\ Ordered(t) /\ ShapeOf(t, "idle", NoJob) /\ RangesOf(t, "idle", NoJob)
  <2>1. \A d \in BlocksOf[t] : d # None
    BY BlocksAre, Zenon DEF HugeAssumption, Desc
  <2>2. Simple(t) /\ Ordered(t)
    BY <1>2, <2>1, Zenon DEF Simple, Ordered
  <2>3. Mine(t, "idle", NoJob) = {}
    BY <1>3, Zenon DEF Mine, Linking
  <2>4. RangesOf(t, "idle", NoJob)
    BY <2>3, Zenon DEF RangesOf
  <2>5. ShapeOf(t, "idle", NoJob)
    BY <1>3, NoJobIsJob, Zenon DEF ShapeOf, Early, Linking, Late
  <2> QED
    BY <2>2, <2>4, <2>5, Zenon
<1>5. \A t \in Thread : pc[t] = "idle" /\ job[t] = NoJob
  BY Zenon DEF Init
<1>6. Lists /\ Shape /\ Ranges /\ Uses /\ Exclusive
  BY <1>4, <1>5, IdleUses, Zenon DEF Lists, Shape, Ranges, Uses, Exclusive
<1>7. HeldLive /\ crashes \in Nat
  <2>1. crashes \in Nat
    BY DEF Init
  <2> QED
    BY <2>1, Zenon DEF Init, HeldLive
<1> QED
  BY <1>6, <1>7, Zenon DEF RangeInv

\* Without crashes, no thread has to find out what is free.
LEMMA NoCrash ==
  ASSUME MaxCrashes = 0, RangeInv
  PROVE  /\ \A p \in Process : ~Crash(p)
         /\ \A t \in Thread : ~Focus(t)
<1>1. ASSUME NEW p \in Process, Crash(p) PROVE FALSE
  <2>1. crashes < 0
    BY <1>1, Zenon DEF Crash
  <2>2. crashes \in Nat
    BY Zenon DEF RangeInv
  <2> QED
    BY <2>1, <2>2
<1>2. ASSUME NEW t \in Thread, Focus(t) PROVE FALSE
  <2>1. pc[t] # "down"
    BY RangeParts, Zenon DEF ShapeOf
  <2> QED
    BY <1>2, <2>1, Zenon DEF Focus, Turn
<1> QED
  BY <1>1, <1>2, Zenon

\* Every step keeps the ranges apart, unless it is a crash.
LEMMA NextRanges == HugeAssumption /\ MaxCrashes = 0 /\ ClaimInv /\ RangeInv /\ [Next]_vars => RangeInv'
<1> SUFFICES ASSUME HugeAssumption, MaxCrashes = 0, ClaimInv, RangeInv, [Next]_vars PROVE RangeInv'
  BY Zenon
<1>1. CASE UNCHANGED vars
  <2>1. UNCHANGED <<head, next, desc, free, popped, held, crashes, pc, job>>
    BY <1>1, Zenon DEF vars, shared
  <2>2. /\ \A t \in Thread : Trace(t)' = Trace(t) /\ OnList(t)' = OnList(t)
        /\ \A d : Extent(d)' = Extent(d) /\ (Safe(d)' <=> Safe(d)) /\ (Live(d)' <=> Live(d))
        /\ \A label, j, d : Busy(label, j, d)' <=> Busy(label, j, d)
    BY <2>1, Zenon DEF Trace, OnList, Extent, Safe, Live, Busy
  <2>3. Lists'
    BY <2>1, <2>2, Zenon DEF RangeInv, Lists, Simple, Ordered
  <2>4. ASSUME NEW t \in Thread, NEW l, NEW k, l = pc'[t], k = job'[t]
        PROVE  ShapeOf(t, l, k)' /\ RangesOf(t, l, k)'
    <3>1. /\ JobOf(t, l, k) /\ ShapeOf(t, l, k) /\ RangesOf(t, l, k)
          /\ free'[t] = free[t] /\ popped' = popped
      BY <2>1, <2>4, ThreadFacts, RangeParts, Zenon
    <3> QED
      BY <2>1, <3>1, SameThread, Zenon
  <2>5. Shape' /\ Ranges'
    BY <2>4, Zenon DEF Shape, Ranges
  <2>6. Uses' /\ Exclusive'
    BY <2>1, <2>2, Zenon DEF RangeInv, Uses, UsesOf, Exclusive
  <2>7. HeldLive'
    BY <2>1, <2>2, Zenon DEF RangeInv, HeldLive
  <2> QED
    BY <2>1, <2>3, <2>4, <2>5, <2>6, <2>7, Zenon DEF RangeInv
<1>2. /\ \A p \in Process : ~Crash(p)
      /\ \A t \in Thread : ~Focus(t)
  BY NoCrash, Zenon
<1>4. ASSUME NEW t \in Thread,
             \/ \E n \in Sizes : Reuse(t, n)
             \/ \E d \in Desc : Free(t, d) \/ Fault(t, d)
             \/ Refresh(t) \/ RefreshUnmap(t)
             \/ Carve(t) \/ BeginClaim(t) \/ Claim(t) \/ ClaimHint(t) \/ ClaimPanic(t)
             \/ Link(t) \/ SetHead(t) \/ Protect(t) \/ MapRange(t) \/ Pop(t)
             \/ Drop(t) \/ Unprotect(t) \/ Retire(t)
      PROVE  RangeInv'
  <2>1. CASE \E n \in Sizes : Reuse(t, n)
    BY <2>1, ReuseRanges, Zenon
  <2>2. CASE \E d \in Desc : Free(t, d) \/ Fault(t, d)
    BY <2>2, FreeRanges, FaultRanges, Zenon
  <2>3. CASE Refresh(t) \/ RefreshUnmap(t) \/ BeginClaim(t) \/ Protect(t) \/ Unprotect(t)
    BY <2>3, GoingOnRanges, Zenon
  <2>4. CASE Carve(t) \/ Claim(t) \/ ClaimHint(t) \/ ClaimPanic(t)
    BY <2>4, CarveRanges, ClaimRanges, ClaimHintRanges, PanicRanges, Zenon
  <2>5. CASE Link(t) \/ SetHead(t) \/ MapRange(t) \/ Pop(t)
    BY <2>5, LinkRanges, SetHeadRanges, MapRangeRanges, PopRanges, Zenon
  <2>6. CASE Drop(t) \/ Retire(t)
    BY <2>6, DropRanges, RetireRanges, Zenon
  <2> QED
    BY <1>4, <2>1, <2>2, <2>3, <2>4, <2>5, <2>6, Zenon
<1> QED
  BY <1>1, <1>2, <1>4, Zenon DEF Next

\* What is in use is Live: its ranges are apart, searches find it, and lists end.
LEMMA RangesGive ==
  ASSUME HugeAssumption, ClaimInv, RangeInv
  PROVE  RangesExclusive /\ FindIsLive /\ ListsEnd
<1>1. \A d \in held : Live(d)
  BY Zenon DEF RangeInv, HeldLive
<1>2. RangesExclusive
  <2>1. ASSUME NEW d \in held, NEW e \in held, d # e PROVE Extent(d) \intersect Extent(e) = {}
    <3>1. PICK u \in Thread : d \in Mine(u, pc[u], job[u])
      BY <1>1, LiveMine, Zenon
    <3>2. PICK w \in Thread : e \in Mine(w, pc[w], job[w])
      BY <1>1, LiveMine, Zenon
    <3> QED
      BY <2>1, <3>1, <3>2, MineApart, Zenon
  <2>2. ASSUME NEW d \in held, NEW t \in Thread PROVE Extent(d) \intersect free[t] = {}
    <3>1. PICK u \in Thread : d \in Mine(u, pc[u], job[u])
      BY <1>1, LiveMine, Zenon
    <3> QED
      BY <3>1, MineApart, Zenon
  <2> QED
    BY <2>1, <2>2, Zenon DEF RangesExclusive
<1>3. FindIsLive
  BY <1>1, FindsLive, Zenon DEF FindIsLive, Live
<1>4. ASSUME NEW t \in Thread PROVE Trace(t)[DescCount] = None
  <2>1. \A n \in 0..DescCount : Trace(t)[n] \in Desc \union {None}
    BY ThreadFacts, Zenon
  <2>2. PICK first, link : first = head[t] /\ link = next
    BY Zenon
  <2>3. Trace(t) = Walk(first, link) /\ DescCount \in Nat /\ Simple(t)
    BY <2>2, RangeParts, Zenon DEF Trace, HugeAssumption
  <2>4. \A n \in 0..DescCount : Walk(first, link)[n] \in Desc \union {None}
    BY <2>1, <2>3, Zenon
  <2>5. \A m, n \in 0..DescCount :
          Walk(first, link)[m] = Walk(first, link)[n] /\ Walk(first, link)[m] # None => m = n
    BY <2>3, Zenon DEF Simple
  <2>6. Walk(first, link)[DescCount] = None
    BY <2>3, <2>4, <2>5, WalkEnds
  <2> QED
    BY <2>3, <2>6, Zenon
<1> QED
  BY <1>2, <1>3, <1>4, Zenon DEF ListsEnd

\* As long as nobody crashes, no page belongs to two allocations that are in use,
\* nor to one and to what a thread may still carve: allocate (huge.rs:103) takes a
\* range either out of the pages that its thread has claimed or from a descriptor
\* that reuse found Safe.
THEOREM RangesNeverShared ==
  HugeAssumption /\ MaxCrashes = 0 => (Spec => []AddressesExclusive)
<1> SUFFICES ASSUME HugeAssumption, MaxCrashes = 0 PROVE Spec => []AddressesExclusive
  OBVIOUS
<1>1. Init => ClaimInv /\ RangeInv
  BY InitClaims, InitRanges, Zenon
<1>2. ClaimInv /\ RangeInv /\ [Next]_vars => (ClaimInv /\ RangeInv)'
  BY NextClaims, NextRanges, Zenon
<1>3. ClaimInv /\ RangeInv => AddressesExclusive
  BY ClaimsApart, RangesGive, Zenon DEF AddressesExclusive
<1> QED
  BY <1>1, <1>2, <1>3, PTL DEF Spec

\* A free or a fault finds the descriptor of the allocation it was called with,
\* because a search (huge.rs:289) meets every descriptor of a list and ends, also
\* while the list is linked at its head and its descriptors are reused.
THEOREM SearchesFindWhatIsLive ==
  HugeAssumption /\ MaxCrashes = 0 => (Spec => []SearchFindsLive)
<1> SUFFICES ASSUME HugeAssumption, MaxCrashes = 0 PROVE Spec => []SearchFindsLive
  OBVIOUS
<1>1. Init => ClaimInv /\ RangeInv
  BY InitClaims, InitRanges, Zenon
<1>2. ClaimInv /\ RangeInv /\ [Next]_vars => (ClaimInv /\ RangeInv)'
  BY NextClaims, NextRanges, Zenon
<1>3. ClaimInv /\ RangeInv => SearchFindsLive
  BY RangesGive, Zenon DEF SearchFindsLive
<1> QED
  BY <1>1, <1>2, <1>3, PTL DEF Spec

\* Every hazard is the offset of a range that nobody can carve.
Kept(g) == \E w \in Thread : \E d \in Mine(w, pc[w], job[w]) : desc[d].offset = g

HazardInv ==
  hazards \in [Thread -> SUBSET Nat] /\ \A u \in Thread : \A g \in hazards[u] : Kept(g)

\* The steps of a thread that leave its list and its descriptors alone.
Aside(t) ==
  \/ \E d \in Desc : Free(t, d) \/ Fault(t, d)
  \/ Refresh(t) \/ RefreshUnmap(t) \/ BeginClaim(t) \/ Claim(t) \/ ClaimHint(t) \/ ClaimPanic(t)
  \/ Protect(t) \/ MapRange(t) \/ Pop(t) \/ Drop(t) \/ Unprotect(t)

\* Where such steps start and end.
LEMMA AsideSteps ==
  ASSUME ClaimInv, NEW t \in Thread, Aside(t)
  PROVE  /\ UNCHANGED <<head, next, desc>> /\ pc[t] \notin {"link", "set"}
         /\ pc[t] = "carve" => pc'[t] = "claim"
         /\ \A u \in Thread : u # t => pc'[u] = pc[u] /\ job'[u] = job[u]
<1>1. pc \in [Thread -> Label] /\ job \in [Thread -> Job]
  BY Zenon DEF ClaimInv, Types
<1>2. CASE \E d \in Desc : Free(t, d) \/ Fault(t, d)
  BY <1>1, <1>2, Zenon DEF Free, Fault, BeginRefresh, Turn, Goto, shared
<1>3. CASE Refresh(t) \/ RefreshUnmap(t)
  BY <1>1, <1>3, Zenon DEF Refresh, RefreshUnmap, Turn, Goto, shared
<1>4. CASE BeginClaim(t) \/ Claim(t) \/ ClaimHint(t) \/ ClaimPanic(t)
  BY <1>1, <1>4, Zenon DEF BeginClaim, Claim, ClaimHint, ClaimPanic, Turn, Goto, shared
<1>5. CASE Protect(t) \/ MapRange(t) \/ Pop(t)
  BY <1>1, <1>5, Zenon DEF Protect, MapRange, Pop, Turn, Goto, shared
<1>6. CASE Drop(t) \/ Unprotect(t)
  BY <1>1, <1>6, Zenon DEF Drop, Unprotect, Turn, Goto, shared
<1> QED
  BY <1>2, <1>3, <1>4, <1>5, <1>6, Zenon DEF Aside

\* What cannot be carved stays so when it stays on its list or is being linked.
LEMMA MineStays ==
  ASSUME HugeAssumption,
         \A w \in Thread : \A d \in Mine(w, pc[w], job[w]) :
           /\ ~Safe(d)' /\ desc'[d].offset = desc[d].offset
           /\ d \in OnList(w)' \/ (Linking(pc'[w]) /\ d = job'[w].desc)
  PROVE  \A g : Kept(g) => Kept(g)'
<1>1. ASSUME NEW w \in Thread, NEW d \in Mine(w, pc[w], job[w]) PROVE d \in Mine(w, pc[w], job[w])'
  BY Zenon DEF Mine
<1> QED
  BY <1>1, Zenon DEF Kept

\* It does in steps that leave lists and descriptors alone,
LEMMA AsideStays ==
  ASSUME HugeAssumption, ClaimInv, NEW t \in Thread, Aside(t)
  PROVE  \A g : Kept(g) => Kept(g)'
<1>1. /\ UNCHANGED <<head, next, desc>> /\ pc[t] \notin {"link", "set"}
      /\ \A u \in Thread : u # t => pc'[u] = pc[u] /\ job'[u] = job[u]
  BY AsideSteps, Zenon
<1>2. \A u \in Thread : \A d : OnList(u)' = OnList(u) /\ (Safe(d)' <=> Safe(d))
  BY <1>1, Zenon DEF OnList, Trace, Safe
<1>3. ASSUME NEW w \in Thread, NEW d \in Mine(w, pc[w], job[w])
      PROVE  /\ ~Safe(d)' /\ desc'[d].offset = desc[d].offset
             /\ d \in OnList(w)' \/ (Linking(pc'[w]) /\ d = job'[w].desc)
  <2>1. ~Safe(d) /\ (d \in OnList(w) \/ (Linking(pc[w]) /\ d = job[w].desc))
    BY Zenon DEF Mine
  <2>2. CASE w = t
    BY <1>1, <1>2, <2>1, <2>2, Zenon DEF Linking
  <2>3. CASE w # t
    BY <1>1, <1>2, <2>1, <2>3, Zenon DEF Linking
  <2> QED
    BY <2>2, <2>3, Zenon
<1> QED
  BY <1>3, MineStays, Zenon

\* when a descriptor is linked, and when it is retired,
LEMMA ListStays ==
  ASSUME HugeAssumption, ClaimInv, RangeInv, NEW t \in Thread, Link(t) \/ SetHead(t) \/ Retire(t)
  PROVE  \A g : Kept(g) => Kept(g)'
<1>1. pc \in [Thread -> Label] /\ job \in [Thread -> Job] /\ head \in [Thread -> Desc \union {None}]
      /\ desc \in [Desc -> [offset : Nat, size : Nat, state : {"Live", "Free", "Safe"}]]
  BY Zenon DEF ClaimInv, Types
<1>2. CASE Link(t)
  <2>1. /\ desc' = desc /\ job' = job /\ pc[t] = "link" /\ pc'[t] = "set"
        /\ \A u \in Thread : u # t => pc'[u] = pc[u]
    BY <1>1, <1>2, Zenon DEF Link, Turn, Goto
  <2>2. \A u \in Thread : OnList(u)' = OnList(u)
    BY <1>2, LinkLists, Zenon
  <2>3. ASSUME NEW w \in Thread, NEW d \in Mine(w, pc[w], job[w])
        PROVE  /\ ~Safe(d)' /\ desc'[d].offset = desc[d].offset
               /\ d \in OnList(w)' \/ (Linking(pc'[w]) /\ d = job'[w].desc)
    <3>1. ~Safe(d) /\ (d \in OnList(w) \/ (Linking(pc[w]) /\ d = job[w].desc))
      BY Zenon DEF Mine
    <3> QED
      BY <2>1, <2>2, <3>1, Zenon DEF Linking, Safe
  <2> QED
    BY <2>3, MineStays, Zenon
<1>3. CASE SetHead(t)
  <2>1. PICK e : e = job[t].desc
    BY Zenon
  <2>2. /\ desc' = desc /\ next' = next /\ job' = job /\ pc[t] = "set"
        /\ head'[t] = e /\ \A u \in Thread : u # t => pc'[u] = pc[u] /\ head'[u] = head[u]
    BY <1>1, <1>3, <2>1, Zenon DEF SetHead, Turn, Goto
  <2>3. e \in BlocksOf[t] /\ e \notin OnList(t) /\ next[e] = head[t] /\ Simple(t)
    <3>1. JobOf(t, "set", job[t]) /\ ShapeOf(t, "set", job[t]) /\ Simple(t)
      BY <2>2, ThreadFacts, RangeParts, Zenon
    <3> QED
      BY <2>1, <3>1, Zenon DEF JobOf, ShapeOf, Linking
  <2>4. OnList(t)' = OnList(t) \union {e}
    BY <2>2, <2>3, PushedList, Zenon
  <2>5. \A u \in Thread : u # t => OnList(u)' = OnList(u)
    BY <2>2, Zenon DEF OnList, Trace
  <2>6. ASSUME NEW w \in Thread, NEW d \in Mine(w, pc[w], job[w])
        PROVE  /\ ~Safe(d)' /\ desc'[d].offset = desc[d].offset
               /\ d \in OnList(w)' \/ (Linking(pc'[w]) /\ d = job'[w].desc)
    <3>1. ~Safe(d) /\ (d \in OnList(w) \/ (Linking(pc[w]) /\ d = job[w].desc))
      BY Zenon DEF Mine
    <3>2. CASE w = t
      BY <2>1, <2>2, <2>4, <3>1, <3>2, Zenon DEF Safe
    <3>3. CASE w # t
      BY <2>2, <2>5, <3>1, <3>3, Zenon DEF Linking, Safe
    <3> QED
      BY <3>2, <3>3, Zenon
  <2> QED
    BY <2>6, MineStays, Zenon
<1>4. CASE Retire(t)
  <2>1. /\ UNCHANGED <<head, next>> /\ desc' = [desc EXCEPT ![job[t].desc].state = "Free"]
        /\ pc[t] = "retire" /\ \A u \in Thread : u # t => pc'[u] = pc[u] /\ job'[u] = job[u]
    BY <1>1, <1>4, Zenon DEF Retire, Turn, Goto
  <2>2. \A d \in Desc : desc'[d].offset = desc[d].offset /\
                        (desc'[d].state = "Safe" => desc[d].state = "Safe")
    BY <1>1, <2>1
  <2>3. \A u \in Thread : OnList(u)' = OnList(u)
    BY <2>1, Zenon DEF OnList, Trace
  <2>4. ASSUME NEW w \in Thread, NEW d \in Mine(w, pc[w], job[w])
        PROVE  /\ ~Safe(d)' /\ desc'[d].offset = desc[d].offset
               /\ d \in OnList(w)' \/ (Linking(pc'[w]) /\ d = job'[w].desc)
    <3>1. d \in Desc /\ ~Safe(d) /\ (d \in OnList(w) \/ (Linking(pc[w]) /\ d = job[w].desc))
      BY BlocksAre, Zenon DEF Mine
    <3>2. ~Safe(d)' /\ desc'[d].offset = desc[d].offset
      BY <2>2, <3>1, Zenon DEF Safe
    <3>3. CASE w = t
      BY <2>1, <2>3, <3>1, <3>2, <3>3, Zenon DEF Linking
    <3>4. CASE w # t
      BY <2>1, <2>3, <3>1, <3>2, <3>4, Zenon DEF Linking
    <3> QED
      BY <3>3, <3>4, Zenon
  <2> QED
    BY <2>4, MineStays, Zenon
<1> QED
  BY <1>2, <1>3, <1>4, Zenon

\* What carve writes is the descriptor it took, which covered nothing, and what
\* it covers then was free.
LEMMA CarveFacts ==
  ASSUME HugeAssumption, ClaimInv, RangeInv, NEW t \in Thread, Carve(t)
  PROVE  /\ job[t].desc \in Desc /\ UNCHANGED <<head, next, job, hazards>>
         /\ \A w \in Thread : job[t].desc \notin Mine(w, pc[w], job[w])
         /\ \A d \in Desc : d # job[t].desc => desc'[d] = desc[d]
         /\ Extent(job[t].desc)' \subseteq free[t]
         /\ ~Linking(pc[t]) /\ \A u \in Thread : u # t => pc'[u] = pc[u]
<1>1. PICK j, d, offset : j = job[t] /\ d = j.desc /\ offset = FirstFit(t, j.size)
  BY Zenon
<1>2. /\ UNCHANGED <<head, next, job, hazards>> /\ pc[t] = "carve" /\ offset # None
      /\ desc' = [desc EXCEPT ![d] = [offset |-> offset, size |-> j.size, state |-> "Live"]]
      /\ \A u \in Thread : u # t => pc'[u] = pc[u]
  BY <1>1, Zenon DEF Carve, Turn, Goto, ClaimInv, Types
<1>3. d \in BlocksOf[t] /\ d \in Desc /\ j.size # 0
  BY <1>1, <1>2, ThreadFacts, BlocksAre, Zenon DEF JobOf
<1>4. /\ desc'[d] = [offset |-> offset, size |-> j.size, state |-> "Live"]
      /\ \A e \in Desc : e # d => desc'[e] = desc[e]
  BY <1>2, <1>3, Zenon DEF ClaimInv, Types
<1>5. desc'[d].offset = offset /\ desc'[d].size = j.size
  BY <1>4
<1>6. Extent(d)' \subseteq free[t]
  <2>1. Pages(offset, j.size) \subseteq free[t]
    BY <1>1, <1>2, FitIsFree, Zenon DEF ClaimInv
  <2> QED
    BY <1>5, <2>1, Zenon DEF Extent
<1>7. d \in OnList(t) => Safe(d)
  <2>1. ShapeOf(t, "carve", j) /\ Early("carve", j)
    BY <1>1, <1>2, <1>3, RangeParts, Zenon DEF Early
  <2> QED
    BY <1>1, <2>1, Zenon DEF ShapeOf
<1>8. ~Linking(pc[t])
  BY <1>2, Zenon DEF Linking
<1>9. ASSUME NEW w \in Thread, d \in Mine(w, pc[w], job[w]) PROVE FALSE
  <2>1. w = t
    BY <1>3, <1>9, Zenon DEF Mine, HugeAssumption
  <2> QED
    BY <1>7, <1>8, <1>9, <2>1, Zenon DEF Mine
<1> QED
  BY <1>1, <1>2, <1>3, <1>4, <1>6, <1>8, <1>9, Zenon

\* when a range is carved,
LEMMA CarveStays ==
  ASSUME HugeAssumption, ClaimInv, RangeInv, NEW t \in Thread, Carve(t)
  PROVE  \A g : Kept(g) => Kept(g)'
<1>1. /\ UNCHANGED <<head, next, job>> /\ ~Linking(pc[t])
      /\ \A w \in Thread : job[t].desc \notin Mine(w, pc[w], job[w])
      /\ \A d \in Desc : d # job[t].desc => desc'[d] = desc[d]
      /\ \A u \in Thread : u # t => pc'[u] = pc[u]
  BY CarveFacts, Zenon
<1>2. \A u \in Thread : OnList(u)' = OnList(u)
  BY <1>1, Zenon DEF OnList, Trace
<1>3. ASSUME NEW w \in Thread, NEW d \in Mine(w, pc[w], job[w])
      PROVE  /\ ~Safe(d)' /\ desc'[d].offset = desc[d].offset
             /\ d \in OnList(w)' \/ (Linking(pc'[w]) /\ d = job'[w].desc)
  <2>1. d \in Desc /\ ~Safe(d) /\ (d \in OnList(w) \/ (Linking(pc[w]) /\ d = job[w].desc))
    BY BlocksAre, Zenon DEF Mine
  <2>2. desc'[d] = desc[d]
    BY <1>1, <2>1, Zenon
  <2>3. CASE w = t
    BY <1>1, <1>2, <2>1, <2>2, <2>3, Zenon DEF Safe
  <2>4. CASE w # t
    BY <1>1, <1>2, <2>1, <2>2, <2>4, Zenon DEF Safe, Linking
  <2> QED
    BY <2>3, <2>4, Zenon
<1> QED
  BY <1>3, MineStays, Zenon

\* and when what is retired becomes Safe: that is protected by nobody.
LEMMA ReuseStays ==
  ASSUME HugeAssumption, ClaimInv, RangeInv, HazardInv,
         NEW t \in Thread, NEW size \in Sizes, Reuse(t, size)
  PROVE  \A u \in Thread : \A g \in hazards[u] : Kept(g)'
<1>1. /\ UNCHANGED <<head, next, hazards>> /\ pc[t] = "idle"
      /\ desc' = [d \in Desc |-> IF d \in Retired(t) THEN [desc[d] EXCEPT !.state = "Safe"] ELSE desc[d]]
      /\ pc' = [pc EXCEPT ![t] = "refresh"]
  BY Zenon DEF Reuse, ReuseWith, Turn, BeginRefresh, Goto
<1>2. PICK j : job' = [job EXCEPT ![t] = j]
  BY ReuseJob, Zenon DEF ClaimInv
<1>3. \A u \in Thread : u # t => pc'[u] = pc[u] /\ job'[u] = job[u]
  BY <1>1, <1>2, Zenon DEF ClaimInv, Types
<1>4. \A u \in Thread : OnList(u)' = OnList(u)
  BY <1>1, Zenon DEF OnList, Trace
<1>5. ASSUME NEW u \in Thread, NEW g \in hazards[u] PROVE Kept(g)'
  <2>1. PICK w \in Thread : \E d \in Mine(w, pc[w], job[w]) : desc[d].offset = g
    BY Zenon DEF HazardInv, Kept
  <2>2. PICK d \in Mine(w, pc[w], job[w]) : desc[d].offset = g
    BY <2>1, Zenon
  <2>3. /\ d \in BlocksOf[w] /\ d \in Desc /\ ~Safe(d)
        /\ d \in OnList(w) \/ (Linking(pc[w]) /\ d = job[w].desc)
    BY BlocksAre, Zenon DEF Mine
  <2>4. d \notin Retired(t)
    BY <2>2, Zenon DEF Retired, Unprotected
  <2>5. desc'[d] = desc[d]
    BY <1>1, <2>3, <2>4, Zenon
  <2>6. d \in OnList(w)' \/ (Linking(pc'[w]) /\ d = job'[w].desc)
    <3>1. CASE w = t
      BY <1>1, <1>4, <2>3, <3>1, Zenon DEF Linking
    <3>2. CASE w # t
      BY <1>3, <1>4, <2>3, <3>2, Zenon DEF Linking
    <3> QED
      BY <3>1, <3>2, Zenon
  <2>7. d \in Mine(w, pc[w], job[w])'
    BY <2>3, <2>5, <2>6, Zenon DEF Mine, Safe
  <2> QED
    BY <2>2, <2>5, <2>7, Zenon DEF Kept
<1> QED
  BY <1>5, Zenon

\* A hazard that is set is that of a range that nobody can carve.
LEMMA AsideHazards ==
  ASSUME HugeAssumption, ClaimInv, RangeInv, HazardInv, NEW t \in Thread, Aside(t)
  PROVE  HazardInv'
<1>1. hazards \in [Thread -> SUBSET Nat] /\ \A u \in Thread : \A g \in hazards[u] : Kept(g)
  BY Zenon DEF HazardInv
<1>2. \A g : Kept(g) => Kept(g)'
  BY AsideStays, Zenon
<1>3. CASE hazards' \in [Thread -> SUBSET Nat] /\ \A u \in Thread : hazards'[u] \subseteq hazards[u]
  BY <1>1, <1>2, <1>3, Zenon DEF HazardInv
<1>4. CASE Protect(t)
  <2>1. PICK d, g : d = job[t].desc /\ g = desc[d].offset
    BY Zenon
  <2>2. hazards' = [hazards EXCEPT ![t] = @ \union {g}] /\ pc[t] = "protect"
    BY <1>4, <2>1, Zenon DEF Protect, Turn
  <2>3. Live(d)
    <3>1. UsesOf("protect", job[t]) /\ HeldLive
      BY <2>2, RangeParts, Zenon
    <3>2. CASE job[t].size = 0
      BY <2>1, <3>1, <3>2, Zenon DEF UsesOf, Faults, HeldLive
    <3>3. CASE job[t].size # 0
      BY <2>1, <3>1, <3>3, Zenon DEF UsesOf, Late, Busy, Waits
    <3> QED
      BY <3>2, <3>3, Zenon
  <2>4. PICK w \in Thread : d \in BlocksOf[w] /\ d \in Mine(w, pc[w], job[w])
    BY <2>3, LiveMine, Zenon
  <2>5. Kept(g)' /\ g \in Nat
    <3>1. Kept(g)
      BY <2>1, <2>4, Zenon DEF Kept
    <3>2. desc[d] \in [offset : Nat, size : Nat, state : {"Live", "Free", "Safe"}]
      BY <2>4, BlocksAre, Zenon DEF ClaimInv, Types
    <3>3. g \in Nat
      BY <2>1, <3>2
    <3> QED
      BY <1>2, <3>1, <3>3, Zenon
  <2>6. /\ hazards' \in [Thread -> SUBSET Nat]
        /\ \A u \in Thread : \A h \in hazards'[u] : h \in hazards[u] \/ h = g
    BY <1>1, <2>2, <2>5
  <2> QED
    BY <1>1, <1>2, <2>5, <2>6, Zenon DEF HazardInv
<1>5. CASE Refresh(t) \/ Unprotect(t)
  <2>1. \/ hazards' = hazards
        \/ \E h : hazards' = [hazards EXCEPT ![t] = @ \ {h}]
    BY <1>5, Zenon DEF Refresh, Unprotect
  <2>2. hazards' \in [Thread -> SUBSET Nat] /\ \A u \in Thread : hazards'[u] \subseteq hazards[u]
    BY <1>1, <2>1
  <2> QED
    BY <1>3, <2>2, Zenon
<1>6. CASE ~Protect(t) /\ ~Refresh(t) /\ ~Unprotect(t)
  <2>1. hazards' = hazards
    BY <1>6, Zenon DEF Aside, Free, Fault, RefreshUnmap, BeginClaim, Claim, ClaimHint, ClaimPanic,
                       MapRange, Pop, Drop, shared
  <2> QED
    BY <1>1, <1>3, <2>1, Zenon
<1> QED
  BY <1>4, <1>5, <1>6, Zenon

\* Hazards stay those of ranges that nobody can carve.
LEMMA NextHazards ==
  HugeAssumption /\ MaxCrashes = 0 /\ ClaimInv /\ RangeInv /\ HazardInv /\ [Next]_vars => HazardInv'
<1> SUFFICES ASSUME HugeAssumption, MaxCrashes = 0, ClaimInv, RangeInv, HazardInv, [Next]_vars
             PROVE  HazardInv'
  BY Zenon
<1>1. hazards \in [Thread -> SUBSET Nat] /\ \A u \in Thread : \A g \in hazards[u] : Kept(g)
  BY Zenon DEF HazardInv
<1>2. CASE UNCHANGED vars
  <2>1. UNCHANGED <<head, next, desc, pc, job, hazards>>
    BY <1>2, Zenon DEF vars, shared
  <2>2. \A g : Kept(g)' <=> Kept(g)
    BY <2>1, Zenon DEF Kept, Mine, Safe, OnList, Trace
  <2> QED
    BY <1>1, <2>1, <2>2, Zenon DEF HazardInv
<1>3. ASSUME NEW t \in Thread, Aside(t) PROVE HazardInv'
  BY <1>3, AsideHazards, Zenon
<1>4. ASSUME NEW t \in Thread, Link(t) \/ SetHead(t) \/ Retire(t) PROVE HazardInv'
  <2>1. hazards' = hazards
    BY <1>4, Zenon DEF Link, SetHead, Retire
  <2> QED
    BY <1>1, <1>4, <2>1, ListStays, Zenon DEF HazardInv
<1>5. ASSUME NEW t \in Thread, Carve(t) PROVE HazardInv'
  <2>1. hazards' = hazards
    BY <1>5, Zenon DEF Carve
  <2> QED
    BY <1>1, <1>5, <2>1, CarveStays, Zenon DEF HazardInv
<1>6. ASSUME NEW t \in Thread, NEW size \in Sizes, Reuse(t, size) PROVE HazardInv'
  <2>1. hazards' = hazards
    BY <1>6, Zenon DEF Reuse, ReuseWith
  <2> QED
    BY <1>1, <1>6, <2>1, ReuseStays, Zenon DEF HazardInv
<1>7. /\ \A p \in Process : ~Crash(p)
      /\ \A t \in Thread : ~Focus(t)
  BY NoCrash, Zenon
<1> QED
  BY <1>2, <1>3, <1>4, <1>5, <1>6, <1>7, Zenon DEF Next, Aside

\* Only carve writes a descriptor for an allocation, and not over a hazard.
LEMMA CarvesUnprotected ==
  ASSUME HugeAssumption, MaxCrashes = 0, ClaimInv, RangeInv, HazardInv, [Next]_vars
  PROVE  CarvesNoHazard
<1> SUFFICES ASSUME NEW t \in Thread, pc[t] = "carve", pc'[t] \in {"link", "protect"},
                    NEW u \in Thread, NEW g \in hazards[u]
             PROVE  g \notin Pages(desc'[job[t].desc].offset, desc'[job[t].desc].size)
  BY Zenon DEF CarvesNoHazard
<1>1. pc \in [Thread -> Label]
  BY Zenon DEF ClaimInv, Types
<1>2. Carve(t)
  <2>1. pc' # pc
    BY Zenon
  <2>2. ASSUME NEW w \in Thread, Aside(w) PROVE FALSE
    BY <2>2, AsideSteps, Zenon
  <2>3. ASSUME NEW w \in Thread, Link(w) \/ SetHead(w) \/ Retire(w) \/ \E n \in Sizes : Reuse(w, n)
        PROVE  FALSE
    BY <1>1, <2>3, Zenon DEF Link, SetHead, Retire, Reuse, ReuseWith, BeginRefresh, Turn, Goto
  <2>4. ASSUME NEW w \in Thread, Carve(w), w # t PROVE FALSE
    BY <2>4, CarveFacts, Zenon
  <2>5. /\ \A p \in Process : ~Crash(p)
        /\ \A w \in Thread : ~Focus(w)
    BY NoCrash, Zenon
  <2>6. ~UNCHANGED vars
    BY <2>1, Zenon DEF vars
  <2> QED
    BY <2>2, <2>3, <2>4, <2>5, <2>6, Zenon DEF Next, Aside
<1>3. Extent(job[t].desc)' \subseteq free[t] /\ job' = job
  BY <1>2, CarveFacts, Zenon
<1>4. PICK w \in Thread : \E d \in Mine(w, pc[w], job[w]) : desc[d].offset = g
  BY Zenon DEF HazardInv, Kept
<1>5. g \notin free[t]
  <2>1. PICK d \in Mine(w, pc[w], job[w]) : desc[d].offset = g
    BY <1>4, Zenon
  <2>2. desc[d].offset \in Extent(d) /\ Extent(d) \intersect free[t] = {}
    BY MineApart, Zenon
  <2> QED
    BY <2>1, <2>2, Zenon
<1> QED
  BY <1>3, <1>5, Zenon DEF Extent

\* The pages that carve turns to another allocation carry no hazard of any thread:
\* a hazard (huge.rs:259) is the offset of a range that stays in use until its
\* holder has unmapped it.
THEOREM HazardsAreKept ==
  HugeAssumption /\ MaxCrashes = 0 => (Spec => HazardProtects)
<1> SUFFICES ASSUME HugeAssumption, MaxCrashes = 0 PROVE Spec => HazardProtects
  OBVIOUS
<1>1. Init => ClaimInv /\ RangeInv /\ HazardInv
  <2>1. Init => HazardInv
    BY Zenon DEF Init, HazardInv
  <2> QED
    BY <2>1, InitClaims, InitRanges, Zenon
<1>2. ClaimInv /\ RangeInv /\ HazardInv /\ [Next]_vars => (ClaimInv /\ RangeInv /\ HazardInv)'
  BY NextClaims, NextRanges, NextHazards, Zenon
<1>3. ClaimInv /\ RangeInv /\ HazardInv /\ [Next]_vars => [CarvesNoHazard]_vars
  BY CarvesUnprotected, Zenon
<1> QED
  BY <1>1, <1>2, <1>3, PTL DEF Spec, HazardProtects

=============================================================================
