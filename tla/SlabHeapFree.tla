---------------------------- MODULE SlabHeapFree ----------------------------
(***************************************************************************)
(* The steps of a free, and of the return of slabs to the global stack,    *)
(* preserve the invariant of SlabHeap.                                     *)
(***************************************************************************)
EXTENDS SlabHeapInvariant, FiniteSetTheorems

\* The free and live blocks of a slab in use are finite sets.
LEMMA ConservedFinite ==
  ASSUME NEW s, Conserved(s)
  PROVE  /\ IsFiniteSet(free[s]) /\ Cardinality(free[s]) \in Nat
         /\ IsFiniteSet(live[s]) /\ Cardinality(live[s]) \in Nat
<1>1. Count[class[s]] \in Nat
  BY ConstantsAssumption DEF Conserved
<1>2. IsFiniteSet(Blocks(class[s]))
  BY <1>1, FS_Interval DEF Blocks
<1>3. IsFiniteSet(free[s]) /\ IsFiniteSet(live[s])
  BY <1>2, FS_Subset DEF Conserved
<1> QED BY <1>3, FS_CardinalityType

\* The blocks of a class are as many as its count.
LEMMA BlocksCounted ==
  ASSUME NEW c \in Class
  PROVE  Cardinality(Blocks(c)) = Count[c] /\ Cardinality({}) = 0
<1>1. Count[c] \in Nat \ {0}
  BY ConstantsAssumption
<1> QED
  BY <1>1, FS_Interval, FS_EmptySet DEF Blocks

\* Heap::free's read of the owner.
LEMMA FreeInv ==
  ASSUME IInv, NEW t \in Thread, NEW s \in Slab, NEW b \in live[s], Free(t, s, b)
  PROVE  IInv'
<1>1. /\ pc[t] = "idle" /\ ~Busy(s, b)
      /\ UNCHANGED <<meta, stack, bump, live, cls>>
      /\ pc' = [pc EXCEPT ![t] = IF owner[s] = t THEN "local" ELSE "remote"]
      /\ cur' = [cur EXCEPT ![t] = s] /\ blk' = [blk EXCEPT ![t] = b]
  BY DEF Free, Goto, Work
<1>2. b \in Nat
  BY DEF IInv, TypeOK
<1>3. TypeOK' /\ pc'[t] \in {"local", "remote"} /\ cur'[t] = s /\ blk'[t] = b
  BY <1>1, <1>2, Zenon DEF IInv, TypeOK, PCs, meta
<1>4. \A u \in Thread : u # t => /\ pc'[u] = pc[u] /\ cls'[u] = cls[u]
                               /\ cur'[u] = cur[u] /\ blk'[u] = blk[u]
  BY <1>1 DEF IInv, TypeOK
<1>5. pc'[t] = IF owner[s] = t THEN "local" ELSE "remote"
  BY <1>1 DEF IInv, TypeOK
<1>6. OpOf(t)'
  BY <1>1, <1>3, <1>5 DEF OpOf, BlockPCs, meta
<1>7. \A u \in Thread : ~(cur[u] = cur'[t] /\ blk[u] = blk'[t])
  BY <1>1, <1>3 DEF Busy
<1> QED BY <1>1, <1>3, <1>4, <1>6, <1>7, StillInv

\* A slab with a live block is in use: it is in a sized stack of its owner, or
\* detached, and its counter counts that block.
LEMMA LiveSlab ==
  ASSUME IInv, NEW s \in Slab, NEW b \in live[s]
  PROVE  /\ Conserved(s) /\ s < bump /\ b \notin free[s]
         /\ remote[s] > Cardinality(free[s])
         /\ remote[s] = 1 => free[s] = {} /\ live[s] = {b}
         /\ \A k \in Keys : s \in E(k) =>
              free[s] # {} /\ \E t \in Thread, c \in Class : k = Sized(t, c)
         /\ \A t \in Thread, c \in Class : s \in E(Sized(t, c)) => owner[s] = t /\ class[s] = c
         /\ free[s] # {} => \E t \in Thread, c \in Class : s \in E(Sized(t, c))
<1> USE KeyFacts
<1>1. UseOf(s) /\ live[s] # {} /\ bump \in Nat /\ s \in Nat
  BY DEF IInv, Uses, TypeOK, Slab
<1>2. s < bump
  BY <1>1, SMTT(30) DEF UseOf
<1>3. ASSUME NEW k \in Keys, s \in E(k)
      PROVE  \E t \in Thread, c \in Class : k = Sized(t, c) /\ s \in E(Sized(t, c))
  BY <1>1, <1>3 DEF UseOf, Keys
<1>4. /\ \A t \in Thread, c \in Class : s \in E(Sized(t, c)) =>
           owner[s] = t /\ class[s] = c /\ free[s] # {} /\ Conserved(s)
      /\ (\A k \in Keys : s \notin E(k)) => free[s] = {} /\ Conserved(s)
  BY <1>1, <1>2, Zenon DEF UseOf
<1>5. Conserved(s)
  BY <1>3, <1>4, Zenon
<1>6. Cardinality(live[s]) > 0 /\ Cardinality(live[s]) \in Nat /\ Cardinality(free[s]) \in Nat
  BY <1>1, <1>5, ConservedFinite, FS_EmptySet
<1>7. remote[s] = Cardinality(free[s]) + Cardinality(live[s]) /\ b \notin free[s]
  BY <1>5, Zenon DEF Conserved
<1>8. ASSUME remote[s] = 1 PROVE free[s] = {} /\ live[s] = {b}
  <2>1. Cardinality(free[s]) = 0 /\ Cardinality(live[s]) = 1
    BY <1>6, <1>7, <1>8
  <2> QED BY <1>5, <2>1, ConservedFinite, FS_EmptySet, FS_Singleton
<1> QED BY <1>2, <1>3, <1>4, <1>5, <1>6, <1>7, <1>8, SMTT(30)

\* The owner's half of Heap::free: a live block becomes a free bit; the slab is
\* attached with its first free bit and unsized with its last.
LEMMA FreeLocalInv ==
  ASSUME IInv, NEW t \in Thread, FreeLocal(t)
  PROVE  IInv'
<1> USE KeyFacts
<1>1. PICK s \in Slab : /\ s = cur[t] /\ blk[t] \in live[s] /\ pc[t] = "local"
                        /\ owner[s] = t
  BY Zenon DEF FreeLocal, IInv, Ops, OpOf, BlockPCs
<1>2. PICK b \in live[s] : b = blk[t] /\ b \in Nat
  BY <1>1 DEF IInv, TypeOK
<1>3. /\ Conserved(s) /\ s < bump /\ b \notin free[s]
      /\ \A k \in Keys : s \in E(k) =>
           free[s] # {} /\ \E u \in Thread, c \in Class : k = Sized(u, c)
      /\ \A u \in Thread, c \in Class : s \in E(Sized(u, c)) => owner[s] = u /\ class[s] = c
      /\ free[s] # {} => \E u \in Thread, c \in Class : s \in E(Sized(u, c))
  BY LiveSlab, Zenon
<1>4. PICK c \in Class : c = class[s] /\ Count[c] \in Nat \ {0}
  BY <1>3, ConstantsAssumption, Zenon DEF Conserved
<1> DEFINE k0 == Sized(t, c)
           k1 == Unsized(t)
           f  == free[s] \union {b}
           a  == IF Cardinality(f) = 1 THEN <<s>> \o stack[k0] ELSE stack[k0]
<1>5. /\ free' = [free EXCEPT ![s] = f]
      /\ live' = [live EXCEPT ![s] = @ \ {b}]
      /\ cur' = [cur EXCEPT ![t] = None] /\ blk' = [blk EXCEPT ![t] = None]
      /\ UNCHANGED <<owner, class, remote, bump, cls>>
      /\ \/ /\ Cardinality(f) < Count[c]
            /\ stack' = [stack EXCEPT ![k0] = a] /\ pc' = [pc EXCEPT ![t] = "idle"]
         \/ /\ ~(Cardinality(f) < Count[c])
            /\ \E p \in 1..Len(a) :
                 /\ a[p] = s
                 /\ stack' = [stack EXCEPT ![k0] = RemoveAt(a, p), ![k1] = <<s>> \o @]
            /\ pc' = [pc EXCEPT ![t] = "flush"]
  BY <1>1, <1>2, <1>4, Zenon DEF FreeLocal, Goto, Work
<1>6. /\ k0 \in Keys /\ k1 \in Keys /\ k0 # k1
      /\ stack[k0] \in Seq(Slab) /\ Inj(stack[k0])
      /\ stack[k1] \in Seq(Slab) /\ Inj(stack[k1])
      /\ \A k \in Keys : k # k0 => s \notin E(k)
      /\ s \in E(k0) <=> free[s] # {}
  <2>1. /\ k0 \in Keys /\ k1 \in Keys /\ k0 # k1
        /\ stack[k0] \in Seq(Slab) /\ Inj(stack[k0])
        /\ stack[k1] \in Seq(Slab) /\ Inj(stack[k1])
    BY Zenon DEF IInv, TypeOK, Places
  <2> QED BY <1>1, <1>3, <1>4, <2>1, SMTT(30)
<1>7. /\ Cardinality(f) = Cardinality(free[s]) + 1 /\ IsFiniteSet(f)
      /\ Cardinality(live[s] \ {b}) = Cardinality(live[s]) - 1 /\ IsFiniteSet(live[s] \ {b})
      /\ Cardinality(free[s]) \in Nat /\ Cardinality(live[s]) \in Nat
      /\ Cardinality(free[s]) = 0 <=> free[s] = {}
  BY <1>3, ConservedFinite, FS_AddElement, FS_RemoveElement, FS_EmptySet, Zenon
<1>8. /\ free'[s] = f /\ live'[s] = live[s] \ {b}
      /\ \A x \in Slab : x # s => free'[x] = free[x] /\ live'[x] = live[x]
      /\ free' \in [Slab -> SUBSET Nat] /\ live' \in [Slab -> SUBSET Nat]
  BY <1>2, <1>5, Zenon DEF IInv, TypeOK
<1> HIDE DEF k0, k1, f
<1>9. a \in Seq(Slab) /\ Inj(a) /\ Elems(a) = E(k0) \union {s}
  <2>1. CASE free[s] = {}
    <3>1. a = <<s>> \o stack[k0] /\ s \notin E(k0)
      BY <1>6, <1>7, <2>1, SMTT(30)
    <3> HIDE DEF a
    <3> QED BY <1>6, <3>1, PushElems, Zenon DEF E
  <2>2. CASE free[s] # {}
    BY <1>6, <1>7, <2>2, SMTT(30) DEF E
  <2> QED BY <2>1, <2>2, Zenon
<1> HIDE DEF a
<1>10. Conserved(s)' /\ free'[s] # {}
  <2>1. class'[s] = class[s] /\ remote'[s] = remote[s]
    BY <1>5, Zenon
  <2>2. Cardinality(free'[s]) + Cardinality(live'[s]) = Cardinality(free[s]) + Cardinality(live[s])
    BY <1>7, <1>8, SMTT(30)
  <2>3. free'[s] \union live'[s] = free[s] \union live[s] /\ free'[s] \intersect live'[s] = {}
    BY <1>3, <1>8, SMTT(30) DEF f, Conserved
  <2> QED BY <1>3, <1>8, <2>1, <2>2, <2>3, Zenon DEF Conserved, f
<1>11. /\ \A u \in Thread : u # t => /\ pc'[u] = pc[u] /\ cls'[u] = cls[u]
                                   /\ cur'[u] = cur[u] /\ blk'[u] = blk[u]
       /\ cur'[t] = None /\ blk'[t] = None
       /\ pc'[t] = IF Cardinality(f) < Count[c] THEN "idle" ELSE "flush"
  BY <1>5 DEF IInv, TypeOK
<1>12. /\ pc' \in [Thread -> PCs] /\ cur' \in [Thread -> Slab \union {None}]
       /\ blk' \in [Thread -> Nat \union {None}]
  BY <1>5, Zenon DEF IInv, TypeOK, PCs
<1>13. stack[Hand(t)] = <<>> /\ E(Hand(t)) = {} /\ bump \in Nat
  BY <1>1, EmptyElems, Zenon DEF IInv, Hands, E, TypeOK
<1>14. ASSUME \A k \in Keys, x \in Slab : x # s => (x \in E(k)' <=> x \in E(k))
       PROVE  Ops'
  <2>1. ASSUME NEW u \in Thread, u # t PROVE OpOf(u)'
    <3>1. OpOf(u) /\ owner' = owner
      BY <1>5, Zenon DEF IInv, Ops
    <3>2. pc[u] \in BlockPCs => cur[u] \in Slab /\ blk[u] \in live'[cur[u]]
      <4>1. pc[u] \in BlockPCs => /\ cur[u] \in Slab /\ blk[u] \in live[cur[u]]
                                  /\ ~(cur[u] = s /\ blk[u] = b)
        BY <1>1, <1>2, <2>1, <3>1, Zenon DEF IInv, Ops, OpOf
      <4> QED BY Zenon, <1>8, <4>1
    <3>3. pc[u] \in {"detach", "disown"} => cur[u] \in Slab /\ cur[u] # s
      BY <1>1, <2>1, <3>1, Zenon DEF OpOf, BlockPCs
    <3>4. pc[u] \in {"detach", "disown"} => \A k \in Keys : cur[u] \notin E(k)'
      BY <1>14, <3>1, <3>3, Zenon DEF OpOf
    <3>5. pc[u] = "remote" => owner'[cur[u]] # u
      BY <3>1, Zenon DEF OpOf
    <3> QED BY <1>11, <2>1, <3>1, <3>2, <3>4, <3>5, OpFrame, Zenon
  <2>2. OpOf(t)' /\ pc'[t] \notin BlockPCs
    BY <1>11, Zenon DEF OpOf, BlockPCs
  <2> QED BY <1>11, <2>1, <2>2, UniqueFrame, Zenon
<1>15. ASSUME \A k \in Keys, x \in Slab : x # s => (x \in E(k)' <=> x \in E(k)),
              NEW x \in Slab, x # s
       PROVE  UseOf(x)'
  BY <1>5, <1>8, <1>11, <1>13, <1>15, UseFrame, Zenon DEF IInv, Uses
<1>16. CASE Cardinality(f) < Count[c]
  <2>1. stack' = [stack EXCEPT ![k0] = a] /\ pc'[t] = "idle"
    BY <1>5, <1>11, <1>16, Zenon
  <2>2. /\ stack'[k0] = a /\ \A k \in Keys : k # k0 => stack'[k] = stack[k]
        /\ stack' \in [Keys -> Seq(Slab)]
    BY <1>6, <1>9, <2>1, Zenon DEF IInv, TypeOK
  <2>3. /\ E(k0)' = E(k0) \union {s} /\ \A k \in Keys : k # k0 => E(k)' = E(k)
        /\ \A k \in Keys : Inj(stack[k])'
    BY <1>9, <2>2, Zenon DEF E, IInv, Places
  <2>4. /\ \A k \in Keys, x \in Slab : x # s => (x \in E(k)' <=> x \in E(k))
        /\ \A k \in Keys : s \in E(k)' <=> k = k0
    BY <1>6, <2>3, SMTT(30)
  <2>5. TypeOK'
    BY <1>5, <1>8, <1>12, <2>2, Zenon DEF IInv, TypeOK
  <2>6. Places'
    <3>1. bump' \in Nat /\ bump <= bump' /\ s < bump' /\ \A k \in Keys : E(k)' \subseteq Slab
      BY <1>3, <1>5, <1>13, <2>2, SMTT(30) DEF E, Elems
    <3> QED BY <2>3, <2>4, <3>1, PlacesMoveOne, Zenon
  <2>7. Hands'
    BY <1>11, <1>13, <2>1, <2>2, HandsFrame, SMTT(30) DEF k0
  <2>8. UseOf(s)'
    <3>1. bump' = bump /\ owner'[s] = t /\ class'[s] = c /\ ~(s >= bump)
      BY <1>1, <1>3, <1>4, <1>5, <1>13, SMTT(30) DEF Slab
    <3> QED BY <1>10, <2>4, <3>1, UseSized, SMTT(30) DEF k0
  <2> QED BY <1>14, <1>15, <2>4, <2>5, <2>6, <2>7, <2>8, Zenon DEF IInv, Uses
<1>17. CASE ~(Cardinality(f) < Count[c])
  <2>1. PICK p \in 1..Len(a) :
          a[p] = s /\ stack' = [stack EXCEPT ![k0] = RemoveAt(a, p), ![k1] = <<s>> \o @]
    BY <1>5, <1>17, Zenon
  <2>2. /\ RemoveAt(a, p) \in Seq(Slab) /\ Inj(RemoveAt(a, p))
        /\ Elems(RemoveAt(a, p)) = (E(k0) \union {s}) \ {s}
    BY <1>9, <2>1, RemoveAtElems, Zenon
  <2>3. /\ <<s>> \o stack[k1] \in Seq(Slab) /\ Inj(<<s>> \o stack[k1])
        /\ Elems(<<s>> \o stack[k1]) = E(k1) \union {s}
    BY <1>6, PushElems, Zenon DEF E
  <2>4. /\ stack'[k0] = RemoveAt(a, p) /\ stack'[k1] = <<s>> \o stack[k1]
        /\ \A k \in Keys : k # k0 /\ k # k1 => stack'[k] = stack[k]
        /\ stack' \in [Keys -> Seq(Slab)]
    BY <1>6, <2>1, <2>2, <2>3, Zenon DEF IInv, TypeOK
  <2>5. /\ E(k0)' = (E(k0) \union {s}) \ {s} /\ E(k1)' = E(k1) \union {s}
        /\ \A k \in Keys : k # k0 /\ k # k1 => E(k)' = E(k)
        /\ \A k \in Keys : Inj(stack[k])'
    BY <2>2, <2>3, <2>4, Zenon DEF E, IInv, Places
  <2>6. /\ \A k \in Keys, x \in Slab : x # s => (x \in E(k)' <=> x \in E(k))
        /\ \A k \in Keys : s \in E(k)' <=> k = k1
    BY <1>6, <2>5, SMTT(30)
  <2>7. TypeOK'
    BY <1>5, <1>8, <1>12, <2>4, Zenon DEF IInv, TypeOK
  <2>8. Places'
    <3>1. bump' \in Nat /\ bump <= bump' /\ s < bump' /\ \A k \in Keys : E(k)' \subseteq Slab
      BY <1>3, <1>5, <1>13, <2>4, SMTT(30) DEF E, Elems
    <3> QED BY <2>5, <2>6, <3>1, PlacesMoveOne, SMTT(30)
  <2>9. Hands'
    <3>1. pc'[t] = "flush"
      BY <1>11, <1>17, Zenon
    <3>2. /\ \A u \in Thread : u # t => /\ stack'[Hand(u)] = stack[Hand(u)]
                                       /\ stack'[Unsized(u)] = stack[Unsized(u)]
          /\ stack'[Hand(t)] = <<>>
      BY <1>13, <2>4, Zenon DEF k0, k1
    <3> QED BY <1>11, <3>1, <3>2, HandsFrame, Zenon
  <2>10. live'[s] = {}
    <3>1. /\ IsFiniteSet(Blocks(c)) /\ Cardinality(Blocks(c)) = Count[c]
      <4>1. Count[c] \in Int /\ 1 \in Int /\ ~(1 > Count[c]) /\ Count[c] - 1 + 1 = Count[c]
        BY <1>4, SMTT(30)
      <4> QED BY <4>1, FS_Interval, Zenon DEF Blocks
    <3>2. f \subseteq Blocks(c) /\ live[s] \ {b} \subseteq Blocks(c) /\ f \intersect (live[s] \ {b}) = {}
      BY <1>3, <1>4, SMTT(30) DEF Conserved, f
    <3>3. Cardinality(f) <= Cardinality(Blocks(c)) /\ (Cardinality(Blocks(c)) = Cardinality(f) => Blocks(c) = f)
      BY <3>1, <3>2, FS_Subset, Zenon
    <3>4. Cardinality(f) = Count[c]
      BY <1>4, <1>7, <1>17, <3>1, <3>3, SMTT(30)
    <3> QED BY <1>8, <3>1, <3>2, <3>3, <3>4, Zenon
  <2>11. UseOf(s)'
    <3>1. bump' = bump /\ owner'[s] = t /\ ~(s >= bump)
      BY <1>1, <1>3, <1>5, <1>13, SMTT(30) DEF Slab
    <3> QED BY <2>6, <2>10, <3>1, UseUnsized, Zenon DEF k1
  <2> QED BY <1>14, <1>15, <2>6, <2>7, <2>8, <2>9, <2>11, Zenon DEF IInv, Uses
<1> QED BY <1>16, <1>17, Zenon

\* free_remote: the counter and the live blocks go down together; the thread
\* that takes the counter to zero holds the only reference to the slab.
LEMMA FreeRemoteInv ==
  ASSUME IInv, NEW t \in Thread, FreeRemote(t)
  PROVE  IInv'
<1> USE KeyFacts
<1>1. PICK s \in Slab : s = cur[t] /\ blk[t] \in live[s] /\ pc[t] = "remote"
  BY Zenon DEF FreeRemote, IInv, Ops, OpOf, BlockPCs
<1>2. PICK b \in live[s] : s = cur[t] /\ b = blk[t] /\ pc[t] = "remote" /\ b \in Nat
  BY <1>1 DEF IInv, TypeOK
<1>3. /\ Conserved(s) /\ s < bump /\ b \notin free[s]
      /\ remote[s] > Cardinality(free[s])
      /\ remote[s] = 1 => free[s] = {} /\ live[s] = {b}
      /\ \A k \in Keys : s \in E(k) =>
           free[s] # {} /\ \E u \in Thread, c \in Class : k = Sized(u, c)
      /\ free[s] # {} => \E u \in Thread, c \in Class : s \in E(Sized(u, c))
  BY <1>2, LiveSlab, Zenon
<1>4. /\ remote' = [remote EXCEPT ![s] = @ - 1]
      /\ live' = [live EXCEPT ![s] = @ \ {b}]
      /\ UNCHANGED <<owner, class, free, bump, cls>>
      /\ cur' = [cur EXCEPT ![t] = None] /\ blk' = [blk EXCEPT ![t] = None]
      /\ \/ /\ remote[s] = 1 /\ stack' = [stack EXCEPT ![Hand(t)] = <<s>>]
            /\ pc' = [pc EXCEPT ![t] = "claim"]
         \/ /\ remote[s] # 1 /\ pc' = [pc EXCEPT ![t] = "idle"] /\ stack' = stack
  BY <1>2, Zenon DEF FreeRemote, Goto, Work
<1>5. remote[s] \in Nat /\ remote[s] > 0 /\ Cardinality(free[s]) \in Nat
  BY <1>3, ConservedFinite DEF IInv, TypeOK
<1>6. /\ remote'[s] = remote[s] - 1 /\ live'[s] = live[s] \ {b}
      /\ \A x \in Slab : x # s => remote'[x] = remote[x] /\ live'[x] = live[x]
      /\ remote' \in [Slab -> Nat] /\ live' \in [Slab -> SUBSET Nat]
  BY <1>4, <1>5 DEF IInv, TypeOK
<1>7. /\ \A u \in Thread : u # t => /\ pc'[u] = pc[u] /\ cls'[u] = cls[u]
                                  /\ cur'[u] = cur[u] /\ blk'[u] = blk[u]
      /\ cur'[t] = None /\ blk'[t] = None
      /\ pc'[t] = IF remote[s] = 1 THEN "claim" ELSE "idle"
  BY <1>4 DEF IInv, TypeOK
<1>8. /\ pc' \in [Thread -> PCs] /\ cur' \in [Thread -> Slab \union {None}]
      /\ blk' \in [Thread -> Nat \union {None}]
  BY <1>4, Zenon DEF IInv, TypeOK, PCs
<1>9. stack[Hand(t)] = <<>> /\ E(Hand(t)) = {}
  BY <1>2, EmptyElems, Zenon DEF IInv, Hands, E
<1>10. stack' \in [Keys -> Seq(Slab)]
  <2>1. <<s>> \in Seq(Slab)
    BY SingletonElems, Zenon
  <2> QED BY <1>4, <2>1, Zenon DEF IInv, TypeOK
<1>11. TypeOK'
  BY <1>4, <1>6, <1>8, <1>10, Zenon DEF IInv, TypeOK
<1>12. ASSUME NEW u \in Thread, u # t, pc[u] \in BlockPCs
       PROVE  cur[u] \in Slab /\ blk[u] \in live'[cur[u]]
  <2>1. cur[u] \in Slab /\ blk[u] \in live[cur[u]] /\ ~(cur[u] = s /\ blk[u] = b)
    BY <1>2, <1>12, Zenon DEF IInv, Ops, OpOf, BlockPCs
  <2> QED BY <1>6, <2>1, Zenon
<1>13. ASSUME \A k \in Keys : cur[t] \in E(k)' => cur[t] \in E(k) \/ live'[s] = {},
              \A k \in Keys, x \in Slab : x # s => (x \in E(k)' <=> x \in E(k))
       PROVE  Ops'
  <2>1. ASSUME NEW u \in Thread, u # t PROVE OpOf(u)'
    <3>1. OpOf(u) /\ owner' = owner
      BY <1>4, Zenon DEF IInv, Ops
    <3>2. pc[u] \in {"detach", "disown"} => \A k \in Keys : cur[u] \notin E(k)'
      BY <1>2, <1>12, <1>13, <2>1, <3>1, Zenon DEF OpOf, BlockPCs
    <3>3. pc[u] = "remote" => owner'[cur[u]] # u
      BY <3>1, Zenon DEF OpOf
    <3> QED BY <1>7, <1>12, <2>1, <3>1, <3>2, <3>3, OpFrame, Zenon
  <2>2. OpOf(t)'
    BY <1>7, Zenon DEF OpOf, BlockPCs
  <2> QED BY <1>7, <2>1, <2>2, UniqueFrame, Zenon DEF BlockPCs
<1>14. CASE remote[s] = 1
  <2>1. live'[s] = {} /\ free'[s] = {} /\ pc'[t] = "claim" /\ \A k \in Keys : s \notin E(k)
    BY <1>3, <1>4, <1>6, <1>7, <1>14, Zenon
  <2>2. /\ stack'[Hand(t)] = <<s>> /\ \A k \in Keys : k # Hand(t) => stack'[k] = stack[k]
    BY <1>4, <1>14, Zenon DEF IInv, TypeOK
  <2>3. /\ E(Hand(t))' = {s} /\ \A k \in Keys : k # Hand(t) => E(k)' = E(k)
        /\ \A k \in Keys : Inj(stack[k])' /\ Len(stack'[Hand(t)]) = 1
    BY <2>2, SingletonElems, Zenon DEF E, IInv, Places
  <2>4. /\ \A k \in Keys, x \in Slab : x # s => (x \in E(k)' <=> x \in E(k))
        /\ \A k \in Keys : s \in E(k)' <=> k = Hand(t)
    BY <1>9, <2>1, <2>3, SMTT(30)
  <2>5. Places'
    <3>1. bump \in Nat /\ bump' = bump
      BY <1>4, Zenon DEF IInv, TypeOK
    <3>2. bump' \in Nat /\ bump <= bump' /\ s < bump'
      BY <1>3, <3>1
    <3>3. \A k \in Keys : E(k)' \subseteq Slab
      BY <1>10 DEF TypeOK, E, Elems
    <3> QED BY <2>3, <2>4, <3>2, <3>3, PlacesMoveOne, SMTT(30)
  <2>6. Hands'
    <3>1. \A u \in Thread : u # t => /\ stack'[Hand(u)] = stack[Hand(u)]
                                    /\ stack'[Unsized(u)] = stack[Unsized(u)]
      BY <2>2, Zenon
    <3> QED BY <1>7, <2>1, <2>3, <3>1, HandsFrame, Zenon
  <2>7. ASSUME NEW x \in Slab, x # s PROVE UseOf(x)'
    BY <1>4, <1>6, <1>7, <1>9, <2>4, <2>7, UseFrame, SMTT(30) DEF IInv, Uses
  <2>8. UseOf(s)'
    <3>1. ~(s >= bump')
      BY <1>3, <1>4, Below
    <3> QED BY <2>1, <2>4, <3>1, UseHand, Zenon
  <2>9. Ops'
    BY <1>13, <2>1, <2>4, Zenon
  <2> QED BY <1>11, <2>5, <2>6, <2>7, <2>8, <2>9, Zenon DEF IInv, Uses
<1>15. CASE remote[s] # 1
  <2>1. stack' = stack /\ pc'[t] = "idle" /\ \A k : E(k)' = E(k)
    BY <1>4, <1>7, <1>15 DEF E
  <2>2. Places' /\ Hands'
    BY <1>4, <1>7, <1>9, <2>1, Zenon DEF Places, Hands, IInv
  <2>3. ASSUME NEW x \in Slab, x # s PROVE UseOf(x)'
    BY <1>4, <1>6, <1>7, <1>9, <2>1, <2>3, UseFrame, Zenon DEF IInv, Uses
  <2>4. Cardinality(live[s] \ {b}) = Cardinality(live[s]) - 1 /\ IsFiniteSet(live[s] \ {b})
    BY <1>2, <1>3, ConservedFinite, FS_RemoveElement, Zenon
  <2>5. Conserved(s)'
    BY <1>3, <1>4, <1>6, <2>4, ConservedFinite, SMTT(30) DEF Conserved
  <2>6. ASSUME free[s] = {} PROVE live'[s] # {}
    <3>1. Cardinality(free[s]) = 0 /\ Cardinality(live[s]) \in Nat
      BY <1>3, <2>6, FS_EmptySet, ConservedFinite, Zenon
    <3>2. Cardinality(live[s]) = remote[s]
      BY <1>3, <3>1, SMTT(30) DEF Conserved
    <3>3. Cardinality(live[s] \ {b}) # 0
      BY <1>5, <1>15, <2>4, <3>2, SMTT(30)
    <3> QED BY <1>6, <2>4, <3>3, FS_EmptySet, Zenon
  <2>7. UseOf(s)'
    <3>1. UseOf(s) /\ ~(s >= bump) /\ s < bump
      BY <1>3 DEF IInv, Uses, TypeOK, Slab
    <3>2. \A u \in Thread : s \notin E(Unsized(u)) /\ s \notin E(Hand(u)) /\ s \notin E(Global)
      BY <1>3, SMTT(30)
    <3> QED BY <1>4, <2>1, <2>5, <2>6, <3>1, <3>2, Zenon DEF UseOf
  <2>8. Ops'
    BY <1>13, <2>1, Zenon
  <2> QED BY <1>11, <2>2, <2>3, <2>7, <2>8, Zenon DEF IInv, Uses
<1> QED BY <1>14, <1>15

-----------------------------------------------------------------------------
\* unsized_to_global: a batch of unused slabs, disowned by a validating build,
\* goes from the thread's unsized stack into its hand.
LEMMA UnsizedToGlobalInv ==
  ASSUME IInv, NEW t \in Thread, UnsizedToGlobal(t)
  PROVE  IInv'
<1> USE KeyFacts
<1>1. PICK n \in Nat \ {0} : n = BatchGlobalPush
  BY ConstantsAssumption
<1> DEFINE h == Hand(t)
           k1 == Unsized(t)
           q == stack[k1]
           a == SubSeq(q, 1, n)
           r == SubSeq(q, n + 1, Len(q))
<1>2. /\ h \in Keys /\ k1 \in Keys /\ h # k1 /\ q \in Seq(Slab) /\ Inj(q)
      /\ pc[t] = "flush" /\ stack[h] = <<>> /\ Len(q) \in Nat
      /\ UNCHANGED <<class, free, remote, bump, live, cls, cur, blk>>
  <2>1. /\ pc[t] = "flush"
        /\ UNCHANGED <<class, free, remote, bump, live, cls, cur, blk>>
    BY Zenon DEF UnsizedToGlobal
  <2>2. h \in Keys /\ k1 \in Keys /\ h # k1 /\ q \in Seq(Slab) /\ Inj(q)
    BY Zenon DEF IInv, TypeOK, Places
  <2>3. stack[h] = <<>>
    BY <2>1, Zenon DEF IInv, Hands
  <2> QED BY <2>1, <2>2, <2>3, SMTT(30)
<1>3. CASE Len(q) <= CountCacheSlab
  <2>1. /\ UNCHANGED <<owner, stack>> /\ pc' = [pc EXCEPT ![t] = "idle"]
        /\ pc \in [Thread -> PCs]
    BY <1>3, Zenon DEF UnsizedToGlobal, Goto, IInv, TypeOK
  <2> HIDE DEF q
  <2>2. /\ TypeOK' /\ pc'[t] = "idle"
        /\ \A u \in Thread : u # t => pc'[u] = pc[u]
    BY <1>2, <2>1, Zenon DEF IInv, TypeOK, PCs
  <2>3. OpOf(t)' /\ pc'[t] \notin BlockPCs
    BY <1>2, <2>2, Zenon DEF OpOf, BlockPCs, IInv, Ops
  <2> QED BY <1>2, <2>1, <2>2, <2>3, StillInv, Zenon DEF meta
<1>4. CASE ~(Len(q) <= CountCacheSlab)
  <2>1. n \in 1..Len(q)
    BY <1>1, <1>2, <1>4, ConstantsAssumption, SMTT(30)
  <2>2. /\ owner' = [s \in Slab |-> IF Validate /\ \E i \in 1..n : q[i] = s
                                      THEN None ELSE owner[s]]
        /\ stack' = [stack EXCEPT ![h] = a, ![k1] = r]
        /\ pc' = [pc EXCEPT ![t] = "push"]
    BY <1>1, <1>4, Zenon DEF UnsizedToGlobal, Goto
  <2>3. /\ a \in Seq(Slab) /\ r \in Seq(Slab) /\ Inj(a) /\ Inj(r)
        /\ Elems(a) \intersect Elems(r) = {}
        /\ Elems(a) \union Elems(r) = Elems(q)
        /\ Elems(a) = {q[i] : i \in 1..n}
    BY <1>2, <2>1, SplitElems, SMTT(30)
  <2> DEFINE M == Elems(a)
  <2>4. /\ M \subseteq Slab
        /\ \A x \in M : owner'[x] = IF Validate THEN None ELSE owner[x]
        /\ \A x \in Slab : x \notin M => owner'[x] = owner[x]
    <3>1. M \subseteq Slab
      BY <2>3, SMTT(30) DEF Elems
    <3> QED BY <2>2, <2>3, <3>1, Zenon
  <2>5. /\ stack'[h] = a /\ stack'[k1] = r /\ stack' \in [Keys -> Seq(Slab)]
        /\ \A k \in Keys : k # h /\ k # k1 => stack'[k] = stack[k]
    BY <1>2, <2>2, <2>3, Zenon DEF IInv, TypeOK
  <2>6. /\ TypeOK' /\ pc'[t] = "push"
        /\ \A u \in Thread : u # t => pc'[u] = pc[u]
    BY <1>2, <2>2, <2>5, Zenon DEF IInv, TypeOK, PCs
  <2>7. E(k1) = Elems(q) /\ E(h) = {}
    BY <1>2, EmptyElems, Zenon DEF E
  <2>8. /\ E(h)' = M /\ E(k1)' = Elems(r)
        /\ \A k \in Keys : Inj(stack[k])'
        /\ \A k \in Keys : k # h /\ k # k1 => E(k)' = E(k)
    BY <2>3, <2>5, Zenon DEF E, IInv, Places
  <2> HIDE DEF a, r, q, h, k1, M
  <2>9. /\ M \subseteq E(k1) /\ E(k1)' = E(k1) \ M
    BY <2>3, <2>7, <2>8, SMTT(30) DEF M
  <2>10. \A x \in M : live[x] = {} /\ x < bump /\ \A k \in Keys : k # k1 => x \notin E(k)
    BY <1>2, <2>4, <2>9, Zenon DEF IInv, Uses, UseOf, Places, k1
  <2>11. /\ \A k \in Keys, x \in Slab : x \notin M => (x \in E(k)' <=> x \in E(k))
         /\ \A k \in Keys, x \in M : x \in E(k)' <=> k = h
    BY <1>2, <2>7, <2>8, <2>9, <2>10, SMTT(30)
  <2>12. Places'
    <3>1. \A k \in Keys : E(k)' \subseteq Slab
      BY <2>5 DEF E, Elems
    <3>2. bump' \in Nat /\ bump <= bump' /\ \A x \in M : x < bump'
      BY <1>2, <2>10 DEF IInv, TypeOK
    <3>3. /\ \A k \in Keys, x \in M : x \in E(k)' => x < bump'
          /\ \A k, l \in Keys, x \in M : x \in E(k)' /\ x \in E(l)' => k = l
      BY <2>11, <3>2, Zenon
    <3>4. /\ \A k \in Keys : Inj(stack[k])'
          /\ \A k \in Keys, x \in Slab : x \notin M => (x \in E(k)' <=> x \in E(k))
      BY <2>8, <2>11, Zenon
    <3> QED BY <3>1, <3>2, <3>3, <3>4, PlacesFrame, Zenon
  <2>13. Hands'
    BY <2>5, <2>6, HandsFrame, SMTT(30) DEF h, k1
  <2>14. ASSUME NEW x \in Slab, x \notin M PROVE UseOf(x)'
    <3>1. \A u \in Thread : x \in E(Hand(u)) => pc'[u] = pc[u]
      BY <2>6, <2>7, Zenon DEF h
    <3> QED BY <1>2, <2>4, <2>11, <2>14, <3>1, UseFrame, Zenon DEF IInv, Uses
  <2>15. ASSUME NEW x \in M PROVE UseOf(x)'
    <3>1. /\ x \in Slab /\ bump' = bump /\ bump \in Nat
          /\ live'[x] = {} /\ (Validate => owner'[x] = None)
      BY <1>2, <2>4, <2>10, Zenon DEF IInv, TypeOK
    <3>2. ~(x >= bump')
      BY <2>10, <3>1 DEF Slab
    <3> QED BY <2>6, <2>11, <3>1, <3>2, UseHand, Zenon DEF h
  <2>16. ASSUME NEW u \in Thread PROVE OpOf(u)'
    <3>1. OpOf(u) /\ (pc[u] \in BlockPCs => cur[u] \in Slab /\ cur[u] \notin M)
      BY <2>10, Zenon DEF IInv, Ops, OpOf
    <3>2. CASE u = t
      BY <1>2, <2>6, <3>1, <3>2, Zenon DEF OpOf, BlockPCs
    <3>3. CASE u # t
      BY <1>2, <2>4, <2>6, <2>11, <3>1, <3>3, OpFrame, Zenon DEF OpOf, BlockPCs
    <3> QED BY <3>2, <3>3
  <2>17. Ops'
    BY <1>2, <2>6, <2>16, UniqueFrame, Zenon DEF BlockPCs
  <2> QED BY <2>6, <2>12, <2>13, <2>14, <2>15, <2>17, Zenon DEF IInv, Uses
<1> QED BY <1>3, <1>4

\* Global::push of the batch in the thread's hand.
LEMMA SharedPushInv ==
  ASSUME IInv, NEW t \in Thread, SharedPush(t)
  PROVE  IInv'
<1> USE KeyFacts
<1> DEFINE h == Hand(t)
           M == E(h)
<1>1. /\ pc[t] = "push" /\ UNCHANGED <<owner, class, free, remote, bump, live, cls, cur, blk>>
      /\ stack' = [stack EXCEPT ![Global] = stack[h] \o @, ![h] = <<>>]
      /\ pc' = [pc EXCEPT ![t] = "idle"]
  BY Zenon DEF SharedPush, Goto, meta
<1>2. /\ h \in Keys /\ Global \in Keys /\ h # Global
      /\ stack[h] \in Seq(Slab) /\ stack[Global] \in Seq(Slab)
      /\ Inj(stack[h]) /\ Inj(stack[Global]) /\ E(h) \intersect E(Global) = {}
  BY Zenon DEF IInv, TypeOK, Places
<1> HIDE DEF h
<1>3. /\ stack[h] \o stack[Global] \in Seq(Slab) /\ Inj(stack[h] \o stack[Global])
      /\ Elems(stack[h] \o stack[Global]) = E(h) \union E(Global)
  BY <1>2, ConcatElems DEF E
<1>4. /\ stack'[h] = <<>> /\ stack'[Global] = stack[h] \o stack[Global]
      /\ stack' \in [Keys -> Seq(Slab)]
      /\ \A k \in Keys : k # h /\ k # Global => stack'[k] = stack[k]
  BY <1>1, <1>2, <1>3, EmptyElems, Zenon DEF IInv, TypeOK
<1>5. /\ TypeOK' /\ pc'[t] = "idle"
      /\ \A u \in Thread : u # t => pc'[u] = pc[u]
  BY <1>1, <1>4, Zenon DEF IInv, TypeOK, PCs
<1>6. /\ E(h)' = {} /\ E(Global)' = M \union E(Global) /\ M \subseteq Slab
      /\ \A k \in Keys : k # h /\ k # Global => E(k)' = E(k)
      /\ \A k \in Keys : Inj(stack[k])'
  <2>1. M \subseteq Slab
    BY <1>2, SMTT(30) DEF E, Elems
  <2> QED BY <1>3, <1>4, <2>1, EmptyElems, Zenon DEF E, IInv, Places
<1>7. \A x \in M : /\ live[x] = {} /\ (Validate => owner[x] = None) /\ x < bump
                   /\ \A k \in Keys : k # h => x \notin E(k)
  BY <1>1, <1>2, <1>6, Zenon DEF IInv, Uses, UseOf, Places, h
<1>8. \A k \in Keys, x \in Slab : x \notin M => (x \in E(k)' <=> x \in E(k))
  BY Zenon, <1>6
<1>9. \A k \in Keys, x \in M : x \in E(k)' <=> k = Global
  BY <1>6, <1>7, SMTT(30)
<1> HIDE DEF M
<1>10. Places'
  <2>1. \A k \in Keys : E(k)' \subseteq Slab
    BY <1>4, SMTT(30) DEF E, Elems
  <2>2. bump' \in Nat /\ bump <= bump' /\ \A x \in M : x < bump'
    BY <1>1, <1>7 DEF IInv, TypeOK
  <2>3. /\ \A k \in Keys, x \in M : x \in E(k)' => x < bump'
        /\ \A k, l \in Keys, x \in M : x \in E(k)' /\ x \in E(l)' => k = l
    BY <1>9, <2>2, Zenon
  <2>4. \A k \in Keys : Inj(stack[k])'
    BY <1>6, Zenon
  <2> QED BY <1>8, <2>1, <2>2, <2>3, <2>4, PlacesFrame, Zenon
<1>11. Hands'
  <2>1. \A u \in Thread : u # t => /\ stack'[Hand(u)] = stack[Hand(u)]
                                  /\ stack'[Unsized(u)] = stack[Unsized(u)]
    BY <1>4, Zenon DEF h
  <2>2. stack'[Hand(t)] = <<>>
    BY <1>4, Zenon DEF h
  <2> QED BY Zenon, <1>5, <2>1, <2>2, HandsFrame
<1>12. ASSUME NEW x \in Slab, x \notin M PROVE UseOf(x)'
  <2>1. \A u \in Thread : x \in E(Hand(u)) => pc'[u] = pc[u]
    BY <1>5, <1>12, Zenon DEF h, M
  <2> QED BY <1>1, <1>8, <1>12, <2>1, UseFrame, Zenon DEF IInv, Uses
<1>13. ASSUME NEW x \in M PROVE UseOf(x)'
  <2>1. /\ x \in Slab /\ bump' = bump /\ bump \in Nat
        /\ live'[x] = {} /\ (Validate => owner'[x] = None)
    BY <1>1, <1>6, <1>7, Zenon DEF IInv, TypeOK
  <2>2. ~(x >= bump')
    BY <1>7, <2>1, SMTT(30) DEF Slab
  <2> QED BY <1>9, <2>1, <2>2, UseGlobal
<1>14. ASSUME NEW u \in Thread PROVE OpOf(u)'
  <2>1. OpOf(u) /\ (pc[u] \in BlockPCs => cur[u] \in Slab /\ cur[u] \notin M)
    BY <1>7, Zenon DEF IInv, Ops, OpOf
  <2>2. CASE u = t
    BY <1>1, <1>5, <2>1, <2>2, Zenon DEF OpOf, BlockPCs
  <2>3. CASE u # t
    BY <1>1, <1>5, <1>8, <2>1, <2>3, OpFrame, Zenon DEF OpOf, BlockPCs
  <2> QED BY <2>2, <2>3
<1>15. Ops'
  BY <1>1, <1>5, <1>14, UniqueFrame, Zenon DEF BlockPCs
<1> QED BY <1>5, <1>10, <1>11, <1>12, <1>13, <1>15, Zenon DEF IInv, Uses
=============================================================================
