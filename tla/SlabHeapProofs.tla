--------------------------- MODULE SlabHeapProofs ---------------------------
(***************************************************************************)
(* SlabHeap is correct for every set of threads, every set of classes and  *)
(* block counts, every number of slabs and every batch size.               *)
(***************************************************************************)
EXTENDS SlabHeapFree

\* Heap::pop: a free bit becomes a live block; the slab leaves its stack with
\* its last free block and is then detached, with that block live.
LEMMA PopInv ==
  ASSUME IInv, NEW t \in Thread, NEW c \in Class, Pop(t, c)
  PROVE  IInv'
<1> DEFINE k0 == Sized(t, c)
<1> USE KeyFacts
<1>1. stack[k0] \in Seq(Slab) /\ stack[k0] # <<>> /\ Inj(stack[k0]) /\ k0 \in Keys
  BY Zenon DEF IInv, TypeOK, Places, Pop
<1>2. PICK s \in Slab :
         /\ s = Head(stack[k0])
         /\ s \in E(k0) /\ Tail(stack[k0]) \in Seq(Slab)
         /\ Inj(Tail(stack[k0])) /\ Elems(Tail(stack[k0])) = E(k0) \ {s}
  BY <1>1, TailElems, Zenon DEF E
<1>3. /\ owner[s] = t /\ class[s] = c /\ Conserved(s) /\ s < bump
      /\ \A k \in Keys : k # k0 => s \notin E(k)
  BY <1>1, <1>2, Zenon DEF IInv, Uses, UseOf, Places
<1>4. PICK b \in free[s] :
         /\ free' = [free EXCEPT ![s] = @ \ {b}]
         /\ live' = [live EXCEPT ![s] = @ \union {b}]
         /\ IF free[s] = {b}
              THEN /\ stack' = [stack EXCEPT ![k0] = Tail(@)]
                   /\ Goto(t, "detach") /\ Work(t, s, b)
              ELSE /\ Goto(t, "idle")
                   /\ UNCHANGED <<stack, cur, blk>>
         /\ cls' = [cls EXCEPT ![t] = None]
  BY <1>2, Zenon DEF Pop
<1>5. UNCHANGED <<owner, class, remote, bump>> /\ b \in Nat /\ b \notin live[s]
      /\ pc[t] \in {"idle", "peek"}
  BY <1>2, <1>3, Zenon DEF Pop, IInv, TypeOK, Conserved, Allocating
<1> HIDE DEF k0
<1>6. TypeOK'
  <2>1. /\ free' \in [Slab -> SUBSET Nat] /\ live' \in [Slab -> SUBSET Nat]
        /\ cls' \in [Thread -> Class \union {None}]
    BY <1>4, <1>5, Zenon DEF IInv, TypeOK
  <2>2. stack' \in [Keys -> Seq(Slab)]
    BY <1>1, <1>2, <1>4, Zenon DEF IInv, TypeOK
  <2>3. /\ pc \in [Thread -> PCs] /\ cur \in [Thread -> Slab \union {None}]
        /\ blk \in [Thread -> Nat \union {None}]
    BY Zenon DEF IInv, TypeOK
  <2>4. pc' \in [Thread -> PCs]
    BY <1>4, <2>3, Zenon DEF Goto, PCs
  <2>5. cur' \in [Thread -> Slab \union {None}] /\ blk' \in [Thread -> Nat \union {None}]
    BY <1>4, <1>5, <2>3, Zenon DEF Work
  <2> QED BY <1>5, <2>1, <2>2, <2>4, <2>5, Zenon DEF IInv, TypeOK
<1>7. /\ free'[s] = free[s] \ {b} /\ live'[s] = live[s] \union {b}
      /\ \A x \in Slab : x # s => free'[x] = free[x] /\ live'[x] = live[x]
  BY <1>2, <1>4, Zenon DEF IInv, TypeOK
<1>8. Conserved(s)'
  <2>1. /\ Cardinality(free[s] \ {b}) = Cardinality(free[s]) - 1
        /\ Cardinality(live[s] \union {b}) = Cardinality(live[s]) + 1
    BY <1>3, <1>4, <1>5, ConservedFinite, FS_AddElement, FS_RemoveElement, Zenon
  <2> QED BY <1>3, <1>5, <1>7, <2>1, ConservedFinite DEF Conserved
<1>9. /\ \A u \in Thread : u # t => /\ pc'[u] = pc[u] /\ cls'[u] = cls[u]
                                   /\ cur'[u] = cur[u] /\ blk'[u] = blk[u]
      /\ pc'[t] = IF free[s] = {b} THEN "detach" ELSE "idle"
      /\ stack[Hand(t)] = <<>> /\ E(Hand(t)) = {}
  <2>1. stack[Hand(t)] = <<>> /\ E(Hand(t)) = {}
    BY <1>5, EmptyElems, Zenon DEF IInv, Hands, E
  <2>2. /\ pc \in [Thread -> PCs] /\ cls \in [Thread -> Class \union {None}]
        /\ cur \in [Thread -> Slab \union {None}] /\ blk \in [Thread -> Nat \union {None}]
    BY Zenon DEF IInv, TypeOK
  <2>3. CASE free[s] = {b}
    <3>1. pc' = [pc EXCEPT ![t] = "detach"] /\ cls' = [cls EXCEPT ![t] = None]
      BY <1>4, <2>3, Zenon DEF Goto
    <3>2. cur' = [cur EXCEPT ![t] = s] /\ blk' = [blk EXCEPT ![t] = b]
      BY <1>4, <2>3, Zenon DEF Work
    <3> QED BY <2>1, <2>2, <2>3, <3>1, <3>2, Zenon
  <2>4. CASE free[s] # {b}
    BY <1>4, <2>2, <2>4, <2>1, Zenon DEF Goto
  <2> QED BY <2>3, <2>4, Zenon
<1>10. ASSUME NEW u \in Thread, u # t,
              \A k \in Keys, x \in Slab : x \in E(k)' => x \in E(k)
       PROVE  OpOf(u)'
  <2>1. pc[u] \in BlockPCs => /\ cur[u] \in Slab
                              /\ blk[u] \in live'[cur[u]]
                              /\ owner'[cur[u]] = owner[cur[u]]
    BY <1>5, <1>7, Zenon DEF IInv, Ops, OpOf
  <2> QED BY <1>9, <1>10, <2>1, OpFrame DEF IInv, Ops, OpOf, BlockPCs
<1>11. CASE free[s] = {b}
  <2>1. /\ stack' = [stack EXCEPT ![k0] = Tail(@)]
        /\ pc'[t] = "detach" /\ cur'[t] = s /\ blk'[t] = b
    BY <1>4, <1>11 DEF IInv, TypeOK, Goto, Work
  <2>2. /\ E(k0)' = E(k0) \ {s} /\ Inj(stack[k0])'
        /\ \A k \in Keys : k # k0 => stack'[k] = stack[k] /\ E(k)' = E(k)
    BY <1>1, <1>2, <2>1, Zenon DEF E, IInv, TypeOK
  <2>3. Places'
    BY <1>5, <2>2 DEF Places, IInv
  <2>4. Hands'
    BY <1>9, <2>1, <2>2 DEF Hands, IInv, k0
  <2>5. ASSUME NEW x \in Slab, x # s PROVE UseOf(x)'
    <3>1. \A k \in Keys : x \in E(k)' <=> x \in E(k)
      BY <2>2, <2>5
    <3> QED BY <1>5, <1>7, <1>9, <2>5, <3>1, UseFrame, Zenon DEF IInv, Uses
  <2>6. \A k \in Keys : s \notin E(k)'
    BY <1>3, <2>2
  <2>7. UseOf(s)'
    <3>1. live'[s] # {} /\ free'[s] = {}
      BY <1>7, <1>11
    <3>2. ~(s >= bump')
      BY <1>3, <1>5, Below
    <3> QED BY <1>3, <1>5, <1>8, <2>6, <3>1, <3>2, Zenon DEF UseOf
  <2>8. OpOf(t)'
    BY <1>3, <1>5, <1>7, <2>1, <2>6 DEF OpOf, BlockPCs
  <2>9. \A u \in Thread : u # t => OpOf(u)'
    BY <1>10, <2>2
  <2>10. \A u \in Thread : u # t => ~(cur[u] = s /\ blk[u] = b)
    BY <1>5, ConstantsAssumption DEF IInv, Ops, OpOf, BlockPCs
  <2>11. Ops'
    BY <1>9, <2>1, <2>8, <2>9, <2>10 DEF Ops, IInv
  <2> QED BY <1>6, <2>3, <2>4, <2>5, <2>7, <2>11, Zenon DEF IInv, Uses
<1>12. CASE free[s] # {b}
  <2>1. pc'[t] = "idle" /\ UNCHANGED <<stack, cur, blk>>
    BY <1>4, <1>12, Zenon DEF IInv, TypeOK, Goto
  <2>2. \A k : E(k)' = E(k)
    BY <2>1 DEF E
  <2>3. Places' /\ Hands'
    BY <1>5, <1>9, <2>1, <2>2, Zenon DEF Places, Hands, IInv
  <2>4. ASSUME NEW x \in Slab, x # s PROVE UseOf(x)'
    BY <1>5, <1>7, <1>9, <2>2, <2>4, UseFrame, Zenon DEF IInv, Uses
  <2>5. UseOf(s)'
    <3>1. free'[s] # {}
      BY <1>4, <1>7, <1>12
    <3>2. ~(s >= bump')
      BY <1>3, <1>5, Below
    <3>3. \A k \in Keys : s \in E(k)' <=> k = k0
      BY Zenon, <1>2, <1>3, <2>2
    <3>4. owner'[s] = t /\ class'[s] = c
      BY <1>3, <1>5
    <3> QED BY <1>8, <3>1, <3>2, <3>3, <3>4, UseSized DEF k0
  <2>6. OpOf(t)' /\ cur'[t] = None /\ blk'[t] = None
    BY <1>5, <2>1, Zenon DEF OpOf, BlockPCs, IInv, Ops
  <2>7. Ops'
    BY <1>9, <1>10, <2>1, <2>2, <2>6, Zenon DEF Ops, IInv, BlockPCs
  <2> QED BY <1>6, <2>3, <2>4, <2>5, <2>7 DEF IInv, Uses
<1> QED BY <1>11, <1>12

\* A zeroed heap satisfies the invariant.
LEMMA InitInv == Init => IInv
<1> SUFFICES ASSUME Init PROVE IInv
  OBVIOUS
<1> USE KeyFacts DEF Init
<1>1. TypeOK
  BY EmptyElems DEF TypeOK, PCs
<1>2. \A k \in Keys : stack[k] = <<>> /\ E(k) = {} /\ Inj(stack[k])
  BY EmptyElems DEF E
<1>3. Places /\ Hands
  BY <1>2, Zenon DEF Places, Hands
<1>4. Uses
  BY <1>2 DEF Uses, UseOf, Slab
<1>5. Ops
  BY Zenon DEF Ops, OpOf, BlockPCs
<1> QED BY <1>1, <1>3, <1>4, <1>5 DEF IInv

\* Every step of every thread preserves it.
LEMMA NextInv == IInv /\ [Next]_vars => IInv'
<1> SUFFICES ASSUME IInv, [Next]_vars PROVE IInv'
  OBVIOUS
<1>1. ASSUME NEW t \in Thread, Allocate(t) PROVE IInv'
  <2>1. ASSUME NEW c \in Class, UnsizedToSized(t, c) PROVE IInv'
    BY <2>1, UnsizedToSizedInv, BlocksCounted
  <2> QED
    BY <1>1, <2>1, PopInv, GlobalIsEmptyInv, SharedPopInv, AdoptInv,
       BumpToUnsizedInv, DetachInv, DisownInv, Zenon DEF Allocate
<1>2. ASSUME NEW t \in Thread, Release(t) PROVE IInv'
  BY <1>2, FreeInv, FreeLocalInv, FreeRemoteInv, AdoptInv, UnsizedToGlobalInv,
     SharedPushInv, ZenonT(30) DEF Release
<1>3. CASE UNCHANGED vars
  BY <1>3, SMTT(30) DEF vars, IInv, TypeOK, Places, Hands, Uses, UseOf, Ops, OpOf, E, Conserved
<1> QED BY <1>1, <1>2, <1>3 DEF Next

\* The invariant holds in every state the heap reaches.
THEOREM Invariance == Spec => []IInv
BY InitInv, NextInv, PTL DEF Spec

\* The slabs of a stack are those at its positions.
LEMMA InElems == \A s, k : In(s, k) <=> s \in E(k)
BY DEF In, E, Elems

\* A slab is in one position of one stack, whichever threads race for it.
THEOREM OnePlaceHolds == Spec => []OnePlace
<1>1. IInv => OnePlace
  <2> SUFFICES ASSUME IInv, NEW k \in Keys, NEW l \in Keys,
                      NEW i \in 1..Len(stack[k]), NEW j \in 1..Len(stack[l]),
                      stack[k][i] = stack[l][j]
               PROVE  k = l /\ i = j
    BY Zenon DEF OnePlace
  <2>1. k = l
    BY Zenon DEF IInv, Places, E, Elems
  <2> QED BY <2>1 DEF IInv, Places, Inj
<1> QED BY <1>1, Invariance, PTL

\* The state variables have their types (the counters never go below zero).
THEOREM TypeCorrect == Spec => []TypeOK
<1>1. IInv => TypeOK
  BY DEF IInv
<1> QED BY <1>1, Invariance, PTL

\* The remote counter of a slab in use counts its free and its live blocks.
THEOREM ConservationHolds == Spec => []Conservation
<1>1. IInv => Conservation
  <2> SUFFICES ASSUME IInv, NEW s \in Slab,
                      Detached(s) \/ \E t \in Thread, c \in Class : In(s, Sized(t, c))
               PROVE  Conserved(s)
    BY Zenon DEF Conservation, Conserved
  <2>1. UseOf(s)
    BY Zenon DEF IInv, Uses
  <2> QED BY <2>1, InElems, Zenon DEF UseOf, Detached
<1> QED BY <1>1, Invariance, PTL

\* A slab in no stack has a block in use, so freeing it will bring it back.
THEOREM NoSlabLostHolds == Spec => []NoSlabLost
<1>1. IInv => NoSlabLost
  BY InElems, Zenon DEF IInv, Uses, UseOf, NoSlabLost, Detached
<1> QED BY <1>1, Invariance, PTL

\* Heap::claim takes a slab that nobody uses and nobody is working on.
THEOREM ClaimSafeHolds == Spec => []ClaimSafe
<1>1. IInv => ClaimSafe
  <2> SUFFICES ASSUME IInv, NEW t \in Thread, pc[t] = "claim"
               PROVE  LET s == Head(stack[Hand(t)]) IN
                        /\ live[s] = {} /\ free[s] = {}
                        /\ \A u \in Thread : cur[u] # s
    BY Zenon DEF ClaimSafe
  <2>1. Hand(t) \in Keys /\ stack[Hand(t)] \in Seq(Slab) /\ Len(stack[Hand(t)]) = 1
    BY KeyFacts, Zenon DEF IInv, TypeOK, Hands
  <2>2. PICK s \in Slab : s = Head(stack[Hand(t)]) /\ s \in E(Hand(t))
    <3>1. stack[Hand(t)][1] \in Slab /\ Head(stack[Hand(t)]) = stack[Hand(t)][1]
      BY <2>1
    <3> QED BY <2>1, <3>1 DEF E, Elems
  <2>3. live[s] = {} /\ free[s] = {}
    BY <2>2, Zenon DEF IInv, Uses, UseOf
  <2>4. \A u \in Thread : cur[u] # s
    <3>1. s # None
      BY ConstantsAssumption DEF Slab
    <3> QED BY <2>3, <3>1, Zenon DEF IInv, Ops, OpOf
  <2> QED BY <2>2, <2>3, <2>4
<1> QED BY <1>1, Invariance, PTL

\* The owner and the counter read by free and detach still decide right when
\* the decision is carried out.
THEOREM OwnerDecisionHolds == Spec => []OwnerDecision
<1>1. IInv => OwnerDecision
  <2> SUFFICES ASSUME IInv, NEW t \in Thread
               PROVE  /\ pc[t] \in {"local", "detach", "disown"} => owner[cur[t]] = t
                      /\ pc[t] = "remote" => owner[cur[t]] # t /\ remote[cur[t]] > 0
    BY Zenon DEF OwnerDecision
  <2>1. OpOf(t)
    BY Zenon DEF IInv, Ops
  <2>2. ASSUME pc[t] = "remote" PROVE remote[cur[t]] > 0
    <3>1. cur[t] \in Slab /\ blk[t] \in live[cur[t]]
      BY <2>1, <2>2 DEF OpOf, BlockPCs
    <3>2. Conserved(cur[t]) /\ remote[cur[t]] > Cardinality(free[cur[t]])
      BY <3>1, LiveSlab
    <3>3. Cardinality(free[cur[t]]) \in Nat /\ remote[cur[t]] \in Nat
      BY <3>1, <3>2, ConservedFinite DEF IInv, TypeOK
    <3> QED BY <3>2, <3>3
  <2> QED BY <2>1, <2>2 DEF OpOf
<1> QED BY <1>1, Invariance, PTL

\* Two threads never may write the same bitset.
THEOREM BitsetExclusiveHolds == Spec => []BitsetExclusive
<1>1. IInv => BitsetExclusive
  <2>1. ASSUME IInv, NEW t \in Thread, NEW s \in Slab, MayWrite(t, s) PROVE owner[s] = t
    BY <2>1, InElems, Zenon DEF MayWrite, IInv, Uses, UseOf, Ops, OpOf
  <2> QED BY <2>1 DEF BitsetExclusive
<1> QED BY <1>1, Invariance, PTL

\* Owned::is_valid holds of every thread in every state.
THEOREM OwnedValidHolds == Spec => []OwnedValid
<1>1. IInv => OwnedValid
  BY InElems DEF IInv, Uses, UseOf, OwnedValid
<1> QED BY <1>1, Invariance, PTL

\* Local::own finds no owner in a validating build.
THEOREM OwnFindsNoneHolds == Spec => []OwnFindsNone
<1>1. IInv => OwnFindsNone
  <2>1. ASSUME IInv, Validate, NEW t \in Thread, pc[t] = "own"
        PROVE  owner[Head(stack[Hand(t)])] = None
    <3>1. Hand(t) \in Keys /\ stack[Hand(t)] \in Seq(Slab) /\ Len(stack[Hand(t)]) = 1
      BY <2>1, KeyFacts DEF IInv, TypeOK, Hands
    <3>2. PICK s \in Slab : s = Head(stack[Hand(t)]) /\ s \in E(Hand(t))
      <4>1. stack[Hand(t)][1] \in Slab /\ Head(stack[Hand(t)]) = stack[Hand(t)][1]
        BY <3>1
      <4> QED BY <3>1, <4>1 DEF E, Elems
    <3> QED BY <2>1, <3>2, Zenon DEF IInv, Uses, UseOf
  <2> QED BY <2>1, Zenon DEF OwnFindsNone, IInv, Uses, UseOf
<1> QED BY <1>1, Invariance, PTL

-----------------------------------------------------------------------------
(***************************************************************************)
(* The heap implements BlockAllocator.                                     *)
(***************************************************************************)

Rec(s, c, b) == [slab |-> s, class |-> c, block |-> b]

\* The blocks that can be handed out.
LEMMA RecInAllBlocks ==
  ASSUME NEW s \in Slab, NEW c \in Class, NEW b \in Blocks(c)
  PROVE  Rec(s, c, b) \in AllBlocks
<1>1. Rec(s, c, b) \in [slab : Slab, class : {c}, block : Blocks(c)]
  BY DEF Rec
<1> QED BY <1>1 DEF AllBlocks

\* The blocks in use.
LEMMA HeldElems ==
  \A y : y \in HeldBlocks <=> \E s \in Slab : \E b \in live[s] : y = Rec(s, class[s], b)
BY DEF HeldBlocks, Rec

\* Blocks are told apart by their fields.
LEMMA RecFacts ==
  /\ \A s, c, b, s1, c1, b1 :
       Rec(s, c, b) = Rec(s1, c1, b1) => s = s1 /\ c = c1 /\ b = b1
  /\ \A s, c, b, b1 : b # b1 => ~Overlap(Rec(s, c, b), Rec(s, c, b1))
  /\ \A s, c, b, s1, c1, b1 : s # s1 => ~Overlap(Rec(s, c, b), Rec(s1, c1, b1))
<1>1. \A s, c, b : /\ Rec(s, c, b).slab = s /\ Rec(s, c, b).class = c
                   /\ Rec(s, c, b).block = b
  BY DEF Rec
<1> QED BY <1>1 DEF Overlap

\* A step that changes no live block, and no class of a slab with one, changes
\* nothing that the application sees.
LEMMA HeldFrame ==
  ASSUME live' = live, \A s \in Slab : live[s] # {} => class'[s] = class[s]
  PROVE  HeldBlocks' = HeldBlocks
<1>1. \A y : y \in HeldBlocks' <=> \E s \in Slab : \E b \in live'[s] : y = Rec(s, class'[s], b)
  BY DEF HeldBlocks, Rec
<1>2. \A y : y \in HeldBlocks' <=> y \in HeldBlocks
  BY <1>1, HeldElems
<1> QED BY <1>2

\* Heap::pop hands out a block that overlaps none in use.
LEMMA PopAllocates ==
  ASSUME IInv, NEW t \in Thread, NEW c \in Class, Pop(t, c)
  PROVE  Promise!Next
<1>1. /\ Sized(t, c) \in Keys
      /\ stack[Sized(t, c)] \in Seq(Slab) /\ stack[Sized(t, c)] # <<>> /\ Inj(stack[Sized(t, c)])
  BY KeyFacts, Zenon DEF IInv, TypeOK, Places, Pop
<1>2. PICK s \in Slab : s = Head(stack[Sized(t, c)]) /\ s \in E(Sized(t, c))
  BY <1>1, TailElems, Zenon DEF E
<1>3. class[s] = c /\ Conserved(s)
  BY <1>2, Zenon DEF IInv, Uses, UseOf
<1>4. PICK b \in free[s] : live' = [live EXCEPT ![s] = @ \union {b}] /\ class' = class
  BY <1>2, Zenon DEF Pop
<1>5. b \notin live[s] /\ b \in Blocks(c)
  BY <1>3, <1>4 DEF Conserved
<1>6. /\ live'[s] = live[s] \union {b} /\ \A x \in Slab : x # s => live'[x] = live[x]
  BY <1>4 DEF IInv, TypeOK
<1>7. \A y : y \in HeldBlocks' <=> \E x \in Slab : \E d \in live'[x] : y = Rec(x, class[x], d)
  BY <1>4, SMTT(30) DEF HeldBlocks, Rec
<1>8. HeldBlocks' = HeldBlocks \union {Rec(s, c, b)}
  <2>1. ASSUME NEW y \in HeldBlocks' PROVE y \in HeldBlocks \union {Rec(s, c, b)}
    <3>1. PICK x \in Slab : \E d \in live'[x] : y = Rec(x, class[x], d)
      BY <1>7, <2>1, Zenon
    <3> QED BY <1>3, <1>6, <3>1, HeldElems, Zenon
  <2>2. Rec(s, c, b) \in HeldBlocks'
    BY <1>3, <1>6, <1>7, Zenon
  <2>3. ASSUME NEW y \in HeldBlocks PROVE y \in HeldBlocks'
    <3>1. PICK x \in Slab : \E d \in live[x] : y = Rec(x, class[x], d)
      BY <2>3, HeldElems
    <3>2. live[x] \subseteq live'[x]
      BY <1>6
    <3> QED BY <1>7, <3>1, <3>2, Zenon
  <2> QED BY <2>1, <2>2, <2>3
<1>9. \A y \in HeldBlocks : ~Overlap(y, Rec(s, c, b))
  <2> SUFFICES ASSUME NEW x \in Slab, NEW d \in live[x]
               PROVE  ~Overlap(Rec(x, class[x], d), Rec(s, c, b))
    BY HeldElems
  <2>1. CASE x = s
    BY <1>3, <1>5, <2>1, RecFacts, Zenon
  <2>2. CASE x # s
    BY <2>2, RecFacts, Zenon
  <2> QED BY <2>1, <2>2
<1>10. Rec(s, c, b) \in AllBlocks
  BY <1>5, RecInAllBlocks
<1> QED BY <1>8, <1>9, <1>10 DEF Promise!Next, Promise!Allocate

\* Heap::free and Heap::free_remote take back a block in use.
LEMMA FreeFrees ==
  ASSUME IInv, NEW t \in Thread, FreeLocal(t) \/ FreeRemote(t)
  PROVE  Promise!Next
<1>1. PICK s \in Slab : s = cur[t] /\ blk[t] \in live[s]
  BY Zenon DEF FreeLocal, FreeRemote, IInv, Ops, OpOf, BlockPCs
<1>2. PICK b \in live[s] : b = blk[t]
  BY <1>1, Zenon
<1>3. live' = [live EXCEPT ![s] = @ \ {b}] /\ class' = class
  BY <1>1, <1>2, Zenon DEF FreeLocal, FreeRemote
<1>4. Conserved(s)
  BY LiveSlab, Zenon
<1>5. live'[s] = live[s] \ {b} /\ \A x \in Slab : x # s => live'[x] = live[x]
  BY <1>3 DEF IInv, TypeOK
<1> DEFINE r == Rec(s, class[s], b)
<1>6. \A y : y \in HeldBlocks' <=> \E x \in Slab : \E d \in live'[x] : y = Rec(x, class[x], d)
  BY <1>3 DEF HeldBlocks, Rec
<1>7. HeldBlocks' = HeldBlocks \ {r} /\ r \in HeldBlocks
  <2>1. ASSUME NEW y \in HeldBlocks' PROVE y \in HeldBlocks /\ y # r
    <3>1. PICK x \in Slab : \E d \in live'[x] : y = Rec(x, class[x], d)
      BY <1>6, <2>1
    <3>2. PICK d \in live'[x] : y = Rec(x, class[x], d)
      BY <3>1
    <3>3. d \in live[x] /\ ~(x = s /\ d = b)
      BY <1>5, <3>2
    <3> QED BY <3>2, <3>3, HeldElems, RecFacts
  <2>2. ASSUME NEW y \in HeldBlocks, y # r PROVE y \in HeldBlocks'
    <3>1. PICK x \in Slab : \E d \in live[x] : y = Rec(x, class[x], d)
      BY <2>2, HeldElems
    <3>2. PICK d \in live[x] : y = Rec(x, class[x], d)
      BY <3>1
    <3>3. d \in live'[x]
      BY <1>5, <2>2, <3>2
    <3> QED BY <1>6, <3>2, <3>3
  <2>3. r \in HeldBlocks
    BY HeldElems
  <2> QED BY <2>1, <2>2, <2>3
<1>8. r \in AllBlocks
  BY <1>4, RecInAllBlocks DEF Conserved
<1> QED BY <1>7, <1>8 DEF Promise!Next, Promise!Free

\* Heap::pop never hands out a block that is in use.
THEOREM FreshBlockHolds == Spec => FreshBlock
<1>1. IInv /\ [Next]_vars =>
        [\A t \in Thread, c \in Class : Pop(t, c) => live' # live]_vars
  <2> SUFFICES ASSUME IInv, NEW t \in Thread, NEW c \in Class, Pop(t, c)
               PROVE  live' # live
    OBVIOUS
  <2>1. /\ Sized(t, c) \in Keys /\ stack[Sized(t, c)] \in Seq(Slab)
        /\ stack[Sized(t, c)] # <<>> /\ Inj(stack[Sized(t, c)])
    BY KeyFacts, Zenon DEF IInv, TypeOK, Places, Pop
  <2>2. PICK s \in Slab : s = Head(stack[Sized(t, c)]) /\ s \in E(Sized(t, c))
    BY <2>1, TailElems, Zenon DEF E
  <2>3. PICK b \in free[s] : live' = [live EXCEPT ![s] = @ \union {b}]
    BY <2>2, Zenon DEF Pop
  <2>4. b \notin live[s]
    BY <2>2, <2>3, Zenon DEF IInv, Uses, UseOf, Conserved
  <2>5. b \in live'[s]
    BY <2>3 DEF IInv, TypeOK
  <2> QED BY <2>4, <2>5
<1> QED BY <1>1, Invariance, PTL DEF Spec, FreshBlock

\* No block is handed out that overlaps one in use, none changes class or
\* disappears before it is freed: the heap implements the abstract allocator.
THEOREM Refinement == Spec => Implements
<1>1. Init => Promise!Init
  BY HeldElems DEF Init, Promise!Init
<1>2. IInv /\ [Next]_vars => [UNCHANGED HeldBlocks \/ Promise!Next]_vars
  <2> SUFFICES ASSUME IInv, [Next]_vars PROVE Promise!Next \/ HeldBlocks' = HeldBlocks
    OBVIOUS
  <2>1. ASSUME NEW t \in Thread, NEW c \in Class, UnsizedToSized(t, c)
        PROVE  HeldBlocks' = HeldBlocks
    <3>1. /\ Unsized(t) \in Keys /\ stack[Unsized(t)] \in Seq(Slab)
          /\ stack[Unsized(t)] # <<>> /\ Inj(stack[Unsized(t)])
      BY <2>1, KeyFacts, Zenon DEF IInv, TypeOK, Places, UnsizedToSized
    <3>2. PICK s \in Slab : s = Head(stack[Unsized(t)]) /\ s \in E(Unsized(t))
      BY <3>1, TailElems, Zenon DEF E
    <3>3. class' = [class EXCEPT ![s] = c] /\ live' = live /\ live[s] = {}
      BY <2>1, <3>2, Zenon DEF UnsizedToSized, IInv, Uses, UseOf
    <3>4. \A x \in Slab : live[x] # {} => class'[x] = class[x]
      BY <3>3 DEF IInv, TypeOK
    <3> QED BY <3>3, <3>4, HeldFrame
  <2>2. ASSUME NEW t \in Thread, Allocate(t)
        PROVE  Promise!Next \/ HeldBlocks' = HeldBlocks
    <3>1. CASE \E c \in Class : Pop(t, c)
      BY <3>1, PopAllocates
    <3>2. CASE \E c \in Class : UnsizedToSized(t, c)
      BY <2>1, <3>2
    <3>3. CASE /\ ~\E c \in Class : Pop(t, c)
               /\ ~\E c \in Class : UnsizedToSized(t, c)
      <4>1. live' = live /\ class' = class
        BY <2>2, <3>3, Zenon DEF Allocate, GlobalIsEmpty, SharedPop, GlobalToUnsized,
                          BumpToUnsized, Detach, Disown, meta
      <4> QED BY <4>1, HeldFrame
    <3> QED BY <3>1, <3>2, <3>3
  <2>3. ASSUME NEW t \in Thread, Release(t)
        PROVE  Promise!Next \/ HeldBlocks' = HeldBlocks
    <3>1. CASE FreeLocal(t) \/ FreeRemote(t)
      BY <3>1, FreeFrees
    <3>2. CASE ~(FreeLocal(t) \/ FreeRemote(t))
      <4>1. live' = live /\ class' = class
        BY <2>3, <3>2, Zenon DEF Release, Free, Claim, UnsizedToGlobal, SharedPush, meta
      <4> QED BY <4>1, HeldFrame
    <3> QED BY <3>1, <3>2
  <2>4. CASE UNCHANGED vars
    BY <2>4, HeldFrame DEF vars
  <2> QED BY <2>2, <2>3, <2>4 DEF Next
<1> QED BY <1>1, <1>2, Invariance, PTL DEF Spec, Implements
=============================================================================
