------------------------- MODULE SlabHeapInvariant -------------------------
(***************************************************************************)
(* The inductive invariant of SlabHeap, the facts about sequences it needs, *)
(* what a step that leaves a part of the state alone preserves, and the    *)
(* steps of an allocation that move or examine whole slabs.                *)
(***************************************************************************)
EXTENDS SlabHeap, TLAPS

Elems(q) == {q[i] : i \in 1..Len(q)}

Inj(q) == \A i, j \in 1..Len(q) : q[i] = q[j] => i = j

-----------------------------------------------------------------------------
(***************************************************************************)
(* What the operations on stacks do to their elements.                     *)
(***************************************************************************)

\* Popping the head of a stack removes exactly that slab (Local::pop).
LEMMA TailElems ==
  ASSUME NEW S, NEW q \in Seq(S), q # <<>>, Inj(q)
  PROVE  /\ Tail(q) \in Seq(S) /\ Inj(Tail(q))
         /\ Head(q) \in S /\ Head(q) \in Elems(q)
         /\ Elems(Tail(q)) = Elems(q) \ {Head(q)}
<1>1. /\ Tail(q) \in Seq(S) /\ Len(Tail(q)) = Len(q) - 1
      /\ Len(q) \in Nat /\ Len(q) > 0 /\ Head(q) = q[1] /\ q[1] \in S
      /\ \A i \in 1..(Len(q) - 1) : Tail(q)[i] = q[i + 1]
  OBVIOUS
<1>2. Inj(Tail(q))
  BY <1>1 DEF Inj
<1>3. Elems(Tail(q)) = Elems(q) \ {Head(q)}
  <2>1. ASSUME NEW x \in Elems(Tail(q)) PROVE x \in Elems(q) \ {Head(q)}
    BY <1>1, <2>1 DEF Elems, Inj
  <2>2. ASSUME NEW x \in Elems(q) \ {Head(q)} PROVE x \in Elems(Tail(q))
    <3>1. PICK i \in 1..Len(q) : q[i] = x
      BY <2>2 DEF Elems
    <3>2. i - 1 \in 1..(Len(q) - 1) /\ Tail(q)[i - 1] = x
      BY <1>1, <2>2, <3>1
    <3> QED BY <1>1, <3>2, Zenon DEF Elems
  <2> QED BY <2>1, <2>2
<1>4. Head(q) \in Elems(q)
  BY <1>1, 1 \in 1..Len(q) DEF Elems
<1> QED BY <1>1, <1>2, <1>3, <1>4

\* Putting one stack in front of another keeps all slabs, each once, when they
\* had none in common (Local::push, Global::push of a batch).
LEMMA ConcatElems ==
  ASSUME NEW S, NEW p \in Seq(S), NEW q \in Seq(S), Inj(p), Inj(q),
         Elems(p) \intersect Elems(q) = {}
  PROVE  /\ p \o q \in Seq(S) /\ Inj(p \o q)
         /\ Elems(p \o q) = Elems(p) \union Elems(q)
<1>1. /\ p \o q \in Seq(S) /\ Len(p \o q) = Len(p) + Len(q)
      /\ Len(p) \in Nat /\ Len(q) \in Nat
      /\ \A i \in 1..(Len(p) + Len(q)) :
            (p \o q)[i] = IF i <= Len(p) THEN p[i] ELSE q[i - Len(p)]
  OBVIOUS
<1>2. ASSUME NEW i \in 1..Len(p), NEW j \in 1..Len(q) PROVE p[i] # q[j]
  BY Zenon DEF Elems
<1>3. Inj(p \o q)
  <2> SUFFICES ASSUME NEW i \in 1..(Len(p) + Len(q)),
                      NEW j \in 1..(Len(p) + Len(q)),
                      (p \o q)[i] = (p \o q)[j]
               PROVE  i = j
    BY <1>1, Zenon DEF Inj
  <2>1. CASE i <= Len(p) /\ j <= Len(p)
    BY <1>1, <2>1 DEF Inj
  <2>2. CASE i > Len(p) /\ j > Len(p)
    <3>1. q[i - Len(p)] = q[j - Len(p)]
      BY <1>1, <2>2
    <3>2. i - Len(p) \in 1..Len(q) /\ j - Len(p) \in 1..Len(q)
      BY <1>1, <2>2
    <3>3. i - Len(p) = j - Len(p)
      BY <3>1, <3>2, Zenon DEF Inj
    <3> QED BY <1>1, <3>3
  <2>3. CASE i <= Len(p) /\ j > Len(p)
    <3>1. j - Len(p) \in 1..Len(q) /\ i \in 1..Len(p)
      BY <1>1, <2>3
    <3> QED BY <1>1, <1>2, <2>3, <3>1
  <2>4. CASE i > Len(p) /\ j <= Len(p)
    <3>1. i - Len(p) \in 1..Len(q) /\ j \in 1..Len(p)
      BY <1>1, <2>4
    <3> QED BY <1>1, <1>2, <2>4, <3>1
  <2> QED BY <1>1, <2>1, <2>2, <2>3, <2>4
<1>4. ASSUME NEW x \in Elems(p \o q) PROVE x \in Elems(p) \union Elems(q)
  <2>1. PICK i \in 1..(Len(p) + Len(q)) : (p \o q)[i] = x
    BY <1>1, <1>4, Zenon DEF Elems
  <2>2. CASE i <= Len(p)
    BY <1>1, <2>1, <2>2 DEF Elems
  <2>3. CASE i > Len(p)
    <3>1. i - Len(p) \in 1..Len(q) /\ q[i - Len(p)] = x
      BY <1>1, <2>1, <2>3
    <3> QED BY <3>1, Zenon DEF Elems
  <2> QED BY <1>1, <2>2, <2>3
<1>5. ASSUME NEW x \in Elems(p) \union Elems(q) PROVE x \in Elems(p \o q)
  <2>1. CASE x \in Elems(p)
    <3>1. PICK i \in 1..Len(p) : p[i] = x
      BY <2>1 DEF Elems
    <3> QED BY <1>1, <3>1 DEF Elems
  <2>2. CASE x \in Elems(q)
    <3>1. PICK i \in 1..Len(q) : q[i] = x
      BY <2>2 DEF Elems
    <3>2. i + Len(p) \in 1..(Len(p) + Len(q)) /\ (p \o q)[i + Len(p)] = x
      BY <1>1, <3>1
    <3> QED BY <1>1, <3>2, Zenon DEF Elems
  <2> QED BY <1>5, <2>1, <2>2
<1> QED BY <1>1, <1>3, <1>4, <1>5

\* A stack of one slab.
LEMMA SingletonElems ==
  ASSUME NEW S, NEW x \in S
  PROVE  /\ <<x>> \in Seq(S) /\ Len(<<x>>) = 1 /\ Head(<<x>>) = x
         /\ Inj(<<x>>) /\ Elems(<<x>>) = {x} /\ <<x>> # <<>>
BY DEF Inj, Elems

\* Pushing one slab (Local::push).
LEMMA PushElems ==
  ASSUME NEW S, NEW x \in S, NEW q \in Seq(S), Inj(q), x \notin Elems(q)
  PROVE  /\ <<x>> \o q \in Seq(S) /\ Inj(<<x>> \o q)
         /\ Elems(<<x>> \o q) = Elems(q) \union {x}
<1> DEFINE p == <<x>>
<1>1. p \in Seq(S) /\ Inj(p) /\ Elems(p) = {x}
  BY SingletonElems
<1> HIDE DEF p
<1>2. Elems(p) \intersect Elems(q) = {}
  BY <1>1
<1>3. /\ p \o q \in Seq(S) /\ Inj(p \o q) /\ Elems(p \o q) = Elems(p) \union Elems(q)
  BY <1>1, <1>2, ConcatElems
<1> QED BY <1>1, <1>3 DEF p

\* An empty stack.
LEMMA EmptyElems ==
  ASSUME NEW S
  PROVE  <<>> \in Seq(S) /\ Inj(<<>>) /\ Elems(<<>>) = {} /\ Len(<<>>) = 0
BY DEF Inj, Elems

\* Unlinking the slab at position p removes exactly that slab
\* (sized_to_unsized).
LEMMA RemoveAtElems ==
  ASSUME NEW S, NEW q \in Seq(S), Inj(q), NEW p \in 1..Len(q)
  PROVE  /\ RemoveAt(q, p) \in Seq(S) /\ Inj(RemoveAt(q, p))
         /\ Elems(RemoveAt(q, p)) = Elems(q) \ {q[p]}
<1> DEFINE r == RemoveAt(q, p)
<1>1. Len(q) \in Nat /\ Len(q) - 1 \in Nat /\ \A i \in 1..Len(q) : q[i] \in S
  OBVIOUS
<1>2. \A i \in 1..(Len(q) - 1) : r[i] = IF i < p THEN q[i] ELSE q[i + 1]
  BY DEF RemoveAt
<1>3. r \in [1..(Len(q) - 1) -> S]
  BY <1>1 DEF RemoveAt
<1>4. r \in Seq(S) /\ Len(r) = Len(q) - 1
  BY <1>1, <1>3
<1> HIDE DEF r
<1>5. Inj(r)
  BY <1>1, <1>2, <1>4 DEF Inj
<1>6. ASSUME NEW x \in Elems(r) PROVE x \in Elems(q) \ {q[p]}
  <2>1. PICK i \in 1..(Len(q) - 1) : r[i] = x
    BY <1>4, <1>6 DEF Elems
  <2>2. CASE i < p
    BY <1>1, <1>2, <2>1, <2>2 DEF Inj, Elems
  <2>3. CASE ~(i < p)
    <3>1. i + 1 \in 1..Len(q) /\ q[i + 1] = x /\ i + 1 # p
      BY <1>1, <1>2, <2>1, <2>3
    <3> QED BY <3>1, Zenon DEF Inj, Elems
  <2> QED BY <2>2, <2>3
<1>7. ASSUME NEW x \in Elems(q) \ {q[p]} PROVE x \in Elems(r)
  <2>1. PICK i \in 1..Len(q) : q[i] = x
    BY <1>7 DEF Elems
  <2>2. CASE i < p
    BY <1>1, <1>2, <1>4, <2>1, <2>2 DEF Elems
  <2>3. CASE ~(i < p)
    <3>1. i - 1 \in 1..(Len(q) - 1) /\ r[i - 1] = x
      BY <1>1, <1>2, <1>7, <2>1, <2>3
    <3> QED BY <1>4, <3>1 DEF Elems
  <2> QED BY <2>2, <2>3
<1>8. Elems(r) = Elems(q) \ {q[p]}
  BY <1>6, <1>7
<1> QED BY <1>4, <1>5, <1>8 DEF r

\* Taking the first n slabs of a stack splits its elements
\* (the batch of unsized_to_global).
LEMMA SplitElems ==
  ASSUME NEW S, NEW q \in Seq(S), Inj(q), NEW n \in 1..Len(q)
  PROVE  LET a == SubSeq(q, 1, n)
             b == SubSeq(q, n + 1, Len(q)) IN
         /\ a \in Seq(S) /\ b \in Seq(S) /\ Inj(a) /\ Inj(b)
         /\ Elems(a) \intersect Elems(b) = {}
         /\ Elems(a) \union Elems(b) = Elems(q)
         /\ Elems(a) = {q[i] : i \in 1..n}
<1> DEFINE a == SubSeq(q, 1, n)
           b == SubSeq(q, n + 1, Len(q))
<1>1. /\ Len(q) \in Nat /\ n \in Nat /\ n <= Len(q)
      /\ a \in Seq(S) /\ Len(a) = n /\ \A i \in 1..n : a[i] = q[i]
  OBVIOUS
<1>2. /\ b \in Seq(S) /\ Len(b) = Len(q) - n
      /\ \A i \in 1..(Len(q) - n) : b[i] = q[i + n]
  BY <1>1
<1> HIDE DEF a, b
<1>3. Inj(a) /\ Elems(a) = {q[i] : i \in 1..n}
  BY <1>1 DEF Inj, Elems
<1>4. Inj(b)
  <2> SUFFICES ASSUME NEW i \in 1..(Len(q) - n), NEW j \in 1..(Len(q) - n),
                      b[i] = b[j]
               PROVE  i = j
    BY <1>2, Zenon DEF Inj
  <2>1. i + n \in 1..Len(q) /\ j + n \in 1..Len(q) /\ q[i + n] = q[j + n]
    BY <1>1, <1>2
  <2>2. i + n = j + n
    BY <2>1, Zenon DEF Inj
  <2> QED BY <1>1, <2>2
<1>5. ASSUME NEW x \in Elems(b) PROVE x \in Elems(q) /\ x \notin Elems(a)
  <2>1. PICK i \in 1..(Len(q) - n) : b[i] = x
    BY <1>2, <1>5 DEF Elems
  <2>2. i + n \in 1..Len(q) /\ q[i + n] = x
    BY <1>1, <1>2, <2>1
  <2>3. ASSUME NEW j \in 1..n, q[j] = x PROVE FALSE
    <3>1. j = i + n
      BY <1>1, <2>2, <2>3 DEF Inj
    <3> QED BY <1>1, <3>1
  <2> QED BY <1>3, <2>2, <2>3, Zenon DEF Elems
<1>6. ASSUME NEW x \in Elems(q) PROVE x \in Elems(a) \union Elems(b)
  <2>1. PICK i \in 1..Len(q) : q[i] = x
    BY <1>6 DEF Elems
  <2>2. CASE i <= n
    BY <1>1, <1>3, <2>1, <2>2
  <2>3. CASE i > n
    <3>1. i - n \in 1..(Len(q) - n) /\ b[i - n] = x
      BY <1>1, <1>2, <2>1, <2>3
    <3> QED BY <1>2, <3>1, Zenon DEF Elems
  <2> QED BY <1>1, <2>2, <2>3
<1>7. Elems(a) \subseteq Elems(q)
  BY <1>1, <1>3 DEF Elems
<1>8. Elems(a) \intersect Elems(b) = {} /\ Elems(a) \union Elems(b) = Elems(q)
  BY <1>5, <1>6, <1>7
<1> QED BY <1>1, <1>2, <1>3, <1>4, <1>8, Zenon DEF a, b

-----------------------------------------------------------------------------
(***************************************************************************)
(* The inductive invariant.                                                *)
(***************************************************************************)

\* The slabs of a stack.
E(k) == Elems(stack[k])

\* The counting argument: what is left of a slab in use.
Conserved(s) ==
  /\ class[s] \in Class
  /\ free[s] \union live[s] \subseteq Blocks(class[s])
  /\ free[s] \intersect live[s] = {}
  /\ remote[s] = Cardinality(free[s]) + Cardinality(live[s])

\* Every slab is in one place, below the bump index.
Places ==
  /\ \A k \in Keys : Inj(stack[k])
  /\ \A k, l \in Keys : k # l => E(k) \intersect E(l) = {}
  /\ \A k \in Keys : \A s \in E(k) : s < bump

\* A thread's hand is used between two transfers only, and a thread that goes
\* to the shared stack or to the bump index has no unsized slab.
Hands ==
  \A t \in Thread :
    /\ pc[t] \in {"own", "claim"} => Len(stack[Hand(t)]) = 1
    /\ pc[t] \notin {"own", "claim", "push"} => stack[Hand(t)] = <<>>
    /\ pc[t] \in {"pop", "own", "bump"} => stack[Unsized(t)] = <<>>

\* What holds of a slab in each place.
UseOf(s) ==
  /\ s >= bump => live[s] = {} /\ (Validate => owner[s] = None)
  /\ \A t \in Thread : s \in E(Unsized(t)) => owner[s] = t /\ live[s] = {}
  /\ \A t \in Thread : s \in E(Hand(t)) =>
       /\ live[s] = {}
       /\ pc[t] = "claim" => free[s] = {}
       /\ Validate /\ pc[t] # "claim" => owner[s] = None
  /\ s \in E(Global) => live[s] = {} /\ (Validate => owner[s] = None)
  /\ \A t \in Thread, c \in Class : s \in E(Sized(t, c)) =>
       owner[s] = t /\ class[s] = c /\ free[s] # {} /\ Conserved(s)
  /\ s < bump /\ (\A k \in Keys : s \notin E(k)) =>
       free[s] = {} /\ live[s] # {} /\ Conserved(s)

Uses == \A s \in Slab : UseOf(s)

BlockPCs == {"detach", "disown", "local", "remote"}

\* What holds of an operation in progress: its block is in use, and the owner
\* it has read is current.
OpOf(t) ==
  /\ pc[t] \in BlockPCs => cur[t] \in Slab /\ blk[t] \in live[cur[t]]
  /\ pc[t] \notin BlockPCs => cur[t] = None /\ blk[t] = None
  /\ pc[t] \in {"peek", "pop", "own", "bump"} => cls[t] \in Class
  /\ pc[t] \in {"detach", "disown", "local"} => owner[cur[t]] = t
  /\ pc[t] = "remote" => owner[cur[t]] # t
  /\ pc[t] \in {"detach", "disown"} => \A k \in Keys : cur[t] \notin E(k)

\* No two operations have the same block.
Ops ==
  /\ \A t \in Thread : OpOf(t)
  /\ \A t, u \in Thread :
       pc[t] \in BlockPCs /\ cur[t] = cur[u] /\ blk[t] = blk[u] => t = u

IInv == TypeOK /\ Places /\ Hands /\ Uses /\ Ops

\* The keys of the stacks are distinct.
LEMMA KeyFacts ==
  /\ Global \in Keys
  /\ \A t \in Thread : Unsized(t) \in Keys /\ Hand(t) \in Keys
  /\ \A t \in Thread, c \in Class : Sized(t, c) \in Keys
  /\ \A t, u : (Unsized(t) = Unsized(u) => t = u) /\ (Hand(t) = Hand(u) => t = u)
  /\ \A t, u, c, d : Sized(t, c) = Sized(u, d) => t = u /\ c = d
  /\ \A t, u : Unsized(t) # Hand(u) /\ Unsized(t) # Global /\ Hand(t) # Global
  /\ \A t, u, c : Sized(t, c) # Unsized(u) /\ Sized(t, c) # Hand(u)
                                            /\ Sized(t, c) # Global
BY DEF Keys, Unsized, Sized, Hand, Global

\* A slab below the bump index is not at or above it.
LEMMA Below ==
  ASSUME IInv, NEW s \in Slab, s < bump
  PROVE  ~(s >= bump)
BY DEF IInv, TypeOK, Slab

\* A slab that a step leaves alone, where it is.
LEMMA UseFrame ==
  ASSUME NEW x \in Slab, UseOf(x),
         x < bump' <=> x < bump, x >= bump' <=> x >= bump,
         owner'[x] = owner[x], class'[x] = class[x], free'[x] = free[x],
         remote'[x] = remote[x], live'[x] = live[x],
         \A k \in Keys : x \in E(k)' <=> x \in E(k),
         \A u \in Thread : x \in E(Hand(u)) => (pc'[u] = "claim" <=> pc[u] = "claim")
  PROVE  UseOf(x)'
<1>1. Conserved(x) <=> Conserved(x)'
  BY Zenon DEF Conserved
<1> QED BY <1>1, KeyFacts DEF UseOf

\* What a step owes a slab that it puts on a sized stack, ...
LEMMA UseSized ==
  ASSUME NEW x, NEW t \in Thread, NEW c \in Class, ~(x >= bump'),
         \A k \in Keys : x \in E(k)' <=> k = Sized(t, c),
         owner'[x] = t, class'[x] = c, free'[x] # {}, Conserved(x)'
  PROVE  UseOf(x)'
BY KeyFacts DEF UseOf

\* ... on an unsized stack, ...
LEMMA UseUnsized ==
  ASSUME NEW x, NEW t \in Thread, ~(x >= bump'),
         \A k \in Keys : x \in E(k)' <=> k = Unsized(t),
         owner'[x] = t, live'[x] = {}
  PROVE  UseOf(x)'
BY KeyFacts DEF UseOf

\* ... on the global stack, ...
LEMMA UseGlobal ==
  ASSUME NEW x, ~(x >= bump'),
         \A k \in Keys : x \in E(k)' <=> k = Global,
         live'[x] = {}, Validate => owner'[x] = None
  PROVE  UseOf(x)'
BY KeyFacts DEF UseOf

\* ... and in a thread's hand.
LEMMA UseHand ==
  ASSUME NEW x, NEW t \in Thread, ~(x >= bump'),
         \A k \in Keys : x \in E(k)' <=> k = Hand(t),
         live'[x] = {},
         pc'[t] = "claim" => free'[x] = {},
         Validate /\ pc'[t] # "claim" => owner'[x] = None
  PROVE  UseOf(x)'
BY KeyFacts DEF UseOf

\* An operation that another thread's step leaves alone.
LEMMA OpFrame ==
  ASSUME NEW u \in Thread, OpOf(u),
         pc'[u] = pc[u], cur'[u] = cur[u], blk'[u] = blk[u], cls'[u] = cls[u],
         pc[u] \in BlockPCs => blk[u] \in live'[cur[u]],
         pc[u] \in {"detach", "disown", "local"} =>
           owner'[cur[u]] = owner[cur[u]],
         pc[u] = "remote" => owner'[cur[u]] # u,
         pc[u] \in {"detach", "disown"} => \A k \in Keys : cur[u] \notin E(k)'
  PROVE  OpOf(u)'
BY Zenon DEF OpOf, BlockPCs

\* The operations still have different blocks when thread t has finished, or
\* has started on a block that nobody else has.
LEMMA UniqueFrame ==
  ASSUME IInv, NEW t \in Thread, \A u \in Thread : OpOf(u)',
         \A u \in Thread : u # t => /\ pc'[u] = pc[u]
                                  /\ cur'[u] = cur[u] /\ blk'[u] = blk[u],
         pc'[t] \in BlockPCs =>
           \A u \in Thread : u # t => ~(cur[u] = cur'[t] /\ blk[u] = blk'[t])
  PROVE  Ops'
<1> SUFFICES ASSUME NEW u \in Thread, NEW v \in Thread, pc'[u] \in BlockPCs,
                    cur'[u] = cur'[v], blk'[u] = blk'[v]
             PROVE  u = v
  BY DEF Ops
<1>1. cur'[u] \in Slab /\ None \notin Slab
  BY ConstantsAssumption DEF OpOf, Slab
<1>2. pc'[v] \in BlockPCs
  BY <1>1 DEF OpOf
<1>3. CASE u # t /\ v # t
  BY <1>3 DEF IInv, Ops
<1>4. CASE u = t /\ v # t
  BY <1>4
<1>5. CASE u # t /\ v = t
  BY <1>2, <1>5
<1> QED BY <1>3, <1>4, <1>5

\* A transfer of the slabs of M keeps every slab in one place if those of M
\* are in at most one afterwards.
LEMMA PlacesFrame ==
  ASSUME IInv, NEW M, bump' \in Nat, bump <= bump',
         \A k \in Keys : Inj(stack[k])',
         \A k \in Keys, x \in Slab : x \notin M => (x \in E(k)' <=> x \in E(k)),
         \A k \in Keys : E(k)' \subseteq Slab,
         \A k \in Keys, x \in M : x \in E(k)' => x < bump',
         \A k, l \in Keys, x \in M : x \in E(k)' /\ x \in E(l)' => k = l
  PROVE  Places'
<1>1. ASSUME NEW k \in Keys, NEW l \in Keys, k # l, NEW x \in E(k)', x \in E(l)'
      PROVE  FALSE
  BY <1>1 DEF IInv, Places
<1>2. ASSUME NEW k \in Keys, NEW x \in E(k)' PROVE x < bump'
  <2>1. CASE x \in M
    BY <1>2, <2>1
  <2>2. CASE x \notin M
    <3>1. x < bump /\ x \in Slab /\ bump \in Nat
      BY <1>2, <2>2, Zenon DEF IInv, Places, TypeOK
    <3> QED BY <3>1 DEF Slab
  <2> QED BY <2>1, <2>2
<1> QED BY <1>1, <1>2 DEF Places

\* The same for one slab.
LEMMA PlacesMoveOne ==
  ASSUME IInv, NEW s \in Slab, bump' \in Nat, bump <= bump', s < bump',
         \A k \in Keys : Inj(stack[k])',
         \A k \in Keys, x \in Slab : x # s => (x \in E(k)' <=> x \in E(k)),
         \A k \in Keys : E(k)' \subseteq Slab,
         \A k, l \in Keys : s \in E(k)' /\ s \in E(l)' => k = l
  PROVE  Places'
<1> DEFINE M == {s}
<1>1. \A k \in Keys, x \in Slab : x \notin M => (x \in E(k)' <=> x \in E(k))
  OBVIOUS
<1>2. \A k \in Keys, x \in M : x \in E(k)' => x < bump'
  OBVIOUS
<1>3. \A k, l \in Keys, x \in M : x \in E(k)' /\ x \in E(l)' => k = l
  OBVIOUS
<1> HIDE DEF M
<1> QED BY <1>1, <1>2, <1>3, PlacesFrame

\* The hands and unsized stacks of the other threads are left alone.
LEMMA HandsFrame ==
  ASSUME IInv, NEW t \in Thread,
         \A u \in Thread : u # t => /\ pc'[u] = pc[u]
                                  /\ stack'[Hand(u)] = stack[Hand(u)]
                                  /\ stack'[Unsized(u)] = stack[Unsized(u)],
         pc'[t] \in {"own", "claim"} => Len(stack'[Hand(t)]) = 1,
         pc'[t] \notin {"own", "claim", "push"} => stack'[Hand(t)] = <<>>,
         pc'[t] \in {"pop", "own", "bump"} => stack'[Unsized(t)] = <<>>
  PROVE  Hands'
BY DEF Hands, IInv

\* Steps that move no slab and change no metadata: the emptiness test of
\* Shared::pop, the decision of detach, the owner read of Heap::free.
LEMMA StillInv ==
  ASSUME IInv, NEW t \in Thread, UNCHANGED <<meta, stack, bump, live>>, TypeOK',
         \A u \in Thread : u # t => /\ pc'[u] = pc[u] /\ cls'[u] = cls[u]
                                  /\ cur'[u] = cur[u] /\ blk'[u] = blk[u],
         pc[t] \notin {"own", "claim", "push"}, pc'[t] \notin {"own", "claim", "push"},
         pc'[t] \in {"pop", "bump"} => stack[Unsized(t)] = <<>>,
         OpOf(t)',
         pc'[t] \in BlockPCs =>
           \A u \in Thread : u # t => ~(cur[u] = cur'[t] /\ blk[u] = blk'[t])
  PROVE  IInv'
<1> USE KeyFacts DEF meta
<1>1. \A k : E(k)' = E(k)
  BY Zenon DEF E
<1>2. Places' /\ Hands'
  BY <1>1 DEF Places, Hands, IInv
<1>3. E(Hand(t)) = {}
  BY EmptyElems, Zenon DEF IInv, Hands, E
<1>4. Uses'
  BY <1>1, <1>3, UseFrame, Zenon DEF IInv, Uses
<1>5. ASSUME NEW u \in Thread, u # t PROVE OpOf(u)'
  BY <1>1, <1>5, OpFrame, Zenon DEF IInv, Ops, OpOf, BlockPCs
<1>6. Ops'
  BY Zenon, <1>5, UniqueFrame
<1> QED BY <1>2, <1>4, <1>6, Zenon DEF IInv

\* Heap::detach's decision.
LEMMA DetachInv ==
  ASSUME IInv, NEW t \in Thread, Detach(t)
  PROVE  IInv'
<1>1. /\ pc[t] = "detach" /\ UNCHANGED <<meta, stack, bump, live, cls>>
      /\ \/ pc' = [pc EXCEPT ![t] = "disown"] /\ UNCHANGED <<cur, blk>>
         \/ /\ pc' = [pc EXCEPT ![t] = "idle"]
            /\ cur' = [cur EXCEPT ![t] = None] /\ blk' = [blk EXCEPT ![t] = None]
  BY Zenon DEF Detach, Goto, Work
<1>2. TypeOK' /\ pc'[t] \in {"disown", "idle"}
  BY <1>1, Zenon DEF IInv, TypeOK, PCs, meta
<1>3. \A u \in Thread : u # t => /\ pc'[u] = pc[u] /\ cls'[u] = cls[u]
                               /\ cur'[u] = cur[u] /\ blk'[u] = blk[u]
  BY <1>1 DEF IInv, TypeOK
<1>4. /\ pc'[t] = "disown" => cur'[t] = cur[t] /\ blk'[t] = blk[t]
      /\ pc'[t] = "idle" => cur'[t] = None /\ blk'[t] = None
  BY <1>1 DEF IInv, TypeOK
<1>5. OpOf(t)'
  BY <1>1, <1>2, <1>4, Zenon DEF OpOf, BlockPCs, IInv, Ops, meta, E
<1>6. pc'[t] \in BlockPCs =>
        \A u \in Thread : u # t => ~(cur[u] = cur'[t] /\ blk[u] = blk'[t])
  BY <1>1, <1>2, <1>4, Zenon DEF BlockPCs, IInv, Ops
<1> QED BY <1>1, <1>2, <1>3, <1>5, <1>6, StillInv, Zenon

\* Heap::detach's disown: the slab is in no stack, and no other thread relies
\* on being its owner.
LEMMA DisownInv ==
  ASSUME IInv, NEW t \in Thread, Disown(t)
  PROVE  IInv'
<1> USE KeyFacts
<1>1. PICK s \in Slab : s = cur[t]
  BY Zenon DEF Disown, IInv, Ops, OpOf, BlockPCs
<1>2. /\ pc[t] = "disown" /\ UNCHANGED <<class, free, remote, stack, bump, live, cls>>
      /\ owner' = [owner EXCEPT ![s] = None] /\ pc' = [pc EXCEPT ![t] = "idle"]
      /\ cur' = [cur EXCEPT ![t] = None] /\ blk' = [blk EXCEPT ![t] = None]
  BY <1>1, Zenon DEF Disown, Goto, Work
<1>3. TypeOK'
  BY <1>2, Zenon DEF IInv, TypeOK, PCs
<1>4. /\ pc'[t] = "idle" /\ cur'[t] = None /\ blk'[t] = None
      /\ \A u \in Thread : u # t => /\ pc'[u] = pc[u] /\ cls'[u] = cls[u]
                                   /\ cur'[u] = cur[u] /\ blk'[u] = blk[u]
      /\ owner'[s] = None /\ \A x \in Slab : x # s => owner'[x] = owner[x]
  BY <1>2, Zenon DEF IInv, TypeOK
<1>5. \A k : E(k)' = E(k)
  BY <1>2 DEF E
<1>6. /\ owner[s] = t /\ live[s] # {} /\ \A k \in Keys : s \notin E(k)
  BY <1>1, <1>2, Zenon DEF IInv, Ops, OpOf, BlockPCs
<1>7. Places'
  BY <1>2, <1>5, Zenon DEF IInv, Places
<1>8. Hands'
  BY <1>2, <1>4, HandsFrame, Zenon DEF IInv, Hands
<1>9. E(Hand(t)) = {}
  BY <1>2, EmptyElems, Zenon DEF IInv, Hands, E
<1>10. ASSUME NEW x \in Slab, x # s PROVE UseOf(x)'
  BY <1>2, <1>4, <1>5, <1>9, <1>10, UseFrame, Zenon DEF IInv, Uses
<1>11. UseOf(s)'
  <2>1. UseOf(s) /\ (Conserved(s) <=> Conserved(s)')
    BY <1>2, Zenon DEF IInv, Uses, Conserved
  <2> QED BY <1>2, <1>5, <1>6, <2>1, Zenon DEF UseOf
<1>12. ASSUME NEW u \in Thread, u # t PROVE OpOf(u)'
  <2>1. OpOf(u) /\ None # u
    BY ConstantsAssumption, Zenon DEF IInv, Ops
  <2>2. pc[u] \in {"detach", "disown", "local"} => cur[u] \in Slab /\ cur[u] # s
    BY <1>6, <1>12, <2>1, Zenon DEF OpOf, BlockPCs
  <2>3. pc[u] = "remote" => cur[u] \in Slab /\ owner'[cur[u]] # u
    BY <1>4, <1>12, <2>1, Zenon DEF OpOf, BlockPCs
  <2> QED BY <1>2, <1>4, <1>5, <1>12, <2>1, <2>2, <2>3, OpFrame, Zenon DEF OpOf, BlockPCs
<1>13. OpOf(t)'
  BY <1>4, Zenon DEF OpOf, BlockPCs
<1>14. Ops'
  BY <1>4, <1>12, <1>13, UniqueFrame DEF BlockPCs
<1> QED BY <1>3, <1>7, <1>8, <1>10, <1>11, <1>14 DEF IInv, Uses

\* unsized_to_sized: an unused slab gets a class, with all of its blocks free.
LEMMA UnsizedToSizedInv ==
  ASSUME IInv, NEW t \in Thread, NEW c \in Class, UnsizedToSized(t, c),
         Cardinality(Blocks(c)) = Count[c], Cardinality({}) = 0
  PROVE  IInv'
<1> DEFINE k0 == Sized(t, c)
           k1 == Unsized(t)
<1> USE KeyFacts
<1>1. /\ stack[k1] \in Seq(Slab) /\ stack[k1] # <<>> /\ Inj(stack[k1])
      /\ k0 \in Keys /\ k1 \in Keys /\ k0 # k1 /\ stack[k0] = <<>>
  BY Zenon DEF IInv, TypeOK, Places, UnsizedToSized
<1>2. PICK s \in Slab :
         /\ s = Head(stack[k1])
         /\ s \in E(k1) /\ Tail(stack[k1]) \in Seq(Slab)
         /\ Inj(Tail(stack[k1])) /\ Elems(Tail(stack[k1])) = E(k1) \ {s}
  BY <1>1, TailElems, Zenon DEF E
<1>3. /\ owner[s] = t /\ live[s] = {} /\ s < bump
      /\ \A k \in Keys : k # k1 => s \notin E(k)
  BY <1>1, <1>2, Zenon DEF IInv, Uses, UseOf, Places
<1>4. /\ class' = [class EXCEPT ![s] = c]
      /\ free' = [free EXCEPT ![s] = Blocks(c)]
      /\ remote' = [remote EXCEPT ![s] = Count[c]]
      /\ stack' = [stack EXCEPT ![k1] = Tail(@), ![k0] = <<s>>]
      /\ pc' = [pc EXCEPT ![t] = "peek"] /\ cls' = [cls EXCEPT ![t] = c]
      /\ UNCHANGED <<owner, bump, live, cur, blk>>
      /\ pc[t] \in {"idle", "peek"}
  BY <1>2, Zenon DEF UnsizedToSized, Goto, Allocating
<1> HIDE DEF k0, k1
<1>5. Count[c] \in Nat /\ Count[c] > 0 /\ Blocks(c) \subseteq Nat
  BY ConstantsAssumption DEF Blocks
<1>6. TypeOK'
  <2>1. stack' \in [Keys -> Seq(Slab)]
    <3>1. <<s>> \in Seq(Slab)
      BY Zenon, SingletonElems
    <3> QED BY <1>1, <1>2, <1>4, <3>1, Zenon DEF IInv, TypeOK
  <2>2. pc' \in [Thread -> PCs] /\ cls' \in [Thread -> Class \union {None}]
    BY <1>4, Zenon DEF IInv, TypeOK, PCs
  <2>3. /\ class' \in [Slab -> Class \union {None}] /\ remote' \in [Slab -> Nat]
        /\ free' \in [Slab -> SUBSET Nat]
    BY <1>4, <1>5, Zenon DEF IInv, TypeOK
  <2> QED BY <1>4, <2>1, <2>2, <2>3, Zenon DEF IInv, TypeOK
<1>7. /\ E(k0)' = {s} /\ Inj(stack[k0])' /\ E(k1)' = E(k1) \ {s} /\ Inj(stack[k1])'
      /\ \A k \in Keys : k # k0 /\ k # k1 => stack'[k] = stack[k] /\ E(k)' = E(k)
  BY <1>1, <1>2, <1>4, SingletonElems, Zenon DEF E, IInv, TypeOK
<1>8. E(k0) = {}
  BY <1>1, EmptyElems, Zenon DEF E
<1>9. Places'
  <2>1. \A k \in Keys : Inj(stack[k])'
    BY <1>7, Zenon DEF Places, IInv
  <2>2. ASSUME NEW k \in Keys, NEW l \in Keys, k # l, NEW x \in E(k)', x \in E(l)'
        PROVE  FALSE
    <3>1. CASE x = s
      BY <1>3, <1>7, <2>2, <3>1
    <3>2. CASE x # s
      BY <1>7, <2>2, <3>2 DEF Places, IInv
    <3> QED BY <3>1, <3>2
  <2>3. \A k \in Keys : \A x \in E(k)' : x < bump'
    BY <1>3, <1>4, <1>7 DEF Places, IInv
  <2> QED BY <2>1, <2>2, <2>3 DEF Places
<1>10. Hands'
  <2> SUFFICES ASSUME NEW u \in Thread
               PROVE  /\ pc'[u] \in {"own", "claim"} => Len(stack'[Hand(u)]) = 1
                      /\ pc'[u] \notin {"own", "claim", "push"} => stack'[Hand(u)] = <<>>
                      /\ pc'[u] \in {"pop", "own", "bump"} => stack'[Unsized(u)] = <<>>
    BY Zenon DEF Hands
  <2>1. stack'[Hand(u)] = stack[Hand(u)]
    BY <1>7 DEF k0, k1
  <2>2. u # t => pc'[u] = pc[u] /\ stack'[Unsized(u)] = stack[Unsized(u)]
    BY <1>4, <1>7 DEF k0, k1, IInv, TypeOK
  <2>3. pc'[t] = "peek"
    BY <1>4, Zenon DEF IInv, TypeOK
  <2> QED BY <1>4, <2>1, <2>2, <2>3, Zenon DEF Hands, IInv
<1>11. stack[Hand(t)] = <<>> /\ E(Hand(t)) = {}
  BY <1>4, EmptyElems, Zenon DEF IInv, Hands, E
<1>12. ASSUME NEW x \in Slab, x # s PROVE UseOf(x)'
  <2>1. \A k \in Keys : x \in E(k)' <=> x \in E(k)
    BY Zenon, <1>7, <1>8, <1>12
  <2>2. \A u \in Thread : u # t => pc'[u] = pc[u]
    BY <1>4, Zenon DEF IInv, TypeOK
  <2>3. /\ owner'[x] = owner[x] /\ class'[x] = class[x] /\ free'[x] = free[x]
        /\ remote'[x] = remote[x] /\ live'[x] = live[x] /\ bump' = bump
    BY <1>4, <1>12, Zenon DEF IInv, TypeOK
  <2> QED BY <1>11, <2>1, <2>2, <2>3, UseFrame, Zenon DEF IInv, Uses
<1>13. UseOf(s)'
  <2>1. /\ class'[s] = c /\ free'[s] = Blocks(c) /\ remote'[s] = Count[c]
        /\ live'[s] = {} /\ owner'[s] = t /\ bump' = bump
    BY <1>3, <1>4, Zenon DEF IInv, TypeOK
  <2>2. Conserved(s)' /\ free'[s] # {}
    BY <1>5, <2>1, SMTT(30) DEF Conserved, Blocks
  <2>3. \A k \in Keys : s \in E(k)' <=> k = k0
    BY <1>3, <1>7
  <2>4. ~(s >= bump')
    BY <1>3, <2>1, Below
  <2> QED BY <2>1, <2>2, <2>3, <2>4, UseSized DEF k0
<1>14. ASSUME NEW u \in Thread PROVE OpOf(u)'
  <2>1. pc[u] \in BlockPCs => cur[u] \in Slab /\ cur[u] # s
    BY <1>3, Zenon DEF IInv, Ops, OpOf
  <2>2. CASE u = t
    BY <1>4, <2>2, Zenon DEF IInv, Ops, OpOf, TypeOK, BlockPCs
  <2>3. CASE u # t
    <3>1. pc'[u] = pc[u] /\ cls'[u] = cls[u]
      BY <1>4, <2>3, Zenon DEF IInv, TypeOK
    <3>2. pc[u] \in {"detach", "disown"} =>
            pc[u] \in BlockPCs /\ \A k \in Keys : cur[u] \notin E(k)
      BY Zenon DEF IInv, Ops, OpOf, BlockPCs
    <3>3. pc[u] \in {"detach", "disown"} => \A k \in Keys : cur[u] \notin E(k)'
      BY <1>7, <2>1, <3>2
    <3> QED BY <1>4, <3>1, <3>3, OpFrame, Zenon DEF IInv, Ops, OpOf, BlockPCs
  <2> QED BY <2>2, <2>3
<1>15. Ops'
  BY <1>4, <1>14, Zenon DEF Ops, IInv, TypeOK, BlockPCs
<1> QED BY <1>6, <1>9, <1>10, <1>12, <1>13, <1>15 DEF IInv, Uses

\* Shared::pop's look at the global stack.
LEMMA GlobalIsEmptyInv ==
  ASSUME IInv, NEW t \in Thread, NEW c \in Class, GlobalIsEmpty(t, c)
  PROVE  IInv'
<1>1. /\ pc[t] \in {"idle", "peek"} /\ stack[Unsized(t)] = <<>>
      /\ pc' = [pc EXCEPT ![t] = IF stack[Global] = <<>> THEN "bump" ELSE "pop"]
      /\ cls' = [cls EXCEPT ![t] = c]
      /\ UNCHANGED <<meta, stack, bump, live, cur, blk>>
  BY Zenon DEF GlobalIsEmpty, Goto, Allocating
<1>2. TypeOK' /\ pc'[t] \in {"bump", "pop"} /\ cls'[t] = c
  BY <1>1, Zenon DEF IInv, TypeOK, PCs, meta
<1>3. \A u \in Thread : u # t => pc'[u] = pc[u] /\ cls'[u] = cls[u]
  BY <1>1 DEF IInv, TypeOK
<1>4. OpOf(t)'
  BY <1>1, <1>2, Zenon DEF OpOf, BlockPCs, IInv, Ops
<1>5. pc'[t] \notin BlockPCs
  BY <1>2 DEF BlockPCs
<1> QED BY Zenon, <1>1, <1>2, <1>3, <1>4, <1>5, StillInv

-----------------------------------------------------------------------------
\* Global::pop: the head of the global stack moves to the thread's hand.
LEMMA SharedPopInv ==
  ASSUME IInv, NEW t \in Thread, SharedPop(t)
  PROVE  IInv'
<1> USE KeyFacts
<1>1. /\ pc[t] = "pop" /\ UNCHANGED <<owner, class, free, remote, bump, live, cls, cur, blk>>
      /\ stack[Unsized(t)] = <<>> /\ stack[Hand(t)] = <<>>
  BY Zenon DEF SharedPop, meta, IInv, Hands
<1>2. CASE stack[Global] = <<>>
  <2>1. pc' = [pc EXCEPT ![t] = "bump"] /\ UNCHANGED stack
    BY <1>2, Zenon DEF SharedPop, Goto
  <2>2. TypeOK' /\ pc'[t] = "bump" /\ \A u \in Thread : u # t => pc'[u] = pc[u]
    BY <1>1, <2>1, Zenon DEF IInv, TypeOK, PCs
  <2>3. OpOf(t)' /\ pc'[t] \notin BlockPCs
    BY <1>1, <2>2, Zenon DEF OpOf, BlockPCs, IInv, Ops
  <2> QED BY <1>1, <2>1, <2>2, <2>3, StillInv, Zenon DEF meta
<1>3. CASE stack[Global] # <<>>
  <2>1. /\ stack[Global] \in Seq(Slab) /\ Inj(stack[Global])
    BY Zenon DEF IInv, TypeOK, Places
  <2>2. PICK s \in Slab :
           /\ s = Head(stack[Global])
           /\ s \in E(Global) /\ Tail(stack[Global]) \in Seq(Slab)
           /\ Inj(Tail(stack[Global])) /\ Elems(Tail(stack[Global])) = E(Global) \ {s}
    BY <1>3, <2>1, TailElems, Zenon DEF E
  <2>3. /\ stack' = [stack EXCEPT ![Hand(t)] = <<s>>, ![Global] = Tail(@)]
        /\ pc' = [pc EXCEPT ![t] = "own"]
    BY <1>3, <2>2, Zenon DEF SharedPop, Goto
  <2>4. /\ <<s>> \in Seq(Slab) /\ Len(<<s>>) = 1 /\ Inj(<<s>>) /\ Elems(<<s>>) = {s}
    BY SingletonElems
  <2>5. stack' \in [Keys -> Seq(Slab)]
    BY <2>2, <2>3, <2>4, Zenon DEF IInv, TypeOK
  <2>6. TypeOK' /\ pc'[t] = "own" /\ \A u \in Thread : u # t => pc'[u] = pc[u]
    BY <1>1, <2>3, <2>5, Zenon DEF IInv, TypeOK, PCs
  <2>7. /\ stack'[Hand(t)] = <<s>> /\ stack'[Global] = Tail(stack[Global])
        /\ \A k \in Keys : k # Hand(t) /\ k # Global => stack'[k] = stack[k]
    BY <2>3, Zenon DEF IInv, TypeOK
  <2>8. /\ E(Hand(t))' = {s} /\ E(Global)' = E(Global) \ {s}
        /\ \A k \in Keys : k # Hand(t) /\ k # Global => E(k)' = E(k)
        /\ \A k \in Keys : Inj(stack[k])'
    BY <2>2, <2>4, <2>7, Zenon DEF E, IInv, Places
  <2>9. /\ live[s] = {} /\ (Validate => owner[s] = None) /\ s < bump
        /\ \A k \in Keys : k # Global => s \notin E(k)
        /\ E(Hand(t)) = {}
    BY <1>1, <2>2, EmptyElems, Zenon DEF IInv, Uses, UseOf, Places, E
  <2>10. /\ \A k \in Keys, x \in Slab : x # s => (x \in E(k)' <=> x \in E(k))
         /\ \A k \in Keys : s \in E(k)' <=> k = Hand(t)
    BY <2>8, <2>9, SMTT(30)
  <2>11. \A k \in Keys : E(k)' \subseteq Slab
    BY <2>5 DEF E, Elems
  <2>12. Places'
    <3>1. bump' \in Nat /\ bump <= bump'
      BY <1>1 DEF IInv, TypeOK
    <3> QED BY <1>1, <2>8, <2>9, <2>10, <2>11, <3>1, PlacesMoveOne, Zenon
  <2>13. Hands'
    BY <1>1, <2>4, <2>6, <2>7, HandsFrame
  <2>14. ASSUME NEW x \in Slab, x # s PROVE UseOf(x)'
    BY <1>1, <2>6, <2>9, <2>10, <2>14, UseFrame, Zenon DEF IInv, Uses
  <2>15. UseOf(s)'
    <3>1. ~(s >= bump') /\ live'[s] = {} /\ (Validate => owner'[s] = None)
      BY Zenon, <1>1, <2>9, Below
    <3> QED BY Zenon, <2>6, <2>10, <3>1, UseHand
  <2>16. ASSUME NEW u \in Thread PROVE OpOf(u)'
    <3>1. OpOf(u) /\ (pc[u] \in BlockPCs => cur[u] \in Slab /\ cur[u] # s)
      BY <2>9, Zenon DEF IInv, Ops, OpOf
    <3>2. CASE u = t
      BY <1>1, <2>6, <3>1, <3>2, Zenon DEF OpOf, BlockPCs
    <3>3. CASE u # t
      BY <1>1, <2>6, <2>10, <3>1, <3>3, OpFrame, Zenon DEF OpOf, BlockPCs
    <3> QED BY <3>2, <3>3
  <2>17. Ops'
    BY <1>1, <2>6, <2>16, UniqueFrame, Zenon DEF BlockPCs
  <2> QED BY <2>6, <2>12, <2>13, <2>14, <2>15, <2>17, Zenon DEF IInv, Uses
<1> QED BY <1>2, <1>3

\* A slab in a thread's hand becomes its own: the end of Heap::allocate after
\* a pop from the global stack, and Heap::claim.
LEMMA AdoptInv ==
  ASSUME IInv, NEW t \in Thread, GlobalToUnsized(t) \/ Claim(t)
  PROVE  IInv'
<1> USE KeyFacts
<1> DEFINE h == Hand(t)
           k1 == Unsized(t)
<1>1. /\ pc[t] \in {"own", "claim"} /\ UNCHANGED <<class, free, remote, bump, live, cls, cur, blk>>
      /\ owner' = [owner EXCEPT ![Head(stack[h])] = t]
      /\ stack' = [stack EXCEPT ![k1] = stack[h] \o @, ![h] = <<>>]
      /\ pc' = [pc EXCEPT ![t] = IF pc[t] = "own" THEN "peek" ELSE "flush"]
  BY Zenon DEF GlobalToUnsized, Claim, Goto
<1>2. /\ h \in Keys /\ k1 \in Keys /\ h # k1
      /\ stack[h] \in Seq(Slab) /\ stack[k1] \in Seq(Slab) /\ Len(stack[h]) = 1
      /\ Inj(stack[h]) /\ Inj(stack[k1]) /\ E(h) \intersect E(k1) = {}
  BY <1>1, Zenon DEF IInv, TypeOK, Places, Hands
<1>3. PICK s \in Slab : s = Head(stack[h]) /\ s \in E(h) /\ E(h) = {s}
  <2>1. stack[h][1] \in Slab /\ Head(stack[h]) = stack[h][1] /\ E(h) = {stack[h][1]}
    BY <1>2 DEF E, Elems
  <2> QED BY <2>1, Zenon
<1> HIDE DEF h, k1
<1>4. /\ stack[h] \o stack[k1] \in Seq(Slab) /\ Inj(stack[h] \o stack[k1])
      /\ Elems(stack[h] \o stack[k1]) = E(h) \union E(k1)
  BY <1>2, ConcatElems DEF E
<1>5. stack' \in [Keys -> Seq(Slab)]
  BY <1>1, <1>2, <1>4, EmptyElems, Zenon DEF IInv, TypeOK
<1>6. TypeOK' /\ pc'[t] \in {"peek", "flush"} /\ (pc'[t] = "peek" => pc[t] = "own")
  BY <1>1, <1>3, <1>5, Zenon DEF IInv, TypeOK, PCs
<1>7. /\ \A u \in Thread : u # t => pc'[u] = pc[u]
      /\ owner'[s] = t /\ \A x \in Slab : x # s => owner'[x] = owner[x]
  BY <1>1, <1>3, Zenon DEF IInv, TypeOK
<1>8. /\ stack'[h] = <<>> /\ stack'[k1] = stack[h] \o stack[k1]
      /\ \A k \in Keys : k # h /\ k # k1 => stack'[k] = stack[k]
  BY <1>1, <1>2, Zenon DEF IInv, TypeOK
<1>9. /\ E(h)' = {} /\ E(k1)' = E(h) \union E(k1)
      /\ \A k \in Keys : k # h /\ k # k1 => E(k)' = E(k)
      /\ \A k \in Keys : Inj(stack[k])'
  BY <1>4, <1>8, EmptyElems, Zenon DEF E, IInv, Places
<1>10. /\ live[s] = {} /\ s < bump /\ \A k \in Keys : k # h => s \notin E(k)
  BY <1>2, <1>3, Zenon DEF IInv, Uses, UseOf, Places, h
<1>11. /\ \A k \in Keys, x \in Slab : x # s => (x \in E(k)' <=> x \in E(k))
       /\ \A k \in Keys : s \in E(k)' <=> k = k1
  BY <1>2, <1>3, <1>9, <1>10, SMTT(30)
<1>12. \A k \in Keys : E(k)' \subseteq Slab
  BY <1>5 DEF E, Elems
<1>13. Places'
  <2>1. bump' \in Nat /\ bump <= bump' /\ s < bump'
    BY <1>1, <1>10 DEF IInv, TypeOK
  <2> QED BY <1>9, <1>11, <1>12, <2>1, PlacesMoveOne, SMTT(30)
<1>14. Hands'
  BY <1>6, <1>7, <1>8, HandsFrame DEF h, k1
<1>15. ASSUME NEW x \in Slab, x # s PROVE UseOf(x)'
  <2>1. \A u \in Thread : x \in E(Hand(u)) => pc'[u] = pc[u]
    BY <1>3, <1>7, <1>15, Zenon DEF h
  <2> QED BY <1>1, <1>7, <1>11, <1>15, <2>1, UseFrame, Zenon DEF IInv, Uses
<1>16. UseOf(s)'
  <2>1. ~(s >= bump')
    BY Zenon, <1>1, <1>10, Below
  <2> QED BY <1>1, <1>7, <1>10, <1>11, <2>1, UseUnsized, Zenon DEF k1
<1>17. ASSUME NEW u \in Thread PROVE OpOf(u)'
  <2>1. OpOf(u) /\ (pc[u] \in BlockPCs => cur[u] \in Slab /\ cur[u] # s)
    BY <1>10, Zenon DEF IInv, Ops, OpOf
  <2>2. CASE u = t
    BY <1>1, <1>6, <2>1, <2>2, Zenon DEF OpOf, BlockPCs
  <2>3. CASE u # t
    BY <1>1, <1>7, <1>11, <2>1, <2>3, OpFrame, Zenon DEF OpOf, BlockPCs
  <2> QED BY <2>2, <2>3
<1>18. Ops'
  BY <1>1, <1>6, <1>7, <1>17, UniqueFrame, Zenon DEF BlockPCs
<1> QED BY <1>6, <1>13, <1>14, <1>15, <1>16, <1>18, Zenon DEF IInv, Uses

\* Shared::bump and Slab::link: fresh slabs, which nobody has, become unsized.
LEMMA BumpToUnsizedInv ==
  ASSUME IInv, NEW t \in Thread, BumpToUnsized(t)
  PROVE  IInv'
<1> USE KeyFacts
<1> DEFINE k1 == Unsized(t)
           q  == [i \in 1..BatchBumpPop |-> bump + i - 1]
<1>1. PICK n \in Nat \ {0} : n = bump
  BY Zenon DEF IInv, TypeOK
<1>2. PICK m \in Nat \ {0} : m = BatchBumpPop
  BY ConstantsAssumption
<1> DEFINE M == n..(n + m - 1)
<1>3. /\ pc[t] = "bump" /\ n + m <= MaxSlab + 1 /\ MaxSlab \in Nat
      /\ owner' = [x \in Slab |-> IF x \in M THEN t ELSE owner[x]]
      /\ stack' = [stack EXCEPT ![k1] = q] /\ bump' = n + m
      /\ pc' = [pc EXCEPT ![t] = "peek"]
      /\ UNCHANGED <<class, free, remote, live, cls, cur, blk>>
      /\ k1 \in Keys /\ stack[k1] = <<>> /\ stack[Hand(t)] = <<>>
  BY <1>1, <1>2, ConstantsAssumption, Zenon DEF BumpToUnsized, Goto, IInv, Hands
<1>4. M \subseteq Slab
  BY <1>3 DEF Slab
<1>5. /\ q \in [1..m -> Slab] /\ \A i \in 1..m : q[i] = n + i - 1
  BY <1>1, <1>2, <1>3 DEF Slab
<1> HIDE DEF q
<1>6. q \in Seq(Slab) /\ Len(q) = m
  <2>1. m \in Nat /\ q \in [1..m -> Slab]
    BY <1>5
  <2> QED BY <2>1
<1>7. Inj(q)
  BY <1>5, <1>6 DEF Inj
<1>8. Elems(q) = M
  <2>1. ASSUME NEW x \in M PROVE x \in Elems(q)
    <3>1. x - n + 1 \in 1..m /\ q[x - n + 1] = x
      BY <1>5, <2>1
    <3> QED BY <1>6, <3>1 DEF Elems
  <2>2. Elems(q) \subseteq M
    BY <1>5, <1>6 DEF Elems
  <2> QED BY <2>1, <2>2, Zenon
<1> HIDE DEF k1
<1>9. stack' \in [Keys -> Seq(Slab)]
  BY <1>3, <1>6, Zenon DEF IInv, TypeOK
<1>10. TypeOK' /\ pc'[t] = "peek" /\ \A u \in Thread : u # t => pc'[u] = pc[u]
  BY <1>3, <1>9 DEF IInv, TypeOK, PCs
<1>11. stack'[k1] = q /\ \A k \in Keys : k # k1 => stack'[k] = stack[k]
  BY <1>3, Zenon DEF IInv, TypeOK
<1>12. /\ E(k1)' = M /\ \A k \in Keys : k # k1 => E(k)' = E(k)
       /\ \A k \in Keys : Inj(stack[k])' /\ E(k1) = {} /\ E(Hand(t)) = {}
  BY <1>3, <1>7, <1>8, <1>11, EmptyElems, Zenon DEF E, IInv, Places
<1>13. ASSUME NEW k \in Keys, NEW x \in M PROVE x \notin E(k)
  <2>1. x >= n /\ x \in Nat
    BY <1>13
  <2> QED BY <1>1, <2>1 DEF IInv, Places
<1>14. /\ \A k \in Keys, x \in Slab : x \notin M => (x \in E(k)' <=> x \in E(k))
       /\ \A k \in Keys, x \in M : x \in E(k)' <=> k = k1
  <2> HIDE DEF M
  <2>1. ASSUME NEW k \in Keys, NEW x \in Slab, x \notin M PROVE x \in E(k)' <=> x \in E(k)
    BY <1>12, <2>1, Zenon
  <2>2. ASSUME NEW k \in Keys, NEW x \in M PROVE x \in E(k)' <=> k = k1
    <3>1. CASE k = k1
      BY <1>12, <2>2, <3>1, Zenon
    <3>2. CASE k # k1
      <4>1. E(k)' = E(k) /\ x \notin E(k)
        BY <1>12, <1>13, <2>2, <3>2, Zenon
      <4> QED BY <3>2, <4>1, Zenon
    <3> QED BY <3>1, <3>2, Zenon
  <2> QED BY <2>1, <2>2, Zenon
<1>15. Places'
  <2>1. \A k \in Keys : E(k)' \subseteq Slab
    BY <1>9, SMTT(30) DEF E, Elems
  <2>2. \A x \in M : x < bump'
    BY <1>3
  <2>3. bump' \in Nat /\ bump <= bump'
    BY <1>1, <1>3
  <2> HIDE DEF M
  <2>4. \A k, l \in Keys, x \in M : x \in E(k)' /\ x \in E(l)' => k = l
    BY Zenon, <1>14
  <2>5. /\ \A k \in Keys : Inj(stack[k])'
        /\ \A k \in Keys, x \in M : x \in E(k)' => x < bump'
    BY <1>12, <2>2, Zenon
  <2>6. \A k \in Keys, x \in Slab : x \notin M => (x \in E(k)' <=> x \in E(k))
    BY <1>14, Zenon
  <2> QED BY <2>1, <2>3, <2>4, <2>5, <2>6, PlacesFrame, Zenon
<1>16. Hands'
  <2>1. \A u \in Thread : u # t => /\ stack'[Hand(u)] = stack[Hand(u)]
                                  /\ stack'[Unsized(u)] = stack[Unsized(u)]
    BY <1>11, Zenon DEF k1
  <2>2. stack'[Hand(t)] = <<>>
    BY <1>3, <1>11, Zenon DEF k1
  <2> QED BY Zenon, <1>10, <2>1, <2>2, HandsFrame
<1>17. ASSUME NEW x \in Slab, x \notin M PROVE UseOf(x)'
  <2>1. (x < bump' <=> x < bump) /\ (x >= bump' <=> x >= bump)
    BY <1>1, <1>3, <1>17 DEF Slab
  <2>2. owner'[x] = owner[x]
    BY Zenon, <1>3, <1>17
  <2> HIDE DEF M
  <2> QED BY <1>3, <1>10, <1>12, <1>14, <1>17, <2>1, <2>2, UseFrame, Zenon DEF IInv, Uses
<1>18. ASSUME NEW x \in M PROVE UseOf(x)'
  <2>1. x \in Slab /\ x < bump' /\ ~(x >= bump') /\ x >= bump
    BY <1>1, <1>3, <1>4
  <2>2. live'[x] = {} /\ owner'[x] = t
    BY <1>3, <2>1, Zenon DEF IInv, Uses, UseOf
  <2>3. \A k \in Keys : x \in E(k)' <=> k = k1
    BY Zenon, <1>14
  <2> HIDE DEF M
  <2> QED BY <2>1, <2>2, <2>3, UseUnsized DEF k1
<1>19. ASSUME NEW u \in Thread PROVE OpOf(u)'
  <2>1. OpOf(u) /\ (pc[u] \in BlockPCs => cur[u] \in Slab /\ cur[u] \notin M)
    <3>1. \A x \in M : live[x] = {}
      BY <1>1, <1>4, SMTT(30) DEF IInv, Uses, UseOf
    <3> HIDE DEF M
    <3> QED BY <3>1, Zenon DEF IInv, Ops, OpOf
  <2> HIDE DEF M
  <2>2. CASE u = t
    BY <1>3, <1>10, <2>1, <2>2, Zenon DEF OpOf, BlockPCs
  <2>3. CASE u # t
    BY <1>3, <1>10, <1>14, <2>1, <2>3, OpFrame, Zenon DEF OpOf, BlockPCs
  <2> QED BY <2>2, <2>3
<1>20. Ops'
  BY <1>3, <1>10, <1>19, UniqueFrame, Zenon DEF BlockPCs
<1> QED BY <1>10, <1>15, <1>16, <1>17, <1>18, <1>20, Zenon DEF IInv, Uses
=============================================================================
