---------------------------- MODULE DaxArenaProofs ----------------------------
(***************************************************************************)
(* The arena of the device, for every number of processes, extents and     *)
(* sizes.                                                                  *)
(*                                                                         *)
(* IInv is what holds where no process dies between the stores of an       *)
(* extent and no alignment is larger than that of the device: the settled  *)
(* extents of the table are placed apart, and what a process inside the    *)
(* critical section is about to write is apart from them.  NonOverlapping  *)
(* and the refinement of BlockAllocator follow.  DInv is what holds        *)
(* without either: it relies on nothing that the table holds.              *)
(***************************************************************************)
EXTENDS DaxArena, TLAPS, WellFoundedInduction

\* The requests of malloc, and of memalign with an alignment of a page or less
SmallAlignments == \A a \in Alignments : a <= Alignment

Types ==
  /\ attached \subseteq Process
  /\ mutex \in [owner : Process \union {None}, dead : BOOLEAN]
  /\ extents \in [Slot -> Extent]
  /\ pc \in [Process -> {"idle", "slot", "scan", "find", "write"}]
  /\ job \in [Process -> [align : Nat \ {0}, new : Extent]]
  /\ candidate \in [Process -> Nat]
  /\ slot \in [Process -> Slot]
  /\ left \in [Process -> SUBSET Fields]
  /\ live \subseteq [offset : Nat, rounded_len : Nat, requested_len : Nat]

\* An extent of whole units of the device, in the arena
Sized(e) ==
  /\ e.rounded_len % Alignment = 0 /\ e.rounded_len > 0
  /\ e.requested_len <= e.rounded_len
Placed(e) ==
  /\ Sized(e)
  /\ e.offset % Alignment = 0
  /\ e.offset + e.rounded_len <= Size

\* The active extents that no process is about to overwrite
Settled == {s \in Active : \A p \in Process : pc[p] = "write" => slot[p] # s}

\* An extent that is apart from the settled ones
Apart(e) == Placed(e) /\ \A s \in Settled : ~Overlap(e, extents[s])

\* What a process knows in the critical section
Wants(p) == job[p].align = Alignment /\ job[p].new.active /\ Sized(job[p].new)
Inside(p) ==
  /\ pc[p] # "idle" => mutex.owner = p /\ p \in attached
  /\ pc[p] = "slot" => Wants(p)
  /\ pc[p] = "scan" =>
       /\ Wants(p) /\ slot[p] \notin Active
       /\ candidate[p] % Alignment = 0
       /\ \A s \in Active : \/ extents[s].offset + extents[s].rounded_len <= candidate[p]
                            \/ extents[s].offset >= candidate[p]
  /\ pc[p] = "find" => \A y \in live : y.offset # job[p].new.offset
  /\ pc[p] = "write" =>
       /\ job[p].new.active => Apart(job[p].new)
       /\ left[p] = Fields /\ extents[slot[p]].active => Apart(extents[slot[p]])
       /\ \A f \in Fields \ left[p] : extents[slot[p]][f] = job[p].new[f]

Table ==
  /\ \A s \in Settled : Placed(extents[s])
  /\ \A s, r \in Settled : s # r => ~Overlap(extents[s], extents[r])
  /\ \A x \in live : \E s \in Settled : Range(extents[s]) = x
  /\ attached = {} => live = {}

IInv == Types /\ Table /\ \A p \in Process : Inside(p)
-----------------------------------------------------------------------------
\* A sum of multiples is a multiple.
LEMMA SumOfMultiples ==
  ASSUME NEW v \in Nat, NEW u \in Nat, NEW a \in Nat \ {0}, v % a = 0, u % a = 0
  PROVE  (v + u) % a = 0
<1>1. v = a * (v \div a)
  OBVIOUS
<1>2. u = a * (u \div a)
  OBVIOUS
<1>3. (v \div a) + (u \div a) \in Int
  OBVIOUS
<1>4. v + u = a * ((v \div a) + (u \div a))
  BY <1>1, <1>2
<1>5. ASSUME NEW n \in Int PROVE (a * n) % a = 0
  OBVIOUS
<1>6. (a * ((v \div a) + (u \div a))) % a = 0
  BY <1>3, <1>5
<1> QED
  BY <1>4, <1>6

\* An addition that fits a usize does not wrap.
LEMMA SmallRemainder ==
  ASSUME NEW m \in Nat \ {0}, NEW v \in Nat, v < m
  PROVE  v % m = v
OBVIOUS

\* align_up leaves a multiple alone.
LEMMA AlignUpOfMultiple ==
  ASSUME NEW v \in Nat, NEW a \in Nat \ {0}, v % a = 0
  PROVE  AlignUp(v, a) = v
<1>1. (v + a - 1) % a = a - 1
  OBVIOUS
<1> QED
  BY <1>1 DEF AlignUp

\* align_up rounds up, to a multiple.
LEMMA AlignUpIsMultiple ==
  ASSUME NEW v \in Nat, NEW a \in Nat \ {0}
  PROVE  AlignUp(v, a) \in Nat /\ AlignUp(v, a) % a = 0 /\ AlignUp(v, a) >= v
<1>1. AlignUp(v, a) % a = 0
  BY DEF AlignUp
<1>2. (v + a - 1) % a \in 0..(a - 1)
  OBVIOUS
<1> QED
  BY <1>1, <1>2 DEF AlignUp

\* Naturals have a least one.
LEMMA Least ==
  ASSUME NEW T, T \subseteq Nat, T # {}
  PROVE  \E x \in T : \A y \in T : x <= y
<1>1. PICK x \in T : \A y \in T : ~(<<y, x>> \in OpToRel(<, Nat))
  BY WFMin, NatLessThanWellFounded, Zenon
<1>2. \A y \in T : ~(y < x)
  BY <1>1, Zenon DEF OpToRel
<1> QED
  BY <1>2

\* The search of allocate misses no extent: where one starts at or after c,
\* some extent is the next one.
LEMMA NextExists ==
  ASSUME Types, NEW c \in Nat, NEW r \in Active, extents[r].offset >= c
  PROVE  \E s \in Active : IsNext(s, c) /\ extents[s].offset <= extents[r].offset
<1> DEFINE Later   == {s \in Active : extents[s].offset >= c}
           Offsets == {extents[s].offset : s \in Later}
<1>1. Active \subseteq Slot /\ Slot \subseteq Nat
  BY ArenaAssumption DEF Active, Slot
<1>2. \A s \in Active : extents[s].offset \in Nat
  BY <1>1, Zenon DEF Types, Extent
<1>3. PICK o \in Offsets : \A x \in Offsets : o <= x
  <2>1. Offsets \subseteq Nat /\ Offsets # {}
    BY <1>2
  <2> HIDE DEF Offsets
  <2> QED
    BY <2>1, Least, Zenon
<1> DEFINE First == {s \in Later : extents[s].offset = o}
<1>4. PICK s \in First : \A x \in First : s <= x
  <2>1. First \subseteq Nat /\ First # {}
    BY Zenon, <1>1, <1>3
  <2> HIDE DEF First
  <2> QED
    BY <2>1, Least, Zenon
<1>5. \A x \in Later : o <= extents[x].offset
  BY Zenon, <1>3
<1>6. s \in Active /\ extents[s].offset = o /\ o >= c /\ o \in Nat
  BY Zenon, <1>2, <1>4
<1>7. ASSUME NEW x \in Active, extents[x].offset >= c
      PROVE  \/ extents[s].offset < extents[x].offset
             \/ extents[s].offset = extents[x].offset /\ s <= x
  <2>1. CASE extents[x].offset = o
    BY <1>4, <1>6, <1>7, <2>1
  <2>2. CASE extents[x].offset # o
    BY <1>2, <1>5, <1>6, <1>7, <2>2
  <2> QED
    BY Zenon, <2>1, <2>2
<1>8. IsNext(s, c)
  BY <1>6, <1>7, Zenon DEF IsNext
<1>9. extents[s].offset <= extents[r].offset
  BY Zenon, <1>5, <1>6
<1> QED
  BY <1>6, <1>8, <1>9

-----------------------------------------------------------------------------
\* The mutex admits one: beside a process in the critical section the others are idle.
LEMMA Alone ==
  ASSUME IInv, NEW p \in Process, pc[p] # "idle"
  PROVE  \A q \in Process \ {p} : pc[q] = "idle"
BY DEF IInv, Inside

\* With the mutex free, all are idle.
LEMMA Nobody ==
  ASSUME IInv, mutex.owner = None
  PROVE  \A q \in Process : pc[q] = "idle"
BY ArenaAssumption DEF IInv, Inside

\* Without a writer every active extent is settled.
LEMMA AllSettled ==
  ASSUME IInv, \A q \in Process : pc[q] # "write"
  PROVE  Settled = Active
BY DEF Settled

\* Types of what the table holds
LEMMA SettledTypes ==
  ASSUME Types, NEW s \in Settled
  PROVE  /\ s \in Slot /\ extents[s] \in Extent /\ extents[s].active
         /\ extents[s].offset \in Nat /\ extents[s].rounded_len \in Nat
         /\ extents[s].requested_len \in Nat
<1>1. s \in Slot /\ extents[s].active
  BY DEF Settled, Active
<1>2. extents[s] \in Extent
  BY <1>1 DEF Types
<1> QED
  BY <1>1, <1>2 DEF Extent

\* Two allocations in use are apart, and do not start at the same offset.
LEMMA LiveApart ==
  ASSUME IInv, NEW x \in live, NEW y \in live, x # y
  PROVE  ~Overlap(x, y) /\ x.offset # y.offset
<1> USE DEF IInv
<1>1. PICK s \in Settled : Range(extents[s]) = x
  BY DEF Table
<1>2. PICK r \in Settled : Range(extents[r]) = y
  BY DEF Table
<1>3. s # r
  BY <1>1, <1>2
<1>4. ~Overlap(extents[s], extents[r])
  BY <1>3 DEF Table
<1>5. /\ x.offset = extents[s].offset /\ x.rounded_len = extents[s].rounded_len
      /\ y.offset = extents[r].offset /\ y.rounded_len = extents[r].rounded_len
  BY <1>1, <1>2, Zenon DEF Range
<1>6. extents[s].rounded_len > 0 /\ extents[r].rounded_len > 0
  BY Zenon DEF Table, Placed, Sized
<1>7. /\ extents[s].offset \in Nat /\ extents[s].rounded_len \in Nat
      /\ extents[r].offset \in Nat /\ extents[r].rounded_len \in Nat
  BY Zenon, SettledTypes
<1> QED
  BY <1>4, <1>5, <1>6, <1>7 DEF Overlap

\* The extents in use never overlap; what the table says of them is right.
LEMMA Consequences ==
  IInv => NonOverlapping /\ OneInside /\ ExtentIsFound
<1> SUFFICES ASSUME IInv PROVE NonOverlapping /\ OneInside /\ ExtentIsFound
  OBVIOUS
<1>1. NonOverlapping
  BY LiveApart DEF NonOverlapping
<1>2. OneInside
  BY Zenon DEF IInv, Inside, OneInside
<1>3. ASSUME mutex.owner = None, NEW x \in live
      PROVE  /\ x.offset % Alignment = 0 /\ x.offset + x.rounded_len <= Size
             /\ x.requested_len <= x.rounded_len
             /\ \E s \in Active : Range(extents[s]) = x
             /\ \A s \in Active : extents[s].offset = x.offset => Range(extents[s]) = x
  <2>1. Settled = Active
    BY <1>3, Nobody, AllSettled
  <2>2. PICK s \in Settled : Range(extents[s]) = x
    BY DEF IInv, Table
  <2>3. Placed(extents[s])
    BY DEF IInv, Table
  <2>4. ASSUME NEW r \in Active, extents[r].offset = x.offset
        PROVE  Range(extents[r]) = x
    <3>1. CASE r = s
      BY <3>1, <2>2
    <3>2. CASE r # s
      <4>1. ~Overlap(extents[s], extents[r]) /\ Placed(extents[r])
        BY <2>1, <3>2 DEF IInv, Table
      <4>2. extents[s].offset = extents[r].offset
        BY <2>2, <2>4 DEF Range
      <4>3. /\ extents[s].offset \in Nat /\ extents[s].rounded_len \in Nat
            /\ extents[r].offset \in Nat /\ extents[r].rounded_len \in Nat
        BY <2>1, SettledTypes, Zenon DEF IInv
      <4> QED
        BY <2>3, <4>1, <4>2, <4>3 DEF Overlap, Placed, Sized
    <3> QED
      BY <3>1, <3>2
  <2> QED
    BY <2>1, <2>2, <2>3, <2>4, Zenon DEF Placed, Sized, Range
<1> QED
  BY <1>1, <1>2, <1>3 DEF ExtentIsFound
-----------------------------------------------------------------------------
\* Return changes the variables of one process only.
LEMMA Returned ==
  ASSUME Types, NEW p \in Process, Return(p)
  PROVE  /\ pc' \in [Process -> {"idle", "slot", "scan", "find", "write"}]
         /\ job' \in [Process -> [align : Nat \ {0}, new : Extent]]
         /\ candidate' \in [Process -> Nat]
         /\ slot' \in [Process -> Slot]
         /\ left' \in [Process -> SUBSET Fields]
         /\ pc'[p] = "idle"
         /\ \A q \in Process \ {p} :
              /\ pc'[q] = pc[q] /\ job'[q] = job[q] /\ candidate'[q] = candidate[q]
              /\ slot'[q] = slot[q] /\ left'[q] = left[q]
<1>1. NoJob \in [align : Nat \ {0}, new : Extent]
  BY DEF NoJob, Empty, Extent
<1>2. 1 \in Slot
  BY ArenaAssumption DEF Slot
<1> QED
  BY <1>1, <1>2 DEF Types, Return, Goto

\* A process that leaves the critical section, at its end or because it dies
\* there, leaves a table in which the settled extents are apart.  One that
\* wrote no field of its extent leaves the old one, one that wrote them all
\* the new one.
LEMMA Leave ==
  ASSUME IInv, NEW p \in Process, Return(p), extents' = extents, pc[p] # "idle",
         pc[p] = "write" => left[p] \in {{}, Fields}
  PROVE  /\ Settled \subseteq Settled'
         /\ \A s \in Settled' : Placed(extents'[s])
         /\ \A s, r \in Settled' : s # r => ~Overlap(extents'[s], extents'[r])
<1> USE DEF IInv
<1>1. /\ pc'[p] = "idle"
      /\ \A q \in Process \ {p} : pc[q] = "idle" /\ pc'[q] = "idle"
  BY Zenon, Returned, Alone
<1>2. Active' = Active
  BY DEF Active
<1>3. Settled' = Active
  BY <1>1, <1>2 DEF Settled
<1>4. Settled \subseteq Settled'
  BY <1>3 DEF Settled
<1>5. CASE pc[p] # "write"
  <2>1. Settled = Active
    BY <1>1, <1>5, AllSettled
  <2> QED
    BY <2>1, <1>3 DEF Table
<1>6. CASE pc[p] = "write"
  <2> DEFINE e == extents[slot[p]]
  <2>1. \A s \in Active : s \in Settled \/ s = slot[p]
    BY <1>1, <1>6 DEF Settled
  <2>2. e.active => Apart(e)
    <3>1. CASE left[p] = Fields
      BY <3>1, <1>6, Zenon DEF Inside
    <3>2. CASE left[p] = {}
      <4>1. \A f \in Fields : e[f] = job[p].new[f]
        BY <3>2, <1>6 DEF Inside
      <4>2. /\ e.offset = job[p].new.offset /\ e.rounded_len = job[p].new.rounded_len
            /\ e.requested_len = job[p].new.requested_len /\ e.active = job[p].new.active
        BY <4>1, Zenon DEF Fields
      <4>3. job[p].new.active => Apart(job[p].new)
        BY <1>6, Zenon DEF Inside
      <4> HIDE DEF e
      <4> QED
        BY <4>2, <4>3, Zenon DEF Apart, Placed, Sized, Overlap
    <3> QED
      BY <3>1, <3>2, <1>6
  <2>3. \A s \in Active : Placed(extents[s])
    BY <2>1, <2>2, Zenon DEF Table, Apart, Active
  <2>4. ASSUME NEW s \in Active, NEW r \in Active, s # r
        PROVE  ~Overlap(extents[s], extents[r])
    <3>1. CASE s \in Settled /\ r \in Settled
      BY <3>1, <2>4 DEF Table
    <3>2. CASE s = slot[p]
      BY <3>2, <2>1, <2>2, <2>4, Zenon DEF Apart, Active
    <3>3. CASE r = slot[p]
      <4>1. ~Overlap(extents[r], extents[s])
        BY <3>3, <2>1, <2>2, <2>4, Zenon DEF Apart, Active
      <4> QED
        BY <4>1, Zenon DEF Overlap
    <3> QED
      BY <2>1, <3>1, <3>2, <3>3
  <2> QED
    BY <1>3, <1>4, <2>3, <2>4
<1> QED
  BY <1>4, <1>5, <1>6

\* The operations that give up: out of slots, out of memory, nothing to free
LEMMA GiveUp ==
  ASSUME IInv, NEW p \in Process, pc[p] \in {"slot", "scan", "find"}, Unlock(p),
         UNCHANGED <<attached, extents, live>>
  PROVE  IInv'
<1> USE DEF IInv
<1>1. Return(p)
  BY DEF Unlock
<1>2. \A q \in Process : pc'[q] = "idle"
  BY Zenon, <1>1, Returned, Alone
<1>3. Types'
  <2>1. mutex' \in [owner : Process \union {None}, dead : BOOLEAN]
    BY DEF Types, Unlock
  <2> QED
    BY <1>1, <2>1, Returned, Zenon DEF Types
<1>4. Table'
  BY <1>1, Leave, Zenon DEF Table
<1>5. \A q \in Process : Inside(q)'
  BY <1>2, Zenon DEF Inside
<1> QED
  BY <1>3, <1>4, <1>5

-----------------------------------------------------------------------------
\* The arena starts with an empty table.
LEMMA InitHolds == Init => IInv
<1> SUFFICES ASSUME Init PROVE IInv
  OBVIOUS
<1>1. Types
  <2>1. Empty \in Extent /\ NoJob \in [align : Nat \ {0}, new : Extent] /\ 1 \in Slot
    BY ArenaAssumption DEF Empty, Extent, NoJob, Slot
  <2>2. mutex \in [owner : Process \union {None}, dead : BOOLEAN]
    BY DEF Init
  <2> QED
    BY <2>1, <2>2 DEF Init, Types
<1>2. Settled = {}
  BY Zenon DEF Init, Settled, Active, Empty
<1> QED
  BY <1>1, <1>2, Zenon DEF Init, IInv, Table, Inside

\* The first to open the device finds nobody inside, and makes an empty table.
LEMMA OpenStep ==
  ASSUME IInv, NEW p \in Process, Open(p)
  PROVE  IInv'
<1> USE DEF IInv, Open
<1>1. \A q \in Process : pc[q] = "idle"
  BY Zenon DEF Inside
<1>2. Types'
  <2>1. Empty \in Extent
    BY Zenon DEF Empty, Extent
  <2> QED
    BY <2>1, Zenon DEF Types
<1>3. Settled' = {}
  BY Zenon DEF Settled, Active, Empty
<1>4. live' = {}
  BY Zenon DEF Table
<1> QED
  BY <1>1, <1>2, <1>3, <1>4, Zenon DEF Table, Inside

\* A child shares the table as it is.
LEMMA ForkStep ==
  ASSUME IInv, NEW p \in Process, NEW c \in Process, Fork(p, c)
  PROVE  IInv'
<1> USE DEF IInv, Fork
<1>1. Settled' = Settled /\ Active' = Active
  BY DEF Settled, Active
<1>2. Types'
  BY Zenon DEF Types
<1>3. Table'
  BY <1>1, Zenon DEF Table
<1>4. \A q \in Process : Inside(q)'
  BY <1>1 DEF Inside, Wants, Apart
<1> QED
  BY <1>2, <1>3, <1>4

\* A process that dies outside leaves the table and the mutex; inside, it leaves
\* the mutex to the next one, and the table as Leave says.
LEMMA DieStep ==
  ASSUME IInv, ~DiesWriting, NEW p \in Process, Die(p)
  PROVE  IInv'
<1> USE DEF IInv
<1>1. Return(p) /\ extents' = extents /\ attached' = attached \ {p} /\ live' \subseteq live
  BY Zenon DEF Die
<1>2. Types'
  <2>1. mutex' \in [owner : Process \union {None}, dead : BOOLEAN]
    BY Zenon DEF Types, Die
  <2> QED
    BY <1>1, <2>1, Returned, Zenon DEF Types
<1>3. attached' = {} => live' = {}
  BY DEF Die
<1>4. CASE pc[p] = "idle"
  <2>1. \A q \in Process : pc'[q] = pc[q]
    BY <1>1, <1>4, Returned
  <2>2. \A q \in Process : pc[q] # "idle" =>
          job'[q] = job[q] /\ candidate'[q] = candidate[q] /\ slot'[q] = slot[q]
          /\ left'[q] = left[q] /\ mutex'.owner = q /\ q \in attached'
    <3>1. ASSUME NEW q \in Process, pc[q] # "idle" PROVE mutex'.owner = q /\ q \in attached'
      BY <1>1, <1>4, <3>1, Zenon DEF Inside, Die
    <3> QED
      BY <1>1, <1>4, <3>1, Returned
  <2>3. Active' = Active
    BY <1>1 DEF Active
  <2>4. Settled' = Settled
    BY <2>1, <2>2, <2>3 DEF Settled
  <2>5. Table'
    BY <1>1, <1>3, <2>4 DEF Table
  <2>6. \A q \in Process : Inside(q)'
    BY <1>1, <2>1, <2>2, <2>3, <2>4 DEF Inside, Wants, Apart
  <2> QED
    BY <1>2, <2>5, <2>6
<1>5. CASE pc[p] # "idle"
  <2>1. \A q \in Process : pc'[q] = "idle"
    BY <1>1, <1>5, Returned, Alone
  <2>2. pc[p] = "write" => left[p] \in {{}, Fields}
    BY Zenon DEF Die
  <2>3. Table'
    BY <1>1, <1>3, <1>5, <2>2, Leave, Zenon DEF Table
  <2>4. \A q \in Process : Inside(q)'
    BY <2>1, Zenon DEF Inside
  <2> QED
    BY <1>2, <2>3, <2>4
<1> QED
  BY <1>4, <1>5

\* A size is rounded up to whole units, and no alignment exceeds one.
LEMMA LockAllocateStep ==
  ASSUME IInv, SmallAlignments, NEW p \in Process, NEW n \in Sizes, NEW a \in Alignments,
         LockAllocate(p, n, a)
  PROVE  IInv'
<1> USE DEF IInv
<1> DEFINE requested == IF n = 0 THEN 1 ELSE n
<1>1. n \in Nat /\ a \in Nat \ {0} /\ a <= Alignment /\ Alignment \in Nat \ {0}
  BY ArenaAssumption DEF SmallAlignments
<1>2. requested \in Nat \ {0}
  BY <1>1
<1> HIDE DEF requested
<1>3. /\ AlignUp(requested, Alignment) \in Nat /\ AlignUp(requested, Alignment) >= requested
      /\ AlignUp(requested, Alignment) % Alignment = 0
  BY <1>1, <1>2, AlignUpIsMultiple
<1> DEFINE new == [offset |-> 0, rounded_len |-> AlignUp(requested, Alignment),
                   requested_len |-> requested, active |-> TRUE]
           align == IF a < Alignment THEN Alignment ELSE a
<1>4. /\ mutex.owner = None /\ mutex' = [owner |-> p, dead |-> FALSE] /\ p \in attached
      /\ job' = [job EXCEPT ![p] = [align |-> align, new |-> new]]
      /\ pc' = [pc EXCEPT ![p] = "slot"]
      /\ UNCHANGED <<attached, extents, candidate, slot, left, live>>
  BY Zenon DEF LockAllocate, Lock, Goto, requested
<1>5. align = Alignment /\ new.active /\ Sized(new) /\ new \in Extent
  BY <1>1, <1>2, <1>3 DEF Sized, Extent
<1> HIDE DEF new, align
<1>6. Types'
  <2>1. job' \in [Process -> [align : Nat \ {0}, new : Extent]]
    BY <1>1, <1>4, <1>5, Zenon DEF Types
  <2> QED
    BY <1>4, <2>1, Zenon DEF Types
<1>7. /\ pc'[p] = "slot" /\ job'[p].align = Alignment /\ job'[p].new = new
      /\ \A q \in Process \ {p} : pc'[q] = "idle"
  BY <1>4, <1>5, Nobody, Zenon DEF Types
<1>8. Settled' = Settled
  BY <1>4, <1>7, Nobody, Zenon DEF Settled, Active
<1>9. Table'
  BY <1>4, <1>8, Zenon DEF Table
<1>10. \A q \in Process : Inside(q)'
  <2>1. Wants(p)'
    BY <1>5, <1>7 DEF Wants, Sized
  <2>2. mutex'.owner = p /\ p \in attached'
    BY Zenon, <1>4
  <2> QED
    BY <1>7, <2>1, <2>2 DEF Inside
<1> QED
  BY <1>6, <1>9, <1>10

\* Nobody but the process that frees it has the allocation it gives up.
LEMMA LockDeallocateStep ==
  ASSUME IInv, NEW p \in Process, NEW x \in live, LockDeallocate(p, x)
  PROVE  IInv'
<1> USE DEF IInv
<1> DEFINE new == [Empty EXCEPT !.offset = x.offset]
<1>1. /\ mutex.owner = None /\ mutex' = [owner |-> p, dead |-> FALSE] /\ p \in attached
      /\ job' = [job EXCEPT ![p] = [align |-> 1, new |-> new]]
      /\ pc' = [pc EXCEPT ![p] = "find"] /\ live' = live \ {x}
      /\ UNCHANGED <<attached, extents, candidate, slot, left>>
  BY DEF LockDeallocate, Lock, Goto
<1>2. new \in Extent /\ new.offset = x.offset
  BY Zenon DEF Types, Extent, Empty
<1> HIDE DEF new
<1>3. Types'
  <2>1. job' \in [Process -> [align : Nat \ {0}, new : Extent]]
    BY <1>1, <1>2 DEF Types
  <2> QED
    BY <1>1, <2>1, Zenon DEF Types
<1>4. /\ pc'[p] = "find" /\ job'[p].new = new
      /\ \A q \in Process \ {p} : pc'[q] = "idle"
  BY <1>1, Nobody, Zenon DEF Types
<1>5. Settled' = Settled
  BY <1>1, <1>4, Nobody, Zenon DEF Settled, Active
<1>6. Table'
  BY <1>1, <1>5, Zenon DEF Table
<1>7. \A y \in live' : y.offset # x.offset
  BY Zenon, <1>1, LiveApart
<1>8. \A q \in Process : Inside(q)'
  BY <1>1, <1>2, <1>4, <1>7 DEF Inside
<1> QED
  BY <1>3, <1>6, <1>8

\* The slot that is taken is nobody's.
LEMMA FindSlotStep ==
  ASSUME IInv, NEW p \in Process, FindSlot(p)
  PROVE  IInv'
<1> USE DEF IInv
<1>1. ASSUME NEW s \in Slot \ Active, slot' = [slot EXCEPT ![p] = s],
             candidate' = [candidate EXCEPT ![p] = 0], Goto(p, "scan"),
             UNCHANGED <<mutex, job, left>>
      PROVE  IInv'
  <2>1. pc[p] = "slot" /\ UNCHANGED <<attached, extents, live>>
    BY DEF FindSlot
  <2>2. Types'
    BY <1>1, <2>1, Zenon DEF Types, Goto
  <2>3. /\ pc'[p] = "scan" /\ slot'[p] = s /\ candidate'[p] = 0
        /\ \A q \in Process \ {p} : pc'[q] = "idle" /\ pc[q] = "idle"
    BY <1>1, <2>1, Alone DEF Types, Goto
  <2>4. Active' = Active /\ Settled' = Settled
    BY <1>1, <2>1, <2>3, Zenon DEF Active, Settled
  <2>5. Table'
    BY <2>1, <2>4 DEF Table
  <2>6. Wants(p)' /\ mutex'.owner = p /\ p \in attached'
    BY <1>1, <2>1, Zenon DEF Inside, Wants
  <2>7. \A r \in Active' : extents'[r].offset >= 0
    BY <2>1, <2>4 DEF Types, Active, Extent
  <2>8. 0 % Alignment = 0
    BY ArenaAssumption
  <2>9. \A q \in Process : Inside(q)'
    BY <2>3, <2>4, <2>6, <2>7, <2>8 DEF Inside
  <2> QED
    BY <2>2, <2>5, <2>9
<1>2. CASE Unlock(p)
  BY <1>2, GiveUp DEF FindSlot
<1> QED
  BY <1>1, <1>2 DEF FindSlot

-----------------------------------------------------------------------------
\* The rest needs neither that alignments are small nor that extents are written
\* whole: it relies on nothing that the table holds.
\* What a process knows in the critical section then
Request(p) == 0 < job[p].new.requested_len /\ job[p].new.requested_len <= job[p].new.rounded_len
Guarded(p) ==
  /\ pc[p] # "idle" => mutex.owner = p /\ p \in attached
  /\ pc[p] \in {"slot", "scan"} => Request(p)
  /\ pc[p] = "write" /\ job[p].new.active =>
       Request(p) /\ job[p].new.offset + job[p].new.rounded_len <= Size

DInv == Types /\ InArena /\ \A p \in Process : Guarded(p)

\* A step of p that keeps what the others know.
LEMMA OthersGuarded ==
  ASSUME DInv, Types', InArena', NEW p \in Process, Guarded(p)',
         \A q \in Process : q # p => pc'[q] = pc[q] /\ job'[q] = job[q],
         \A q \in Process : q # p /\ pc[q] # "idle" => mutex'.owner = q /\ q \in attached'
  PROVE  DInv'
<1>1. ASSUME NEW q \in Process, q # p PROVE Guarded(q)'
  BY <1>1 DEF DInv, Guarded, Request
<1> QED
  BY <1>1 DEF DInv

\* A step of the process in the critical section, which keeps the mutex.
LEMMA InsideGuarded ==
  ASSUME DInv, NEW p \in Process, pc[p] # "idle", Types', InArena',
         mutex'.owner \in {p, None}, attached' = attached, Guarded(p)',
         \A q \in Process : q # p => pc'[q] = pc[q] /\ job'[q] = job[q]
  PROVE  DInv'
<1>1. \A q \in Process : q # p => pc[q] = "idle"
  BY Zenon DEF DInv, Guarded
<1> QED
  BY <1>1, OthersGuarded

\* The end of a critical section.
LEMMA UnlockGuarded ==
  ASSUME DInv, NEW p \in Process, pc[p] # "idle", Unlock(p), InArena',
         live' \subseteq [offset : Nat, rounded_len : Nat, requested_len : Nat],
         UNCHANGED <<attached, extents>>
  PROVE  DInv'
<1>1. Types'
  BY Returned, Zenon DEF DInv, Types, Unlock
<1>2. Guarded(p)' /\ mutex'.owner = None
  BY Zenon DEF DInv, Types, Unlock, Return, Goto, Guarded
<1>3. \A q \in Process : q # p => pc'[q] = pc[q] /\ job'[q] = job[q]
  BY Zenon DEF DInv, Types, Unlock, Return, Goto
<1> QED
  BY <1>1, <1>2, <1>3, InsideGuarded

\* A store to a field of an extent.
LEMMA Stored ==
  ASSUME Types, NEW p \in Process, NEW f \in Fields, WriteField(p, f)
  PROVE  /\ extents' \in [Slot -> Extent]
         /\ left' \in [Process -> SUBSET Fields]
         /\ \A g \in Fields :
              extents'[slot[p]][g] = IF g = f THEN job[p].new[f] ELSE extents[slot[p]][g]
         /\ \A s \in Slot \ {slot[p]} : extents'[s] = extents[s]
<1> DEFINE e == [extents[slot[p]] EXCEPT ![f] = job[p].new[f]]
<1>1. extents' = [extents EXCEPT ![slot[p]] = e] /\ left' = [left EXCEPT ![p] = left[p] \ {f}]
  BY Zenon DEF WriteField
<1>2. slot[p] \in Slot /\ extents[slot[p]] \in Extent /\ job[p].new \in Extent
  BY DEF Types
<1>3. e \in Extent
  <2>1. CASE f = "offset"
    BY <2>1, <1>2, Zenon DEF Extent
  <2>2. CASE f = "rounded_len"
    BY <2>2, <1>2, Zenon DEF Extent
  <2>3. CASE f = "requested_len"
    BY <2>3, <1>2, Zenon DEF Extent
  <2>4. CASE f = "active"
    BY <2>4, <1>2, Zenon DEF Extent
  <2> QED
    BY <2>1, <2>2, <2>3, <2>4 DEF Fields
<1>4. \A g \in Fields : e[g] = IF g = f THEN job[p].new[f] ELSE extents[slot[p]][g]
  BY <1>2, Zenon DEF Extent, Fields
<1> HIDE DEF e
<1> QED
  BY <1>1, <1>2, <1>3, <1>4, Zenon DEF Types

\* On behind an extent: the extents are apart, so none is cut.
LEMMA ScanOnStep ==
  ASSUME IInv, NEW p \in Process, pc[p] = "scan", NEW s \in Slot,
         IsNext(s, candidate[p]), ScanOn(p, candidate[p], s),
         UNCHANGED <<attached, extents, live>>
  PROVE  IInv'
<1> USE DEF IInv
<1> DEFINE c == candidate[p]
           e == extents[s].offset + extents[s].rounded_len
<1>1. Settled = Active
  BY Alone, AllSettled
<1>2. s \in Active /\ extents[s].offset >= c
  BY Zenon DEF IsNext
<1>3. c \in Nat /\ extents[s].offset \in Nat /\ extents[s].rounded_len \in Nat
  BY <1>1, <1>2, SettledTypes, Zenon DEF Types
<1>4. candidate' = [candidate EXCEPT ![p] = e] /\ UNCHANGED <<mutex, pc, job, slot, left>>
  BY Zenon DEF ScanOn
<1>5. e \in Nat /\ candidate'[p] = e
  BY <1>3, <1>4 DEF Types
<1>6. e % Alignment = 0
  <2>1. Placed(extents[s])
    BY <1>1, <1>2 DEF Table
  <2> QED
    BY <2>1, <1>3, SumOfMultiples, ArenaAssumption, Zenon DEF Placed, Sized
<1>7. ASSUME NEW r \in Active
      PROVE  extents[r].offset + extents[r].rounded_len <= e \/ extents[r].offset >= e
  <2>1. extents[r].offset \in Nat /\ extents[r].rounded_len \in Nat
    BY <1>1, SettledTypes
  <2>2. CASE extents[r].offset + extents[r].rounded_len <= c
    BY <2>1, <2>2, <1>2, <1>3
  <2>3. CASE extents[r].offset >= c /\ r # s
    <3>1. extents[s].offset <= extents[r].offset
      BY <2>3, <2>1, <1>3 DEF IsNext
    <3>2. ~Overlap(extents[s], extents[r])
      BY <1>1, <1>2, <2>3 DEF Table
    <3>3. Placed(extents[r])
      BY <1>1 DEF Table
    <3> QED
      BY <3>1, <3>2, <3>3, <2>1, <1>3 DEF Overlap, Placed, Sized
  <2>4. CASE r = s
    BY <2>4, <1>3
  <2>5. extents[r].offset + extents[r].rounded_len <= c \/ extents[r].offset >= c
    BY Zenon DEF Inside
  <2> QED
    BY Zenon, <2>2, <2>3, <2>4, <2>5
<1> HIDE DEF e
<1>8. Types'
  BY <1>4, <1>5, Zenon DEF Types
<1>9. Active' = Active /\ Settled' = Settled
  BY <1>4 DEF Active, Settled
<1>10. Table'
  BY <1>9 DEF Table
<1>11. \A q \in Process : pc[q] # "idle" => q = p
  BY Alone
<1>12. mutex'.owner = p /\ p \in attached' /\ Wants(p)' /\ slot'[p] \notin Active'
  BY <1>4, <1>9, Zenon DEF Inside, Wants
<1>13. \A q \in Process : Inside(q)'
  BY <1>4, <1>5, <1>6, <1>7, <1>9, <1>11, <1>12 DEF Inside
<1> QED
  BY <1>8, <1>10, <1>13

\* The range that is taken ends before the next extent, so before all that
\* start behind it; the others end before it.
LEMMA ScanEndStep ==
  ASSUME IInv, NEW p \in Process, pc[p] = "scan",
         \A s \in Slot : IsNext(s, candidate[p]) =>
           (candidate[p] + job[p].new.rounded_len) % Limit <= extents[s].offset,
         ScanEnd(p, candidate[p]), UNCHANGED <<attached, extents, live>>
  PROVE  IInv'
<1> USE DEF IInv
<1> DEFINE c   == candidate[p]
           len == job[p].new.rounded_len
           new == [job[p].new EXCEPT !.offset = c]
<1>1. CASE Unlock(p)
  BY Zenon, <1>1, GiveUp
<1>2. CASE ~Unlock(p)
  <2>1. /\ c + len <= Size /\ job' = [job EXCEPT ![p].new.offset = c]
        /\ left' = [left EXCEPT ![p] = Fields] /\ pc' = [pc EXCEPT ![p] = "write"]
        /\ UNCHANGED <<mutex, candidate, slot>>
    BY <1>2, Zenon DEF ScanEnd, Goto
  <2>2. c \in Nat /\ len \in Nat /\ job[p].new \in Extent
    BY Zenon DEF Types, Extent
  <2>3. Settled = Active
    BY Zenon, Alone, AllSettled
  <2>4. ASSUME NEW r \in Active
        PROVE  extents[r].offset + extents[r].rounded_len <= c \/ extents[r].offset >= c + len
    <3>1. extents[r].offset \in Nat /\ extents[r].rounded_len \in Nat
      BY Zenon, <2>3, SettledTypes
    <3>2. CASE extents[r].offset >= c
      <4>1. PICK s \in Active : IsNext(s, c) /\ extents[s].offset <= extents[r].offset
        BY Zenon, <2>2, <3>2, NextExists
      <4>2. s \in Slot /\ extents[s].offset \in Nat
        BY Zenon, <2>3, SettledTypes
      <4>3. (c + len) % Limit = c + len
        <5>1. c + len \in Nat /\ c + len < Limit /\ Limit \in Nat \ {0}
          BY <2>1, <2>2, ArenaAssumption
        <5> QED
          BY Zenon, <5>1, SmallRemainder
      <4>4. c + len <= extents[s].offset
        BY Zenon, <4>1, <4>2, <4>3
      <4> QED
        BY <4>1, <4>2, <4>4, <3>1, <2>2
    <3> QED
      BY <3>2, Zenon DEF Inside
  <2>5. /\ new.offset = c /\ new.rounded_len = len /\ new.active
        /\ new.requested_len = job[p].new.requested_len /\ new \in Extent
    BY <2>2, Zenon DEF Extent, Inside, Wants
  <2>6. Placed(new)
    BY <2>1, <2>5 DEF Placed, Sized, Inside, Wants
  <2>7. \A r \in Active : ~Overlap(new, extents[r])
    <3> SUFFICES ASSUME NEW r \in Active PROVE ~Overlap(new, extents[r])
      BY Zenon
    <3>1. extents[r].offset \in Nat /\ extents[r].rounded_len \in Nat
      BY Zenon, <2>3, SettledTypes
    <3> HIDE DEF new
    <3> QED
      BY <3>1, <2>2, <2>4, <2>5 DEF Overlap
  <2>8. job'[p].new = new
    BY <2>1 DEF Types
  <2> HIDE DEF new
  <2>9. Types'
    <3> DEFINE j == [job[p] EXCEPT !.new = new]
    <3>1. job' = [job EXCEPT ![p] = j] /\ j \in [align : Nat \ {0}, new : Extent]
      <4>1. job' = [job EXCEPT ![p] = j]
        BY <2>1, Zenon DEF new
      <4>2. job[p] \in [align : Nat \ {0}, new : Extent]
        BY Zenon DEF Types
      <4> QED
        BY Zenon, <4>1, <4>2, <2>5
    <3> HIDE DEF j
    <3>2. job' \in [Process -> [align : Nat \ {0}, new : Extent]]
      BY <3>1, Zenon DEF Types
    <3> QED
      BY <2>1, <3>2, Zenon DEF Types
  <2>10. /\ pc'[p] = "write" /\ left'[p] = Fields
         /\ \A q \in Process \ {p} : pc'[q] = "idle"
    BY <2>1, Alone, Zenon DEF Types
  <2>11. slot[p] \notin Active /\ mutex.owner = p /\ p \in attached
    BY Zenon DEF Inside
  <2>12. Active' = Active
    BY Zenon DEF Active
  <2>13. Settled' = Active
    BY <2>1, <2>10, <2>11, <2>12 DEF Settled
  <2>14. Table'
    BY <2>3, <2>13, Zenon DEF Table
  <2>15. Apart(job[p].new)'
    BY <2>6, <2>7, <2>8, <2>13 DEF Apart
  <2>16. ~(extents'[slot'[p]].active)
    BY <2>1, <2>11, Zenon DEF Active, Types
  <2>17. \A q \in Process : Inside(q)'
    BY <2>1, <2>10, <2>11, <2>15, <2>16, Zenon DEF Inside
  <2> QED
    BY <2>9, <2>14, <2>17
<1> QED
  BY Zenon, <1>1, <1>2

\* The search starts at whole units and goes on at whole units, so align_up changes
\* nothing and each iteration is one of the two above, or runs out of addresses.
LEMMA ScanStep ==
  ASSUME IInv, NEW p \in Process, Scan(p)
  PROVE  IInv'
<1> USE DEF IInv
<1> DEFINE c == AlignUp(Base + candidate[p], job[p].align) - Base
<1>1. pc[p] = "scan" /\ UNCHANGED <<attached, extents, live>>
  BY Zenon DEF Scan
<1>2. c = candidate[p]
  <2>1. /\ candidate[p] \in Nat /\ Base \in Nat /\ Alignment \in Nat \ {0}
        /\ Base % Alignment = 0 /\ candidate[p] % Alignment = 0 /\ job[p].align = Alignment
    BY <1>1, ArenaAssumption, Zenon DEF Types, Inside, Wants
  <2>2. (Base + candidate[p]) % Alignment = 0
    BY <2>1, SumOfMultiples
  <2>3. AlignUp(Base + candidate[p], Alignment) = Base + candidate[p]
    BY <2>1, <2>2, AlignUpOfMultiple
  <2> QED
    BY <2>1, <2>3
<1>3. CASE Unlock(p)
  BY <1>1, <1>3, GiveUp
<1>4. ASSUME NEW s \in Slot, IsNext(s, c), ScanOn(p, c, s)
      PROVE  IInv'
  BY Zenon, <1>1, <1>2, <1>4, ScanOnStep
<1>5. CASE /\ \A s \in Slot : IsNext(s, c) =>
                (c + job[p].new.rounded_len) % Limit <= extents[s].offset
           /\ ScanEnd(p, c)
  BY Zenon, <1>1, <1>2, <1>5, ScanEndStep
<1> QED
  BY <1>3, <1>4, <1>5, Zenon DEF Scan

\* The extent that is found is not that of another allocation in use.
LEMMA FindStep ==
  ASSUME IInv, NEW p \in Process, Find(p)
  PROVE  IInv'
<1> USE DEF IInv
<1>1. pc[p] = "find" /\ UNCHANGED <<attached, extents, live>>
  BY Zenon DEF Find
<1>2. CASE Unlock(p)
  BY <1>1, <1>2, GiveUp
<1>3. ASSUME NEW s \in Active, extents[s].offset = job[p].new.offset,
             slot' = [slot EXCEPT ![p] = s], job' = [job EXCEPT ![p].new = Empty],
             left' = [left EXCEPT ![p] = Fields], Goto(p, "write"),
             UNCHANGED <<mutex, candidate>>
      PROVE  IInv'
  <2>1. Settled = Active
    BY <1>1, Alone, AllSettled
  <2>2. s \in Slot
    BY DEF Active
  <2>3. Types'
    <3>1. Empty \in Extent
      BY DEF Empty, Extent
    <3>2. job' \in [Process -> [align : Nat \ {0}, new : Extent]]
      BY <1>3, <3>1 DEF Types
    <3> QED
      BY <1>1, <1>3, <2>2, <3>2, Zenon DEF Types, Goto
  <2>4. /\ pc'[p] = "write" /\ slot'[p] = s /\ left'[p] = Fields /\ job'[p].new = Empty
        /\ \A q \in Process \ {p} : pc'[q] = "idle"
    BY <1>1, <1>3, Alone DEF Types, Goto
  <2>5. Active' = Active
    BY <1>1 DEF Active
  <2>6. Settled' = Active \ {s}
    BY <2>4, <2>5 DEF Settled
  <2>7. \A y \in live : \E r \in Settled' : Range(extents'[r]) = y
    <3> SUFFICES ASSUME NEW y \in live PROVE \E r \in Settled' : Range(extents'[r]) = y
      OBVIOUS
    <3>1. PICK r \in Active : Range(extents[r]) = y
      BY <2>1 DEF Table
    <3>2. y.offset # job[p].new.offset
      BY <1>1, Zenon DEF Inside
    <3>3. r # s
      BY <1>3, <3>1, <3>2 DEF Range
    <3> QED
      BY <1>1, <2>6, <3>1, <3>3
  <2>8. Table'
    BY <1>1, <2>1, <2>6, <2>7 DEF Table
  <2>9. Apart(extents[s])'
    BY <1>1, <2>1, <2>6 DEF Table, Apart
  <2>10. mutex'.owner = p /\ p \in attached' /\ ~Empty.active
    BY <1>1, <1>3, Zenon DEF Inside, Empty
  <2>11. \A q \in Process : Inside(q)'
    BY <2>4, <2>9, <2>10 DEF Inside
  <2> QED
    BY <2>3, <2>8, <2>11
<1> QED
  BY <1>2, <1>3, Zenon DEF Find

\* A field at a time: the extent is not settled meanwhile.
LEMMA WriteFieldStep ==
  ASSUME IInv, NEW p \in Process, NEW f \in Fields, WriteField(p, f)
  PROVE  IInv'
<1> USE DEF IInv
<1>1. /\ pc[p] = "write" /\ f \in left[p]
      /\ left' = [left EXCEPT ![p] = left[p] \ {f}]
      /\ UNCHANGED <<attached, mutex, pc, job, candidate, slot, live>>
  BY Zenon DEF WriteField
<1>2. Types'
  BY <1>1, Stored, Zenon DEF Types
<1>3. \A s \in Slot \ {slot[p]} : extents'[s] = extents[s]
  BY Zenon, Stored
<1>4. slot[p] \notin Settled /\ slot[p] \notin Settled'
  BY <1>1 DEF Settled
<1>5. Settled' = Settled /\ \A s \in Settled : extents'[s] = extents[s]
  <2>1. \A s \in Slot \ {slot[p]} : s \in Active' <=> s \in Active
    BY <1>3 DEF Active
  <2>2. \A s \in Slot \ {slot[p]} : s \in Settled' <=> s \in Settled
    BY <1>1, <2>1 DEF Settled
  <2>3. Settled \subseteq Slot /\ Settled' \subseteq Slot
    BY DEF Settled, Active
  <2> QED
    BY <1>3, <1>4, <2>2, <2>3
<1>6. Table'
  BY <1>1, <1>5 DEF Table
<1>7. \A q \in Process \ {p} : pc'[q] = "idle"
  BY <1>1, Alone
<1>8. job'[p].new.active => Apart(job[p].new)'
  BY <1>1, <1>5, Zenon DEF Inside, Apart
<1>9. left'[p] = left[p] \ {f} /\ left'[p] # Fields
  BY <1>1, Zenon DEF Types
<1>10. \A g \in Fields \ left'[p] : extents'[slot'[p]][g] = job'[p].new[g]
  <2>1. \A g \in Fields \ left[p] : extents[slot[p]][g] = job[p].new[g]
    BY <1>1, ZenonT(30) DEF Inside
  <2> QED
    BY <1>1, <1>9, <2>1, Stored
<1>11. \A q \in Process : Inside(q)'
  BY <1>1, <1>7, <1>8, <1>9, <1>10 DEF Inside
<1> QED
  BY <1>2, <1>6, <1>11

\* What Finish adds to the allocations in use
LEMMA Written ==
  ASSUME IInv, NEW p \in Process, Finish(p), job[p].new.active
  PROVE  /\ slot[p] \in Slot /\ extents[slot[p]].active
         /\ Range(extents[slot[p]]) = Range(job[p].new)
         /\ Apart(job[p].new)
         /\ Range(job[p].new) \in [offset : Nat, rounded_len : Nat, requested_len : Nat]
<1>1. \A f \in Fields : extents[slot[p]][f] = job[p].new[f]
  BY DEF Finish, IInv, Inside
<1>2. /\ extents[slot[p]].offset = job[p].new.offset
      /\ extents[slot[p]].rounded_len = job[p].new.rounded_len
      /\ extents[slot[p]].requested_len = job[p].new.requested_len
      /\ extents[slot[p]].active = job[p].new.active
  BY <1>1, Zenon DEF Fields
<1>3. slot[p] \in Slot /\ job[p].new \in Extent
  BY DEF IInv, Types
<1>4. Apart(job[p].new)
  BY Zenon DEF Finish, IInv, Inside
<1> QED
  BY <1>2, <1>3, <1>4, Zenon DEF Range, Extent

\* The extent that is handed out is settled, and apart from the others.
LEMMA FinishStep ==
  ASSUME IInv, NEW p \in Process, Finish(p)
  PROVE  IInv'
<1> USE DEF IInv
<1>1. /\ pc[p] = "write" /\ left[p] = {} /\ Return(p) /\ UNCHANGED <<attached, extents>>
      /\ mutex' = [mutex EXCEPT !.owner = None]
      /\ live' = IF job[p].new.active THEN live \union {Range(job[p].new)} ELSE live
  BY DEF Finish, Unlock
<1>2. \A q \in Process : pc'[q] = "idle"
  BY <1>1, Returned, Alone
<1>3. Types'
  <2>1. live' \subseteq [offset : Nat, rounded_len : Nat, requested_len : Nat]
    BY <1>1, Written DEF Types
  <2>2. mutex' \in [owner : Process \union {None}, dead : BOOLEAN]
    BY <1>1 DEF Types
  <2> QED
    BY <1>1, <2>1, <2>2, Returned, Zenon DEF Types
<1>4. /\ Settled \subseteq Settled'
      /\ \A s \in Settled' : Placed(extents'[s])
      /\ \A s, r \in Settled' : s # r => ~Overlap(extents'[s], extents'[r])
  BY <1>1, Leave
<1>5. ASSUME NEW x \in live' PROVE \E s \in Settled' : Range(extents'[s]) = x
  <2>1. CASE x \in live
    BY <2>1, <1>1, <1>4 DEF Table
  <2>2. CASE job[p].new.active /\ x = Range(job[p].new)
    <3>1. slot[p] \in Settled'
      BY <1>1, <1>2, <2>2, Written, Zenon DEF Settled, Active
    <3> QED
      BY Zenon, <1>1, <2>2, <3>1, Written
  <2> QED
    BY <1>1, <2>1, <2>2
<1>6. attached' # {}
  BY <1>1, Zenon DEF Inside
<1>7. Table'
  BY <1>4, <1>5, <1>6 DEF Table
<1>8. \A q \in Process : Inside(q)'
  BY <1>2, Zenon DEF Inside
<1> QED
  BY <1>3, <1>7, <1>8

-----------------------------------------------------------------------------
\* Every step keeps the invariant.
LEMMA NextHolds ==
  ASSUME IInv, SmallAlignments, ~DiesWriting, [Next]_vars
  PROVE  IInv'
<1>1. CASE UNCHANGED vars
  <2>1. Active' = Active /\ Settled' = Settled /\ extents' = extents
    BY <1>1, Zenon DEF vars, Settled, Active
  <2>2. Types'
    BY <1>1, Zenon DEF vars, IInv, Types
  <2>3. Table'
    BY <1>1, <2>1, Zenon DEF vars, IInv, Table
  <2>4. \A q \in Process : Inside(q)'
    BY <1>1, <2>1 DEF vars, IInv, Inside, Apart, Wants
  <2> QED
    BY <2>2, <2>3, <2>4, Zenon DEF IInv
<1>2. CASE Next
  <2>1. PICK p \in Process :
          \/ Open(p) \/ Die(p) \/ Continue(p)
          \/ \E c \in Process : Fork(p, c)
          \/ \E n \in Sizes, a \in Alignments : LockAllocate(p, n, a)
          \/ \E x \in live : LockDeallocate(p, x)
    BY <1>2 DEF Next
  <2>2. CASE Continue(p)
    BY <2>2, FindSlotStep, ScanStep, FindStep, FinishStep, WriteFieldStep DEF Continue
  <2> QED
    BY <2>1, <2>2, OpenStep, DieStep, ForkStep, LockAllocateStep, LockDeallocateStep
<1> QED
  BY <1>1, <1>2

\* The invariant holds throughout.
LEMMA Invariance ==
  ASSUME SmallAlignments, ~DiesWriting
  PROVE  Spec => []IInv
<1>1. Init => IInv
  BY InitHolds
<1>2. IInv /\ [Next]_vars => IInv'
  BY NextHolds
<1> QED
  BY <1>1, <1>2, PTL DEF Spec

\* allocate hands out no byte that is in use, whoever allocated, freed, forked
\* or died, for arenas, tables and process sets of every size.
THEOREM ExtentsNeverOverlap ==
  ASSUME SmallAlignments, ~DiesWriting
  PROVE  Spec => []NonOverlapping
<1>1. IInv => NonOverlapping
  BY Consequences
<1> QED
  BY <1>1, Invariance, PTL

\* deallocate and allocation_size find the extent of every pointer in use, and
\* no other, whenever the mutex is free.
THEOREM EveryExtentIsFound ==
  ASSUME SmallAlignments, ~DiesWriting
  PROVE  Spec => []ExtentIsFound
<1>1. IInv => ExtentIsFound
  BY Consequences
<1> QED
  BY <1>1, Invariance, PTL

\* Every step of the arena is a step of an allocator of blocks, or none.
THEOREM TheArenaImplementsBlocks ==
  ASSUME SmallAlignments, ~DiesWriting
  PROVE  Spec => Implements
<1>1. Init => Blocks!Init
  BY DEF Init, Blocks!Init
<1>2. IInv /\ [Next]_vars => [UNCHANGED live \/ Blocks!Next \/ attached' = {}]_live
  <2> SUFFICES ASSUME IInv, [Next]_vars, live' # live, attached' # {}
               PROVE  Blocks!Next
    OBVIOUS
  <2> DEFINE Block == [offset : 0..Size, rounded_len : 0..Size, requested_len : 0..Size]
  <2>1. ASSUME NEW e \in Extent, Placed(e) PROVE Range(e) \in Block
    BY <2>1, ArenaAssumption DEF Placed, Sized, Range, Extent
  <2>2. ASSUME NEW p \in Process, Finish(p) PROVE Blocks!Next
    <3>1. job[p].new.active /\ live' = live \union {Range(job[p].new)}
      BY <2>2, Zenon DEF Finish
    <3>2. Apart(job[p].new) /\ job[p].new \in Extent
      BY <2>2, <3>1, Written, Zenon DEF IInv, Types
    <3>3. Range(job[p].new) \in Block
      BY <2>1, <3>2, Zenon DEF Apart
    <3>4. ASSUME NEW x \in live PROVE ~Overlap(x, Range(job[p].new))
      <4>1. PICK s \in Settled : Range(extents[s]) = x
        BY DEF IInv, Table
      <4>2. ~Overlap(job[p].new, extents[s])
        BY <3>2 DEF Apart
      <4> QED
        BY <4>1, <4>2, Zenon DEF Overlap, Range
    <3>5. Blocks!Allocate(Range(job[p].new))
      BY <3>1, <3>4 DEF Blocks!Allocate
    <3> QED
      BY <3>3, <3>5 DEF Blocks!Next
  <2>3. ASSUME NEW p \in Process, NEW x \in live, LockDeallocate(p, x) PROVE Blocks!Next
    <3>1. PICK s \in Settled : Range(extents[s]) = x
      BY DEF IInv, Table
    <3>2. extents[s] \in Extent /\ Placed(extents[s])
      BY SettledTypes DEF IInv, Table
    <3>3. x \in Block
      BY <2>1, <3>1, <3>2
    <3>4. Blocks!Free(x)
      BY <2>3 DEF LockDeallocate, Blocks!Free
    <3> QED
      BY <3>3, <3>4 DEF Blocks!Next
  <2>4. PICK p \in Process :
          \/ Open(p) \/ Die(p) \/ Continue(p)
          \/ \E c \in Process : Fork(p, c)
          \/ \E n \in Sizes, a \in Alignments : LockAllocate(p, n, a)
          \/ \E x \in live : LockDeallocate(p, x)
    BY DEF Next, vars
  <2>5. ~Open(p) /\ ~Die(p)
    BY DEF Open, Die
  <2>6. ~FindSlot(p) /\ ~Scan(p) /\ ~Find(p) /\ \A f \in Fields : ~WriteField(p, f)
    BY Zenon DEF FindSlot, Scan, Find, WriteField
  <2>7. /\ \A c \in Process : ~Fork(p, c)
        /\ \A n \in Sizes, a \in Alignments : ~LockAllocate(p, n, a)
    BY Zenon DEF Fork, LockAllocate
  <2> QED
    BY <2>2, <2>3, <2>4, <2>5, <2>6, <2>7 DEF Continue
<1> QED
  BY <1>1, <1>2, Invariance, PTL DEF Spec, Implements

-----------------------------------------------------------------------------
\* Every step keeps what holds whatever the table holds.
LEMMA DeathsNext ==
  ASSUME DInv, [Next]_vars
  PROVE  DInv'
<1> Types /\ InArena /\ \A q \in Process : Guarded(q)
  BY Zenon DEF DInv
<1>1. CASE UNCHANGED vars
  <2>1. Types' /\ InArena'
    BY <1>1, Zenon DEF vars, Types, InArena
  <2>2. \A q \in Process : Guarded(q)'
    BY <1>1, Zenon DEF vars, Guarded, Request
  <2> QED
    BY <2>1, <2>2, Zenon DEF DInv
<1>2. ASSUME NEW p \in Process, Open(p) PROVE DInv'
  <2>1. \A q \in Process : pc[q] = "idle"
    BY <1>2, Zenon DEF Open, Guarded
  <2>2. Types' /\ InArena'
    BY <1>2, Zenon DEF Open, Types, InArena, Empty, Extent
  <2>3. Guarded(p)' /\ \A q \in Process : pc'[q] = pc[q] /\ job'[q] = job[q]
    BY <1>2, <2>1, Zenon DEF Open, Guarded
  <2> QED
    BY <2>1, <2>2, <2>3, OthersGuarded
<1>3. ASSUME NEW p \in Process, NEW c \in Process, Fork(p, c) PROVE DInv'
  <2>1. Types' /\ InArena'
    BY <1>3, Zenon DEF Fork, Types, InArena
  <2>2. \A q \in Process : Guarded(q)'
    BY <1>3, Zenon DEF Fork, Guarded, Request
  <2> QED
    BY <2>1, <2>2, Zenon DEF DInv
<1>4. ASSUME NEW p \in Process, Die(p) PROVE DInv'
  <2>1. Types' /\ InArena'
    BY <1>4, Returned, Zenon DEF Die, Types, InArena
  <2>2. pc'[p] = "idle" /\ \A q \in Process : q # p => pc'[q] = pc[q] /\ job'[q] = job[q]
    BY <1>4, Zenon DEF Die, Return, Goto, Types
  <2>3. \A q \in Process : q # p /\ pc[q] # "idle" => mutex'.owner = q /\ q \in attached'
    BY <1>4, Zenon DEF Die, Guarded
  <2>4. Guarded(p)'
    BY <2>2, Zenon DEF Guarded
  <2> QED
    BY <2>1, <2>2, <2>3, <2>4, OthersGuarded
<1>5. ASSUME NEW p \in Process, NEW n \in Sizes, NEW a \in Alignments, LockAllocate(p, n, a)
      PROVE  DInv'
  <2> DEFINE requested == IF n = 0 THEN 1 ELSE n
             al        == IF a < Alignment THEN Alignment ELSE a
  <2>1. requested \in Nat \ {0} /\ al \in Nat \ {0} /\ n \in Nat
    BY ArenaAssumption
  <2>2. AlignUp(requested, Alignment) \in Nat /\ requested <= AlignUp(requested, Alignment)
    BY <2>1, AlignUpIsMultiple, ArenaAssumption
  <2> DEFINE j == [align |-> al, new |-> [offset |-> 0, requested_len |-> requested,
                   rounded_len |-> AlignUp(requested, Alignment), active |-> TRUE]]
  <2>3. /\ mutex.owner = None /\ mutex' = [owner |-> p, dead |-> FALSE] /\ p \in attached
        /\ job' = [job EXCEPT ![p] = j] /\ pc' = [pc EXCEPT ![p] = "slot"]
        /\ UNCHANGED <<attached, extents, candidate, slot, left, live>>
    BY <1>5, Zenon DEF LockAllocate, Lock, Goto
  <2>4. j \in [align : Nat \ {0}, new : Extent]
    BY <2>1, <2>2 DEF Extent
  <2>5. /\ j.new.requested_len = requested
        /\ j.new.rounded_len = AlignUp(requested, Alignment)
    BY Zenon
  <2> HIDE DEF j, requested, al
  <2>6. Types' /\ InArena'
    BY <2>3, <2>4, Zenon DEF Types, InArena
  <2>7. job'[p] = j /\ pc'[p] = "slot"
    BY <2>3, Zenon DEF Types
  <2>8. Guarded(p)'
    BY <2>1, <2>2, <2>3, <2>5, <2>7 DEF Guarded, Request
  <2>9. \A q \in Process : q # p => pc'[q] = pc[q] /\ job'[q] = job[q] /\ pc[q] = "idle"
    BY <2>3, ArenaAssumption DEF Types, Guarded
  <2> QED
    BY <2>6, <2>8, <2>9, OthersGuarded
<1>6. ASSUME NEW p \in Process, NEW x \in live, LockDeallocate(p, x) PROVE DInv'
  <2> DEFINE j == [align |-> 1, new |-> [Empty EXCEPT !.offset = x.offset]]
  <2>1. /\ mutex.owner = None /\ mutex' = [owner |-> p, dead |-> FALSE] /\ p \in attached
        /\ job' = [job EXCEPT ![p] = j] /\ pc' = [pc EXCEPT ![p] = "find"]
        /\ live' = live \ {x}
        /\ UNCHANGED <<attached, extents, candidate, slot, left>>
    BY <1>6 DEF LockDeallocate, Lock, Goto
  <2>2. j \in [align : Nat \ {0}, new : Extent]
    <3>1. x.offset \in Nat
      BY DEF Types
    <3>2. [Empty EXCEPT !.offset = x.offset] \in Extent
      BY <3>1, Zenon DEF Extent, Empty
    <3> QED
      BY <3>2
  <2> HIDE DEF j
  <2>3. Types' /\ InArena'
    BY <2>1, <2>2, Zenon DEF Types, InArena
  <2>4. Guarded(p)'
    BY <2>1 DEF Guarded, Types
  <2>5. \A q \in Process : q # p => pc'[q] = pc[q] /\ job'[q] = job[q] /\ pc[q] = "idle"
    BY <2>1, ArenaAssumption DEF Types, Guarded
  <2> QED
    BY <2>3, <2>4, <2>5, OthersGuarded
<1>7. ASSUME NEW p \in Process, FindSlot(p) PROVE DInv'
  <2>1. CASE Unlock(p) /\ UNCHANGED <<attached, extents, live>>
    BY <1>7, <2>1, UnlockGuarded, Zenon DEF FindSlot, Types, InArena
  <2>2. ASSUME NEW s \in Slot, slot' = [slot EXCEPT ![p] = s],
               candidate' = [candidate EXCEPT ![p] = 0], Goto(p, "scan"),
               UNCHANGED <<mutex, job, left, attached, extents, live>>
        PROVE  DInv'
    <3>1. Types' /\ InArena' /\ Guarded(p)'
      BY <1>7, <2>2, Zenon DEF FindSlot, Goto, Types, InArena, Guarded, Request
    <3>2. /\ pc[p] # "idle" /\ mutex' = mutex /\ attached' = attached
          /\ \A q \in Process : q # p => pc'[q] = pc[q] /\ job'[q] = job[q]
      BY <1>7, <2>2, Zenon DEF FindSlot, Goto, Types
    <3>3. mutex.owner = p
      BY <3>2 DEF Guarded
    <3> QED
      BY <3>1, <3>2, <3>3, InsideGuarded
  <2> QED
    BY <1>7, <2>1, <2>2 DEF FindSlot
<1>8. ASSUME NEW p \in Process, Scan(p) PROVE DInv'
  <2> DEFINE c == AlignUp(Base + candidate[p], job[p].align) - Base
  <2>1. candidate[p] \in Nat /\ job[p].align \in Nat \ {0} /\ Base \in Nat /\ Size \in Nat
    BY ArenaAssumption DEF Types
  <2>2. c \in Nat
    <3> DEFINE v == Base + candidate[p]
    <3>1. v \in Nat /\ Base <= v
      BY <2>1
    <3> HIDE DEF v
    <3>2. AlignUp(v, job[p].align) \in Nat /\ v <= AlignUp(v, job[p].align)
      BY <2>1, <3>1, AlignUpIsMultiple
    <3> QED
      BY <2>1, <3>1, <3>2 DEF v
  <2>3. CASE Unlock(p)
    BY <1>8, <2>3, UnlockGuarded, Zenon DEF Scan, Types, InArena
  <2>4. ASSUME NEW s \in Slot, ScanOn(p, c, s) PROVE DInv'
    <3>1. Types' /\ InArena' /\ Guarded(p)'
      <4>1. extents[s].offset + extents[s].rounded_len \in Nat
        BY DEF Types, Extent
      <4>2. candidate' \in [Process -> Nat]
        BY <2>4, <4>1, Zenon DEF ScanOn, Types
      <4>3. Types' /\ InArena'
        BY <1>8, <2>4, <4>2, Zenon DEF Scan, ScanOn, Types, InArena
      <4>4. Guarded(p)'
        BY <1>8, <2>4, Zenon DEF Scan, ScanOn, Guarded, Request
      <4> QED
        BY <4>3, <4>4
    <3>2. /\ pc[p] # "idle" /\ mutex' = mutex /\ attached' = attached
          /\ \A q \in Process : q # p => pc'[q] = pc[q] /\ job'[q] = job[q]
      BY <1>8, <2>4, Zenon DEF Scan, ScanOn, Types
    <3>3. mutex.owner = p
      BY <3>2 DEF Guarded
    <3> QED
      BY <3>1, <3>2, <3>3, InsideGuarded
  <2>5. CASE /\ c + job[p].new.rounded_len <= Size
             /\ job' = [job EXCEPT ![p].new.offset = c]
             /\ left' = [left EXCEPT ![p] = Fields]
             /\ Goto(p, "write")
             /\ UNCHANGED <<mutex, candidate, slot>>
    <3> DEFINE j == [job[p] EXCEPT !.new.offset = c]
    <3>1. job[p].new \in Extent /\ job[p] \in [align : Nat \ {0}, new : Extent]
      BY DEF Types
    <3>2. /\ j.new.offset = c /\ j.new.rounded_len = job[p].new.rounded_len
          /\ j.new.requested_len = job[p].new.requested_len
          /\ j \in [align : Nat \ {0}, new : Extent]
      BY <2>2, <3>1, Zenon DEF Extent
    <3>3. job' = [job EXCEPT ![p] = j]
      BY <2>5
    <3> HIDE DEF j
    <3>4. Types' /\ InArena' /\ job'[p] = j
      <4>1. job' \in [Process -> [align : Nat \ {0}, new : Extent]] /\ job'[p] = j
        BY <3>2, <3>3 DEF Types
      <4> QED
        BY <1>8, <2>5, <4>1, Zenon DEF Scan, Goto, Types, InArena
    <3>5. Guarded(p)'
      BY <1>8, <2>5, <3>2, <3>4, Zenon DEF Scan, Goto, Types, Guarded, Request
    <3>6. /\ pc[p] # "idle" /\ mutex' = mutex /\ attached' = attached
          /\ \A q \in Process : q # p => pc'[q] = pc[q] /\ job'[q] = job[q]
      BY <1>8, <2>5, Zenon DEF Scan, Goto, Types
    <3>7. mutex.owner = p
      BY <3>6 DEF Guarded
    <3> QED
      BY <3>4, <3>5, <3>6, <3>7, InsideGuarded
  <2> HIDE DEF c
  <2> QED
    BY <1>8, <2>3, <2>4, <2>5, Zenon DEF Scan, ScanEnd, c
<1>9. ASSUME NEW p \in Process, Find(p) PROVE DInv'
  <2>1. CASE Unlock(p) /\ UNCHANGED <<attached, extents, live>>
    BY <1>9, <2>1, UnlockGuarded, Zenon DEF Find, Types, InArena
  <2>2. ASSUME NEW s \in Slot, slot' = [slot EXCEPT ![p] = s],
               job' = [job EXCEPT ![p].new = Empty],
               left' = [left EXCEPT ![p] = Fields], Goto(p, "write"),
               UNCHANGED <<mutex, candidate, attached, extents, live>>
        PROVE  DInv'
    <3>1. Types' /\ InArena' /\ Guarded(p)'
      <4>1. Empty \in Extent /\ ~Empty.active
        BY DEF Empty, Extent
      <4>2. job' \in [Process -> [align : Nat \ {0}, new : Extent]] /\ job'[p].new = Empty
        BY <2>2, <4>1 DEF Types
      <4>3. Types' /\ InArena'
        BY <1>9, <2>2, <4>2, Zenon DEF Find, Goto, Types, InArena
      <4>4. Guarded(p)'
        BY <1>9, <2>2, <4>1, <4>2 DEF Find, Goto, Types, Guarded
      <4> QED
        BY <4>3, <4>4
    <3>2. /\ pc[p] # "idle" /\ mutex' = mutex /\ attached' = attached
          /\ \A q \in Process : q # p => pc'[q] = pc[q] /\ job'[q] = job[q]
      BY <1>9, <2>2, Zenon DEF Find, Goto, Types
    <3>3. mutex.owner = p
      BY <3>2 DEF Guarded
    <3> QED
      BY <3>1, <3>2, <3>3, InsideGuarded
  <2> QED
    BY <1>9, <2>1, <2>2, Zenon DEF Find, Active
<1>10. ASSUME NEW p \in Process, NEW f \in Fields, WriteField(p, f) PROVE DInv'
  <2>1. Types'
    BY <1>10, Stored, Zenon DEF WriteField, Types
  <2>2. InArena' /\ Guarded(p)'
    BY <1>10, Zenon DEF WriteField, InArena, Guarded, Request
  <2> QED
    BY <1>10, <2>1, <2>2, InsideGuarded, Zenon DEF WriteField, Guarded
<1>11. ASSUME NEW p \in Process, Finish(p) PROVE DInv'
  <2>1. InArena' /\ live' \subseteq [offset : Nat, rounded_len : Nat, requested_len : Nat]
    BY <1>11 DEF Finish, Types, Extent, InArena, Guarded, Request, Range
  <2> QED
    BY <1>11, <2>1, UnlockGuarded, Zenon DEF Finish
<1> QED
  BY <1>1, <1>2, <1>3, <1>4, <1>5, <1>6, <1>7, <1>8, <1>9, <1>10, <1>11 DEF Next, Continue

\* Whatever processes die and wherever, also between the stores of an extent, and
\* whatever alignments are asked for: a process inside allocate or deallocate
\* owns the robust mutex, and what allocate hands out lies in the arena.
THEOREM DeathsAreContained == Spec => [](OneInside /\ InArena)
<1>1. Init => DInv
  BY ArenaAssumption DEF Init, DInv, Types, InArena, Guarded, Slot, NoJob, Empty, Extent, Fields
<1>2. DInv => OneInside /\ InArena
  BY DEF DInv, Guarded, OneInside
<1> QED
  BY <1>1, <1>2, DeathsNext, PTL DEF Spec
=============================================================================
