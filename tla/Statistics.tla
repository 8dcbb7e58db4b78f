----------------------------- MODULE Statistics -----------------------------
(***************************************************************************)
(* The memory statistics of the heap (feature stat-memory) beside the heap   *)
(* they describe: every step of SlabHeap records its events, in the order     *)
(* heap.rs does.  An event moves bytes between categories.  A thread adds      *)
(* them up in counters of its own, and prints a counter and resets it when     *)
(* it is large enough; what is printed is summed up by whoever reads it.       *)
(***************************************************************************)
EXTENDS SlabHeap

CONSTANTS
    SlabSize,   \* SIZE_SLAB of the bracket
    Size,       \* class.size()
    Threshold,  \* THRESHOLD
    MaxPrinted  \* bound: how far a sum may move from 0 (`detached` and `disowned`
                \* drift apart for ever, see DisownedApart)

Sequence == INSTANCE SequencesExt
Sets == INSTANCE FiniteSetsExt

VARIABLES
    count,      \* the MemoryRecorder of each thread
    printed     \* the sum of what was printed, by category

statVars == <<vars, count, printed>>

\* The counters for all classes and those for each; Local and Remote
\* descriptors are counted as slabs are (`data`).
Categories == ({"data", "global_unsized", "local_unsized"} \X {None})
              \union ({"application", "local_sized", "detached", "disowned"} \X Class)

StatInit ==
    /\ Init
    /\ count = [t \in Thread |-> [k \in Categories |-> 0]]
    /\ printed = [k \in Categories |-> 0]

-----------------------------------------------------------------------------
\* The bytes of the slabs that are bumped or pushed together
Batched(batch) == SlabSize * batch

\* MemoryRecorder::record: the counters an event changes, and by how much
Deltas(event, c) ==
    CASE event = "Allocate" -> {<<"application", c, Size[c]>>}
      [] event = "Free" -> {<<"application", c, -Size[c]>>}
      [] event = "Bump" -> {<<"local_unsized", None, Batched(BatchBumpPop)>>,
                            <<"data", None, Batched(BatchBumpPop)>>}
      [] event = "GlobalToUnsized" -> {<<"global_unsized", None, -SlabSize>>,
                                       <<"local_unsized", None, SlabSize>>}
      [] event = "UnsizedToSized" -> {<<"local_unsized", None, -SlabSize>>,
                                      <<"local_sized", c, SlabSize>>}
      [] event = "SizedToUnsized" -> {<<"local_sized", c, -SlabSize>>,
                                      <<"local_unsized", None, SlabSize>>}
      [] event = "UnsizedToGlobal" -> {<<"local_unsized", None, -Batched(BatchGlobalPush)>>,
                                       <<"global_unsized", None, Batched(BatchGlobalPush)>>}
      [] event = "Detach" -> {<<"local_sized", c, -SlabSize>>, <<"detached", c, SlabSize>>}
      [] event = "Disown" -> {<<"detached", c, -SlabSize>>, <<"disowned", c, SlabSize>>}
      [] event = "Attach" -> {<<"detached", c, -SlabSize>>, <<"local_sized", c, SlabSize>>}
      [] event = "Claim" -> {<<"disowned", c, -SlabSize>>, <<"local_unsized", None, SlabSize>>}

Magnitude(n) == IF n < 0 THEN -n ELSE n

ApplyKept(prev, delta) ==
    IF Magnitude(prev + delta) < Threshold THEN [kept |-> prev + delta, printed |-> 0]
    ELSE [kept |-> prev + delta, printed |-> prev + delta]

\* Sloppy::apply
Apply(prev, delta) ==
    IF Magnitude(prev + delta) < Threshold THEN [kept |-> prev + delta, printed |-> 0]
    ELSE [kept |-> 0, printed |-> prev + delta]

\* The counters of a thread, and the sums, after one more event
After(sums, event) ==
    LET deltas == Deltas(event[1], event[2])
        delta(k) == (CHOOSE d \in deltas : <<d[1], d[2]>> = k)[3]
        changed(k) == \E d \in deltas : <<d[1], d[2]>> = k
    IN [kept |-> [k \in Categories |->
                    IF changed(k) THEN Apply(sums.kept[k], delta(k)).kept ELSE sums.kept[k]],
        printed |-> [k \in Categories |->
                       sums.printed[k] + IF changed(k) THEN Apply(sums.kept[k], delta(k)).printed ELSE 0]]

Record(t, events) ==
    LET sums == Sequence!FoldLeft(After, [kept |-> count[t], printed |-> printed], events) IN
    /\ count' = [count EXCEPT ![t] = sums.kept]
    /\ printed' = sums.printed
    /\ \A k \in Categories : Magnitude(printed'[k]) <= MaxPrinted

-----------------------------------------------------------------------------
(* The steps of the heap with what they record.                              *)

\* detach records Disown before it disowns.
RecordDetach(t) ==
    LET c == class[cur[t]] IN
    Detach(t) /\ Record(t, <<<<"Detach", c>>>> \o IF pc'[t] = "disown" THEN <<<<"Disown", c>>>> ELSE <<>>)

RecordFreeLocal(t) ==
    LET s == cur[t]
        c == class[s]
    IN FreeLocal(t) /\ Record(t, <<<<"Free", c>>>>
                                 \o (IF free[s] = {} THEN <<<<"Attach", c>>>> ELSE <<>>)
                                 \o (IF pc'[t] = "flush" THEN <<<<"SizedToUnsized", c>>>> ELSE <<>>))

RecordAllocate(t) ==
    \/ \E c \in Class :
          \/ Pop(t, c) /\ Record(t, <<<<"Allocate", c>>>>)
          \/ UnsizedToSized(t, c) /\ Record(t, <<<<"UnsizedToSized", c>>>>)
          \/ GlobalIsEmpty(t, c) /\ Record(t, <<>>)
    \/ SharedPop(t) /\ Record(t, <<>>)
    \/ GlobalToUnsized(t) /\ Record(t, <<<<"GlobalToUnsized", None>>>>)
    \/ BumpToUnsized(t) /\ Record(t, <<<<"Bump", None>>>>)
    \/ RecordDetach(t)
    \/ Disown(t) /\ Record(t, <<>>)

RecordRelease(t) ==
    \/ \E s \in Slab : \E b \in live[s] : Free(t, s, b) /\ Record(t, <<>>)
    \/ RecordFreeLocal(t)
    \/ FreeRemote(t) /\ Record(t, <<<<"Free", class[cur[t]]>>>>)
    \/ Claim(t) /\ Record(t, <<<<"Claim", class[Head(stack[Hand(t)])]>>>>)
    \/ UnsizedToGlobal(t) /\ Record(t, IF pc'[t] = "push" THEN <<<<"UnsizedToGlobal", None>>>> ELSE <<>>)
    \/ SharedPush(t) /\ Record(t, <<>>)

StatNext == \E t \in Thread : RecordAllocate(t) \/ RecordRelease(t)

StatSpec == StatInit /\ [][StatNext]_statVars

-----------------------------------------------------------------------------
\* A category as its reader sees it once the counters of the threads are in
Figure(name, c) == printed[<<name, c>>]
                   + Sets!MapThenSumSet(LAMBDA t : count[t][<<name, c>>], Thread)
Quiet == \A t \in Thread : pc[t] = "idle"
SlabsIn(keys) == SlabSize * Cardinality({s \in Slab : \E k \in keys : In(s, k)})
Outside(c) == {s \in Slab : Detached(s) /\ class[s] = c}

(***************************************************************************)
(* Between operations the figures are the memory: `data` is what the bump     *)
(* index handed out, `application` the blocks in use, and the bytes of the     *)
(* stacks and outside of them add up to `data`.                               *)
(***************************************************************************)
Accounted ==
    Quiet =>
      /\ Figure("data", None) = SlabSize * (bump - 1)
      /\ Figure("global_unsized", None) = SlabsIn({Global})
      /\ Figure("local_unsized", None) = SlabsIn({Unsized(t) : t \in Thread})
      /\ \A c \in Class :
            /\ Figure("application", c) = Size[c] * Sets!MapThenSumSet(LAMBDA s :
                                             IF class[s] = c THEN Cardinality(live[s]) ELSE 0, Slab)
            /\ Figure("local_sized", c) = SlabsIn({Sized(t, c) : t \in Thread})
            /\ Figure("detached", c) + Figure("disowned", c) = SlabSize * Cardinality(Outside(c))

(***************************************************************************)
(* `disowned` is the memory of the slabs that no thread owns, and `detached`  *)
(* that of the slabs in no stack which a thread still owns (heap.rs logs       *)
(* "detach" and "disown" apart).  This fails when a slab is claimed that its   *)
(* owner detached without disowning it.                                       *)
(***************************************************************************)
DisownedApart ==
    Quiet => \A c \in Class :
               Figure("disowned", c) = SlabSize * Cardinality({s \in Outside(c) : owner[s] = None})
=============================================================================
