------------------------------ MODULE HazardArray ------------------------------
(***************************************************************************)
(* The hazards of one thread, load by load and store by store: its owner   *)
(* inserts at the end and removes by moving the last one into the gap,     *)
(* while another thread, without a lock, looks whether an offset is there. *)
(***************************************************************************)
EXTENDS Integers

CONSTANTS Offset, Capacity, None

HazardAssumption == Capacity \in Nat /\ None \notin Offset

VARIABLES
  hazards, len,     \* the array, and how much of it is in use
  pc, offset, at,   \* the owner: where it is, for which offset, at which index
  scan,             \* the reader: "idle", "scan", or what contains returned
  want, limit, i,   \* the offset it looks for, the length it read, its index
  there,            \* whether want was inserted all the while
  moved             \* whether it was moved to another index meanwhile

array  == <<hazards, len>>
owner  == <<pc, offset, at>>
reader == <<scan, want, limit, i>>
vars   == <<array, owner, reader, there, moved>>

Index == 0..(Capacity - 1)
Used  == {hazards[j] : j \in 0..(len - 1)}

Init ==
  /\ hazards = [j \in Index |-> None] /\ len = 0
  /\ pc = "idle" /\ offset = None /\ at = 0
  /\ scan = "idle" /\ want = None /\ limit = 0 /\ i = 0
  /\ there = FALSE /\ moved = FALSE

-----------------------------------------------------------------------------
Insert(o) ==
  /\ pc = "idle" /\ o \notin Used /\ len < Capacity
  /\ hazards' = [hazards EXCEPT ![len] = o]
  /\ pc' = "inserted" /\ offset' = o
  /\ UNCHANGED <<len, at, reader, there, moved>>

Inserted ==
  /\ pc = "inserted"
  /\ len' = len + 1
  /\ pc' = "idle" /\ offset' = None
  /\ UNCHANGED <<hazards, at, reader, there, moved>>

\* swap_remove: the last one is stored in place of the one to remove ...
Remove(o) ==
  /\ pc = "idle" /\ o \in Used
  /\ \E j \in 0..(len - 1) :
       /\ hazards[j] = o /\ at' = j
       /\ hazards' = [hazards EXCEPT ![j] = hazards[len - 1]]
       /\ moved' = (moved \/ (hazards[len - 1] = want /\ j # len - 1))
  /\ pc' = "fill" /\ offset' = o
  /\ there' = (there /\ want # o)
  /\ UNCHANGED <<len, reader>>

\* ... then its old place is cleared, then the length stored.
Clear ==
  /\ pc = "fill"
  /\ hazards' = [hazards EXCEPT ![len - 1] = None]
  /\ pc' = "shrink"
  /\ UNCHANGED <<len, offset, at, reader, there, moved>>

Shrink ==
  /\ pc = "shrink"
  /\ len' = len - 1
  /\ pc' = "idle" /\ offset' = None /\ at' = 0
  /\ UNCHANGED <<hazards, reader, there, moved>>

-----------------------------------------------------------------------------
Contains(o) ==
  /\ scan # "scan"
  /\ scan' = "scan" /\ want' = o /\ limit' = len /\ i' = 0
  /\ there' = (o \in Used /\ ~(pc # "idle" /\ offset = o))
  /\ moved' = FALSE
  /\ UNCHANGED <<array, owner>>

\* A faulty Look, which stops before the last.
LookShort ==
  /\ scan = "scan"
  /\ IF i >= limit - 1 THEN scan' = "no" /\ UNCHANGED i
     ELSE IF hazards[i] = want THEN scan' = "yes" /\ UNCHANGED i
     ELSE i' = i + 1 /\ UNCHANGED scan
  /\ UNCHANGED <<array, owner, want, limit, there, moved>>

Look ==
  /\ scan = "scan"
  /\ IF i = limit THEN scan' = "no" /\ UNCHANGED i
     ELSE IF hazards[i] = want THEN scan' = "yes" /\ UNCHANGED i
     ELSE i' = i + 1 /\ UNCHANGED scan
  /\ UNCHANGED <<array, owner, want, limit, there, moved>>

Next ==
  \/ \E o \in Offset : Insert(o) \/ Remove(o) \/ Contains(o)
  \/ Inserted \/ Clear \/ Shrink \/ Look

Spec == Init /\ [][Next]_vars

-----------------------------------------------------------------------------
\* "Hazard offsets are unique", and none is missing, whenever the owner is
\* not in the middle of a change.
OffsetsUnique ==
  pc = "idle" =>
    /\ \A j \in 0..(len - 1) : hazards[j] \in Offset
    /\ \A j, k \in 0..(len - 1) : hazards[j] = hazards[k] => j = k

\* A hazard that was there all the while is only missed by contains if a
\* removal moved it meanwhile.
MissedOnlyIfMoved ==
  scan = "no" /\ there => moved

\* A hazard that was there all the while is not missed: what reuse needs to
\* leave alone what is "Protected by hazard pointer".  This fails when a
\* removal moves the hazard behind the reader.
ContainsFinds ==
  scan = "no" => ~there
=============================================================================
