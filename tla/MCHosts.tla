------------------------------ MODULE MCHosts ------------------------------
(***************************************************************************)
(* Instances for TLC, in one run, of the parts of Hosts and of             *)
(* CacheCoherence: what several processes and hosts do to each other.  A   *)
(* behaviour is one of the part that is chosen initially; the variables of *)
(* the others stay as they are.                                            *)
(***************************************************************************)
EXTENDS Hosts, TLC

CONSTANTS p1, p2, t1, t2, Absent

VARIABLES
  part,
  lines, truth, left, bits, remote, held, unsized, sized, global, bump

region == <<first, mapped, written, erased, at, step, wild, killed, restarts>>
device == <<mem, slot, pending, state, call, value, seen, ops>>
cas    == <<cell, help, entry, turn, op, done, tags, updates, failures>>
array  == <<hazards, len, phase, offset, index, scan, want, limit, probe, there, moved>>
cache  == <<lines, truth, left, bits, remote, held, unsized, sized, global, bump>>
all    == <<part, vars, region, device, cas, array, cache>>

\* Threads t1 and t2 in one process, t3 in another.
TwoProcesses == [t \in Threads |-> IF t \in {"t1", "t2"} THEN "p" ELSE "q"]

AnyNode == {-1}

\* The binding of cxlalloc-global; the configuration has that of cxlalloc-static.
EagerBinding == INSTANCE Binding WITH Eager <- TRUE

\* A heap that grows, and accesses to any address.  The rounding to pages makes
\* the chunks of the metadata hold more slabs than those of the data.
OneEach   == t1 :> p1 @@ t2 :> p2
PageCover == "local" :> 2 @@ "remote" :> 3 @@ "data" :> 1

\* One thread in private memory.
Private == INSTANCE RegionMap WITH
             Process <- {p1}, Thread <- {t1}, ProcessOf <- t1 :> p1,
             Brackets <- {"Small"}, MaxSlab <- 3,
             Cover <- "local" :> 2 @@ "remote" :> 2 @@ "data" :> 2,
             Lazy <- FALSE, Anonymous <- TRUE, MaxRestarts <- 0, Wild <- FALSE,
             bump <- first, pc <- step

\* Two hosts, whose caches hold the line of a slab or not.
Cache == INSTANCE CacheCoherence WITH
             Thread <- {t1, t2}, Count <- 2, MaxSlab <- 2, CountCacheSlab <- 1,
             BatchGlobalPush <- 2, Validate <- TRUE

ASSUME Region!RegionMapAssumption /\ Private!RegionMapAssumption
ASSUME Device!McasAssumption /\ Cas!CasAssumption /\ Array!HazardAssumption

Symmetry == Permutations(Updater)

MCInit ==
  /\ part \in {"binding", "eager", "growing", "private", "device", "cas", "array", "cache"}
  /\ Init
  /\ IF part = "private" THEN Private!Init ELSE Region!Init
  /\ Device!Init /\ Cas!Init /\ Array!Init /\ Cache!Init

MCNext ==
  \/ part = "binding" /\ Next /\ UNCHANGED <<part, region, device, cas, array, cache>>
  \/ part = "eager" /\ EagerBinding!Next /\ UNCHANGED <<part, region, device, cas, array, cache>>
  \/ part = "growing" /\ Region!Next /\ UNCHANGED <<part, vars, device, cas, array, cache>>
  \/ part = "private" /\ Private!Next /\ UNCHANGED <<part, vars, device, cas, array, cache>>
  \/ part = "device" /\ Device!Next /\ UNCHANGED <<part, vars, region, cas, array, cache>>
  \/ part = "cas" /\ Cas!Next /\ UNCHANGED <<part, vars, region, device, array, cache>>
  \/ part = "array" /\ Array!Next /\ UNCHANGED <<part, vars, region, device, cas, cache>>
  \/ part = "cache" /\ Cache!Next /\ UNCHANGED <<part, vars, region, device, cas, array>>

MCSpec == MCInit /\ [][MCNext]_all

CasSpec == part = "cas" /\ MCSpec

-----------------------------------------------------------------------------
\* Every free decides as with coherent memory, unless the slab once changed
\* hands while a cache kept its line (heap.rs:335).
WrongOnlyIfLeft == Cache!WrongOnlyIfLeft
=============================================================================
