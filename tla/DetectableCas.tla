----------------------------- MODULE DetectableCas -----------------------------
(***************************************************************************)
(* Words that a thread updates by compare-exchange and of which it can     *)
(* tell, after a crash, whether its last update happened.  A word carries  *)
(* the thread and the version that wrote it.  Whoever is about to replace  *)
(* a word first notes, in its row of the help array, the version that it   *)
(* saw of the thread in the word; the diagonal of the array is the         *)
(* thread's own version.  Everything here is in shared memory.             *)
(*                                                                         *)
(* An operation is one update; its log entry names the cell and the        *)
(* version, and is erased when the operation returns.                      *)
(***************************************************************************)
EXTENDS Integers

CONSTANTS
  Thread,
  Cell,
  Value,       \* what a word holds besides its tag
  Versions,    \* the number of versions, 65536 in the code
  MaxUpdates,  \* bound: updates that are begun
  MaxCrashes,  \* bound: crashes
  Stores,      \* whether cells are also stored to, as Remote counters are
  None

CasAssumption ==
  /\ Versions \in Nat \ {0} /\ MaxUpdates \in Nat /\ MaxCrashes \in Nat
  /\ Stores \in BOOLEAN /\ Value # {}
  /\ None \notin Thread

VARIABLES
  cell,     \* cell -> [id, version, inner]
  help,     \* thread -> thread -> version
  log,      \* thread -> [cell, version] or None
  pc,
  op,       \* thread -> [cell, version, old, new]
  done,     \* thread -> whether the update of the log entry happened
  written,  \* the pairs of thread and version that some word has carried
  updates, crashes

vars == <<cell, help, log, pc, op, done, written, updates, crashes>>

NextVersion(v) == (v + 1) % Versions

Zero == CHOOSE v \in Value : TRUE
NoOp == [cell |-> None, version |-> 0, old |-> None, new |-> Zero]

Init ==
  /\ cell = [c \in Cell |-> [id |-> None, version |-> 0, inner |-> Zero]]
  /\ help = [t \in Thread |-> [u \in Thread |-> 0]]
  /\ log = [t \in Thread |-> None]
  /\ pc = [t \in Thread |-> "idle"]
  /\ op = [t \in Thread |-> NoOp]
  /\ done = [t \in Thread |-> FALSE]
  /\ written = {}
  /\ updates = 0 /\ crashes = 0

Goto(t, label) == pc' = [pc EXCEPT ![t] = label]

-----------------------------------------------------------------------------
\* help: the version seen of the thread in the word, in one's own row.
Helped(t, word) ==
  IF word.id = None THEN help ELSE [help EXCEPT ![t][word.id] = word.version]

\* load, by which is_empty and detach also help.
Load(t, c) ==
  /\ pc[t] = "idle"
  /\ help' = Helped(t, cell[c])
  /\ UNCHANGED <<cell, log, pc, op, done, written, updates, crashes>>

\* store, which a slab's new owner uses while nobody else has the cell.
Store(t, c) ==
  /\ Stores /\ pc[t] = "idle"
  /\ \A u \in Thread : op[u].cell # c
  /\ help' = Helped(t, cell[c])
  /\ \E v \in Value : cell' = [cell EXCEPT ![c] = [id |-> t, version |-> 0, inner |-> v]]
  /\ written' = written \union {<<t, 0>>}
  /\ UNCHANGED <<log, pc, op, done, updates, crashes>>

\* update: a new version, in one's own entry.
Begin(t, c) ==
  LET version == NextVersion(help[t][t]) IN
  /\ pc[t] = "idle" /\ updates < MaxUpdates
  /\ updates' = updates + 1
  /\ help' = [help EXCEPT ![t][t] = version]
  /\ op' = [op EXCEPT ![t] = [NoOp EXCEPT !.cell = c, !.version = version]]
  /\ Goto(t, "load")
  /\ UNCHANGED <<cell, log, done, written, crashes>>

LoadOld(t) ==
  /\ pc[t] = "load"
  /\ op' = [op EXCEPT ![t].old = cell[op[t].cell]]
  /\ Goto(t, "help")
  /\ UNCHANGED <<cell, help, log, done, written, updates, crashes>>

\* A faulty Help, which helps nobody.
HelpNobody(t) ==
  /\ pc[t] = "help"
  /\ Goto(t, "log")
  /\ UNCHANGED <<cell, help, log, op, done, written, updates, crashes>>

Help(t) ==
  /\ pc[t] = "help"
  /\ help' = Helped(t, op[t].old)
  /\ Goto(t, "log")
  /\ UNCHANGED <<cell, log, op, done, written, updates, crashes>>

\* The closure chooses the new value; the log entry is written.
Log(t) ==
  /\ pc[t] = "log"
  /\ log' = [log EXCEPT ![t] = [cell |-> op[t].cell, version |-> op[t].version]]
  /\ \E v \in Value : op' = [op EXCEPT ![t].new = v]
  /\ done' = [done EXCEPT ![t] = FALSE]
  /\ Goto(t, "cas")
  /\ UNCHANGED <<cell, help, written, updates, crashes>>

CompareExchange(t) ==
  LET o == op[t] IN
  /\ pc[t] = "cas"
  /\ IF cell[o.cell] = o.old
       THEN /\ cell' = [cell EXCEPT ![o.cell] =
                         [id |-> t, version |-> o.version, inner |-> o.new]]
            /\ done' = [done EXCEPT ![t] = TRUE]
            /\ written' = written \union {<<t, o.version>>}
            /\ op' = [op EXCEPT ![t] = NoOp]
            /\ Goto(t, "clear")
       ELSE /\ op' = [op EXCEPT ![t].old = cell[o.cell]]
            /\ Goto(t, "help")
            /\ UNCHANGED <<cell, done, written>>
  /\ UNCHANGED <<help, log, updates, crashes>>

\* The operation returns, and erases its log entry.
Clear(t) ==
  /\ pc[t] = "clear"
  /\ log' = [log EXCEPT ![t] = None]
  /\ done' = [done EXCEPT ![t] = FALSE]
  /\ Goto(t, "idle")
  /\ UNCHANGED <<cell, help, op, written, updates, crashes>>

-----------------------------------------------------------------------------
Crash(t) ==
  /\ pc[t] \notin {"idle", "down"} /\ crashes < MaxCrashes
  /\ crashes' = crashes + 1
  /\ op' = [op EXCEPT ![t] = NoOp]
  /\ Goto(t, "down")
  /\ UNCHANGED <<cell, help, log, done, written, updates>>

\* A faulty Detect, which also counts the own entry.
DetectOwn(t) ==
  LET v == log[t].version  word == cell[log[t].cell] IN
  \/ word.id = t /\ word.version = v
  \/ \E u \in Thread : help[u][t] = v

\* detect: the word still has the tag, or somebody noted it before replacing
\* the word: it is in more than one row.
Detect(t) ==
  LET v == log[t].version  word == cell[log[t].cell] IN
  \/ word.id = t /\ word.version = v
  \/ \E u, w \in Thread : u # w /\ help[u][t] = v /\ help[w][t] = v

\* Recovery asks, and completes the operation or not; both end with no entry.
Recover(t) ==
  /\ pc[t] = "down"
  /\ log' = [log EXCEPT ![t] = None]
  /\ done' = [done EXCEPT ![t] = FALSE]
  /\ Goto(t, "idle")
  /\ UNCHANGED <<cell, help, op, written, updates, crashes>>

Next ==
  \E t \in Thread :
    \/ \E c \in Cell : Load(t, c) \/ Store(t, c) \/ Begin(t, c)
    \/ LoadOld(t) \/ Help(t) \/ Log(t) \/ CompareExchange(t) \/ Clear(t)
    \/ Crash(t) \/ Recover(t)

Spec == Init /\ [][Next]_vars

-----------------------------------------------------------------------------
Asks(t) == pc[t] = "down" /\ log[t] # None

\* The assertion of detect: the own entry is the version of the log.  This
\* fails when help meets a word of the thread itself before the log is written.
OwnEntryKept ==
  \A t \in Thread : Asks(t) => help[t][t] = log[t].version

\* An update that happened is detected whenever the assertion of detect passes,
\* whoever has replaced the word since: recovery takes ~detect for "Crashed
\* between logging and CASing".
DetectComplete ==
  \A t \in Thread :
    Asks(t) /\ done[t] /\ help[t][t] = log[t].version => Detect(t)

\* An update that did not happen is only taken for one that did if an earlier
\* one had the same version, or if versions have wrapped around to 0, which
\* entries also hold before anybody has helped.
MistakenOnlyIfReused ==
  \A t \in Thread :
    Asks(t) /\ ~done[t] /\ Detect(t) =>
      <<t, log[t].version>> \in written \/ log[t].version = 0

\* What recovery goes by when it takes detect for "Completed successfully".
DetectSound ==
  \A t \in Thread : Asks(t) /\ Detect(t) => done[t]
=============================================================================
