-------------------------------- MODULE Mcas --------------------------------
(***************************************************************************)
(* Compare-and-swap near memory: the words of the detectable CAS when the   *)
(* allocator is built with cxl-mcas.  A thread writes its request into its   *)
(* own line of a write buffer and reads the answer from its own line of a    *)
(* read buffer (mcas.rs); the controller on the device (mcas_ctrl.sv)        *)
(* recognises the two lines, reads the target word, compares, answers, and   *)
(* writes the new value afterwards.                                          *)
(*                                                                           *)
(* One step of the model is one bus transaction.  The memory controller      *)
(* behind the device serves an accepted read at any later time, and orders   *)
(* a write before the reads it accepts after it.                             *)
(***************************************************************************)
EXTENDS Naturals

CONSTANTS
    Threads,    \* thread ids
    Window,     \* ids below this have their lines in the page the device matches
    Words,      \* target words
    MaxValue,   \* bound on the values of a word
    MaxOps,     \* bound on the operations of a thread
    Ready       \* the memory controller accepts a write in any cycle

McasAssumption == Words # {} /\ "none" \notin Words /\ MaxValue \in Nat

VARIABLES
    mem,        \* the target words in memory
    slot,       \* struct_arr: the request the device holds for each thread
    pending,    \* pending_insert_r, wr_data_r: the write the device owes memory
    pc,
    call,       \* the operation, target, `old` and `new` of each thread
    value,      \* the first word of the answer
    seen,       \* history: the values the target had since the operation began
    ops

vars == <<mem, slot, pending, pc, call, value, seen, ops>>

Values == 0..MaxValue
NoWrite == [word |-> "none", swap |-> 0]
Idle == [kind |-> "none", word |-> CHOOSE w \in Words : TRUE, old |-> 0, new |-> 0]
Empty == [cmp |-> 0, swap |-> 0, word |-> Idle.word, status |-> 0]

Init ==
    /\ mem = [w \in Words |-> 0]
    /\ slot = [t \in Threads |-> Empty]
    /\ pending = NoWrite
    /\ pc = [t \in Threads |-> "idle"]
    /\ call = [t \in Threads |-> Idle]
    /\ value = [t \in Threads |-> 0]
    /\ seen = [t \in Threads |-> {}]
    /\ ops = [t \in Threads |-> 0]

Goto(t, from, to) == pc[t] = from /\ pc' = [pc EXCEPT ![t] = to]

\* The value of a word once the write the device owes it has landed
Word(w) == IF pending.word = w THEN pending.swap ELSE mem[w]

\* The device accepts neither reads nor writes while it owes memory a write.
Accepts == pending = NoWrite

-----------------------------------------------------------------------------
(* The threads: mcas.rs                                                      *)

\* store(value), or the read-modify-write loop of Detectable::update (here
\* an increment)
Begin(t) ==
    /\ Goto(t, "idle", "load")
    /\ ops[t] < MaxOps
    /\ \E w \in Words, c \in ({"store"} \X Values) \union {<<"add", 0>>} :
          /\ call' = [call EXCEPT ![t] = [kind |-> c[1], word |-> w, old |-> 0, new |-> c[2]]]
          /\ seen' = [seen EXCEPT ![t] = {Word(w)}]
    /\ ops' = [ops EXCEPT ![t] = @ + 1]
    /\ UNCHANGED <<mem, slot, pending, value>>

\* The loop goes on with v as the value it expects.
Expect(t, v) ==
    LET new == IF call[t].kind = "add" THEN (v + 1) % (MaxValue + 1) ELSE call[t].new IN
    call' = [call EXCEPT ![t].old = v, ![t].new = new]

Load(t) ==
    /\ Accepts
    /\ Goto(t, "load", "call")
    /\ Expect(t, mem[call[t].word])
    /\ UNCHANGED <<mem, slot, pending, value, seen, ops>>

\* The request is written to the thread's line with movdir64b, and sfence
\* orders it before the read of the answer.
Write(t) ==
    /\ Accepts
    /\ Goto(t, "call", "written")
    /\ slot' = IF t < Window
               THEN [slot EXCEPT ![t] = [cmp |-> call[t].old, swap |-> call[t].new,
                                         word |-> call[t].word, status |-> 1]]
               ELSE slot
    /\ UNCHANGED <<mem, pending, call, value, seen, ops>>

\* compare_exchange reloads the word after Err(0) and returns another
\* conflict as it is; the loops retry with what it returns.
Retry(t, v) ==
    IF v = 0 THEN pc' = [pc EXCEPT ![t] = "load"] /\ UNCHANGED call
             ELSE pc' = [pc EXCEPT ![t] = "call"] /\ Expect(t, v)

-----------------------------------------------------------------------------
(* The device: mcas_ctrl.sv                                                  *)

\* set_rd_matching: the read of a line with a request is redirected to its
\* target; any other read returns the line itself, which nobody writes.
Fetch(t) ==
    /\ Accepts
    /\ pc[t] = "written"
    /\ IF t < Window /\ slot[t].status = 1
       THEN /\ pc' = [pc EXCEPT ![t] = "flight"]
            /\ slot' = [slot EXCEPT ![t].status = 2]
            /\ UNCHANGED call
       ELSE /\ Retry(t, 0)
            /\ UNCHANGED slot
    /\ UNCHANGED <<mem, pending, value, seen, ops>>

\* The memory controller answers the redirected read.
Serve(t) ==
    /\ Goto(t, "flight", "served")
    /\ value' = [value EXCEPT ![t] = mem[slot[t].word]]
    /\ UNCHANGED <<mem, slot, pending, call, seen, ops>>

BullyNobody(w) == slot

\* A swap of a word cancels every request for it.
Bully(w) == [u \in Threads |-> IF slot[u].word = w THEN [slot[u] EXCEPT !.status = 0] ELSE slot[u]]

\* set_rep_routing: a compare that matches answers success, cancels the
\* other requests for the word and leaves its write in wr_data_r.  A write
\* still there goes out in this very cycle or is overwritten.
Swap(t) ==
    /\ slot' = [Bully(slot[t].word) EXCEPT ![t] = Empty]
    /\ pending' = [word |-> slot[t].word, swap |-> slot[t].swap]
    /\ mem' = IF Ready /\ pending # NoWrite THEN [mem EXCEPT ![pending.word] = pending.swap] ELSE mem
    /\ pc' = [pc EXCEPT ![t] = "idle"]
    /\ call' = [call EXCEPT ![t] = Idle]
    /\ seen' = [u \in Threads |->
                  IF u = t THEN {}
                  ELSE IF pc[u] # "idle" /\ call[u].word = slot[t].word
                       THEN seen[u] \union {slot[t].swap} ELSE seen[u]]

Compare(t) ==
    /\ pc[t] = "served"
    /\ value' = [value EXCEPT ![t] = 0]
    /\ \/ /\ slot[t].status = 2 /\ value[t] = slot[t].cmp
          /\ Swap(t)
       \/ /\ ~(slot[t].status = 2 /\ value[t] = slot[t].cmp)
          /\ slot' = [slot EXCEPT ![t] = Empty]
          /\ Retry(t, value[t])
          /\ UNCHANGED <<mem, pending, seen>>
    /\ UNCHANGED ops

WriteBackKept ==
    /\ pending # NoWrite
    /\ mem' = [mem EXCEPT ![pending.word] = pending.swap]
    /\ UNCHANGED <<pending, slot, pc, call, value, seen, ops>>

\* insert_wr
WriteBack ==
    /\ pending # NoWrite
    /\ mem' = [mem EXCEPT ![pending.word] = pending.swap]
    /\ pending' = NoWrite
    /\ UNCHANGED <<slot, pc, call, value, seen, ops>>

-----------------------------------------------------------------------------
Step(t) == Load(t) \/ Write(t) \/ Fetch(t) \/ Serve(t) \/ Compare(t)

Next == WriteBack \/ \E t \in Threads : Begin(t) \/ Step(t)

Spec == Init /\ [][Next]_vars

\* Threads are scheduled, the memory controller answers every read and the
\* device issues the write it owes.
LiveSpec == Spec /\ WF_vars(WriteBack) /\ \A t \in Threads : WF_vars(Step(t))

-----------------------------------------------------------------------------
(***************************************************************************)
(* A word changes only by a compare-and-swap that is answered with success  *)
(* and expected the value the word had at that moment, so no update is lost  *)
(* or overwritten: the device reads, compares and writes in separate         *)
(* transactions, and mcas.rs takes the answer 1 for success.                 *)
(***************************************************************************)
Atomic == \A w \in Words : Word(w)' # Word(w) =>
            \E t \in Threads : /\ pc[t] = "served" /\ pc'[t] = "idle"
                               /\ call[t].word = w
                               /\ Word(w) = call[t].old
                               /\ Word(w)' = call[t].new

(***************************************************************************)
(* What compare_exchange returns on failure, and the loops go on with, is a   *)
(* value the word had during the operation: the answer of a failed mcas may  *)
(* be the content of the line and not of the word (Err(0) in mcas.rs).        *)
(***************************************************************************)
OldIsReal == \A t \in Threads : pc[t] \in {"call", "written", "flight", "served"} => call[t].old \in seen[t]

(***************************************************************************)
(* Every store and every update ends: one that fails was cancelled by one     *)
(* that succeeds, and the device keeps accepting requests.                    *)
(***************************************************************************)
StoreEnds == \A t \in Threads : pc[t] # "idle" ~> pc[t] = "idle"
=============================================================================
