----------------------------- MODULE MemoryCopy -----------------------------
(***************************************************************************)
(* memset, memcpy and memmove of the preload library.  Each is one string     *)
(* instruction, which moves a byte at a time and may be interrupted between    *)
(* two bytes, when its registers hold the rest of the work: a page fault, or   *)
(* a signal whose handler calls the functions itself.  The handler starts      *)
(* with the direction flag clear, and returning from it restores the flag.     *)
(***************************************************************************)
EXTENDS Integers

CONSTANTS
    Bytes,      \* the addresses 0..Bytes-1
    Depth,      \* bound on the signals that interrupt each other
    MaxCalls    \* bound on the calls

CopyAssumption == Bytes \in Nat /\ Depth \in Nat /\ MaxCalls \in Nat

VARIABLES
    mem,        \* the contents of memory
    frames,     \* the interrupted and the running call, as a function of the depth
    depth,      \* the number of calls that have not returned
    calls

vars == <<mem, frames, depth, calls>>

Address == 0..(Bytes - 1)
Idle == [rdi |-> 0, rsi |-> 0, rcx |-> 0, step |-> 1, set |-> FALSE,
         before |-> [a \in Address |-> 0], to |-> 0, from |-> 0, size |-> 0]

Init ==
    /\ mem = [a \in Address |-> a + 1]
    /\ frames = [k \in 1..Depth |-> Idle]
    /\ depth = 0
    /\ calls = 0

-----------------------------------------------------------------------------
Overlap(a, b, n) == a < b + n /\ b < a + n

\* The bytes that the calls in progress read or write
Busy == UNION {LET f == frames[k] IN
                 (f.to..(f.to + f.size - 1)) \union (IF f.set THEN {} ELSE f.from..(f.from + f.size - 1))
               : k \in 1..depth}

\* A call starts: in the application, or in a handler, which keeps off the
\* bytes of the calls it interrupts.
Call(frame) ==
    /\ depth < Depth /\ calls < MaxCalls
    /\ (frame.to..(frame.to + frame.size - 1)) \intersect Busy = {}
    /\ frame.set \/ (frame.from..(frame.from + frame.size - 1)) \intersect Busy = {}
    /\ depth' = depth + 1
    /\ calls' = calls + 1
    /\ frames' = [frames EXCEPT ![depth + 1] = frame]
    /\ UNCHANGED mem

\* The registers of rep movsb, which copies size bytes upwards or downwards
Movsb(d, s, n, upwards) ==
    [rdi |-> IF upwards THEN d ELSE d + n - 1, rsi |-> IF upwards THEN s ELSE s + n - 1,
     rcx |-> n, step |-> IF upwards THEN 1 ELSE -1, set |-> FALSE,
     before |-> mem, to |-> d, from |-> s, size |-> n]

Memset(d, n) ==
    Call([rdi |-> d, rsi |-> 0, rcx |-> n, step |-> 1, set |-> TRUE,
          before |-> mem, to |-> d, from |-> 0, size |-> n])

\* Its caller promises ranges that do not overlap.
Memcpy(d, s, n) == ~Overlap(d, s, n) /\ Call(Movsb(d, s, n, TRUE))

MemmoveUpwards(d, s, n) == Call(Movsb(d, s, n, TRUE))

Memmove(d, s, n) == Call(Movsb(d, s, n, n = 0 \/ d <= s))

\* Whether the running instruction has a byte left to move
More(f) == f.rcx > 0

\* One byte of the running instruction
Byte ==
    /\ depth > 0
    /\ LET f == frames[depth] IN
       /\ More(f)
       /\ mem' = [mem EXCEPT ![f.rdi] = IF f.set THEN 0 ELSE mem[f.rsi]]
       /\ frames' = [frames EXCEPT ![depth] =
             [f EXCEPT !.rdi = @ + f.step, !.rsi = @ + f.step, !.rcx = @ - 1]]
    /\ UNCHANGED <<depth, calls>>

\* The instruction is done and the call returns.
Return ==
    /\ depth > 0
    /\ ~More(frames[depth])
    /\ frames' = [frames EXCEPT ![depth] = Idle]
    /\ depth' = depth - 1
    /\ UNCHANGED <<mem, calls>>

Next ==
    \/ Byte \/ Return
    \/ \E d, s, n \in Address : d + n <= Bytes /\ s + n <= Bytes /\ (Memcpy(d, s, n) \/ Memmove(d, s, n))
    \/ \E d, n \in Address : d + n <= Bytes /\ Memset(d, n)

Spec == Init /\ [][Next]_vars

-----------------------------------------------------------------------------
\* The running call has put into its destination the bytes that the source had
\* when it was called
Copied ==
    LET f == frames[depth] IN
      \A i \in 0..(f.size - 1) :
        mem[f.to + i] = IF f.set THEN 0 ELSE f.before[f.from + i]

(***************************************************************************)
(* A call that returns has moved the bytes, also where source and destination *)
(* overlap and whatever interrupted it; and it changes no byte outside its     *)
(* destination: the end addresses that memmove computes for the downwards      *)
(* copy are the last bytes of the ranges.                                      *)
(***************************************************************************)
Exact ==
    /\ depth' < depth => Copied
    /\ \A a \in Address : mem'[a] # mem[a] =>
         LET f == frames[depth] IN a \in f.to..(f.to + f.size - 1)

=============================================================================
