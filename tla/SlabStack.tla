----------------------------- MODULE SlabStack -----------------------------
(***************************************************************************)
(* What the global free stack promises: a batch of slabs goes on top in    *)
(* one piece, the top slab comes off, and nothing else happens to it.      *)
(***************************************************************************)
EXTENDS Naturals, Sequences

CONSTANTS
  Slab,
  MaxBatch   \* the largest batch that is pushed at once

VARIABLE stack

Init == stack = <<>>

Push(q) ==
  /\ \A i \in 1..Len(q), j \in 1..Len(stack) : q[i] # stack[j]
  /\ stack' = q \o stack

Pop ==
  /\ stack # <<>>
  /\ stack' = Tail(stack)

Next == Pop \/ \E n \in 1..MaxBatch : \E q \in [1..n -> Slab] : Push(q)

Spec == Init /\ [][Next]_stack
=============================================================================
