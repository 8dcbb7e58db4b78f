--------------------------- MODULE SlabSequences ---------------------------
(***************************************************************************)
(* The stacks of one thread as SlabHeap sees them: sequences of slabs.  An *)
(* operation pushes a slab that is in none of them, pops one, moves one    *)
(* from wherever it is to the top of another, or cuts a batch off the top. *)
(***************************************************************************)
EXTENDS Naturals, Sequences

CONSTANTS
  Slab,
  Key,       \* the names of the stacks
  MaxBatch   \* the largest batch that is cut off

VARIABLE stack

Init == stack = [k \in Key |-> <<>>]

\* What the stacks q may become in one operation.
Push(q, k, s) == [q EXCEPT ![k] = <<s>> \o @]

Cut(q, k, n) == [q EXCEPT ![k] = SubSeq(@, n + 1, Len(@))]

Move(q, k, l, p) ==
  [q EXCEPT ![k] = SubSeq(@, 1, p - 1) \o SubSeq(@, p + 1, Len(@)),
            ![l] = <<q[k][p]>> \o @]

After(q) ==
  LET here == UNION {{q[k][i] : i \in DOMAIN q[k]} : k \in Key} IN
       {Push(q, k, s) : k \in Key, s \in Slab \ here}
  \union UNION {{Cut(q, k, n) : n \in {m \in 1..MaxBatch : m <= Len(q[k])}} :
                k \in Key}
  \union UNION {{Move(q, k, l, p) : l \in Key \ {k}, p \in DOMAIN q[k]} :
                k \in Key}

Next == stack' \in After(stack)

Spec == Init /\ [][Next]_stack
=============================================================================
