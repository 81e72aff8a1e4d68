----------------------------- MODULE BoundedFifo -----------------------------
(***************************************************************************)
(* What the shared-memory queues of CAPIO promise: a bounded first-in      *)
(* first-out queue from any number of writers to any number of readers.    *)
(***************************************************************************)
EXTENDS Naturals, Sequences

CONSTANTS Values, Readers, Capacity

VARIABLES
  q,    \* the elements written and not yet read
  got   \* the last element each reader received: a sequence of at most one

Init == q = <<>> /\ got = [r \in Readers |-> <<>>]

Put(v) == Len(q) < Capacity /\ q' = Append(q, v) /\ UNCHANGED got

Get(r) == q # <<>> /\ q' = Tail(q) /\ got' = [got EXCEPT ![r] = <<Head(q)>>]

Next == (\E v \in Values : Put(v)) \/ (\E r \in Readers : Get(r))

Spec == Init /\ [][Next]_<<q, got>>

=============================================================================
