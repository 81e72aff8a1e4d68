---------------------------- MODULE CloseCounter ----------------------------
(***************************************************************************)
(* What the closes of a file on_close:N promise, on any number of servers: *)
(* each close that a server takes is counted, once and at one moment, or   *)
(* lost with the server.                                                   *)
(***************************************************************************)
EXTENDS Naturals

CONSTANT Server

VARIABLES pending, n   \* servers with a close to count; the closes counted

Init == pending = {} /\ n = 0

Take(s) == s \notin pending /\ pending' = pending \cup {s} /\ UNCHANGED n

Count(s) == s \in pending /\ pending' = pending \ {s} /\ n' = n + 1

\* A server is killed before it has counted, perhaps while it rewrites the
\* number.
Lose(s) == s \in pending /\ pending' = pending \ {s} /\ n' \in {n, 0}

Next == \E s \in Server : Take(s) \/ Count(s) \/ Lose(s)

vars == <<pending, n>>

Spec == Init /\ [][Next]_vars

=============================================================================
