------------------------- MODULE MCServerLifecycle -------------------------
(***************************************************************************)
(* Two servers of a workflow, one after or beside the other, and a client. *)
(***************************************************************************)
EXTENDS ServerLifecycle

CONSTANTS s1, s2, int, term, t1

\* Bound: of signals, kills and client threads, two come into play.
TwoEvents == sent + kills + (IF client[t1] = "off" THEN 0 ELSE 1) <= 2

=============================================================================
