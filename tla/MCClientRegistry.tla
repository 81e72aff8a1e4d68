-------------------------- MODULE MCClientRegistry --------------------------
(***************************************************************************)
(* Two thread ids, given out again, and one application.                   *)
(***************************************************************************)
EXTENDS ClientRegistry

CONSTANTS t1, t2, a

=============================================================================
