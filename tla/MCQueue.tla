------------------------------ MODULE MCQueue ------------------------------
(***************************************************************************)
(* Two writers (the application threads) and one or two readers on a queue *)
(* smaller than what they write, so that it runs full, wraps and drains.   *)
(***************************************************************************)
EXTENDS Queue

CONSTANTS w1, w2, r1, r2

=============================================================================
