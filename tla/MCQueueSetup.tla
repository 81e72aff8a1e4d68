---------------------------- MODULE MCQueueSetup ----------------------------
(* QueueSetup for TLC: the clients are interchangeable.                     *)
EXTENDS QueueSetup, TLC

Clients == Permutations(Proc \ {Reader})

=============================================================================
