--------------------------- MODULE MCCommitTokens ---------------------------
(***************************************************************************)
(* Three servers that close one file, and are killed and started again.    *)
(***************************************************************************)
EXTENDS CommitTokens

CONSTANTS s1, s2, s3

=============================================================================
