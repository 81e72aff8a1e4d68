--------------------------- MODULE MCDescriptors ---------------------------
(***************************************************************************)
(* Programs with two files and two descriptors: enough to duplicate a      *)
(* descriptor, to reuse a number and to rename over a file.                *)
(***************************************************************************)
EXTENDS Descriptors, TLC

CONSTANTS p1, p2

\* The plain program, and those that have one thing, or exec and another, on
\* top of it.
MCPrograms ==
  {{}, {"dup2_onto_open"}, {"dup2_from_outside"}, {"dup_fails"}, {"fcntl_dup"},
   {"rename_onto_known"}, {"seek_end", "seek_fails"}, {"seek_fails"}, {"readv"},
   {"exec"}, {"exec_fails"}, {"exec", "exec_shared"}, {"exec", "cloexec"}}

\* Nothing tells the files of CAPIO_DIR apart.
Symmetry == Permutations(Path)

=============================================================================
