-------------------------- MODULE MCPathResolution --------------------------
(***************************************************************************)
(* A program in CAPIO_DIR (/c), or beside it (/o), with relative names     *)
(* that stay, go down, go up and leave, and absolute ones.                 *)
(***************************************************************************)
EXTENDS PathResolution

MCCapioDir == <<"c">>
MCStartDir == {<<"c">>, <<"o">>}
MCRelPath == {<<"d">>, <<"d", "f">>, <<"..", "f">>, <<"..", "c">>}
MCAbsPath == {<<"c", "d">>, <<"o", "f">>, <<"proc">>}

=============================================================================
