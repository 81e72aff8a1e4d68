------------------------------ MODULE MCCapioCL ------------------------------
(***************************************************************************)
(* Documents about a file a, a directory d, a file in it, and names beside *)
(* them, written in the ways a document may write them; two of the names   *)
(* are patterns.                                                           *)
(***************************************************************************)
EXTENDS CapioCL

C == <<"c">>
A == Rel(<<"a">>, <<"a">>)
D == Rel(<<"d">>, <<"d">>)
DA == Rel(<<"d", "/", "a">>, <<"d", "/", "a">>)
DotA == Rel(<<".", "/", "a">>, <<"a">>)
AbsA == Abs(<<"c", "/", "a">>)
Outside == Abs(<<"o">>)
InD == Rel(<<"d", "/", "*">>, <<"d", "/", "*">>)
AnyDA == Rel(<<"*", "/", "d", "/", "a">>, <<"*", "/", "d", "/", "a">>)

E(name, dir, commit, number, mode, files, deps) ==
  [name |-> name, dir |-> dir, rule |-> commit, number |-> number, mode |-> mode,
   files |-> files, deps |-> deps]

\* An application whose name the parser changes.
MCTrimmed == [a \in App |-> IF a = "my app" THEN "myapp" ELSE a]

MCItem == {A, DotA, D, DA, AbsA, Outside, InD, AnyDA}
MCEntry ==
  {E(A, FALSE, "on_close", 2, None, None, None),
   E(AbsA, FALSE, "on_file", None, "no_update", None, {DA}),
   E(D, TRUE, "on_close", None, "no_update", 2, None),
   E(InD, TRUE, "on_close", 1, None, None, None),
   E(DA, FALSE, "on_termination", None, None, None, None),
   E(Outside, FALSE, "on_close", None, None, None, None),
   E(None, FALSE, "on_close", None, None, None, None),
   E(A, FALSE, None, None, None, None, None),
   E(A, FALSE, "on_file", 2, None, None, {}),
   E(A, FALSE, "on_close", NaN, None, None, None),
   E(A, FALSE, "on_file", None, None, None, None),
   E(DotA, FALSE, "on_close", None, None, None, None),
   E(A, FALSE, "on_close", Huge, None, None, None)}
MCCreated == {<<"c", "/">>, <<"c", "/", "b">>, <<"c", "/", "a">>}

=============================================================================
