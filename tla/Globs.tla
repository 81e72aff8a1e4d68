-------------------------------- MODULE Globs --------------------------------
(***************************************************************************)
(* match_globs, which finds the configuration entries for a path that has  *)
(* none of its own.  A string is the sequence of its characters; "?" and   *)
(* "*" are the wildcards.                                                  *)
(***************************************************************************)
EXTENDS Integers, SequencesExt

\* The first "*" of a glob, 0 when it has none.
Star(glob) == SelectInSeq(glob, LAMBDA c : c = "*")

Agree(glob, s, n) == \A i \in 1 .. n : glob[i] \in {"?", s[i]}

\* The loop of match_globs comes to the star.
Reached(glob, s) ==
  Star(glob) # 0 /\ Star(glob) <= Len(s) /\ Agree(glob, s, Star(glob) - 1)

GlobEnd(glob) == SubSeq(glob, Star(glob) + 1, Len(glob))

\* compare() starts before the string when it is shorter than the glob's end:
\* std::out_of_range.
match_globs_throws(glob, s) ==
  Reached(glob, s) /\ Last(glob) # "*" /\ Len(GlobEnd(glob)) > Len(s)

Shorter(glob, s) == IF Len(glob) <= Len(s) THEN Len(glob) ELSE Len(s)

\* Mutant: a star matches whatever is before it.
match_globs_AnyStar(glob, s) ==
  glob # <<>> /\ (Star(glob) # 0 \/ Agree(glob, s, Shorter(glob, s)))

\* Whichever of the two ends first, the characters compared so far decide.  At
\* a star, a glob that ends in one matches; for any other, compare() answers
\* whether the ends differ.
match_globs(glob, s) ==
  /\ glob # <<>>
  /\ IF Reached(glob, s)
       THEN Last(glob) = "*" \/ ~IsSuffix(GlobEnd(glob), s)
       ELSE Agree(glob, s, Shorter(glob, s))

-----------------------------------------------------------------------------
(* What a pattern means: "?" one character, "*" any number of them.  The  *)
(* string can be cut so that each character of the pattern has its part,   *)
(* the i-th from at[i] on.                                                 *)

Matches(glob, s) ==
  \E at \in [1 .. Len(glob) + 1 -> 1 .. Len(s) + 1] :
    /\ at[1] = 1 /\ at[Len(glob) + 1] = Len(s) + 1
    /\ \A i \in 1 .. Len(glob) :
         IF glob[i] = "*" THEN at[i] <= at[i + 1]
         ELSE at[i + 1] = at[i] + 1 /\ glob[i] \in {"?", s[at[i]]}

=============================================================================
