--------------------------- MODULE BlockingCalls ---------------------------
(***************************************************************************)
(* What a CAPIO node promises the threads whose calls block: one answer,   *)
(* to the call that asked.  A call on the data of a file is answered only  *)
(* when it may go on, and is never forgotten; an open that waits for the   *)
(* creation of its file may be.                                            *)
(***************************************************************************)
CONSTANT Thread

VARIABLES
  phase,  \* of each thread: "none", "opening", "asking", "answered", "lost" or "gone"
  ready   \* of each thread: may its call go on?  An input, it changes as the files do

Init == phase = [t \in Thread |-> "none"]

To(S, f) == phase' = [t \in Thread |-> IF t \in S THEN f ELSE phase[t]]

Ask(t) == phase[t] = "none" /\ \E kind \in {"opening", "asking"} : To({t}, kind)

\* Several at once: all who wait for the same file.
Answer(S) ==
  /\ \A t \in S : phase[t] = "opening" \/ (phase[t] = "asking" /\ ready[t])
  /\ To(S, "answered")

Forget(S) == (\A t \in S : phase[t] = "opening") /\ To(S, "lost")

Return(t) == phase[t] = "answered" /\ To({t}, "none")

\* The thread exits, or is killed.
End(t) == To({t}, "gone")

Next ==
  \/ \E t \in Thread : Ask(t) \/ Return(t) \/ End(t)
  \/ \E S \in SUBSET Thread : Answer(S) \/ Forget(S)

Spec == Init /\ [][Next]_phase

=============================================================================
