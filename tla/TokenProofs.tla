---------------------------- MODULE TokenProofs ----------------------------
(***************************************************************************)
(* For every set of servers and any number of closes and crashes: the .lock*)
(* file lets one server at a time into the read, truncate and write of a   *)
(* token, and the number in the token never runs ahead of the closes.      *)
(***************************************************************************)
EXTENDS CommitTokens, FiniteSetTheorems, TLAPS

\* What makes OneHolder inductive: the server inside is the one whose open()
\* made the lock file.  The converse fails: a crash leaves the file behind.
Locked == \A s \in Inside : lockFile = {s}

\* The servers that have taken a close and not yet written it to the token.
Uncounted == {s \in Server : pc[s] \in {"commit", "lock", "read", "truncate", "write"}}

Number == IF token = -1 THEN 0 ELSE token

\* What makes NeverEarly inductive: the closes in the token and the ones still
\* to be written are closes that were taken, and so they are when a server that
\* has read the token puts its own in.
Accounted ==
  /\ Number + Cardinality(Uncounted) <= taken
  /\ \A s \in Server : pc[s] \in {"truncate", "write"} =>
       close_count[s] + Cardinality(Uncounted) <= taken + 1

-----------------------------------------------------------------------------

\* The lock file and the place of every server keep their types.
THEOREM TokenTyped == Spec => []TypeOK
<1>1. Init => TypeOK
  <2> SUFFICES ASSUME Init PROVE TypeOK
    OBVIOUS
  <2>1. left \in BOOLEAN
    BY DEF Init
  <2> QED
    BY <2>1 DEF Init, TypeOK, Steps
<1>2. TypeOK /\ [Next]_vars => TypeOK'
  <2> SUFFICES ASSUME TypeOK, [Next]_vars PROVE TypeOK'
    OBVIOUS
  <2> USE DEF TypeOK, Steps, history
  <2>1. CASE UNCHANGED vars
    BY <2>1 DEF vars
  <2>2. ASSUME NEW s \in Server, close_handler(s) PROVE TypeOK'
    BY <2>2 DEF close_handler
  <2>3. ASSUME NEW s \in Server, SetCommitted(s) PROVE TypeOK'
    BY <2>3 DEF SetCommitted, setCommitted
  <2>4. ASSUME NEW s \in Server, lock(s) PROVE TypeOK'
    BY <2>4 DEF lock
  <2>5. ASSUME NEW s \in Server, increaseCloseCount_Read(s) PROVE TypeOK'
    BY <2>5 DEF increaseCloseCount_Read
  <2>6. ASSUME NEW s \in Server, increaseCloseCount_Truncate(s) PROVE TypeOK'
    BY <2>6 DEF increaseCloseCount_Truncate
  <2>7. ASSUME NEW s \in Server, increaseCloseCount_Write(s) PROVE TypeOK'
    BY <2>7 DEF increaseCloseCount_Write
  <2>8. ASSUME NEW s \in Server, unlock(s) PROVE TypeOK'
    BY <2>8 DEF unlock
  <2>9. ASSUME NEW s \in Server, Crash(s) PROVE TypeOK'
    BY <2>9 DEF Crash
  <2> QED
    BY <2>1, <2>2, <2>3, <2>4, <2>5, <2>6, <2>7, <2>8, <2>9 DEF Next, Work
<1> QED
  BY <1>1, <1>2, PTL DEF Spec

\* A server enters with open(O_EXCL) only, so when no lock file is there; and
\* while another is inside, the file is there.
LEMMA LockKept == Spec => []Locked
<1>1. Init => Locked
  BY DEF Init, Locked, Inside
<1>2. TypeOK /\ Locked /\ [Next]_vars => Locked'
  <2> SUFFICES ASSUME TypeOK, Locked, [Next]_vars PROVE Locked'
    OBVIOUS
  <2> USE DEF TypeOK, Locked, Inside
  <2>1. CASE UNCHANGED vars
    BY <2>1 DEF vars
  <2>2. ASSUME NEW s \in Server, close_handler(s) PROVE Locked'
    BY <2>2 DEF close_handler
  <2>3. ASSUME NEW s \in Server, SetCommitted(s) PROVE Locked'
    BY <2>3 DEF SetCommitted
  <2>4. ASSUME NEW s \in Server, lock(s) PROVE Locked'
    BY <2>4 DEF lock
  <2>5. ASSUME NEW s \in Server, increaseCloseCount_Read(s) PROVE Locked'
    BY <2>5 DEF increaseCloseCount_Read
  <2>6. ASSUME NEW s \in Server, increaseCloseCount_Truncate(s) PROVE Locked'
    BY <2>6 DEF increaseCloseCount_Truncate
  <2>7. ASSUME NEW s \in Server, increaseCloseCount_Write(s) PROVE Locked'
    BY <2>7 DEF increaseCloseCount_Write
  <2>8. ASSUME NEW s \in Server, unlock(s) PROVE Locked'
    BY <2>8 DEF unlock
  <2>9. ASSUME NEW s \in Server, Crash(s) PROVE Locked'
    BY <2>9 DEF Crash
  <2> QED
    BY <2>1, <2>2, <2>3, <2>4, <2>5, <2>6, <2>7, <2>8, <2>9 DEF Next, Work
<1> QED
  BY <1>1, <1>2, TokenTyped, PTL DEF Spec

\* At most one server is between the constructor and the destructor.
THEOREM TokenLocked == Spec => []OneHolder
<1>1. Locked => OneHolder
  BY DEF Locked, OneHolder, Inside
<1> QED
  BY <1>1, LockKept, PTL

-----------------------------------------------------------------------------

\* A subset of the servers is finite and its size is a number.
LEMMA ServersCounted ==
  ASSUME NEW S \in SUBSET Server
  PROVE  IsFiniteSet(S) /\ Cardinality(S) \in Nat
BY FS_Subset, FS_CardinalityType, TokenAssumption

\* Committing, counting and crashing, in any order, never put more in the token
\* than the servers took from their queues.
THEOREM TokenNeverEarly == Spec => []NeverEarly
<1>1. Init => Accounted
  <2> SUFFICES ASSUME Init PROVE Accounted
    OBVIOUS
  <2>1. Uncounted = {}
    BY DEF Init, Uncounted
  <2>2. Cardinality(Uncounted) = 0
    BY <2>1, FS_EmptySet
  <2> QED
    BY <2>2 DEF Init, Accounted, Number
<1>2. TypeOK /\ Accounted /\ [Next]_vars => Accounted'
  <2> SUFFICES ASSUME TypeOK, Accounted, [Next]_vars PROVE Accounted'
    OBVIOUS
  <2> DEFINE n == Cardinality(Uncounted)
  <2>0. n \in Nat /\ IsFiniteSet(Uncounted) /\ Cardinality(Uncounted') \in Nat
    BY ServersCounted DEF Uncounted
  <2>s. ASSUME Uncounted' = Uncounted PROVE Cardinality(Uncounted') = n
    BY <2>s
  <2>1. CASE UNCHANGED vars
    BY <2>1 DEF vars, Accounted, Uncounted, Number
  <2>2. ASSUME NEW s \in Server, close_handler(s) PROVE Accounted'
    <3>1. Uncounted' = Uncounted \cup {s} /\ s \notin Uncounted
      BY <2>2 DEF close_handler, TypeOK, Uncounted
    <3>2. Cardinality(Uncounted') = n + 1
      BY <3>1, <2>0, FS_AddElement
    <3> QED
      BY <3>2, <2>2, <2>0 DEF close_handler, TypeOK, Accounted, Number
  <2>3. ASSUME NEW s \in Server, SetCommitted(s) PROVE Accounted'
    <3>1. Uncounted' = Uncounted
      BY <2>3 DEF SetCommitted, TypeOK, Uncounted
    <3> QED
      BY <3>1, <2>s, <2>3, <2>0 DEF SetCommitted, setCommitted, history, TypeOK, Accounted, Number
  <2>4. ASSUME NEW s \in Server, lock(s) PROVE Accounted'
    <3>1. Uncounted' = Uncounted
      BY <2>4 DEF lock, TypeOK, Uncounted
    <3> QED
      BY <3>1, <2>s, <2>4, <2>0 DEF lock, history, TypeOK, Accounted, Number
  <2>5. ASSUME NEW s \in Server, increaseCloseCount_Read(s) PROVE Accounted'
    <3>1. Uncounted' = Uncounted
      BY <2>5 DEF increaseCloseCount_Read, TypeOK, Uncounted
    <3> QED
      BY <3>1, <2>s, <2>5, <2>0 DEF increaseCloseCount_Read, history, TypeOK, Accounted, Number
  <2>6. ASSUME NEW s \in Server, increaseCloseCount_Truncate(s) PROVE Accounted'
    <3>1. Uncounted' = Uncounted
      BY <2>6 DEF increaseCloseCount_Truncate, TypeOK, Uncounted
    <3> QED
      BY <3>1, <2>s, <2>6, <2>0 DEF increaseCloseCount_Truncate, history, TypeOK, Accounted, Number
  <2>7. ASSUME NEW s \in Server, increaseCloseCount_Write(s) PROVE Accounted'
    <3>1. Uncounted' = Uncounted \ {s} /\ s \in Uncounted
      BY <2>7 DEF increaseCloseCount_Write, TypeOK, Uncounted
    <3>2. Cardinality(Uncounted') = n - 1
      BY <3>1, <2>0, FS_RemoveElement
    <3> QED
      BY <3>2, <2>7, <2>0 DEF increaseCloseCount_Write, history, TypeOK, Accounted, Number
  <2>8. ASSUME NEW s \in Server, unlock(s) PROVE Accounted'
    <3>1. Uncounted' = Uncounted
      BY <2>8 DEF unlock, TypeOK, Uncounted
    <3> QED
      BY <3>1, <2>s, <2>8, <2>0 DEF unlock, history, TypeOK, Accounted, Number
  <2>9. ASSUME NEW s \in Server, Crash(s) PROVE Accounted'
    <3>1. Uncounted' \subseteq Uncounted
      BY <2>9 DEF Crash, TypeOK, Uncounted
    <3>2. Cardinality(Uncounted') <= n
      BY <3>1, <2>0, FS_Subset
    <3> QED
      BY <3>2, <2>9, <2>0 DEF Crash, TypeOK, Accounted, Number
  <2> QED
    BY <2>1, <2>2, <2>3, <2>4, <2>5, <2>6, <2>7, <2>8, <2>9 DEF Next, Work
<1>3. TypeOK /\ Accounted => NeverEarly
  BY ServersCounted DEF TypeOK, Accounted, NeverEarly, Number, Uncounted
<1> QED
  BY <1>1, <1>2, <1>3, TokenTyped, PTL DEF Spec

-----------------------------------------------------------------------------

\* What the refinement needs: the number a server has read is still the one in
\* the token when it empties it, and the token is empty until it writes.
Rewriting ==
  /\ \A s \in Server : pc[s] = "truncate" => close_count[s] = Number + 1
  /\ \A s \in Server : pc[s] = "write" => token = 0

Writing == {s \in Server : pc[s] = "write"}

\* Only the server inside changes the number, so Rewriting is kept.
LEMMA RewritingKept == Spec => []Rewriting
<1>1. Init => Rewriting
  BY DEF Init, Rewriting
<1>2. TypeOK /\ Locked /\ Rewriting /\ [Next]_vars => Rewriting'
  <2> SUFFICES ASSUME TypeOK, Locked, Rewriting, [Next]_vars PROVE Rewriting'
    OBVIOUS
  <2> USE DEF TypeOK, Locked, Inside, Rewriting, Number
  <2>1. CASE UNCHANGED vars
    BY <2>1 DEF vars
  <2>2. ASSUME NEW s \in Server, close_handler(s) PROVE Rewriting'
    BY <2>2 DEF close_handler
  <2>3. ASSUME NEW s \in Server, SetCommitted(s) PROVE Rewriting'
    BY <2>3 DEF SetCommitted, setCommitted
  <2>4. ASSUME NEW s \in Server, lock(s) PROVE Rewriting'
    BY <2>4 DEF lock
  <2>5. ASSUME NEW s \in Server, increaseCloseCount_Read(s) PROVE Rewriting'
    BY <2>5 DEF increaseCloseCount_Read
  <2>6. ASSUME NEW s \in Server, increaseCloseCount_Truncate(s) PROVE Rewriting'
    BY <2>6 DEF increaseCloseCount_Truncate
  <2>7. ASSUME NEW s \in Server, increaseCloseCount_Write(s) PROVE Rewriting'
    BY <2>7 DEF increaseCloseCount_Write
  <2>8. ASSUME NEW s \in Server, unlock(s) PROVE Rewriting'
    BY <2>8 DEF unlock
  <2>9. ASSUME NEW s \in Server, Crash(s) PROVE Rewriting'
    BY <2>9 DEF Crash
  <2> QED
    BY <2>1, <2>2, <2>3, <2>4, <2>5, <2>6, <2>7, <2>8, <2>9 DEF Next, Work
<1> QED
  BY <1>1, <1>2, TokenTyped, LockKept, PTL DEF Spec

\* A set with one member has that member chosen.
LEMMA OnlyOne == ASSUME NEW x PROVE (CHOOSE y \in {x} : TRUE) = x
OBVIOUS

\* Every step of a server is a step of the abstract counter, or changes neither
\* the number nor who has a close to count.
THEOREM TokenCounts == Spec => CountsEveryClose
<1>1. Init => Counter!Init
  BY DEF Init, Counter!Init, Agreed
<1>2. TypeOK /\ Locked /\ Rewriting /\ Locked' /\ [Next]_vars => [Counter!Next]_(Counter!vars)
  <2> SUFFICES ASSUME TypeOK, Locked, Rewriting, Locked', [Next]_vars
               PROVE  [Counter!Next]_(Counter!vars)
    OBVIOUS
  <2> DEFINE Same == Uncounted' = Uncounted /\ Agreed' = Agreed
  <2>a. Agreed = IF Writing # {} THEN close_count[CHOOSE s \in Writing : TRUE] - 1 ELSE Number
    BY DEF Agreed, Writing, Number
  <2>b. Agreed' = IF Writing' # {} THEN close_count'[CHOOSE s \in Writing' : TRUE] - 1 ELSE Number'
    BY DEF Agreed, Writing, Number
  <2>c. ASSUME NEW s \in Server, pc[s] = "write" PROVE Writing = {s} /\ Agreed = close_count[s] - 1
    <3>1. Writing = {s}
      BY <2>c DEF Locked, Inside, Writing
    <3> QED
      BY <3>1, <2>a, OnlyOne
  <2>d. ASSUME NEW s \in Server, pc'[s] = "write" PROVE Agreed' = close_count'[s] - 1
    <3>1. Writing' = {s}
      BY <2>d DEF Locked, Inside, Writing
    <3> QED
      BY <3>1, <2>b, OnlyOne
  <2>e. ASSUME Writing = {} PROVE Agreed = Number
    BY <2>a, <2>e
  <2>f. ASSUME Writing' = {} PROVE Agreed' = Number'
    BY <2>b, <2>f
  <2>g. ASSUME Same PROVE [Counter!Next]_(Counter!vars)
    BY <2>g DEF Uncounted, Counter!vars
  <2>h. ASSUME Writing' = Writing, close_count' = close_count, Number' = Number PROVE Agreed' = Agreed
    BY <2>a, <2>b, <2>h
  <2>1. CASE UNCHANGED vars
    BY <2>1, <2>g, <2>h DEF vars, Uncounted, Writing, Number
  <2>2. ASSUME NEW s \in Server, close_handler(s) PROVE Counter!Take(s)
    <3>1. s \notin Uncounted /\ Uncounted' = Uncounted \cup {s}
      BY <2>2 DEF close_handler, TypeOK, Uncounted
    <3>2. Agreed' = Agreed
      BY <2>2, <2>h DEF close_handler, TypeOK, Writing, Number
    <3> QED
      BY <3>1, <3>2 DEF Counter!Take, Uncounted
  <2>3. ASSUME NEW s \in Server, SetCommitted(s) PROVE Same
    BY <2>3, <2>h DEF SetCommitted, setCommitted, TypeOK, Uncounted, Writing, Number
  <2>4. ASSUME NEW s \in Server, lock(s) PROVE Same
    BY <2>4, <2>h DEF lock, TypeOK, Uncounted, Writing, Number
  <2>5. ASSUME NEW s \in Server, increaseCloseCount_Read(s) PROVE Same
    <3>1. Writing = {} /\ Writing' = {}
      BY <2>5 DEF increaseCloseCount_Read, TypeOK, Locked, Inside, Writing
    <3> QED
      BY <2>5, <3>1, <2>e, <2>f DEF increaseCloseCount_Read, TypeOK, Uncounted, Number
  <2>6. ASSUME NEW s \in Server, increaseCloseCount_Truncate(s) PROVE Same
    <3>1. Writing = {} /\ pc'[s] = "write"
      BY <2>6 DEF increaseCloseCount_Truncate, TypeOK, Locked, Inside, Writing
    <3>2. Agreed = Number /\ Agreed' = close_count[s] - 1
      BY <2>6, <3>1, <2>d, <2>e DEF increaseCloseCount_Truncate
    <3>3. close_count[s] = Number + 1 /\ Number \in Nat
      BY <2>6 DEF increaseCloseCount_Truncate, Rewriting, TypeOK, Number
    <3>4. Uncounted' = Uncounted
      BY <2>6 DEF increaseCloseCount_Truncate, TypeOK, Uncounted
    <3> QED
      BY <3>2, <3>3, <3>4
  <2>7. ASSUME NEW s \in Server, increaseCloseCount_Write(s) PROVE Counter!Count(s)
    <3>1. pc[s] = "write" /\ close_count[s] \in Nat
      BY <2>7 DEF increaseCloseCount_Write, TypeOK
    <3>2. Writing = {s} /\ Agreed = close_count[s] - 1
      BY <3>1, <2>c
    <3>3. Writing' = {}
      BY <2>7, <3>2 DEF increaseCloseCount_Write, TypeOK, Writing
    <3>4. Agreed' = close_count[s]
      BY <2>7, <3>1, <3>3, <2>f DEF increaseCloseCount_Write, Number
    <3>5. s \in Uncounted /\ Uncounted' = Uncounted \ {s}
      BY <2>7 DEF increaseCloseCount_Write, TypeOK, Uncounted
    <3> QED
      BY <3>1, <3>2, <3>4, <3>5 DEF Counter!Count, Uncounted
  <2>8. ASSUME NEW s \in Server, unlock(s) PROVE Same
    BY <2>8, <2>h DEF unlock, TypeOK, Uncounted, Writing, Number
  <2>9. ASSUME NEW s \in Server, Crash(s) PROVE Same \/ Counter!Lose(s)
    <3>1. Uncounted' = Uncounted \ {s}
      BY <2>9 DEF Crash, TypeOK, Uncounted
    <3>2. CASE pc[s] = "write"
      <4>1. Writing' = {} /\ Number' = 0 /\ s \in Uncounted
        BY <2>9, <3>2, <2>c DEF Crash, TypeOK, Rewriting, Writing, Number, Uncounted
      <4> QED
        BY <4>1, <3>1, <2>f DEF Counter!Lose, Uncounted
    <3>3. CASE pc[s] # "write"
      <4>1. Agreed' = Agreed
        BY <2>9, <3>3, <2>h DEF Crash, TypeOK, Writing, Number
      <4> QED
        BY <4>1, <3>1 DEF Counter!Lose, Uncounted
    <3> QED
      BY <3>2, <3>3
  <2> QED
    BY <2>1, <2>2, <2>3, <2>4, <2>5, <2>6, <2>7, <2>8, <2>9, <2>g DEF Next, Work, Counter!Next
<1> QED
  BY <1>1, <1>2, TokenTyped, LockKept, RewritingKept, PTL DEF Spec, CountsEveryClose, Counter!Spec

=============================================================================
