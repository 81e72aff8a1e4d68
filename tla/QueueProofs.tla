----------------------------- MODULE QueueProofs -----------------------------
(***************************************************************************)
(* The critical section of _read and _write is exclusive, and the buffer   *)
(* with its three semaphores is a bounded first-in first-out queue, for    *)
(* any number of processes and any capacity, whoever is killed and where.  *)
(***************************************************************************)
EXTENDS Queue, SequenceTheorems, FiniteSetTheorems, TLAPS

\* What the types rest on: a writer that has waited for an empty slot has an
\* element left to write until it has advanced last.
BudgetKept ==
  \A p \in Writers : pc[p] \in {"w_lock", "w_copy", "w_advance"} => count[p] < MaxWrites

\* MutualExclusion is inductive once the semaphore is known to be binary: two
\* processes could pass a mutex of value 2.
LockInv == TypeOK /\ BudgetKept /\ MutualExclusion /\ mutex <= 1

Inside == InWrite \cup InRead

At(L) == {p \in Proc : pc[p] \in L}

\* Where a process stands for an element that is in the buffer and not in
\* numElems, and where it stands for a slot that is taken and in neither.
Claims == {"r_lock", "r_copy", "w_post"}
Slots  == {"w_lock", "w_copy", "w_advance", "r_advance", "r_post"}

\* What one process at l adds to the number of those at L.
Weight(l, L) == IF l \in L THEN 1 ELSE 0

\* The semaphores never promise more than there is.  They may promise less: a
\* killed process takes its element or its slot with it.
Counted ==
  /\ Len(rcvd) + numElems + Cardinality(At(Claims)) <= Len(sent)
  /\ Len(sent) + numEmpty + Cardinality(At(Slots)) <= Capacity + Len(rcvd)

\* The indices count what went in and what came out.  Of first that holds while
\* the mutex is free or its holder alive: a reader killed between its copy and
\* its advance leaves first behind, and the mutex taken for good.
Indexed ==
  /\ last = Len(sent) % Capacity
  /\ mutex > 0 => first = Len(rcvd) % Capacity
  /\ \A p \in Proc : pc[p] \in Inside \ {"r_advance"} => first = Len(rcvd) % Capacity
  /\ \A p \in Proc : pc[p] = "r_advance" => Advance(first) = Len(rcvd) % Capacity

\* What was written and not yet read is where the readers will look.
Stored == \A i \in Len(rcvd) .. Len(sent) - 1 : shm[i % Capacity] = sent[i + 1]

\* A writer about to advance has put its element at last.
Copied == \A p \in Writers : pc[p] = "w_advance" => shm[last] = <<p, count[p]>>

\* The inductive invariant of the refinement.
RingInv == LockInv /\ Counted /\ Indexed /\ Stored /\ Copied

-----------------------------------------------------------------------------
\* Indices stay inside the buffer: % _buff_size.
LEMMA AdvanceInside ==
  ASSUME NEW slot \in 0 .. Capacity - 1
  PROVE  Advance(slot) \in 0 .. Capacity - 1
  BY QueueAssumption DEF Advance

\* The state the first constructor leaves satisfies the invariant.
LEMMA InitLockInv == Init => LockInv
  BY QueueAssumption
     DEF Init, LockInv, TypeOK, BudgetKept, MutualExclusion, Labels, InWrite, InRead, Proc, Element

\* Every step of a writer keeps it (_write).
LEMMA WriteLockInv ==
  ASSUME LockInv, NEW p \in Writers, Write(p)
  PROVE  LockInv'
<1> USE QueueAssumption DEF LockInv, TypeOK, BudgetKept, MutualExclusion, Labels, InWrite, InRead,
        Proc, Element, Step, Goto
<1>1. CASE WriteWait(p)
  BY <1>1 DEF WriteWait
<1>2. CASE WriteLock(p)
  BY <1>2 DEF WriteLock
<1>3. CASE WriteCopy(p)
  BY <1>3 DEF WriteCopy
<1>4. CASE WriteAdvance(p)
  <2>1. last' \in 0 .. Capacity - 1
    BY <1>4, AdvanceInside DEF WriteAdvance
  <2>2. count' \in [Writers -> 0 .. MaxWrites]
    BY <1>4 DEF WriteAdvance
  <2>3. sent' \in Seq(Element)
    <3>1. <<p, count[p]>> \in Element
      BY <1>4 DEF WriteAdvance
    <3> QED
      BY <1>4, <3>1 DEF WriteAdvance
  <2>4. BudgetKept'
    BY <1>4 DEF WriteAdvance
  <2>5. pc' \in [Proc -> Labels] /\ MutualExclusion'
    BY <1>4 DEF WriteAdvance
  <2> QED
    BY <1>4, <2>1, <2>2, <2>3, <2>4, <2>5 DEF WriteAdvance
<1>5. CASE WritePost(p)
  BY <1>5 DEF WritePost
<1>6. CASE WriteUnlock(p)
  BY <1>6 DEF WriteUnlock
<1> QED
  BY <1>1, <1>2, <1>3, <1>4, <1>5, <1>6 DEF Write

\* Every step of a reader keeps it (_read).
LEMMA ReadLockInv ==
  ASSUME LockInv, NEW p \in Readers, Read(p)
  PROVE  LockInv'
<1> USE QueueAssumption DEF LockInv, TypeOK, BudgetKept, MutualExclusion, Labels, InWrite, InRead,
        Proc, Element, Step, Goto
<1>1. CASE ReadWait(p)
  BY <1>1 DEF ReadWait
<1>2. CASE ReadLock(p)
  BY <1>2 DEF ReadLock
<1>3. CASE ReadCopy(p)
  BY <1>3 DEF ReadCopy
<1>4. CASE ReadAdvance(p)
  BY <1>4, AdvanceInside DEF ReadAdvance
<1>5. CASE ReadPost(p)
  BY <1>5 DEF ReadPost
<1>6. CASE ReadUnlock(p)
  BY <1>6 DEF ReadUnlock
<1> QED
  BY <1>1, <1>2, <1>3, <1>4, <1>5, <1>6 DEF Read

\* The death of a process keeps it: the mutex it held stays taken.
LEMMA KillLockInv ==
  ASSUME LockInv, NEW p \in Proc, Kill(p)
  PROVE  LockInv'
  BY DEF LockInv, TypeOK, BudgetKept, MutualExclusion, Labels, InWrite, InRead, Proc, Kill, Goto

\* The inductive invariant holds in every reachable state.
THEOREM LockInvariant == Spec => []LockInv
<1>1. Init => LockInv
  BY InitLockInv
<1>2. LockInv /\ [Next]_vars => LockInv'
  <2> SUFFICES ASSUME LockInv, [Next]_vars PROVE LockInv'
    OBVIOUS
  <2>1. CASE Next
    BY <2>1, WriteLockInv, ReadLockInv, KillLockInv DEF Next
  <2>2. CASE UNCHANGED vars
    BY <2>2 DEF vars, LockInv, TypeOK, BudgetKept, MutualExclusion
  <2> QED
    BY <2>1, <2>2
<1> QED
  BY <1>1, <1>2, PTL DEF Spec

\* Between its lock and its unlock a process is alone with the buffer of
\* queue.hpp, for any number of processes, any capacity and any deaths.
THEOREM QueueMutualExclusion == Spec => []MutualExclusion
  BY LockInvariant, PTL DEF LockInv

\* Semaphores never go negative and indices never leave the buffer.
THEOREM QueueTypes == Spec => []TypeOK
  BY LockInvariant, PTL DEF LockInv

-----------------------------------------------------------------------------
(* Arithmetic modulo the size of the buffer.                               *)

\* Division with remainder.
LEMMA DivMod ==
  ASSUME NEW x \in Nat
  PROVE  x = Capacity * (x \div Capacity) + (x % Capacity) /\ x \div Capacity \in Nat
         /\ x % Capacity \in 0 .. Capacity - 1
  BY QueueAssumption

\* Quotient and remainder are unique.
LEMMA DivModUnique ==
  ASSUME NEW k \in Int, NEW m \in Int,
         NEW r \in 0 .. Capacity - 1, NEW s \in 0 .. Capacity - 1,
         Capacity * k + r = Capacity * m + s
  PROVE  k = m /\ r = s
<1>1. Capacity * (k - m) = s - r /\ Capacity * (m - k) = r - s
  BY QueueAssumption
<1>2. CASE k > m
  <2>1. Capacity * (k - m) >= Capacity
    BY <1>2, QueueAssumption
  <2> QED
    BY <2>1, <1>1, QueueAssumption
<1>3. CASE k < m
  <2>1. Capacity * (m - k) >= Capacity
    BY <1>3, QueueAssumption
  <2> QED
    BY <2>1, <1>1, QueueAssumption
<1> QED
  BY <1>2, <1>3, QueueAssumption

\* An index that counts modulo the size goes on counting when it advances.
LEMMA AdvanceCounts ==
  ASSUME NEW x \in Nat
  PROVE  Advance(x % Capacity) = (x + 1) % Capacity
<1> DEFINE k == x \div Capacity
           r == x % Capacity
           m == (x + 1) \div Capacity
           s == (x + 1) % Capacity
<1>1. x = Capacity * k + r /\ k \in Nat /\ r \in 0 .. Capacity - 1
  BY DivMod
<1>2. x + 1 = Capacity * m + s /\ m \in Nat /\ s \in 0 .. Capacity - 1
  BY DivMod
<1> HIDE DEF k, r, m, s
<1> SUFFICES (r + 1) % Capacity = s
  BY DEF Advance, r, s
<1>3. CASE r + 1 < Capacity
  <2>1. s = r + 1
    BY <1>1, <1>2, <1>3, DivModUnique, QueueAssumption
  <2> QED
    BY <2>1, <1>1, <1>3, QueueAssumption
<1>4. CASE r + 1 = Capacity
  <2>1. Capacity * (k + 1) + 0 = Capacity * m + s
    BY <1>1, <1>2, <1>4, QueueAssumption
  <2>2. s = 0
    BY <1>1, <1>2, <2>1, DivModUnique, QueueAssumption
  <2>3. (r + 1) % Capacity = 0
    BY <1>4, QueueAssumption
  <2> QED
    BY <2>2, <2>3
<1> QED
  BY <1>1, <1>3, <1>4, QueueAssumption

\* Elements less than a whole buffer apart are in different slots.
LEMMA SlotsDiffer ==
  ASSUME NEW x \in Nat, NEW y \in Nat, x < y, y - x < Capacity
  PROVE  x % Capacity # y % Capacity
<1> DEFINE k == x \div Capacity
           r == x % Capacity
           m == y \div Capacity
           s == y % Capacity
<1>1. x = Capacity * k + r /\ k \in Nat /\ r \in 0 .. Capacity - 1
  BY DivMod
<1>2. y = Capacity * m + s /\ m \in Nat /\ s \in 0 .. Capacity - 1
  BY DivMod
<1> HIDE DEF k, r, m, s
<1> SUFFICES ASSUME r = s PROVE FALSE
  BY DEF r, s
<1>3. Capacity * (m - k) + 0 = Capacity * 0 + (y - x)
  BY <1>1, <1>2, QueueAssumption
<1>4. y - x \in 0 .. Capacity - 1
  BY QueueAssumption
<1> QED
  BY <1>3, <1>4, <1>1, <1>2, DivModUnique, QueueAssumption

-----------------------------------------------------------------------------
(* Counting the processes at some places of the code.                      *)

\* One process goes from one place to another.
LEMMA Moved ==
  ASSUME TypeOK, NEW p \in Proc, NEW l, Goto(p, l), NEW L
  PROVE  /\ Cardinality(At(L)) \in Nat
         /\ Cardinality(At(L)') \in Nat
         /\ Cardinality(At(L)') = Cardinality(At(L)) - Weight(pc[p], L) + Weight(l, L)
<1>1. IsFiniteSet(Proc)
  BY QueueAssumption, FS_Union DEF Proc
<1>2. IsFiniteSet(At(L)) /\ IsFiniteSet(At(L)')
  BY <1>1, FS_Subset DEF At
<1>3. Cardinality(At(L)) \in Nat /\ Cardinality(At(L)') \in Nat
  BY <1>2, FS_CardinalityType
<1>4. pc'[p] = l /\ \A o \in Proc \ {p} : pc'[o] = pc[o]
  BY DEF Goto, TypeOK
<1>5. ASSUME pc[p] \in L <=> l \in L PROVE At(L)' = At(L)
  BY <1>4, <1>5 DEF At
<1>6. ASSUME pc[p] \in L, l \notin L PROVE At(L)' = At(L) \ {p} /\ p \in At(L)
  BY <1>4, <1>6 DEF At
<1>7. ASSUME pc[p] \notin L, l \in L PROVE At(L)' = At(L) \cup {p} /\ p \notin At(L)
  BY <1>4, <1>7 DEF At
<1> HIDE DEF At
<1> QED
  BY <1>2, <1>3, <1>5, <1>6, <1>7, FS_RemoveElement, FS_AddElement DEF Weight

\* The semaphores stay honest when what a step adds to them, to the places of
\* its process and to rcvd is not more than what it adds to sent, and likewise
\* for the slots.
LEMMA CountedKept ==
  ASSUME TypeOK, TypeOK', Counted, NEW p \in Proc, NEW l, Goto(p, l),
         NEW e \in Int, NEW s \in Int, NEW w \in 0 .. 1, NEW r \in 0 .. 1,
         numElems' = numElems + e, numEmpty' = numEmpty + s,
         Len(sent') = Len(sent) + w, Len(rcvd') = Len(rcvd) + r,
         r + e + Weight(l, Claims) <= w + Weight(pc[p], Claims),
         w + s + Weight(l, Slots) <= r + Weight(pc[p], Slots)
  PROVE  Counted'
<1> DEFINE a == Cardinality(At(Claims))
           b == Cardinality(At(Slots))
<1>1. a \in Nat /\ a' \in Nat /\ a' = a - Weight(pc[p], Claims) + Weight(l, Claims)
  BY Moved
<1>2. b \in Nat /\ b' \in Nat /\ b' = b - Weight(pc[p], Slots) + Weight(l, Slots)
  BY Moved
<1>3. /\ Weight(pc[p], Claims) \in 0 .. 1 /\ Weight(l, Claims) \in 0 .. 1
      /\ Weight(pc[p], Slots) \in 0 .. 1 /\ Weight(l, Slots) \in 0 .. 1
  BY DEF Weight
<1>4. Len(sent) \in Nat /\ Len(rcvd) \in Nat /\ numElems \in Nat /\ numEmpty \in Nat
  BY DEF TypeOK
<1>5. /\ Len(rcvd) + numElems + a <= Len(sent)
      /\ Len(sent) + numEmpty + b <= Capacity + Len(rcvd)
  BY DEF Counted
<1> DEFINE a1 == a'
           b1 == b'
           c  == Weight(pc[p], Claims)
           c1 == Weight(l, Claims)
           d  == Weight(pc[p], Slots)
           d1 == Weight(l, Slots)
           n  == Len(sent)
           m  == Len(rcvd)
<1>6. r + e + c1 <= w + c /\ w + s + d1 <= r + d
  OBVIOUS
<1> HIDE DEF a, b, a1, b1, c, c1, d, d1, n, m
<1>7. (m + r) + (numElems + e) + a1 <= n + w
  <2>1. a \in Nat /\ c \in 0 .. 1 /\ c1 \in 0 .. 1 /\ n \in Nat /\ m \in Nat /\ numElems \in Nat
    BY <1>1, <1>3, <1>4 DEF a, c, c1, n, m
  <2>2. a1 = a - c + c1 /\ m + numElems + a <= n
    BY <1>1, <1>5 DEF a1, a, c, c1, n, m
  <2> QED
    BY <1>6, <2>1, <2>2
<1>8. (n + w) + (numEmpty + s) + b1 <= Capacity + (m + r)
  <2>1. b \in Nat /\ d \in 0 .. 1 /\ d1 \in 0 .. 1 /\ n \in Nat /\ m \in Nat /\ numEmpty \in Nat
    BY <1>2, <1>3, <1>4 DEF b, d, d1, n, m
  <2>2. b1 = b - d + d1 /\ n + numEmpty + b <= Capacity + m
    BY <1>2, <1>5 DEF b1, b, d, d1, n, m
  <2> QED
    BY <1>6, <2>1, <2>2, QueueAssumption
<1> QED
  BY <1>7, <1>8 DEF Counted, a, b, a1, b1, n, m

\* A process that stands for an element or for a slot is one of those counted.
LEMMA CountedAt ==
  ASSUME TypeOK, Counted, NEW p \in Proc
  PROVE  /\ Len(rcvd) + Weight(pc[p], Claims) <= Len(sent)
         /\ Len(sent) + Weight(pc[p], Slots) <= Capacity + Len(rcvd)
<1>1. ASSUME NEW L
      PROVE  Cardinality(At(L)) \in Nat /\ Weight(pc[p], L) <= Cardinality(At(L))
  <2>1. IsFiniteSet(At(L))
    <3>1. IsFiniteSet(Proc)
      BY QueueAssumption, FS_Union DEF Proc
    <3> QED
      BY <3>1, FS_Subset DEF At
  <2>2. Cardinality(At(L)) \in Nat /\ (Cardinality(At(L)) = 0 <=> At(L) = {})
    BY <2>1, FS_CardinalityType, FS_EmptySet
  <2>3. pc[p] \in L => At(L) # {}
    BY DEF At
  <2> QED
    BY <2>2, <2>3 DEF Weight
<1>2. /\ Cardinality(At(Claims)) \in Nat /\ Weight(pc[p], Claims) <= Cardinality(At(Claims))
      /\ Cardinality(At(Slots)) \in Nat /\ Weight(pc[p], Slots) <= Cardinality(At(Slots))
  BY <1>1
<1>3. Len(sent) \in Nat /\ Len(rcvd) \in Nat /\ numElems \in Nat /\ numEmpty \in Nat
  BY DEF TypeOK
<1>4. \A k, L : Weight(k, L) \in 0 .. 1
  BY DEF Weight
<1> QED
  BY <1>2, <1>3, <1>4, QueueAssumption DEF Counted

-----------------------------------------------------------------------------
(* Each step keeps RingInv.                                                *)

\* The empty buffer.
LEMMA InitRingInv == Init => RingInv
<1> SUFFICES ASSUME Init PROVE RingInv
  OBVIOUS
<1>1. LockInv
  BY InitLockInv
<1>2. Counted
  <2>1. At(Claims) = {} /\ At(Slots) = {}
    BY DEF Init, At, Claims, Slots
  <2> QED
    BY <2>1, FS_EmptySet, QueueAssumption DEF Init, Counted
<1>3. Indexed
  BY QueueAssumption DEF Init, Indexed, Inside, InWrite, InRead
<1>4. Stored /\ Copied
  <2>1. Len(rcvd) = 0 /\ Len(sent) = 0 /\ \A p \in Writers : pc[p] = "ready"
    BY DEF Init, Proc
  <2> QED
    BY <2>1 DEF Stored, Copied
<1> QED
  BY <1>1, <1>2, <1>3, <1>4 DEF RingInv

\* A step that touches neither the buffer nor an index: it moves a process and
\* changes semaphores.
LEMMA QuietStep ==
  ASSUME RingInv, NEW p \in Proc, NEW l, Goto(p, l), l \notin {"w_advance", "r_advance"},
         UNCHANGED <<shm, first, last, count, sent, rcvd>>,
         (mutex' > 0 => mutex > 0) \/ pc[p] \in Inside \ {"r_advance"},
         l \in Inside => mutex > 0 \/ pc[p] \in Inside \ {"r_advance"}
  PROVE  Indexed' /\ Stored' /\ Copied'
<1>1. pc'[p] = l /\ \A o \in Proc \ {p} : pc'[o] = pc[o]
  BY DEF RingInv, LockInv, TypeOK, Goto
<1>2. Stored'
  BY DEF RingInv, Stored
<1>3. Copied'
  BY <1>1 DEF RingInv, Copied, Proc
<1>4. Indexed'
  BY <1>1 DEF RingInv, Indexed, Advance
<1> QED
  BY <1>2, <1>3, <1>4

\* The steps of a writer.
LEMMA WriteRingInv ==
  ASSUME RingInv, NEW p \in Writers, Write(p)
  PROVE  RingInv'
<1>1. LockInv'
  BY WriteLockInv DEF RingInv
<1>2. p \in Proc /\ TypeOK
  BY DEF Proc, RingInv, LockInv
<1> SUFFICES Counted' /\ Indexed' /\ Stored' /\ Copied'
  BY <1>1 DEF RingInv
<1>3. Len(sent) \in Nat /\ Len(rcvd) \in Nat /\ numElems \in Nat /\ numEmpty \in Nat
  BY <1>2 DEF TypeOK
<1>4. CASE WriteWait(p)
  <2>1. Counted'
    <3>1. pc[p] = "ready" /\ Goto(p, "w_lock")
      BY <1>4 DEF WriteWait, Step
    <3>2. /\ numElems' = numElems + 0 /\ numEmpty' = numEmpty + (-1)
          /\ Len(sent') = Len(sent) + 0 /\ Len(rcvd') = Len(rcvd) + 0
      BY <1>3, <1>4 DEF WriteWait
    <3>3. 0 + (0) + Weight("w_lock", Claims) <= 0 + Weight("ready", Claims)
      BY DEF Weight, Claims
    <3>4. 0 + (-1) + Weight("w_lock", Slots) <= 0 + Weight("ready", Slots)
      BY DEF Weight, Slots
    <3> QED
      BY <1>1, <1>2, <3>1, <3>2, <3>3, <3>4, CountedKept DEF RingInv, LockInv
  <2> QED
    BY <1>2, <1>4, <2>1, QuietStep DEF WriteWait, Step, Inside, InWrite, InRead
<1>5. CASE WriteLock(p)
  <2>1. Counted'
    <3>1. pc[p] = "w_lock" /\ Goto(p, "w_copy")
      BY <1>5 DEF WriteLock, Step
    <3>2. /\ numElems' = numElems + 0 /\ numEmpty' = numEmpty + 0
          /\ Len(sent') = Len(sent) + 0 /\ Len(rcvd') = Len(rcvd) + 0
      BY <1>3, <1>5 DEF WriteLock
    <3>3. 0 + (0) + Weight("w_copy", Claims) <= 0 + Weight("w_lock", Claims)
      BY DEF Weight, Claims
    <3>4. 0 + (0) + Weight("w_copy", Slots) <= 0 + Weight("w_lock", Slots)
      BY DEF Weight, Slots
    <3> QED
      BY <1>1, <1>2, <3>1, <3>2, <3>3, <3>4, CountedKept DEF RingInv, LockInv
  <2> QED
    BY <1>2, <1>5, <2>1, QuietStep DEF WriteLock, Step, Inside, InWrite, InRead, TypeOK
<1>6. CASE WriteCopy(p)
  <2>1. Counted'
    <3>1. pc[p] = "w_copy" /\ Goto(p, "w_advance")
      BY <1>6 DEF WriteCopy, Step
    <3>2. /\ numElems' = numElems + 0 /\ numEmpty' = numEmpty + 0
          /\ Len(sent') = Len(sent) + 0 /\ Len(rcvd') = Len(rcvd) + 0
      BY <1>3, <1>6 DEF WriteCopy
    <3>3. 0 + (0) + Weight("w_advance", Claims) <= 0 + Weight("w_copy", Claims)
      BY DEF Weight, Claims
    <3>4. 0 + (0) + Weight("w_advance", Slots) <= 0 + Weight("w_copy", Slots)
      BY DEF Weight, Slots
    <3> QED
      BY <1>1, <1>2, <3>1, <3>2, <3>3, <3>4, CountedKept DEF RingInv, LockInv
  <2>2. pc'[p] = "w_advance" /\ pc[p] = "w_copy" /\ \A o \in Proc \ {p} : pc'[o] = pc[o]
    BY <1>2, <1>6 DEF WriteCopy, Step, Goto, TypeOK
  <2>3. Indexed'
    BY <1>2, <1>6, <2>2 DEF WriteCopy, RingInv, Indexed, Advance, Inside, InWrite, InRead
  <2>4. Len(sent) - Len(rcvd) < Capacity
    BY <1>2, <1>3, <1>6, <2>2, CountedAt, QueueAssumption DEF RingInv, Weight, Slots
  <2>5. Stored'
    <3> SUFFICES ASSUME NEW i \in Len(rcvd) .. Len(sent) - 1
                 PROVE  shm'[i % Capacity] = sent[i + 1]
      BY <1>6 DEF WriteCopy, Stored
    <3>1. i \in Nat /\ i < Len(sent) /\ Len(sent) - i < Capacity
      BY <1>3, <2>4, QueueAssumption
    <3>2. i % Capacity # last /\ i % Capacity \in 0 .. Capacity - 1
      BY <1>3, <3>1, SlotsDiffer, DivMod DEF RingInv, Indexed
    <3> QED
      BY <1>2, <1>6, <3>2 DEF WriteCopy, TypeOK, RingInv, Stored
  <2>6. Copied'
    <3>1. shm'[last] = <<p, count[p]>>
      BY <1>2, <1>6 DEF WriteCopy, TypeOK
    <3>2. \A o \in Writers \ {p} : pc'[o] # "w_advance"
      BY <1>2, <2>2 DEF RingInv, LockInv, MutualExclusion, InWrite, Proc
    <3> QED
      BY <1>6, <3>1, <3>2 DEF WriteCopy, Copied
  <2> QED
    BY <2>1, <2>3, <2>5, <2>6
<1>7. CASE WriteAdvance(p)
  <2>0. /\ Len(sent') = Len(sent) + 1 /\ sent'[Len(sent) + 1] = <<p, count[p]>>
        /\ \A i \in 1 .. Len(sent) : sent'[i] = sent[i]
    <3>1. <<p, count[p]>> \in Element
      BY <1>7, <1>2, QueueAssumption DEF WriteAdvance, Step, RingInv, LockInv, BudgetKept, TypeOK, Element
    <3> QED
      BY <1>2, <1>7, <3>1 DEF WriteAdvance, TypeOK
  <2>1. Counted'
    <3>1. pc[p] = "w_advance" /\ Goto(p, "w_post")
      BY <1>7 DEF WriteAdvance, Step
    <3>2. /\ numElems' = numElems + 0 /\ numEmpty' = numEmpty + 0
          /\ Len(sent') = Len(sent) + 1 /\ Len(rcvd') = Len(rcvd) + 0
      BY <1>3, <1>7, <2>0 DEF WriteAdvance
    <3>3. 0 + (0) + Weight("w_post", Claims) <= 1 + Weight("w_advance", Claims)
      BY DEF Weight, Claims
    <3>4. 1 + (0) + Weight("w_post", Slots) <= 0 + Weight("w_advance", Slots)
      BY DEF Weight, Slots
    <3> QED
      BY <1>1, <1>2, <3>1, <3>2, <3>3, <3>4, CountedKept DEF RingInv, LockInv
  <2>2. pc'[p] = "w_post" /\ pc[p] = "w_advance" /\ \A o \in Proc \ {p} : pc'[o] = pc[o]
    BY <1>2, <1>7 DEF WriteAdvance, Step, Goto, TypeOK
  <2>3. Indexed'
    <3>1. last' = Len(sent') % Capacity
      BY <1>3, <1>7, <2>0, AdvanceCounts DEF WriteAdvance, RingInv, Indexed
    <3> QED
      BY <1>2, <1>7, <2>2, <3>1 DEF WriteAdvance, RingInv, Indexed, Inside, InWrite, InRead, Advance
  <2>4. Stored'
    <3> SUFFICES ASSUME NEW i \in Len(rcvd) .. Len(sent)
                 PROVE  shm[i % Capacity] = sent'[i + 1]
      <4>1. Len(sent') - 1 = Len(sent) /\ rcvd' = rcvd /\ shm' = shm
        BY <1>3, <1>7, <2>0 DEF WriteAdvance
      <4> QED
        BY <4>1 DEF Stored
    <3>1. CASE i = Len(sent)
      BY <2>0, <2>2, <3>1 DEF RingInv, Copied, Indexed
    <3>2. CASE i # Len(sent)
      <4>1. i \in Len(rcvd) .. Len(sent) - 1 /\ i + 1 \in 1 .. Len(sent)
        BY <1>3, <3>2
      <4> QED
        BY <2>0, <4>1 DEF RingInv, Stored
    <3> QED
      BY <3>1, <3>2
  <2>5. Copied'
    BY <1>2, <2>2 DEF RingInv, LockInv, MutualExclusion, InWrite, Proc, Copied
  <2> QED
    BY <2>1, <2>3, <2>4, <2>5
<1>8. CASE WritePost(p)
  <2>1. Counted'
    <3>1. pc[p] = "w_post" /\ Goto(p, "w_unlock")
      BY <1>8 DEF WritePost, Step
    <3>2. /\ numElems' = numElems + 1 /\ numEmpty' = numEmpty + 0
          /\ Len(sent') = Len(sent) + 0 /\ Len(rcvd') = Len(rcvd) + 0
      BY <1>3, <1>8 DEF WritePost
    <3>3. 0 + (1) + Weight("w_unlock", Claims) <= 0 + Weight("w_post", Claims)
      BY DEF Weight, Claims
    <3>4. 0 + (0) + Weight("w_unlock", Slots) <= 0 + Weight("w_post", Slots)
      BY DEF Weight, Slots
    <3> QED
      BY <1>1, <1>2, <3>1, <3>2, <3>3, <3>4, CountedKept DEF RingInv, LockInv
  <2> QED
    BY <1>2, <1>8, <2>1, QuietStep DEF WritePost, Step, Inside, InWrite, InRead
<1>9. CASE WriteUnlock(p)
  <2>1. Counted'
    <3>1. pc[p] = "w_unlock" /\ Goto(p, "ready")
      BY <1>9 DEF WriteUnlock, Step
    <3>2. /\ numElems' = numElems + 0 /\ numEmpty' = numEmpty + 0
          /\ Len(sent') = Len(sent) + 0 /\ Len(rcvd') = Len(rcvd) + 0
      BY <1>3, <1>9 DEF WriteUnlock
    <3>3. 0 + (0) + Weight("ready", Claims) <= 0 + Weight("w_unlock", Claims)
      BY DEF Weight, Claims
    <3>4. 0 + (0) + Weight("ready", Slots) <= 0 + Weight("w_unlock", Slots)
      BY DEF Weight, Slots
    <3> QED
      BY <1>1, <1>2, <3>1, <3>2, <3>3, <3>4, CountedKept DEF RingInv, LockInv
  <2> QED
    BY <1>2, <1>9, <2>1, QuietStep DEF WriteUnlock, Step, Inside, InWrite, InRead
<1> QED
  BY <1>4, <1>5, <1>6, <1>7, <1>8, <1>9 DEF Write

\* A reader at its copy finds the oldest element that nobody has read.
LEMMA FrontStored ==
  ASSUME RingInv, NEW p \in Proc, pc[p] = "r_copy"
  PROVE  Len(rcvd) < Len(sent) /\ shm[first] = sent[Len(rcvd) + 1]
<1>1. Len(sent) \in Nat /\ Len(rcvd) \in Nat /\ numElems \in Nat /\ TypeOK
  BY DEF RingInv, LockInv, TypeOK
<1>2. Len(rcvd) < Len(sent)
  BY <1>1, CountedAt DEF RingInv, Claims, Weight
<1>3. first = Len(rcvd) % Capacity
  BY DEF RingInv, Indexed, Inside, InRead
<1> QED
  BY <1>1, <1>2, <1>3 DEF RingInv, Stored

\* The steps of a reader.
LEMMA ReadRingInv ==
  ASSUME RingInv, NEW p \in Readers, Read(p)
  PROVE  RingInv'
<1>1. LockInv'
  BY ReadLockInv DEF RingInv
<1>2. p \in Proc /\ TypeOK
  BY DEF Proc, RingInv, LockInv
<1> SUFFICES Counted' /\ Indexed' /\ Stored' /\ Copied'
  BY <1>1 DEF RingInv
<1>3. Len(sent) \in Nat /\ Len(rcvd) \in Nat /\ numElems \in Nat /\ numEmpty \in Nat
  BY <1>2 DEF TypeOK
<1>4. CASE ReadWait(p)
  <2>1. Counted'
    <3>1. pc[p] = "ready" /\ Goto(p, "r_lock")
      BY <1>4 DEF ReadWait, Step
    <3>2. /\ numElems' = numElems + (-1) /\ numEmpty' = numEmpty + 0
          /\ Len(sent') = Len(sent) + 0 /\ Len(rcvd') = Len(rcvd) + 0
      BY <1>3, <1>4 DEF ReadWait
    <3>3. 0 + (-1) + Weight("r_lock", Claims) <= 0 + Weight("ready", Claims)
      BY DEF Weight, Claims
    <3>4. 0 + (0) + Weight("r_lock", Slots) <= 0 + Weight("ready", Slots)
      BY DEF Weight, Slots
    <3> QED
      BY <1>1, <1>2, <3>1, <3>2, <3>3, <3>4, CountedKept DEF RingInv, LockInv
  <2> QED
    BY <1>2, <1>4, <2>1, QuietStep DEF ReadWait, Step, Inside, InWrite, InRead
<1>5. CASE ReadLock(p)
  <2>1. Counted'
    <3>1. pc[p] = "r_lock" /\ Goto(p, "r_copy")
      BY <1>5 DEF ReadLock, Step
    <3>2. /\ numElems' = numElems + 0 /\ numEmpty' = numEmpty + 0
          /\ Len(sent') = Len(sent) + 0 /\ Len(rcvd') = Len(rcvd) + 0
      BY <1>3, <1>5 DEF ReadLock
    <3>3. 0 + (0) + Weight("r_copy", Claims) <= 0 + Weight("r_lock", Claims)
      BY DEF Weight, Claims
    <3>4. 0 + (0) + Weight("r_copy", Slots) <= 0 + Weight("r_lock", Slots)
      BY DEF Weight, Slots
    <3> QED
      BY <1>1, <1>2, <3>1, <3>2, <3>3, <3>4, CountedKept DEF RingInv, LockInv
  <2> QED
    BY <1>2, <1>5, <2>1, QuietStep DEF ReadLock, Step, Inside, InWrite, InRead, TypeOK
<1>6. CASE ReadCopy(p)
  <2>0. Len(rcvd') = Len(rcvd) + 1
    BY <1>2, <1>6 DEF ReadCopy, TypeOK
  <2>1. Counted'
    <3>1. pc[p] = "r_copy" /\ Goto(p, "r_advance")
      BY <1>6 DEF ReadCopy, Step
    <3>2. /\ numElems' = numElems + 0 /\ numEmpty' = numEmpty + 0
          /\ Len(sent') = Len(sent) + 0 /\ Len(rcvd') = Len(rcvd) + 1
      BY <1>3, <1>6, <2>0 DEF ReadCopy
    <3>3. 1 + (0) + Weight("r_advance", Claims) <= 0 + Weight("r_copy", Claims)
      BY DEF Weight, Claims
    <3>4. 0 + (0) + Weight("r_advance", Slots) <= 1 + Weight("r_copy", Slots)
      BY DEF Weight, Slots
    <3> QED
      BY <1>1, <1>2, <3>1, <3>2, <3>3, <3>4, CountedKept DEF RingInv, LockInv
  <2>2. pc'[p] = "r_advance" /\ pc[p] = "r_copy" /\ \A o \in Proc \ {p} : pc'[o] = pc[o]
    BY <1>2, <1>6 DEF ReadCopy, Step, Goto, TypeOK
  <2>3. Indexed'
    <3>1. Advance(first) = Len(rcvd') % Capacity
      BY <1>2, <1>3, <2>0, <2>2, AdvanceCounts DEF RingInv, Indexed, Inside, InRead
    <3>2. mutex = 0 /\ \A o \in Proc \ {p} : pc'[o] \notin Inside
      BY <1>2, <2>2 DEF RingInv, LockInv, MutualExclusion, Inside, InRead
    <3> QED
      BY <1>6, <2>2, <3>1, <3>2 DEF ReadCopy, RingInv, Indexed, Inside, InRead, Advance
  <2>4. Stored'
    BY <1>3, <1>6, <2>0 DEF ReadCopy, RingInv, Stored
  <2>5. Copied'
    BY <1>6, <2>2 DEF ReadCopy, RingInv, Copied, Proc
  <2> QED
    BY <2>1, <2>3, <2>4, <2>5
<1>7. CASE ReadAdvance(p)
  <2>1. Counted'
    <3>1. pc[p] = "r_advance" /\ Goto(p, "r_post")
      BY <1>7 DEF ReadAdvance, Step
    <3>2. /\ numElems' = numElems + 0 /\ numEmpty' = numEmpty + 0
          /\ Len(sent') = Len(sent) + 0 /\ Len(rcvd') = Len(rcvd) + 0
      BY <1>3, <1>7 DEF ReadAdvance
    <3>3. 0 + (0) + Weight("r_post", Claims) <= 0 + Weight("r_advance", Claims)
      BY DEF Weight, Claims
    <3>4. 0 + (0) + Weight("r_post", Slots) <= 0 + Weight("r_advance", Slots)
      BY DEF Weight, Slots
    <3> QED
      BY <1>1, <1>2, <3>1, <3>2, <3>3, <3>4, CountedKept DEF RingInv, LockInv
  <2>2. pc'[p] = "r_post" /\ pc[p] = "r_advance" /\ \A o \in Proc \ {p} : pc'[o] = pc[o]
    BY <1>2, <1>7 DEF ReadAdvance, Step, Goto, TypeOK
  <2>3. Indexed'
    <3>1. mutex = 0 /\ \A o \in Proc \ {p} : pc'[o] \notin Inside
      BY <1>2, <2>2 DEF RingInv, LockInv, MutualExclusion, Inside, InRead
    <3> QED
      BY <1>2, <1>7, <2>2, <3>1 DEF ReadAdvance, RingInv, Indexed, Inside, InRead
  <2>4. Stored'
    BY <1>7 DEF ReadAdvance, RingInv, Stored
  <2>5. Copied'
    BY <1>7, <2>2 DEF ReadAdvance, RingInv, Copied, Proc
  <2> QED
    BY <2>1, <2>3, <2>4, <2>5
<1>8. CASE ReadPost(p)
  <2>1. Counted'
    <3>1. pc[p] = "r_post" /\ Goto(p, "r_unlock")
      BY <1>8 DEF ReadPost, Step
    <3>2. /\ numElems' = numElems + 0 /\ numEmpty' = numEmpty + 1
          /\ Len(sent') = Len(sent) + 0 /\ Len(rcvd') = Len(rcvd) + 0
      BY <1>3, <1>8 DEF ReadPost
    <3>3. 0 + (0) + Weight("r_unlock", Claims) <= 0 + Weight("r_post", Claims)
      BY DEF Weight, Claims
    <3>4. 0 + (1) + Weight("r_unlock", Slots) <= 0 + Weight("r_post", Slots)
      BY DEF Weight, Slots
    <3> QED
      BY <1>1, <1>2, <3>1, <3>2, <3>3, <3>4, CountedKept DEF RingInv, LockInv
  <2> QED
    BY <1>2, <1>8, <2>1, QuietStep DEF ReadPost, Step, Inside, InWrite, InRead
<1>9. CASE ReadUnlock(p)
  <2>1. Counted'
    <3>1. pc[p] = "r_unlock" /\ Goto(p, "ready")
      BY <1>9 DEF ReadUnlock, Step
    <3>2. /\ numElems' = numElems + 0 /\ numEmpty' = numEmpty + 0
          /\ Len(sent') = Len(sent) + 0 /\ Len(rcvd') = Len(rcvd) + 0
      BY <1>3, <1>9 DEF ReadUnlock
    <3>3. 0 + (0) + Weight("ready", Claims) <= 0 + Weight("r_unlock", Claims)
      BY DEF Weight, Claims
    <3>4. 0 + (0) + Weight("ready", Slots) <= 0 + Weight("r_unlock", Slots)
      BY DEF Weight, Slots
    <3> QED
      BY <1>1, <1>2, <3>1, <3>2, <3>3, <3>4, CountedKept DEF RingInv, LockInv
  <2> QED
    BY <1>2, <1>9, <2>1, QuietStep DEF ReadUnlock, Step, Inside, InWrite, InRead
<1> QED
  BY <1>4, <1>5, <1>6, <1>7, <1>8, <1>9 DEF Read

\* The death of a process: what it held is never promised to anybody else.
LEMMA KillRingInv ==
  ASSUME RingInv, NEW p \in Proc, Kill(p)
  PROVE  RingInv'
<1>1. LockInv' /\ TypeOK
  BY KillLockInv DEF RingInv, LockInv
<1>2. Len(sent) \in Nat /\ Len(rcvd) \in Nat /\ numElems \in Nat /\ numEmpty \in Nat
  BY <1>1 DEF TypeOK
<1>3. Counted'
  <2>1. Weight("dead", Claims) = 0 /\ Weight("dead", Slots) = 0
    BY DEF Weight, Claims, Slots
  <2>2. /\ 0 + 0 + Weight("dead", Claims) <= 0 + Weight(pc[p], Claims)
        /\ 0 + 0 + Weight("dead", Slots) <= 0 + Weight(pc[p], Slots)
    BY <2>1 DEF Weight
  <2>3. /\ numElems' = numElems + 0 /\ numEmpty' = numEmpty + 0
        /\ Len(sent') = Len(sent) + 0 /\ Len(rcvd') = Len(rcvd) + 0
    BY <1>2 DEF Kill
  <2>4. Goto(p, "dead") /\ Counted /\ TypeOK'
    BY <1>1 DEF Kill, RingInv, LockInv
  <2> QED
    BY <1>1, <2>2, <2>3, <2>4, CountedKept
<1>4. Indexed' /\ Stored' /\ Copied'
  BY <1>1, QuietStep DEF Kill, Inside, InWrite, InRead
<1> QED
  BY <1>1, <1>3, <1>4 DEF RingInv

\* The invariant of the buffer holds in every reachable state.
THEOREM RingInvariant == Spec => []RingInv
<1>1. Init => RingInv
  BY InitRingInv
<1>2. RingInv /\ [Next]_vars => RingInv'
  <2> SUFFICES ASSUME RingInv, [Next]_vars PROVE RingInv'
    OBVIOUS
  <2>1. CASE Next
    BY <2>1, WriteRingInv, ReadRingInv, KillRingInv DEF Next
  <2>2. CASE UNCHANGED vars
    BY <2>2 DEF vars, RingInv, LockInv, TypeOK, BudgetKept, MutualExclusion, Counted, At, Indexed,
                Advance, Stored, Copied
  <2> QED
    BY <2>1, <2>2
<1> QED
  BY <1>1, <1>2, PTL DEF Spec

-----------------------------------------------------------------------------
(* The refinement.                                                         *)

\* The elements between the indices, one by one.
LEMMA ContentsElements ==
  ASSUME NEW s \in Seq(Element), NEW n \in Nat, n <= Len(s)
  PROVE  /\ SubSeq(s, n + 1, Len(s)) \in Seq(Element)
         /\ Len(SubSeq(s, n + 1, Len(s))) = Len(s) - n
         /\ \A i \in 1 .. Len(s) - n : SubSeq(s, n + 1, Len(s))[i] = s[n + i]
  BY SMT

\* The step that moves last puts an element at the end of the queue, which has
\* room for it.
LEMMA AdvancePuts ==
  ASSUME RingInv, NEW p \in Writers, WriteAdvance(p)
  PROVE  Fifo!Next
<1>1. p \in Proc /\ TypeOK
  BY DEF Proc, RingInv, LockInv
<1>2. Len(sent) \in Nat /\ Len(rcvd) \in Nat /\ numElems \in Nat /\ numEmpty \in Nat
  BY <1>1 DEF TypeOK
<1>3. <<p, count[p]>> \in Element
  BY <1>1, QueueAssumption DEF WriteAdvance, Step, RingInv, LockInv, BudgetKept, TypeOK, Element
<1>4. Len(sent) - Len(rcvd) < Capacity /\ Len(rcvd) <= Len(sent)
  BY <1>1, <1>2, CountedAt, QueueAssumption
     DEF WriteAdvance, Step, RingInv, Slots, Claims, Weight
<1>5. /\ sent \in Seq(Element) /\ sent' \in Seq(Element) /\ Len(sent') = Len(sent) + 1
      /\ sent'[Len(sent) + 1] = <<p, count[p]>>
      /\ \A i \in 1 .. Len(sent) : sent'[i] = sent[i]
  BY <1>1, <1>3 DEF WriteAdvance, TypeOK
<1> DEFINE q == Contents
           q1 == SubSeq(sent', Len(rcvd) + 1, Len(sent'))
<1>6. /\ q \in Seq(Element) /\ Len(q) = Len(sent) - Len(rcvd)
      /\ \A i \in 1 .. Len(sent) - Len(rcvd) : q[i] = sent[Len(rcvd) + i]
  BY <1>2, <1>4, <1>5, ContentsElements DEF Contents
<1>7. /\ q1 \in Seq(Element) /\ Len(q1) = Len(sent) + 1 - Len(rcvd)
      /\ \A i \in 1 .. Len(sent) + 1 - Len(rcvd) : q1[i] = sent'[Len(rcvd) + i]
  BY <1>2, <1>4, <1>5, ContentsElements
<1>8. Contents' = q1
  BY DEF WriteAdvance, Contents
<1> HIDE DEF q, q1
<1>9. q1 = Append(q, <<p, count[p]>>)
  <2>1. /\ Append(q, <<p, count[p]>>) \in Seq(Element)
        /\ Len(Append(q, <<p, count[p]>>)) = Len(sent) + 1 - Len(rcvd)
        /\ \A i \in 1 .. Len(sent) - Len(rcvd) : Append(q, <<p, count[p]>>)[i] = q[i]
        /\ Append(q, <<p, count[p]>>)[Len(sent) + 1 - Len(rcvd)] = <<p, count[p]>>
    BY <1>2, <1>3, <1>4, <1>6
  <2>2. ASSUME NEW i \in 1 .. Len(sent) + 1 - Len(rcvd)
        PROVE  q1[i] = Append(q, <<p, count[p]>>)[i]
    <3>1. CASE i = Len(sent) + 1 - Len(rcvd)
      <4>1. Len(rcvd) + i = Len(sent) + 1
        BY <1>2, <1>4, <3>1
      <4>2. q1[i] = <<p, count[p]>>
        BY <1>5, <1>7, <4>1
      <4> QED
        BY <2>1, <3>1, <4>2
    <3>2. CASE i # Len(sent) + 1 - Len(rcvd)
      <4>1. i \in 1 .. Len(sent) - Len(rcvd) /\ Len(rcvd) + i \in 1 .. Len(sent)
        BY <1>2, <1>4, <3>2
      <4> QED
        BY <1>5, <1>6, <1>7, <2>1, <4>1
    <3> QED
      BY <3>1, <3>2
  <2> QED
    BY <1>7, <2>1, <2>2, SeqEqual
<1>10. Fifo!Put(<<p, count[p]>>)
  BY <1>4, <1>6, <1>8, <1>9 DEF Fifo!Put, WriteAdvance, q
<1> QED
  BY <1>3, <1>10 DEF Fifo!Next

\* The step that copies out takes the head of the queue, which is not empty.
LEMMA CopyGets ==
  ASSUME RingInv, NEW p \in Readers, ReadCopy(p)
  PROVE  Fifo!Next
<1>1. p \in Proc /\ TypeOK
  BY DEF Proc, RingInv, LockInv
<1>2. sent \in Seq(Element) /\ Len(sent) \in Nat /\ Len(rcvd) \in Nat /\ Len(rcvd') = Len(rcvd) + 1
  BY <1>1 DEF ReadCopy, TypeOK
<1>3. Len(rcvd) < Len(sent) /\ shm[first] = sent[Len(rcvd) + 1]
  BY <1>1, FrontStored DEF ReadCopy, Step
<1> DEFINE q == Contents
           q1 == SubSeq(sent, Len(rcvd) + 1 + 1, Len(sent))
<1>4. /\ q \in Seq(Element) /\ Len(q) = Len(sent) - Len(rcvd)
      /\ \A i \in 1 .. Len(sent) - Len(rcvd) : q[i] = sent[Len(rcvd) + i]
  BY <1>2, <1>3, ContentsElements DEF Contents
<1>5. /\ q1 \in Seq(Element) /\ Len(q1) = Len(sent) - (Len(rcvd) + 1)
      /\ \A i \in 1 .. Len(sent) - (Len(rcvd) + 1) : q1[i] = sent[(Len(rcvd) + 1) + i]
  BY <1>2, <1>3, ContentsElements
<1>6. Contents' = q1
  BY <1>2 DEF ReadCopy, Contents
<1> HIDE DEF q, q1
<1>7. q # <<>> /\ Head(q) = shm[first]
  BY <1>2, <1>3, <1>4
<1>8. q1 = Tail(q)
  <2>1. /\ Tail(q) \in Seq(Element) /\ Len(Tail(q)) = Len(sent) - (Len(rcvd) + 1)
        /\ \A i \in 1 .. Len(sent) - (Len(rcvd) + 1) : Tail(q)[i] = q[i + 1]
    BY <1>2, <1>3, <1>4
  <2>2. ASSUME NEW i \in 1 .. Len(sent) - (Len(rcvd) + 1)
        PROVE  q1[i] = Tail(q)[i]
    <3>1. i + 1 \in 1 .. Len(sent) - Len(rcvd) /\ Len(rcvd) + (i + 1) = (Len(rcvd) + 1) + i
      BY <1>2, <1>3
    <3> QED
      BY <1>4, <1>5, <2>1, <3>1
  <2> QED
    BY <1>5, <2>1, <2>2, SeqEqual
<1>9. Fifo!Get(p)
  BY <1>6, <1>7, <1>8 DEF Fifo!Get, ReadCopy, q
<1> QED
  BY <1>9 DEF Fifo!Next

\* The circular buffer of queue.hpp implements the bounded queue: what comes out
\* went in, once and in order, nothing unread is overwritten, and a process
\* killed at any step damages nothing.
THEOREM QueueRefinesFifo == Spec => RefinesFifo
<1>1. Init => Fifo!Init
  BY DEF Init, Fifo!Init, Contents
<1>2. RingInv /\ [Next]_vars => [Fifo!Next]_<<Contents, got>>
  <2> SUFFICES ASSUME RingInv, [Next]_vars, ~ UNCHANGED <<Contents, got>>
               PROVE  Fifo!Next
    OBVIOUS
  <2>1. CASE UNCHANGED vars
    BY <2>1 DEF vars, Contents
  <2>2. ASSUME NEW p \in Writers, Write(p) PROVE Fifo!Next
    <3>1. CASE WriteAdvance(p)
      BY <3>1, AdvancePuts
    <3>2. CASE ~WriteAdvance(p)
      BY <2>2, <3>2 DEF Write, WriteWait, WriteLock, WriteCopy, WritePost, WriteUnlock, Contents
    <3> QED
      BY <3>1, <3>2
  <2>3. ASSUME NEW p \in Readers, Read(p) PROVE Fifo!Next
    <3>1. CASE ReadCopy(p)
      BY <3>1, CopyGets
    <3>2. CASE ~ReadCopy(p)
      BY <2>3, <3>2 DEF Read, ReadWait, ReadLock, ReadAdvance, ReadPost, ReadUnlock, Contents
    <3> QED
      BY <3>1, <3>2
  <2>4. ASSUME NEW p \in Proc, Kill(p) PROVE Fifo!Next
    BY <2>4 DEF Kill, Contents
  <2> QED
    BY <2>1, <2>2, <2>3, <2>4 DEF Next
<1> QED
  BY <1>1, <1>2, RingInvariant, PTL DEF Spec, RefinesFifo, Fifo!Spec

=============================================================================
