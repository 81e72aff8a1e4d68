------------------------------- MODULE Queue -------------------------------
(***************************************************************************)
(* The circular buffer in shared memory through which requests and answers *)
(* travel (CircularBuffer, a Queue with a NamedSemaphore as its mutex).    *)
(* Every process maps the same memory and opens the same three semaphores. *)
(* Each access to shared memory and each semaphore operation is a step; a  *)
(* process may be killed between any two of them.                          *)
(***************************************************************************)
EXTENDS Integers, Sequences, FiniteSets

CONSTANTS
  Writers, Readers,   \* the processes that write and the ones that read
  Capacity,           \* _max_num_elems
  MaxWrites,          \* bound: elements each writer writes
  MayDie,             \* processes that may be killed
  Garbage             \* what a slot never written holds

ASSUME QueueAssumption ==
  /\ IsFiniteSet(Writers) /\ IsFiniteSet(Readers)
  /\ Writers \cap Readers = {}
  /\ Capacity \in Nat \ {0}
  /\ MaxWrites \in Nat
  /\ MayDie \subseteq Writers \cup Readers
  /\ Garbage \notin Writers \X (0 .. MaxWrites - 1)

Proc == Writers \cup Readers

\* The k-th element of writer w.
Element == Writers \X (0 .. MaxWrites - 1)

VARIABLES
  shm,         \* _shm, by slot
  first, last, \* *_first_elem and *_last_elem, in slots
  mutex, numElems, numEmpty,   \* the values of the three semaphores
  pc, count,   \* each process: its place in the code, the elements it has written
  got,         \* the last element each reader copied out
  sent, rcvd   \* history: the elements in the order written, and in the order read

vars == <<shm, first, last, mutex, numElems, numEmpty, pc, count, got, sent, rcvd>>

Goto(p, l) == pc' = [pc EXCEPT ![p] = l]

Step(p, from, to) == pc[p] = from /\ Goto(p, to)

Advance(slot) == (slot + 1) % Capacity

-----------------------------------------------------------------------------
(* _write.                                                                 *)

\* Mutant: a writer does not wait for an empty slot.
WriteWait_NoWait(p) ==
  /\ p \in Writers /\ count[p] < MaxWrites
  /\ Step(p, "ready", "w_lock")
  /\ UNCHANGED <<shm, first, last, mutex, numElems, numEmpty, count, got, sent, rcvd>>

WriteWait(p) ==
  /\ p \in Writers /\ count[p] < MaxWrites
  /\ numEmpty > 0
  /\ Step(p, "ready", "w_lock")
  /\ numEmpty' = numEmpty - 1
  /\ UNCHANGED <<shm, first, last, mutex, numElems, count, got, sent, rcvd>>

WriteLock(p) ==
  /\ Step(p, "w_lock", "w_copy")
  /\ mutex > 0
  /\ mutex' = mutex - 1
  /\ UNCHANGED <<shm, first, last, numElems, numEmpty, count, got, sent, rcvd>>

WriteCopy(p) ==
  /\ Step(p, "w_copy", "w_advance")
  /\ shm' = [shm EXCEPT ![last] = <<p, count[p]>>]
  /\ UNCHANGED <<first, last, mutex, numElems, numEmpty, count, got, sent, rcvd>>

WriteAdvance(p) ==
  /\ Step(p, "w_advance", "w_post")
  /\ last' = Advance(last)
  /\ sent' = Append(sent, <<p, count[p]>>)
  /\ count' = [count EXCEPT ![p] = @ + 1]
  /\ UNCHANGED <<shm, first, mutex, numElems, numEmpty, got, rcvd>>

\* The element is announced while the mutex is still held.
WritePost(p) ==
  /\ Step(p, "w_post", "w_unlock")
  /\ numElems' = numElems + 1
  /\ UNCHANGED <<shm, first, last, mutex, numEmpty, count, got, sent, rcvd>>

WriteUnlock(p) ==
  /\ Step(p, "w_unlock", "ready")
  /\ mutex' = mutex + 1
  /\ UNCHANGED <<shm, first, last, numElems, numEmpty, count, got, sent, rcvd>>

-----------------------------------------------------------------------------
(* _read.                                                                  *)

ReadWait(p) ==
  /\ p \in Readers
  /\ numElems > 0
  /\ Step(p, "ready", "r_lock")
  /\ numElems' = numElems - 1
  /\ UNCHANGED <<shm, first, last, mutex, numEmpty, count, got, sent, rcvd>>

\* Mutant: reading takes no lock.
ReadLock_NoLock(p) ==
  /\ Step(p, "r_lock", "r_copy")
  /\ UNCHANGED <<shm, first, last, mutex, numElems, numEmpty, count, got, sent, rcvd>>

ReadLock(p) ==
  /\ Step(p, "r_lock", "r_copy")
  /\ mutex > 0
  /\ mutex' = mutex - 1
  /\ UNCHANGED <<shm, first, last, numElems, numEmpty, count, got, sent, rcvd>>

ReadCopy(p) ==
  /\ Step(p, "r_copy", "r_advance")
  /\ got' = [got EXCEPT ![p] = <<shm[first]>>]
  /\ rcvd' = Append(rcvd, shm[first])
  /\ UNCHANGED <<shm, first, last, mutex, numElems, numEmpty, count, sent>>

ReadAdvance(p) ==
  /\ Step(p, "r_advance", "r_post")
  /\ first' = Advance(first)
  /\ UNCHANGED <<shm, last, mutex, numElems, numEmpty, count, got, sent, rcvd>>

\* Mutant: the slot is not given back.
ReadPost_Kept(p) ==
  /\ Step(p, "r_post", "r_unlock")
  /\ UNCHANGED <<shm, first, last, mutex, numElems, numEmpty, count, got, sent, rcvd>>

ReadPost(p) ==
  /\ Step(p, "r_post", "r_unlock")
  /\ numEmpty' = numEmpty + 1
  /\ UNCHANGED <<shm, first, last, mutex, numElems, count, got, sent, rcvd>>

ReadUnlock(p) ==
  /\ Step(p, "r_unlock", "ready")
  /\ mutex' = mutex + 1
  /\ UNCHANGED <<shm, first, last, numElems, numEmpty, count, got, sent, rcvd>>

\* A semaphore is not given back by the death of its holder.
Kill(p) ==
  /\ p \in MayDie /\ pc[p] # "dead"
  /\ Goto(p, "dead")
  /\ UNCHANGED <<shm, first, last, mutex, numElems, numEmpty, count, got, sent, rcvd>>

-----------------------------------------------------------------------------
\* The state the first constructor leaves; later ones find the memory there
\* and only attach to it.
Init ==
  /\ shm = [i \in 0 .. Capacity - 1 |-> Garbage]
  /\ first = 0 /\ last = 0
  /\ mutex = 1 /\ numElems = 0 /\ numEmpty = Capacity
  /\ pc = [p \in Proc |-> "ready"]
  /\ count = [p \in Writers |-> 0]
  /\ got = [p \in Readers |-> <<>>]
  /\ sent = <<>> /\ rcvd = <<>>

Write(p) == \/ WriteWait(p) \/ WriteLock(p) \/ WriteCopy(p)
            \/ WriteAdvance(p) \/ WritePost(p) \/ WriteUnlock(p)

Read(p) == \/ ReadWait(p) \/ ReadLock(p) \/ ReadCopy(p)
           \/ ReadAdvance(p) \/ ReadPost(p) \/ ReadUnlock(p)

Next == \/ \E p \in Writers : Write(p)
        \/ \E p \in Readers : Read(p)
        \/ \E p \in Proc : Kill(p)

Spec == Init /\ [][Next]_vars

\* Nobody stops in the middle of a call unless it is killed, and a reader asks
\* again: the server's loop, or the thread's next call.
FairSpec ==
  /\ Spec
  /\ \A p \in Writers : WF_vars(Write(p))
  /\ \A p \in Readers : WF_vars(Read(p))

-----------------------------------------------------------------------------
InWrite == {"w_copy", "w_advance", "w_post", "w_unlock"}
InRead  == {"r_copy", "r_advance", "r_post", "r_unlock"}
Labels  == {"ready", "w_lock", "r_lock", "dead"} \cup InWrite \cup InRead

\* Types; the three semaphores never go below zero.
TypeOK ==
  /\ shm \in [0 .. Capacity - 1 -> Element \cup {Garbage}]
  /\ first \in 0 .. Capacity - 1 /\ last \in 0 .. Capacity - 1
  /\ mutex \in Nat /\ numElems \in Nat /\ numEmpty \in Nat
  /\ pc \in [Proc -> Labels]
  /\ count \in [Writers -> 0 .. MaxWrites]
  /\ got \in [Readers -> Seq(Element \cup {Garbage})]
  /\ sent \in Seq(Element) /\ rcvd \in Seq(Element \cup {Garbage})

\* Between its lock and its unlock a process is alone with the buffer, even
\* after others died anywhere in _read or _write.
MutualExclusion ==
  /\ \A p, o \in Proc : pc[p] \in InWrite \cup InRead /\ pc[o] \in InWrite \cup InRead => p = o
  /\ \A p \in Proc : pc[p] \in InWrite \cup InRead => mutex = 0

\* The elements between the indices: written and not yet copied out.
Contents == SubSeq(sent, Len(rcvd) + 1, Len(sent))

Fifo == INSTANCE BoundedFifo WITH Values <- Element, q <- Contents

\* The semaphores and the two indices implement the bounded queue: elements
\* come out once, in the order they went in, none is overwritten before it is
\* read, and a killed process damages nothing that others have written.
RefinesFifo == Fifo!Spec

\* Unless a process dies, every element is written and read: no writer stays
\* blocked on a full queue and no reader before a queue that is not empty.
AllDelivered ==
  [](\A p \in Proc : pc[p] # "dead") => <>[](Len(rcvd) = Cardinality(Writers) * MaxWrites)

=============================================================================
