----------------------------- MODULE QueueSetup -----------------------------
(***************************************************************************)
(* The constructor of Queue, run by every process that wants the queue of  *)
(* one name: whoever finds no buffer makes it, everybody else attaches to  *)
(* it.  Each operation on a name in shared memory is a step.  Reading and  *)
(* writing, whose own steps module Queue has, are atomic here.             *)
(***************************************************************************)
EXTENDS Naturals, Sequences, SequencesExt

CONSTANTS
  Proc,        \* processes that construct the queue
  Reader,      \* the one that reads it, the server; the others write
  Capacity,    \* _max_num_elems
  MaxWrites,   \* bound: messages each writer writes
  ServerFirst, \* whether the others start after the server has constructed it
  None

ASSUME SetupAssumption ==
  /\ Reader \in Proc /\ None \notin Proc /\ None \notin Nat
  /\ Capacity \in Nat \ {0} /\ MaxWrites \in Nat /\ ServerFirst \in BOOLEAN

VARIABLES
  semElems, semEmpty,  \* values of the two counting semaphores, None: no such name
  first, last,         \* the two index objects, None: no such name
  size,                \* slots of the buffer object, None: no such name
  buf,                 \* its slots
  pc, writes,          \* where each process is, messages it has written
  sent, rcvd           \* history: the messages in the order written and read

vars == <<semElems, semEmpty, first, last, size, buf, pc, writes, sent, rcvd>>

Goto(p, l) == pc' = [pc EXCEPT ![p] = l]

-----------------------------------------------------------------------------

\* sem_open(O_CREAT) gives the initial value only to a semaphore it makes.
NamedSemaphore(p) ==
  /\ pc[p] = "start"
  /\ ServerFirst /\ p # Reader => pc[Reader] = "ready"
  /\ semElems' = IF semElems = None THEN 0 ELSE semElems
  /\ semEmpty' = IF semEmpty = None THEN Capacity ELSE semEmpty
  /\ Goto(p, "first")
  /\ UNCHANGED <<first, last, size, buf, writes, sent, rcvd>>

\* shm_open(O_CREAT) and ftruncate to the size the object already has change
\* nothing; a new object is filled with zeros.
create_shm_first(p) ==
  /\ pc[p] = "first"
  /\ first' = IF first = None THEN 0 ELSE first
  /\ Goto(p, "last")
  /\ UNCHANGED <<semElems, semEmpty, last, size, buf, writes, sent, rcvd>>

create_shm_last(p) ==
  /\ pc[p] = "last"
  /\ last' = IF last = None THEN 0 ELSE last
  /\ Goto(p, "look")
  /\ UNCHANGED <<semElems, semEmpty, first, size, buf, writes, sent, rcvd>>

\* Mutant: whoever constructs the queue resets it.
get_shm_if_exist_Open_Never(p) ==
  /\ pc[p] = "look"
  /\ Goto(p, "reset_first")
  /\ UNCHANGED <<semElems, semEmpty, first, last, size, buf, writes, sent, rcvd>>

\* shm_open without O_CREAT: ENOENT gives nullptr.
get_shm_if_exist_Open(p) ==
  /\ pc[p] = "look"
  /\ Goto(p, IF size = None THEN "reset_first" ELSE "stat")
  /\ UNCHANGED <<semElems, semEmpty, first, last, size, buf, writes, sent, rcvd>>

\* fstat and mmap: a mapping of no bytes is refused, and ERR_EXIT follows.
get_shm_if_exist_Map(p) ==
  /\ pc[p] = "stat"
  /\ Goto(p, IF size = 0 THEN "failed" ELSE "ready")
  /\ UNCHANGED <<semElems, semEmpty, first, last, size, buf, writes, sent, rcvd>>

Queue_ResetFirst(p) ==
  /\ pc[p] = "reset_first"
  /\ first' = 0
  /\ Goto(p, "reset_last")
  /\ UNCHANGED <<semElems, semEmpty, last, size, buf, writes, sent, rcvd>>

Queue_ResetLast(p) ==
  /\ pc[p] = "reset_last"
  /\ last' = 0
  /\ Goto(p, "create")
  /\ UNCHANGED <<semElems, semEmpty, first, size, buf, writes, sent, rcvd>>

\* create_shm of the buffer: shm_open(O_CREAT) ...
create_shm_Open(p) ==
  /\ pc[p] = "create"
  /\ size' = IF size = None THEN 0 ELSE size
  /\ Goto(p, "truncate")
  /\ UNCHANGED <<semElems, semEmpty, first, last, buf, writes, sent, rcvd>>

\* ... then ftruncate, and mmap of the size asked for.
create_shm_Truncate(p) ==
  /\ pc[p] = "truncate"
  /\ size' = Capacity
  /\ Goto(p, "ready")
  /\ UNCHANGED <<semElems, semEmpty, first, last, buf, writes, sent, rcvd>>

-----------------------------------------------------------------------------

write(p) ==
  /\ pc[p] = "ready" /\ p # Reader /\ writes[p] < MaxWrites /\ semEmpty > 0
  /\ buf' = [buf EXCEPT ![last] = <<p, writes[p]>>]
  /\ last' = (last + 1) % Capacity
  /\ semEmpty' = semEmpty - 1 /\ semElems' = semElems + 1
  /\ writes' = [writes EXCEPT ![p] = @ + 1]
  /\ sent' = Append(sent, <<p, writes[p]>>)
  /\ UNCHANGED <<first, size, pc, rcvd>>

read ==
  /\ pc[Reader] = "ready" /\ semElems > 0
  /\ rcvd' = Append(rcvd, buf[first])
  /\ first' = (first + 1) % Capacity
  /\ semElems' = semElems - 1 /\ semEmpty' = semEmpty + 1
  /\ UNCHANGED <<last, size, buf, pc, writes, sent>>

Construct(p) ==
  \/ NamedSemaphore(p)
  \/ create_shm_first(p) \/ create_shm_last(p)
  \/ get_shm_if_exist_Open(p) \/ get_shm_if_exist_Map(p)
  \/ Queue_ResetFirst(p) \/ Queue_ResetLast(p)
  \/ create_shm_Open(p) \/ create_shm_Truncate(p)

Init ==
  /\ semElems = None /\ semEmpty = None /\ first = None /\ last = None /\ size = None
  /\ buf = [i \in 0..(Capacity - 1) |-> None]
  /\ pc = [p \in Proc |-> "start"] /\ writes = [p \in Proc |-> 0]
  /\ sent = <<>> /\ rcvd = <<>>

Next == (\E p \in Proc : Construct(p) \/ write(p)) \/ read

Spec == Init /\ [][Next]_vars

-----------------------------------------------------------------------------
(* Properties.                                                             *)

\* Processes that attach to the queue while others use it disturb nobody: the
\* server reads the messages in the order they were written, none twice, none
\* lost, however construction and use interleave.
NothingLost == IsPrefix(rcvd, sent) /\ (semElems = 0 => rcvd = sent)

=============================================================================
