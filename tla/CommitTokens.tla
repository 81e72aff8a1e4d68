---------------------------- MODULE CommitTokens ----------------------------
(***************************************************************************)
(* The token of one file: the .capio file through which the servers of all *)
(* nodes agree how often the file was closed, and the .lock file that      *)
(* DistributedSemaphore makes of open(O_EXCL).  The handler thread of each *)
(* server works on a close in steps, one per operation on these two files; *)
(* any server looks at the token without the lock.                         *)
(***************************************************************************)
EXTENDS Integers, FiniteSets

CONSTANTS
  Server,     \* the servers that share the metadata directory
  MaxCloses,  \* bound: closes of the file
  MaxCrashes  \* bound: servers killed

ASSUME TokenAssumption ==
  IsFiniteSet(Server) /\ MaxCloses \in Nat /\ MaxCrashes \in Nat

VARIABLES
  lockFile,   \* the .lock file: the servers whose open() made it, {} when it is not there
  token,      \* the number in the .capio file, 0 when it is empty, -1: no such file
  pc,         \* where each server's handler thread is
  close_count,\* its local variable
  taken,      \* history: closes the servers took from their queues
  crashes,    \* history, for the bound
  left        \* history: whether a server was killed inside the section

vars == <<lockFile, token, pc, close_count, taken, crashes, left>>

history == <<taken, crashes, left>>

-----------------------------------------------------------------------------
(* close_handler: setCommitted, then increaseCloseCount.                   *)

close_handler(s) ==
  /\ pc[s] = "idle" /\ taken < MaxCloses
  /\ pc' = [pc EXCEPT ![s] = "commit"]
  /\ taken' = taken + 1
  /\ UNCHANGED <<lockFile, token, close_count, crashes, left>>

\* Mutant: committing a file counts as a close.
setCommitted_Counts == token' = token + IF token = -1 THEN 2 ELSE 1

\* open(O_CREAT) makes an empty file if there is none.
setCommitted == token' = IF token = -1 THEN 0 ELSE token

SetCommitted(s) ==
  /\ pc[s] = "commit"
  /\ setCommitted
  /\ pc' = [pc EXCEPT ![s] = "lock"]
  /\ UNCHANGED <<lockFile, close_count, history>>

\* Mutant: open without O_EXCL.
lock_Shared(s) ==
  /\ pc[s] = "lock"
  /\ lockFile' = lockFile \cup {s}
  /\ pc' = [pc EXCEPT ![s] = "read"]
  /\ UNCHANGED <<token, close_count, history>>

\* The constructor of DistributedSemaphore tries until open() makes the file.
lock(s) ==
  /\ pc[s] = "lock" /\ lockFile = {}
  /\ lockFile' = {s}
  /\ pc' = [pc EXCEPT ![s] = "read"]
  /\ UNCHANGED <<token, close_count, history>>

\* A file that is not there, or is empty, leaves the count at 0.
increaseCloseCount_Read(s) ==
  /\ pc[s] = "read"
  /\ close_count' = [close_count EXCEPT ![s] = (IF token = -1 THEN 0 ELSE token) + 1]
  /\ pc' = [pc EXCEPT ![s] = "truncate"]
  /\ UNCHANGED <<lockFile, token, history>>

\* fopen(.., "w") empties the file ...
increaseCloseCount_Truncate(s) ==
  /\ pc[s] = "truncate"
  /\ token' = 0
  /\ pc' = [pc EXCEPT ![s] = "write"]
  /\ UNCHANGED <<lockFile, close_count, history>>

\* ... and fclose writes what fprintf left in the buffer.
increaseCloseCount_Write(s) ==
  /\ pc[s] = "write"
  /\ token' = close_count[s]
  /\ pc' = [pc EXCEPT ![s] = "unlock"]
  /\ UNCHANGED <<lockFile, close_count, history>>

\* Mutant: the lock file stays.
unlock_Keeps(s) ==
  /\ pc[s] = "unlock"
  /\ pc' = [pc EXCEPT ![s] = "idle"]
  /\ UNCHANGED <<lockFile, token, close_count, history>>

\* The destructor removes the file, whoever made it.
unlock(s) ==
  /\ pc[s] = "unlock"
  /\ lockFile' = {}
  /\ pc' = [pc EXCEPT ![s] = "idle"]
  /\ UNCHANGED <<token, close_count, history>>

-----------------------------------------------------------------------------

\* The servers between the constructor and the destructor.
Inside == {s \in Server : pc[s] \in {"read", "truncate", "write", "unlock"}}

\* A server is killed, and started again; what it left in the metadata
\* directory stays.
Crash(s) ==
  /\ crashes < MaxCrashes
  /\ crashes' = crashes + 1
  /\ left' = (left \/ s \in Inside)
  /\ pc' = [pc EXCEPT ![s] = "idle"]
  /\ UNCHANGED <<lockFile, token, close_count, taken>>

Work(s) ==
  \/ SetCommitted(s)
  \/ lock(s)
  \/ increaseCloseCount_Read(s)
  \/ increaseCloseCount_Truncate(s)
  \/ increaseCloseCount_Write(s)
  \/ unlock(s)

Init ==
  /\ lockFile = {} /\ token = -1
  /\ pc = [s \in Server |-> "idle"] /\ close_count = [s \in Server |-> 0]
  /\ taken = 0 /\ crashes = 0 /\ left = FALSE

Next == \E s \in Server : close_handler(s) \/ Work(s) \/ Crash(s)

Spec == Init /\ [][Next]_vars

\* A server that runs goes on; one that polls for the lock gets it when no
\* server holds it any more.
FairSpec == Spec /\ \A s \in Server : WF_vars(Work(s))

-----------------------------------------------------------------------------
(* Properties.                                                             *)

Steps == {"idle", "commit", "lock", "read", "truncate", "write", "unlock"}

\* Every variable holds a value of its type; one open() made the lock file.
TypeOK ==
  /\ lockFile \in {{}} \cup {{s} : s \in Server}
  /\ token \in Int /\ token >= -1
  /\ pc \in [Server -> Steps]
  /\ close_count \in [Server -> Nat]
  /\ taken \in Nat /\ crashes \in Nat /\ left \in BOOLEAN

\* Whichever servers are killed and started again, at most one is between the
\* constructor and the destructor of DistributedSemaphore.
OneHolder == \A s, t \in Inside : s = t

\* No crash and no restart makes a file committed early: the number a reader
\* finds in the token is at most the number of closes, so a file on_close:N is
\* not committed before its N-th close.
NeverEarly == token <= taken

\* The number the servers agree on: while one of them has the token emptied,
\* the number it read.
Agreed ==
  LET writing == {s \in Server : pc[s] = "write"}
  IN  IF writing # {} THEN close_count[CHOOSE s \in writing : TRUE] - 1
      ELSE IF token = -1 THEN 0 ELSE token

Counter == INSTANCE CloseCounter WITH
  pending <- {s \in Server : pc[s] \in {"commit", "lock", "read", "truncate", "write"}},
  n <- Agreed

\* The lock file, the token and its rewriting in two steps implement one
\* counter, whichever servers count at the same time: every close changes the
\* number at one moment and by one, and a server that is killed loses its own
\* close or, between emptying the token and writing it, the whole number.
CountsEveryClose == Counter!Spec

\* As long as no server dies inside the section, every server that spins on the
\* lock file gets past it.  The lock file of one that dies there is never removed.
ClosesGoThrough == []~left => \A s \in Server : pc[s] = "lock" ~> pc[s] # "lock"

=============================================================================
