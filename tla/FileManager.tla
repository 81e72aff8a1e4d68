----------------------------- MODULE FileManager -----------------------------
(***************************************************************************)
(* CapioFileManager: the two tables of waiting threads, each behind its    *)
(* mutex, and FileSystemMonitor, the thread that polls the file system for *)
(* the paths in them.  A critical section of threads_mutex is one step; a  *)
(* pass over the waiters of a path under data_mutex is a step per syscall  *)
(* that matters, because the file system changes underneath it.            *)
(***************************************************************************)
EXTENDS CapioState

\* data_mutex is held exactly during checkAndUnlockThreadAwaitingData.
Holding == {"check", "stat"}

DataMutexFree == hpc \notin Holding /\ mpc \notin Holding

WaitersOn(p) == {t \in Tid : waitD[p][t] # -1}

addThreadAwaitingCreation(p, t) == waitC' = [waitC EXCEPT ![p] = @ \cup {t}]

addThreadAwaitingData(p, t, n) ==
  /\ DataMutexFree
  /\ waitD' = [waitD EXCEPT ![p][t] = IF @ = -1 THEN n ELSE @]

\* Mutant: the vector of threads is not erased.
unlockThreadAwaitingCreation_NotErased(p) ==
  reply_to_clients(waitC[p], 1) /\ UNCHANGED waitC

unlockThreadAwaitingCreation(p) ==
  /\ reply_to_clients(waitC[p], 1)
  /\ waitC' = [waitC EXCEPT ![p] = {}]

deleteFileAwaitingCreation(p) == waitC' = [waitC EXCEPT ![p] = {}]

getFileAwaitingCreation == {p \in Path : waitC[p] # {}}

getFileAwaitingData == {p \in Path : WaitersOn(p) # {}}

-----------------------------------------------------------------------------
(* The test on one waiter in checkAndUnlockThreadAwaitingData.  It compares*)
(* the waiter's thread id with the size of the file, never the size the    *)
(* waiter asked for.  A path that did not exist when it was looked up      *)
(* counts as empty, a directory as infinitely large.                       *)

file_size_check(existed, p, t) ==
  existed => p \notin Dir /\ t >= get_file_size_if_exists(p)

\* Mutants: the fire rule, or the commit state, is not asked.
lock_condition_AnyRule(existed, p, t) ==
  isCommitted(p) \/ isProducer(p, t) \/ file_size_check(existed, p, t)

lock_condition_NotCommitted(existed, p, t) ==
  isProducer(p, t) \/ (file_size_check(existed, p, t) /\ getFireRule(p) = "no_update")

lock_condition(existed, p, t) ==
  \/ isCommitted(p)
  \/ isProducer(p, t)
  \/ file_size_check(existed, p, t) /\ getFireRule(p) = "no_update"

ReplyValue(p) == IF is_directory(p) THEN ULLONG_MAX ELSE get_file_size_if_exists(p)

\* Mutants: the thread stays in the map after its answer, or leaves it without.
CheckWaiter_NotErased(existed, p, t) ==
  /\ IF lock_condition(existed, p, t) THEN reply_to_clients({t}, ReplyValue(p)) ELSE UNCHANGED resp
  /\ UNCHANGED waitD

CheckWaiter_Forgotten(existed, p, t) ==
  /\ IF lock_condition(existed, p, t) THEN reply_to_clients({t}, ReplyValue(p)) ELSE UNCHANGED resp
  /\ waitD' = [waitD EXCEPT ![p][t] = -1]

CheckWaiter(existed, p, t) ==
  IF lock_condition(existed, p, t)
    THEN reply_to_clients({t}, ReplyValue(p)) /\ waitD' = [waitD EXCEPT ![p][t] = -1]
    ELSE UNCHANGED <<resp, waitD>>

\* exists() said yes, the file is gone when file_size() asks: filesystem_error.
Vanished(existed, p) == existed /\ p \notin Dir /\ ~Exists(p)

\* app_names->at(tid), or bufs_response->at(tid) when the waiter is answered.
UnknownWaiter(existed, p, t) == Unnamed(t) \/ (lock_condition(existed, p, t) /\ Unknown(t))

-----------------------------------------------------------------------------
(* FileSystemMonitor::_main.                                               *)

monitorOther == <<fsVars, token, clVars, reqs, cmVars, clientVars, handlerVars>>

MonitorLocals == <<mfiles, mpath, mflag, mtodo, mtid>>

\* A new round of the loop: the list of paths somebody waits to be created.
MonitorCreationList ==
  /\ mpc = "data" /\ mfiles = {}
  /\ mfiles' = getFileAwaitingCreation
  /\ mpc' = "creation"
  /\ UNCHANGED <<mpath, mflag, mtodo, mtid, resp, server, waitC, waitD, monitorOther>>

MonitorCreation(p) ==
  /\ mpc = "creation" /\ p \in mfiles
  /\ mfiles' = mfiles \ {p}
  /\ IF Exists(p) THEN mpc' = "unlock" /\ mpath' = p ELSE UNCHANGED <<mpc, mpath>>
  /\ UNCHANGED <<mflag, mtodo, mtid, resp, server, waitC, waitD, monitorOther>>

MonitorUnlock ==
  /\ mpc = "unlock"
  /\ IF \E t \in waitC[mpath] : Unknown(t) THEN Throw("out_of_range")
     ELSE /\ unlockThreadAwaitingCreation(mpath)
          /\ mpc' = "delete"
          /\ UNCHANGED <<MonitorLocals, server, waitD, monitorOther>>

\* threads_mutex was released after the unlock and is taken again here.
MonitorDelete ==
  /\ mpc = "delete"
  /\ deleteFileAwaitingCreation(mpath)
  /\ mpc' = "creation"
  /\ mpath' = NoPath
  /\ UNCHANGED <<mfiles, mflag, mtodo, mtid, resp, server, waitD, monitorOther>>

MonitorDataList ==
  /\ mpc = "creation" /\ mfiles = {}
  /\ DataMutexFree
  /\ mfiles' = getFileAwaitingData
  /\ mpc' = "data"
  /\ UNCHANGED <<mpath, mflag, mtodo, mtid, resp, server, waitC, waitD, monitorOther>>

MonitorData(p) ==
  /\ mpc = "data" /\ p \in mfiles
  /\ mfiles' = mfiles \ {p}
  /\ IF Exists(p) THEN mpc' = "lock" /\ mpath' = p ELSE UNCHANGED <<mpc, mpath>>
  /\ UNCHANGED <<mflag, mtodo, mtid, resp, server, waitC, waitD, monitorOther>>

MonitorLock ==
  /\ mpc = "lock"
  /\ DataMutexFree
  /\ mtodo' = WaitersOn(mpath)
  /\ mpc' = "check"
  /\ UNCHANGED <<mfiles, mpath, mflag, mtid, resp, server, waitC, waitD, monitorOther>>

\* The next waiter: is_directory() and exists() are asked first ...
MonitorStat(t) ==
  /\ mpc = "check" /\ t \in mtodo
  /\ mtid' = t
  /\ mtodo' = mtodo \ {t}
  /\ mflag' = Exists(mpath)
  /\ mpc' = "stat"
  /\ UNCHANGED <<mfiles, mpath, resp, server, waitC, waitD, monitorOther>>

\* ... then file_size(), the commit state and the producers.
MonitorCheck ==
  /\ mpc = "stat"
  /\ IF Vanished(mflag, mpath) THEN Throw("filesystem_error")
     ELSE IF UnknownWaiter(mflag, mpath, mtid) THEN Throw("out_of_range")
     ELSE /\ CheckWaiter(mflag, mpath, mtid)
          /\ mpc' = "check"
          /\ mtid' = 0
          /\ mflag' = FALSE
          /\ UNCHANGED <<mfiles, mpath, mtodo, server, waitC, monitorOther>>

MonitorRelease ==
  /\ mpc = "check" /\ mtodo = {}
  /\ mpc' = "data"
  /\ mpath' = NoPath
  /\ UNCHANGED <<mfiles, mflag, mtodo, mtid, resp, server, waitC, waitD, monitorOther>>

Monitor ==
  /\ server = "up"
  /\ \/ MonitorCreationList
     \/ \E p \in Path : MonitorCreation(p)
     \/ MonitorUnlock
     \/ MonitorDelete
     \/ MonitorDataList
     \/ \E p \in Path : MonitorData(p)
     \/ MonitorLock
     \/ \E t \in Tid : MonitorStat(t)
     \/ MonitorCheck
     \/ MonitorRelease

=============================================================================
