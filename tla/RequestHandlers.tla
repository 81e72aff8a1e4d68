--------------------------- MODULE RequestHandlers ---------------------------
(***************************************************************************)
(* RequestHandlerEngine: the thread of capio_server that takes one request *)
(* at a time off the queue and runs its handler to the end.  What a        *)
(* handler reads before one lock and uses after another, or reads from the *)
(* file system in two calls, is two steps here.                            *)
(***************************************************************************)
EXTENDS FileManager

NoReq == [op |-> "HANDSHAKE", tid |-> 0, path |-> NoPath, n |-> 0]

handlerOther == <<fsVars, clientVars, monitorVars>>

\* The handler returns to the loop of RequestHandlerEngine::start.
Return ==
  /\ hpc' = "recv" /\ hreq' = NoReq /\ hflag' = FALSE
  /\ htodo' = {} /\ htid' = 0 /\ hcount' = 0

Continue(l) == hpc' = l /\ UNCHANGED <<hreq, hflag, htodo, htid, hcount>>

\* reply_to_client(hreq.tid, v) as the last call of a handler.
Answer(v) ==
  IF Unknown(hreq.tid) THEN Throw("out_of_range")
  ELSE /\ reply_to_clients({hreq.tid}, v)
       /\ Return
       /\ UNCHANGED <<token, clVars, reqs, cmVars, server, waitC, waitD, handlerOther>>

\* A step that only moves the handler.
Move(A) ==
  A /\ UNCHANGED <<token, clVars, reqs, resp, cmVars, server, waitC, waitD, handlerOther>>

read_next_request ==
  /\ hpc = "recv"
  /\ reqs # <<>>
  /\ hreq' = Head(reqs)
  /\ reqs' = Tail(reqs)
  /\ hpc' = Head(reqs).op
  /\ UNCHANGED <<hflag, htodo, htid, hcount, token, clVars, resp, cmVars, server,
                 waitC, waitD, handlerOther>>

-----------------------------------------------------------------------------

\* Mutant: no response buffer is registered.
handshake_handler_NoBuffer ==
  /\ hpc = "HANDSHAKE"
  /\ appNames' = [appNames EXCEPT ![hreq.tid] = IF @ = NoApp THEN AppOf[hreq.tid] ELSE @]
  /\ Return
  /\ UNCHANGED <<token, clVars, reqs, resp, bufs, server, waitC, waitD, handlerOther>>

\* register_new_client: emplace never replaces an app name already there.
handshake_handler ==
  /\ hpc = "HANDSHAKE"
  /\ bufs' = bufs \cup {hreq.tid}
  /\ appNames' = [appNames EXCEPT ![hreq.tid] = IF @ = NoApp THEN AppOf[hreq.tid] ELSE @]
  /\ Return
  /\ UNCHANGED <<token, clVars, reqs, resp, server, waitC, waitD, handlerOther>>

\* unlockThreadAwaitingCreation in create_handler, rename_handler, and in the
\* setCommitted of close_handler.
UnlockCreation(from, to) ==
  /\ hpc = from
  /\ IF \E t \in waitC[hreq.path] : Unknown(t) THEN Throw("out_of_range")
     ELSE /\ unlockThreadAwaitingCreation(hreq.path)
          /\ IF to = "recv" THEN Return ELSE Continue(to)
          /\ UNCHANGED <<token, clVars, reqs, cmVars, server, waitD, handlerOther>>

create_handler == UnlockCreation("CREATE", "add_producer")

addProducer ==
  /\ hpc = "add_producer"
  /\ IF Unnamed(hreq.tid) THEN Throw("out_of_range")
     ELSE /\ locations' = locations \cup {hreq.path}
          /\ producers' = [producers EXCEPT ![hreq.path] = @ \cup {appNames[hreq.tid]}]
          /\ Return
          /\ UNCHANGED <<token, reqs, resp, cmVars, server, waitC, waitD, handlerOther>>

rename_handler == UnlockCreation("RENAME", "recv")

\* get_produced_files is empty: nothing calls add_producer_file_path.
exit_handler ==
  /\ hpc = "EXIT"
  /\ IF Unknown(hreq.tid) THEN Throw("out_of_range")
     ELSE /\ bufs' = bufs \ {hreq.tid}
          /\ Return
          /\ UNCHANGED <<token, clVars, reqs, resp, appNames, server, waitC, waitD, handlerOther>>

-----------------------------------------------------------------------------
(* open_handler: the check, and later the insertion under threads_mutex.   *)

open_handler ==
  /\ hpc = "OPEN"
  /\ IF ~Exists(hreq.path) /\ Unnamed(hreq.tid) THEN Throw("out_of_range")
     ELSE IF Exists(hreq.path) \/ isProducer(hreq.path, hreq.tid) THEN Answer(1)
     ELSE Move(Continue("open_wait"))

OpenWait ==
  /\ hpc = "open_wait"
  /\ addThreadAwaitingCreation(hreq.path, hreq.tid)
  /\ Return
  /\ UNCHANGED <<token, clVars, reqs, resp, cmVars, server, waitD, handlerOther>>

-----------------------------------------------------------------------------
(* consent_to_proceed_handler and read_handler.  hflag is the local exists *)
(* of the one and is_committed of the other.                               *)

Remember(b, l) == hflag' = b /\ hpc' = l /\ UNCHANGED <<hreq, htodo, htid, hcount>>

consent_to_proceed_handler ==
  /\ hpc = "CONSENT"
  /\ IF ~fileToBeHandled(hreq.path) THEN Answer(1)
     ELSE IF Unnamed(hreq.tid) THEN Throw("out_of_range")
     ELSE IF isProducer(hreq.path, hreq.tid) THEN Answer(1)
     ELSE Move(Remember(Exists(hreq.path), "consent_committed"))

\* Mutant: a file that exists is enough.
ConsentCommitted_Exists ==
  /\ hpc = "consent_committed"
  /\ IF hflag THEN Answer(1) ELSE Move(Continue("data_wait"))

ConsentCommitted ==
  /\ hpc = "consent_committed"
  /\ IF hflag /\ (isCommitted(hreq.path) \/ getFireRule(hreq.path) = "no_update")
     THEN Answer(1) ELSE Move(Continue("data_wait"))

read_handler ==
  /\ hpc = "READ"
  /\ IF ~fileToBeHandled(hreq.path) THEN Answer(1)
     ELSE Move(Remember(isCommitted(hreq.path), "read_exists"))

\* get_file_size_if_exists: exists(), then file_size().
ReadExists ==
  /\ hpc = "read_exists"
  /\ Move(Continue(IF Exists(hreq.path) THEN "read_size" ELSE "read_absent"))

\* file_size() throws on a directory and on a path that has gone.
ReadSize ==
  LET size == IF hpc = "read_size" THEN get_file_size_if_exists(hreq.path) ELSE 0 IN
  /\ hpc \in {"read_size", "read_absent"}
  /\ IF hpc = "read_size" /\ (is_directory(hreq.path) \/ ~Exists(hreq.path))
     THEN Throw("filesystem_error")
     ELSE IF size < hreq.n /\ ~hflag /\ Unnamed(hreq.tid) THEN Throw("out_of_range")
     ELSE IF size >= hreq.n \/ hflag \/ isProducer(hreq.path, hreq.tid)
     THEN Answer(IF hflag THEN ULLONG_MAX ELSE size)
     ELSE Move(Continue("data_wait"))

DataWait ==
  /\ hpc = "data_wait"
  /\ addThreadAwaitingData(hreq.path, hreq.tid, hreq.n)
  /\ Return
  /\ UNCHANGED <<token, clVars, reqs, resp, cmVars, server, waitC, handlerOther>>

-----------------------------------------------------------------------------
(* write_handler, and close_handler up to setCommitted, both of which end  *)
(* in checkAndUnlockThreadAwaitingData.                                    *)

write_handler ==
  /\ hpc = "WRITE"
  /\ Move(IF fileToBeHandled(hreq.path) THEN Continue("lock") ELSE Return)

close_handler ==
  LET onClose == fileToBeHandled(hreq.path) /\ getCommitRule(hreq.path) = "on_close" IN
  /\ hpc = "CLOSE"
  /\ IF onClose /\ Unnamed(hreq.tid) THEN Throw("out_of_range")
     ELSE IF onClose /\ isProducer(hreq.path, hreq.tid)
     THEN /\ token' = [token EXCEPT ![hreq.path] = IF @ = -1 THEN 0 ELSE @]
          /\ Continue("lock")
          /\ UNCHANGED <<clVars, reqs, resp, cmVars, server, waitC, waitD, handlerOther>>
     ELSE Move(Return)

HandlerLock ==
  /\ hpc = "lock"
  /\ DataMutexFree
  /\ htodo' = WaitersOn(hreq.path)
  /\ hpc' = "check"
  /\ Move(UNCHANGED <<hreq, hflag, htid, hcount>>)

HandlerStat(t) ==
  /\ hpc = "check" /\ t \in htodo
  /\ htid' = t
  /\ htodo' = htodo \ {t}
  /\ hflag' = Exists(hreq.path)
  /\ hpc' = "stat"
  /\ Move(UNCHANGED <<hreq, hcount>>)

HandlerCheck ==
  /\ hpc = "stat"
  /\ IF Vanished(hflag, hreq.path) THEN Throw("filesystem_error")
     ELSE IF UnknownWaiter(hflag, hreq.path, htid) THEN Throw("out_of_range")
     ELSE /\ CheckWaiter(hflag, hreq.path, htid)
          /\ hpc' = "check"
          /\ htid' = 0
          /\ hflag' = FALSE
          /\ UNCHANGED <<hreq, htodo, hcount, token, clVars, reqs, cmVars, server, waitC,
                         handlerOther>>

\* Mutant: only the call from setCommitted ever returns.
HandlerRelease_CloseOnly ==
  /\ hpc = "check" /\ htodo = {} /\ hreq.op = "CLOSE"
  /\ Move(Continue("close_unlock"))

HandlerRelease ==
  /\ hpc = "check" /\ htodo = {}
  /\ Move(IF hreq.op = "CLOSE" THEN Continue("close_unlock") ELSE Return)

CloseUnlock == UnlockCreation("close_unlock", "close_count")

\* increaseCloseCount reads the count, then opens the file with "w": the
\* metadata file is empty, and reads as 0, until the new count is written.
CloseCountRead ==
  /\ hpc = "close_count"
  /\ hcount' = token[hreq.path] + 1
  /\ token' = [token EXCEPT ![hreq.path] = 0]
  /\ hpc' = "close_write"
  /\ UNCHANGED <<hreq, hflag, htodo, htid, clVars, reqs, resp, cmVars, server, waitC, waitD,
                 handlerOther>>

CloseCountWrite ==
  /\ hpc = "close_write"
  /\ token' = [token EXCEPT ![hreq.path] = hcount]
  /\ Return
  /\ UNCHANGED <<clVars, reqs, resp, cmVars, server, waitC, waitD, handlerOther>>

Handler ==
  /\ server = "up"
  /\ \/ read_next_request
     \/ handshake_handler
     \/ create_handler
     \/ addProducer
     \/ rename_handler
     \/ exit_handler
     \/ open_handler
     \/ OpenWait
     \/ consent_to_proceed_handler
     \/ ConsentCommitted
     \/ read_handler
     \/ ReadExists
     \/ ReadSize
     \/ DataWait
     \/ write_handler
     \/ close_handler
     \/ HandlerLock
     \/ \E t \in Tid : HandlerStat(t)
     \/ HandlerCheck
     \/ HandlerRelease
     \/ CloseUnlock
     \/ CloseCountRead
     \/ CloseCountWrite

=============================================================================
