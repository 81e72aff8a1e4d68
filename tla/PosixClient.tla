----------------------------- MODULE PosixClient -----------------------------
(***************************************************************************)
(* An application thread under libcapio_posix.  An intercepted system call *)
(* first sends its requests to the server, one queue slot at a time; a     *)
(* call of a blocking kind then waits for one answer; only then does the   *)
(* kernel execute the call.  A thread uses one descriptor per path.        *)
(***************************************************************************)
EXTENDS CapioState

CONSTANTS
  Calls,            \* the system calls each thread's program may make
  MaxCalls,         \* bound: how many each makes
  QueueCap,         \* CAPIO_REQ_BUFF_CNT
  WriterCacheSize,  \* CAPIO_WRITER_CACHE_SIZE
  FdNumber,         \* the number of a descriptor, as the kernel gives it
  MayDie            \* threads that may be killed at any moment

Call == [op : {"handshake", "create", "mkdir", "open", "read", "write", "close",
               "stat", "access", "fstat", "rename", "unlink", "exit"},
         path : Path \cup {NoPath}, to : Path \cup {NoPath}, n : Nat]

NoCall == [op |-> "handshake", path |-> NoPath, to |-> NoPath, n |-> 0]

ASSUME ClientAssumption ==
  /\ Calls \in [Tid -> SUBSET Call]
  /\ \A t \in Tid : \A c \in Calls[t] :
       /\ c.op # "handshake"
       /\ c.op # "exit" => c.path \in Path
       /\ c.op = "rename" => c.to \in Path \ {c.path}
  /\ MaxCalls \in [Tid -> Nat]
  /\ QueueCap \in Nat \ {0}
  /\ WriterCacheSize \in Nat
  /\ FdNumber \in Nat \ {0}
  /\ MayDie \subseteq Tid

is_capio_path(p) == p \in CapioPath

\* The library records descriptors by number; a thread has one per path here.
exists_capio_fd(t, p) == fds[t][p] # 0

-----------------------------------------------------------------------------
(* WriteRequestCache.  The handler passes (count, tid, fd) where the cache *)
(* takes (tid, fd, count), so what the cache adds up are descriptor        *)
(* numbers; the request it sends names the right thread all the same.      *)

NoWrites == [path |-> NoPath, sum |-> 0]

flush(t, w) == IF w.path = NoPath THEN <<>> ELSE <<Req("WRITE", t, w.path, 0)>>

\* The cache after the write, before the test on its size.
Cached(t, p) ==
  [path |-> p, sum |-> FdNumber + (IF wcache[t].path = p THEN wcache[t].sum ELSE 0)]

Overflows(t, p) == Cached(t, p).sum > WriterCacheSize

write_request(t, p) ==
  (IF wcache[t].path = p THEN <<>> ELSE flush(t, wcache[t]))
    \o (IF Overflows(t, p) THEN flush(t, Cached(t, p)) ELSE <<>>)

-----------------------------------------------------------------------------
(* ReadRequestCache.  It remembers how far the current file may be read    *)
(* without asking, and per path how far the others may.  When the file     *)
(* changes, path is moved from before it is used as a key again, so that   *)
(* the answer to that first request is kept under the empty path only.     *)

NoReads == [path |-> NoPath, max |-> 0, moved |-> FALSE, avail |-> [p \in Path |-> 0]]

Selected(t, p) ==
  IF rcache[t].path = p THEN [rcache[t] EXCEPT !.moved = FALSE]
  ELSE [rcache[t] EXCEPT !.path = p, !.max = rcache[t].avail[p], !.moved = TRUE]

AllowedUpTo(t, p, n) ==
  LET max == Selected(t, p).max IN max = ULLONG_MAX \/ n <= max

\* The update from the server's answer.
Told(t, v) ==
  LET cur == rcache[t] IN
  [cur EXCEPT !.max = v, !.avail[cur.path] = IF cur.moved THEN @ ELSE v]

-----------------------------------------------------------------------------
(* What each call sends before the kernel sees it.  Paths below CAPIO_DIR, *)
(* and CAPIO_DIR itself, are the ones the library asks the server about;   *)
(* access and chdir ask about any path, the calls on a descriptor about    *)
(* the descriptors it has recorded.                                        *)

\* The library is loaded into a process: its thread registers first.
init_process(t) == <<Req("HANDSHAKE", t, NoPath, 0)>>

consent_to_proceed_request(t, p) == <<Req("CONSENT", t, p, 0)>>

create_request(t, p) == <<Req("CREATE", t, p, 0)>>

open_request(t, p) == flush(t, wcache[t]) \o <<Req("OPEN", t, p, 0)>>

close_request(t, p) == flush(t, wcache[t]) \o <<Req("CLOSE", t, p, 0)>>

exit_group_request(t) == flush(t, wcache[t]) \o <<Req("EXIT", t, NoPath, 0)>>

rename_request(t, q) == <<Req("RENAME", t, q, 0)>>

read_request(t, p, n) == IF AllowedUpTo(t, p, n) THEN <<>> ELSE <<Req("READ", t, p, n)>>

creat_handler(t, p) == IF is_capio_path(p) THEN create_request(t, p) ELSE <<>>

capio_mkdirat(t, p) == IF is_capio_path(p) THEN create_request(t, p) ELSE <<>>

openat_handler(t, p) == IF is_capio_path(p) THEN open_request(t, p) ELSE <<>>

capio_lstat(t, p) == IF is_capio_path(p) THEN consent_to_proceed_request(t, p) ELSE <<>>

\* Also chdir and faccessat.
access_handler(t, p) == consent_to_proceed_request(t, p)

\* Also fstat, fcntl, ioctl, fgetxattr, fstatfs, fchmod and fchown.
getdents_handler_impl(t, p) ==
  IF exists_capio_fd(t, p) THEN consent_to_proceed_request(t, p) ELSE <<>>

capio_read(t, p, n) == IF exists_capio_fd(t, p) THEN read_request(t, p, n) ELSE <<>>

capio_write(t, p) == IF exists_capio_fd(t, p) THEN write_request(t, p) ELSE <<>>

capio_close(t, p) == IF exists_capio_fd(t, p) THEN close_request(t, p) ELSE <<>>

capio_exit(t) == exit_group_request(t)

capio_rename(t, p, q) ==
  IF is_capio_path(p) \/ is_capio_path(q) THEN rename_request(t, q) ELSE <<>>

Requests(t, c) ==
  CASE c.op = "create"  -> creat_handler(t, c.path)
    [] c.op = "mkdir"   -> capio_mkdirat(t, c.path)
    [] c.op = "open"    -> openat_handler(t, c.path)
    [] c.op = "read"    -> capio_read(t, c.path, c.n)
    [] c.op = "write"   -> capio_write(t, c.path)
    [] c.op = "close"   -> capio_close(t, c.path)
    [] c.op = "stat"    -> capio_lstat(t, c.path)
    [] c.op = "access"  -> access_handler(t, c.path)
    [] c.op = "fstat"   -> getdents_handler_impl(t, c.path)
    [] c.op = "rename"  -> capio_rename(t, c.path, c.to)
    [] c.op = "exit"    -> capio_exit(t)
    [] OTHER            -> <<>>

CacheAfter(t, c) ==
  CASE c.op = "write" -> IF Overflows(t, c.path) THEN NoWrites ELSE Cached(t, c.path)
    [] c.op \in {"close", "exit"} \/ (c.op = "open" /\ is_capio_path(c.path)) -> NoWrites
    [] OTHER          -> wcache[t]

\* unlink edits the thread's descriptor table before the kernel call.
delete_capio_path(t, c) ==
  IF c.op = "unlink" THEN [fds[t] EXCEPT ![c.path] = 0] ELSE fds[t]

\* A correct program: reads, writes and closes what it has open, opens what it
\* has not, and renames only files that it has closed.
Sensible(t, c) ==
  CASE c.op \in {"read", "write", "close", "fstat"} -> exists_capio_fd(t, c.path)
    [] c.op \in {"create", "open"}  -> ~exists_capio_fd(t, c.path)
    [] c.op = "rename"              -> ~exists_capio_fd(t, c.path) /\ ~exists_capio_fd(t, c.to)
    [] OTHER                        -> TRUE

-----------------------------------------------------------------------------
(* The steps of a thread.                                                  *)

Goto(t, l) == pc' = [pc EXCEPT ![t] = l]

clientOther == <<token, clVars, cmVars, server, waitC, waitD, handlerVars, monitorVars>>

\* The interception hook calls the handler of the system call.
Begin(t, c) ==
  /\ pc[t] = "idle"
  /\ left[t] > 0
  /\ c \in Calls[t]
  /\ Sensible(t, c)
  /\ call' = [call EXCEPT ![t] = c]
  /\ out' = [out EXCEPT ![t] = Requests(t, c)]
  /\ wcache' = [wcache EXCEPT ![t] = CacheAfter(t, c)]
  /\ rcache' = [rcache EXCEPT ![t] = IF c.op = "read" THEN Selected(t, c.path) ELSE @]
  /\ fds' = [fds EXCEPT ![t] = delete_capio_path(t, c)]
  /\ left' = [left EXCEPT ![t] = @ - 1]
  /\ Goto(t, IF Requests(t, c) = <<>> THEN "kernel" ELSE "send")
  /\ UNCHANGED <<fsVars, reqs, resp, clientOther>>

\* One buf_requests->write, which blocks while the queue is full.
Send(t) ==
  /\ pc[t] = "send"
  /\ Len(reqs) < QueueCap
  /\ reqs' = Append(reqs, Head(out[t]))
  /\ out' = [out EXCEPT ![t] = Tail(@)]
  /\ Goto(t, IF Tail(out[t]) # <<>> THEN "send"
             ELSE IF Head(out[t]).op \in Blocking THEN "wait" ELSE "kernel")
  /\ UNCHANGED <<fsVars, resp, call, wcache, rcache, fds, left, clientOther>>

\* bufs_response->at(tid)->read returns with the server's answer.
Resume(t) ==
  /\ pc[t] = "wait"
  /\ resp[t] # <<>>
  /\ resp' = [resp EXCEPT ![t] = Tail(@)]
  /\ rcache' = [rcache EXCEPT ![t] = IF call[t].op = "read" THEN Told(t, Head(resp[t])) ELSE @]
  /\ Goto(t, "kernel")
  /\ UNCHANGED <<fsVars, reqs, call, out, wcache, fds, left, clientOther>>

Unused == {i \in Inode : /\ \A p \in Path : link[p] # i
                         /\ \A t \in Tid, p \in Path : fds[t][p] # i}

add_capio_fd(t, p, i) == fds' = [fds EXCEPT ![t][p] = IF is_capio_path(p) THEN i ELSE 0]

Create(t, p) ==
  \/ /\ Exists(p)
     /\ \E trunc \in BOOLEAN :
          isize' = IF trunc THEN [isize EXCEPT ![link[p]] = 0] ELSE isize
     /\ add_capio_fd(t, p, link[p])
     /\ UNCHANGED link
  \/ /\ ~Exists(p)
     /\ \E i \in Unused : /\ link' = [link EXCEPT ![p] = i]
                          /\ isize' = [isize EXCEPT ![i] = 0]
                          /\ add_capio_fd(t, p, i)

MakeDirectory(p) ==
  /\ IF Exists(p) THEN UNCHANGED fsVars
     ELSE \E i \in Unused : /\ link' = [link EXCEPT ![p] = i]
                            /\ isize' = [isize EXCEPT ![i] = 0]
  /\ UNCHANGED fds

OpenFile(t, p) == add_capio_fd(t, p, link[p]) /\ UNCHANGED fsVars

\* A write never shrinks the file; it may fall inside it.
WriteFile(t, p) ==
  /\ \E n \in isize[fds[t][p]] .. MaxSize : isize' = [isize EXCEPT ![fds[t][p]] = n]
  /\ UNCHANGED <<link, fds>>

CloseFile(t, p) == fds' = [fds EXCEPT ![t][p] = 0] /\ UNCHANGED fsVars

Rename(p, q) ==
  /\ link' = IF Exists(p) THEN [link EXCEPT ![q] = link[p], ![p] = 0] ELSE link
  /\ UNCHANGED <<isize, fds>>

Unlink(p) == link' = [link EXCEPT ![p] = 0] /\ UNCHANGED <<isize, fds>>

\* The system call itself, when the handler lets it through.
Kernel(t) ==
  LET c == call[t] IN
  /\ pc[t] = "kernel"
  /\ CASE c.op = "create" -> Create(t, c.path)
       [] c.op = "mkdir"  -> MakeDirectory(c.path)
       [] c.op = "open"   -> OpenFile(t, c.path)
       [] c.op = "write"  -> WriteFile(t, c.path)
       [] c.op = "close"  -> CloseFile(t, c.path)
       [] c.op = "rename" -> Rename(c.path, c.to)
       [] c.op = "unlink" -> Unlink(c.path)
       [] OTHER           -> UNCHANGED <<fsVars, fds>>
  /\ call' = [call EXCEPT ![t] = NoCall]
  /\ Goto(t, IF c.op = "exit" THEN "gone" ELSE "idle")
  /\ UNCHANGED <<reqs, resp, out, wcache, rcache, left, clientOther>>

\* A signal kills the thread: no EXIT request is sent.  What it had sent
\* stays in the queue, and the server keeps what it knows of it.
Kill(t) ==
  /\ t \in MayDie
  /\ pc[t] # "gone"
  /\ Goto(t, "gone")
  /\ out' = [out EXCEPT ![t] = <<>>]
  /\ fds' = [fds EXCEPT ![t] = [p \in Path |-> 0]]
  /\ wcache' = [wcache EXCEPT ![t] = NoWrites]
  /\ rcache' = [rcache EXCEPT ![t] = NoReads]
  /\ call' = [call EXCEPT ![t] = NoCall]
  /\ UNCHANGED <<fsVars, reqs, resp, left, clientOther>>

Client(t) == \/ \E c \in Calls[t] : Begin(t, c)
             \/ Send(t)
             \/ Resume(t)
             \/ Kernel(t)
             \/ Kill(t)

=============================================================================
