----------------------------- MODULE CapioProofs -----------------------------
(***************************************************************************)
(* Proofs about a CAPIO node, for any number of threads, paths and         *)
(* programs.  First the types: every step keeps them, and each of the      *)
(* server's two threads works on a request, or a path, that fits the place *)
(* it is at.  Then the blocking calls: CallInv is inductive, so no answer  *)
(* is lost, doubled or given to another call than its own.  The steps of   *)
(* the node are sorted by what they do to the places a call can be in, and *)
(* each kind of effect is shown to keep the invariant of every thread.     *)
(***************************************************************************)
EXTENDS Capio, SequenceTheorems, FiniteSetTheorems, WellFoundedInduction, TLAPS

-----------------------------------------------------------------------------
(* Types, one lemma per kind of thread: the application threads, the       *)
(* request handler, the monitor.                                           *)

\* The thread the server looks at under data_mutex, which the types need.
StatInv == (hpc = "stat" => htid \in Tid) /\ (mpc = "stat" => mtid \in Tid)

Base == TypeOK /\ HandlerPlace /\ MonitorPlace /\ StatInv

-----------------------------------------------------------------------------
\* What the write cache sends when it is flushed: at most one WRITE of the thread.
LEMMA FlushType ==
  ASSUME CacheTypes, NEW t \in Tid
  PROVE  /\ flush(t, wcache[t]) \in Seq(Request)
         /\ \A i \in 1 .. Len(flush(t, wcache[t])) :
              flush(t, wcache[t])[i].tid = t /\ flush(t, wcache[t])[i].op = "WRITE"
<1>1. CASE wcache[t].path = NoPath
  BY <1>1 DEF flush
<1>2. CASE wcache[t].path # NoPath
  <2> DEFINE r == Req("WRITE", t, wcache[t].path, 0)
  <2>1. r \in Request /\ r.tid = t /\ r.op = "WRITE"
    BY <1>2 DEF CacheTypes, Req, Request, RequestCodes
  <2>2. flush(t, wcache[t]) = <<r>>
    BY <1>2 DEF flush
  <2> HIDE DEF r
  <2> QED
    BY <2>1, <2>2
<1> QED
  BY <1>1, <1>2

\* What a call sends, whichever call it is: requests in the thread's name, of
\* which only the last can be one that waits, and it asks about the call's path.
LEMMA RequestsShape ==
  ASSUME CacheTypes, NEW t \in Tid, NEW c \in Calls[t]
  PROVE  /\ Requests(t, c) \in Seq(Request)
         /\ \A i \in 1 .. Len(Requests(t, c)) :
              /\ Requests(t, c)[i].tid = t
              /\ Requests(t, c)[i].op \in Blocking
                 => i = Len(Requests(t, c)) /\ AsksFor(Requests(t, c)[i], c)
<1> DEFINE w == flush(t, wcache[t])
           Fine(s) == /\ s \in Seq(Request)
                      /\ \A i \in 1 .. Len(s) :
                           /\ s[i].tid = t
                           /\ s[i].op \in Blocking => i = Len(s) /\ AsksFor(s[i], c)
<1>1. c \in Call /\ (c.op # "exit" => c.path \in Path) /\ (c.op = "rename" => c.to \in Path)
  BY ClientAssumption
<1>2. w \in Seq(Request) /\ \A i \in 1 .. Len(w) : w[i].tid = t /\ w[i].op = "WRITE"
  BY FlushType
<1>3. Fine(<<>>)
  OBVIOUS
<1>4. ASSUME NEW r \in Request, r.tid = t, r.op \in Blocking => AsksFor(r, c)
      PROVE  Fine(<<r>>) /\ Fine(w \o <<r>>)
  BY <1>2, <1>4 DEF Blocking
<1> HIDE DEF w, Fine
<1>5. ASSUME NEW op \in RequestCodes \ {"HANDSHAKE", "EXIT"}, c.op # "exit",
             op = "OPEN" => c.op = "open",
             op = "CONSENT" => c.op \in DataCalls,
             NEW n \in Nat, op = "READ" => c.op = "read" /\ c.n = n
      PROVE  Fine(<<Req(op, t, c.path, n)>>) /\ Fine(w \o <<Req(op, t, c.path, n)>>)
  <2>1. Req(op, t, c.path, n) \in Request
    BY <1>1, <1>5 DEF Req, Request, RequestCodes
  <2>2. Req(op, t, c.path, n).tid = t /\ Req(op, t, c.path, n).op = op
        /\ Req(op, t, c.path, n).path = c.path /\ Req(op, t, c.path, n).n = n
    BY DEF Req
  <2>3. op \in Blocking => AsksFor(Req(op, t, c.path, n), c)
    BY <1>5, <2>2 DEF AsksFor, Blocking
  <2> QED
    BY <1>4, <2>1, <2>2, <2>3
<1>6. Fine(Requests(t, c))
  <2> USE DEF Requests, RequestCodes, DataCalls
  <2>1. CASE c.op = "create"
    BY <2>1, <1>3, <1>5 DEF creat_handler, create_request
  <2>2. CASE c.op = "mkdir"
    BY <2>2, <1>3, <1>5 DEF capio_mkdirat, create_request
  <2>3. CASE c.op = "open"
    BY <2>3, <1>3, <1>5 DEF openat_handler, open_request, w
  <2>4. CASE c.op = "read"
    BY <2>4, <1>1, <1>3, <1>5 DEF capio_read, read_request, Call
  <2>5. CASE c.op = "write"
    <3>1. Cached(t, c.path).path = c.path
      BY DEF Cached
    <3>2. c.path # NoPath
      BY <1>1, <2>5, PathAssumption
    <3>3. flush(t, Cached(t, c.path)) = <<Req("WRITE", t, c.path, 0)>>
      BY <3>1, <3>2 DEF flush
    <3>4. Fine(w)
      BY <1>2 DEF Fine, Blocking
    <3>5. /\ <<>> \o <<>> = <<>> /\ w \o <<>> = w
          /\ <<>> \o <<Req("WRITE", t, c.path, 0)>> = <<Req("WRITE", t, c.path, 0)>>
      BY <1>2
    <3>6. write_request(t, c.path) \in {<<>>, w, <<Req("WRITE", t, c.path, 0)>>,
                                        w \o <<Req("WRITE", t, c.path, 0)>>}
      BY <3>3, <3>5 DEF write_request, w
    <3>7. Fine(write_request(t, c.path))
      BY <3>6, <3>4, <1>3, <1>5, <2>5
    <3> QED
      BY <3>7, <1>3, <2>5 DEF capio_write
  <2>6. CASE c.op = "close"
    BY <2>6, <1>3, <1>5 DEF capio_close, close_request, w
  <2>7. CASE c.op = "stat"
    BY <2>7, <1>3, <1>5 DEF capio_lstat, consent_to_proceed_request
  <2>8. CASE c.op = "access"
    BY <2>8, <1>3, <1>5 DEF access_handler, consent_to_proceed_request
  <2>9. CASE c.op = "fstat"
    BY <2>9, <1>3, <1>5 DEF getdents_handler_impl, consent_to_proceed_request
  <2>10. CASE c.op = "rename"
    <3>1. Req("RENAME", t, c.to, 0) \in Request /\ Req("RENAME", t, c.to, 0).tid = t
          /\ Req("RENAME", t, c.to, 0).op \notin Blocking
      BY <1>1, <2>10 DEF Req, Request, Blocking
    <3> QED
      BY <3>1, <1>3, <1>4, <2>10 DEF capio_rename, rename_request
  <2>11. CASE c.op = "exit"
    <3>1. Req("EXIT", t, NoPath, 0) \in Request /\ Req("EXIT", t, NoPath, 0).tid = t
          /\ Req("EXIT", t, NoPath, 0).op \notin Blocking
      BY DEF Req, Request, Blocking
    <3> QED
      BY <3>1, <1>4, <2>11 DEF capio_exit, exit_group_request, w
  <2>12. CASE c.op \in {"unlink", "handshake"}
    BY <2>12, <1>3
  <2> QED
    BY <1>1, <2>1, <2>2, <2>3, <2>4, <2>5, <2>6, <2>7, <2>8, <2>9, <2>10, <2>11, <2>12 DEF Call
<1> QED
  BY <1>6 DEF Fine
-----------------------------------------------------------------------------
(* Types: the application threads.                                         *)

\* What a client step leaves alone keeps its type.
LEMMA ClientFrame ==
  ASSUME Base, UNCHANGED clientOther
  PROVE  /\ HandlerTypes' /\ MonitorTypes' /\ HandlerPlace' /\ MonitorPlace' /\ StatInv'
         /\ token' \in [Path -> Nat \cup {-1}] /\ locations' \subseteq Path
         /\ producers' \in [Path -> SUBSET App] /\ bufs' \subseteq Tid
         /\ appNames' \in [Tid -> App \cup {NoApp}]
         /\ server' \in {"up", "out_of_range", "filesystem_error"}
         /\ waitC' \in [Path -> SUBSET Tid]
         /\ waitD' \in [Path -> [Tid -> Nat \cup {-1}]]
  BY DEF Base, TypeOK, FileTypes, ServerTypes, HandlerTypes, MonitorTypes, HandlerPlace, MonitorPlace,
         StatInv, OpsAt, clientOther, clVars, cmVars, handlerVars, monitorVars

\* The interception of a call.
LEMMA BeginTypes ==
  ASSUME Base, NEW t \in Tid, NEW c \in Calls[t], Begin(t, c)
  PROVE  Base'
<1>1. c \in Call /\ (c.op # "exit" => c.path \in Path)
  BY ClientAssumption
<1>2. CacheTypes /\ Requests(t, c) \in Seq(Request)
  BY RequestsShape DEF Base, TypeOK
<1>3. CacheAfter(t, c) \in [path : Path \cup {NoPath}, sum : Nat]
  BY <1>1, <1>2, ClientAssumption DEF CacheAfter, CacheTypes, NoWrites, Cached
<1>4. c.op = "read" => Selected(t, c.path) \in [path : Path \cup {NoPath}, max : Int,
                                               moved : BOOLEAN, avail : [Path -> Int]]
  BY <1>1, <1>2 DEF Selected, CacheTypes
<1>5. delete_capio_path(t, c) \in [Path -> Inode \cup {0}]
  BY <1>2 DEF delete_capio_path, CacheTypes
<1>6. CacheTypes'
  BY <1>2, <1>3, <1>4, <1>5 DEF CacheTypes, Begin
<1>7. CallTypes'
  BY <1>1, <1>2 DEF Base, TypeOK, CallTypes, Begin, Goto
<1> QED
  BY <1>6, <1>7, ClientFrame DEF Base, TypeOK, FileTypes, ServerTypes, Begin, fsVars

\* One request put in the queue; there is one, because a sending thread has some.
LEMMA SendTypes ==
  ASSUME Base, NEW t \in Tid, OutShape(t), Send(t)
  PROVE  Base'
<1>1. out[t] \in Seq(Request) /\ out[t] # <<>>
  BY DEF Base, TypeOK, CallTypes, OutShape, Send
<1>2. Head(out[t]) \in Request /\ Tail(out[t]) \in Seq(Request)
  BY <1>1
<1>3. CallTypes'
  BY <1>2 DEF Base, TypeOK, CallTypes, Send, Goto
<1>4. reqs' \in Seq(Request)
  BY <1>2 DEF Base, TypeOK, ServerTypes, Send
<1> QED
  BY <1>3, <1>4, ClientFrame DEF Base, TypeOK, FileTypes, ServerTypes, CacheTypes, Send, fsVars

\* The answer taken, and noted in the read cache.
LEMMA ResumeTypes ==
  ASSUME Base, NEW t \in Tid, Resume(t)
  PROVE  Base'
<1>1. resp[t] \in Seq(Int) /\ resp[t] # <<>>
  BY DEF Base, TypeOK, ServerTypes, Resume
<1>2. Head(resp[t]) \in Int /\ Tail(resp[t]) \in Seq(Int)
  BY <1>1
<1>3. resp' \in [Tid -> Seq(Int)]
  BY <1>2 DEF Base, TypeOK, ServerTypes, Resume
<1>4. Told(t, Head(resp[t])) \in [path : Path \cup {NoPath}, max : Int,
                                  moved : BOOLEAN, avail : [Path -> Int]]
  <2>1. rcache[t] \in [path : Path \cup {NoPath}, max : Int, moved : BOOLEAN, avail : [Path -> Int]]
    BY DEF Base, TypeOK, CacheTypes
  <2>2. ASSUME NEW cur \in [path : Path \cup {NoPath}, max : Int, moved : BOOLEAN,
                            avail : [Path -> Int]], NEW v \in Int
        PROVE  [cur EXCEPT !.max = v, !.avail[cur.path] = IF cur.moved THEN @ ELSE v]
                 \in [path : Path \cup {NoPath}, max : Int, moved : BOOLEAN, avail : [Path -> Int]]
    OBVIOUS
  <2> QED
    BY <1>2, <2>1, <2>2 DEF Told
<1>5. CacheTypes'
  BY <1>4 DEF Base, TypeOK, CacheTypes, Resume
<1>6. CallTypes'
  BY DEF Base, TypeOK, CallTypes, Resume, Goto
<1> QED
  BY <1>3, <1>5, <1>6, ClientFrame DEF Base, TypeOK, FileTypes, ServerTypes, Resume, fsVars

\* The system call itself: links, sizes and descriptors stay in range.
LEMMA KernelTypes ==
  ASSUME Base, NEW t \in Tid, Kernel(t)
  PROVE  Base'
<1> DEFINE c == call[t]
           FsFds == /\ link' \in [Path -> Inode \cup {0}]
                    /\ isize' \in [Inode -> 0 .. MaxSize]
                    /\ fds' \in [Tid -> [Path -> Inode \cup {0}]]
<1>1. c \in Calls[t] \cup {NoCall} /\ c \in Call
  BY DEF Base, TypeOK, CallTypes
<1>2. c.op \notin {"exit", "handshake"} => c.path \in Path /\ (c.op = "rename" => c.to \in Path)
  BY <1>1, ClientAssumption DEF NoCall
<1>3. /\ link \in [Path -> Inode \cup {0}] /\ isize \in [Inode -> 0 .. MaxSize]
      /\ fds \in [Tid -> [Path -> Inode \cup {0}]]
  BY DEF Base, TypeOK, FileTypes, CacheTypes
<1>4. MaxSize \in Nat /\ Inode \subseteq Nat \ {0}
  BY BoundAssumption
<1>5. FsFds
  <2> USE <1>2, <1>3, <1>4 DEF Kernel, fsVars
  <2>1. CASE c.op = "create"
    <3>1. Create(t, c.path)
      BY <2>1
    <3>2. CASE Exists(c.path)
      <4>1. link[c.path] \in Inode
        BY <2>1, <3>2 DEF Exists
      <4>2. isize' \in [Inode -> 0 .. MaxSize]
        BY <3>1, <3>2, <4>1 DEF Create
      <4>3. link' = link /\ add_capio_fd(t, c.path, link[c.path])
        BY <3>1, <3>2 DEF Create
      <4>4. fds' \in [Tid -> [Path -> Inode \cup {0}]]
        BY <4>1, <4>3 DEF add_capio_fd
      <4> QED
        BY <4>2, <4>3, <4>4
    <3>3. CASE ~Exists(c.path)
      <4>1. PICK i \in Unused : /\ link' = [link EXCEPT ![c.path] = i]
                                /\ isize' = [isize EXCEPT ![i] = 0]
                                /\ add_capio_fd(t, c.path, i)
        BY <3>1, <3>3 DEF Create
      <4>2. i \in Inode /\ 0 \in 0 .. MaxSize
        BY DEF Unused
      <4>3. isize' \in [Inode -> 0 .. MaxSize] /\ link' \in [Path -> Inode \cup {0}]
        BY <4>1, <4>2
      <4>4. fds' \in [Tid -> [Path -> Inode \cup {0}]]
        BY <4>1, <4>2 DEF add_capio_fd
      <4> QED
        BY <4>3, <4>4
    <3> QED
      BY <3>2, <3>3
  <2>2. CASE c.op = "mkdir"
    BY <2>2 DEF MakeDirectory, Unused
  <2>3. CASE c.op = "open"
    BY <2>3 DEF OpenFile, add_capio_fd
  <2>4. CASE c.op = "write"
    <3>1. PICK n \in isize[fds[t][c.path]] .. MaxSize :
            isize' = [isize EXCEPT ![fds[t][c.path]] = n]
      BY <2>4 DEF WriteFile
    <3>2. CASE fds[t][c.path] = 0
      BY <2>4, <3>1, <3>2 DEF WriteFile
    <3>3. CASE fds[t][c.path] \in Inode
      <4>1. isize[fds[t][c.path]] \in 0 .. MaxSize
        BY <3>3
      <4>2. n \in 0 .. MaxSize
        BY <4>1, <3>1
      <4> QED
        BY <2>4, <3>1, <3>3, <4>2 DEF WriteFile
    <3> QED
      BY <2>4, <3>2, <3>3
  <2>5. CASE c.op = "close"
    BY <2>5 DEF CloseFile
  <2>6. CASE c.op = "rename"
    BY <2>6 DEF Rename, Exists
  <2>7. CASE c.op = "unlink"
    BY <2>7 DEF Unlink
  <2>8. CASE c.op \notin {"create", "mkdir", "open", "write", "close", "rename", "unlink"}
    BY <2>8
  <2> QED
    BY <2>1, <2>2, <2>3, <2>4, <2>5, <2>6, <2>7, <2>8
<1>6. CallTypes'
  <2>1. NoCall \in Call
    BY DEF NoCall, Call
  <2> QED
    BY <2>1 DEF Base, TypeOK, CallTypes, Kernel, Goto
<1>7. CacheTypes'
  BY <1>5 DEF Base, TypeOK, CacheTypes, Kernel
<1> QED
  BY <1>5, <1>6, <1>7, ClientFrame DEF Base, TypeOK, FileTypes, ServerTypes, Kernel

\* The death of a thread.
LEMMA KillTypes ==
  ASSUME Base, NEW t \in Tid, Kill(t)
  PROVE  Base'
<1>1. NoCall \in Call
  BY DEF NoCall, Call
<1>2. CallTypes'
  BY <1>1 DEF Base, TypeOK, CallTypes, Kill, Goto
<1>3. CacheTypes'
  BY DEF Base, TypeOK, CacheTypes, Kill, NoWrites, NoReads
<1> QED
  BY <1>2, <1>3, ClientFrame DEF Base, TypeOK, FileTypes, ServerTypes, Kill, fsVars

\* So a step of an application thread keeps all types.
LEMMA ClientTypes ==
  ASSUME Base, NEW t \in Tid, OutShape(t), Client(t)
  PROVE  Base'
  BY BeginTypes, SendTypes, ResumeTypes, KernelTypes, KillTypes DEF Client

-----------------------------------------------------------------------------
(* Types: the request handler.                                             *)

\* What a handler step leaves alone keeps its type.
LEMMA HandlerFrame ==
  ASSUME Base, UNCHANGED handlerOther
  PROVE  /\ CallTypes' /\ CacheTypes' /\ MonitorTypes' /\ MonitorPlace'
         /\ link' \in [Path -> Inode \cup {0}] /\ isize' \in [Inode -> 0 .. MaxSize]
         /\ (mpc' = "stat" => mtid' \in Tid)
  BY DEF Base, TypeOK, FileTypes, CallTypes, CacheTypes, MonitorTypes, MonitorPlace, StatInv,
         handlerOther, fsVars, clientVars, monitorVars

\* An exception ends the server and changes nothing else.
LEMMA ThrowTypes ==
  ASSUME Base, NEW e \in {"out_of_range", "filesystem_error"}, Throw(e)
  PROVE  Base'
<1> USE DEF Base, Throw, clVars, cmVars
<1>1. handlerOther' = handlerOther /\ handlerVars' = handlerVars
  BY DEF handlerOther
<1>2. HandlerTypes' /\ HandlerPlace' /\ (hpc' = "stat" => htid' \in Tid)
  BY <1>1 DEF TypeOK, HandlerTypes, HandlerPlace, OpsAt, StatInv, handlerVars
<1>3. FileTypes' /\ ServerTypes'
  BY DEF TypeOK, FileTypes, ServerTypes, fsVars
<1> QED
  BY <1>1, <1>2, <1>3, HandlerFrame DEF TypeOK, StatInv

\* An answer appended to some response queues keeps the type of the queues.
LEMMA ReplyType ==
  ASSUME resp \in [Tid -> Seq(Int)], NEW S, NEW v \in Int, reply_to_clients(S, v)
  PROVE  resp' \in [Tid -> Seq(Int)]
  BY DEF reply_to_clients

\* A handler that returns leaves its locals typed.
LEMMA ReturnTypes ==
  ASSUME Base, Return
  PROVE  HandlerTypes' /\ HandlerPlace' /\ (hpc' = "stat" => htid' \in Tid)
  BY DEF Return, HandlerTypes, HandlerPlace, HandlerLabels

\* The size of an existing file is a number.
LEMMA SizeType ==
  ASSUME Base, NEW p \in Path
  PROVE  get_file_size_if_exists(p) \in Nat /\ ReplyValue(p) \in Int
<1>1. get_file_size_if_exists(p) \in Nat
  <2>1. MaxSize \in Nat /\ isize \in [Inode -> 0 .. MaxSize] /\ link[p] \in Inode \cup {0}
    BY BoundAssumption DEF Base, TypeOK, FileTypes
  <2>2. link[p] \in Inode => isize[link[p]] \in 0 .. MaxSize
    BY <2>1
  <2> QED
    BY <2>1, <2>2 DEF get_file_size_if_exists, Exists
<1> QED
  BY <1>1 DEF ReplyValue, ULLONG_MAX

\* An answer as the last call of a handler.
LEMMA AnswerTypes ==
  ASSUME Base, NEW v \in Int, Answer(v)
  PROVE  Base'
<1>1. CASE Unknown(hreq.tid)
  BY <1>1, ThrowTypes DEF Answer
<1>2. CASE ~Unknown(hreq.tid)
  <2>1. ServerTypes'
    BY <1>2, ReplyType DEF Answer, Base, TypeOK, ServerTypes, cmVars
  <2> QED
    BY <1>2, <2>1, ReturnTypes, HandlerFrame DEF Answer, Base, TypeOK, FileTypes, StatInv, clVars
<1> QED
  BY <1>1, <1>2

\* A step that only moves the handler keeps the types if the locals are typed.
LEMMA MoveTypes ==
  ASSUME Base, HandlerTypes', HandlerPlace', hpc' = "stat" => htid' \in Tid,
         UNCHANGED <<token, clVars, reqs, resp, cmVars, server, waitC, waitD, handlerOther>>
  PROVE  Base'
  BY HandlerFrame DEF Base, TypeOK, FileTypes, ServerTypes, StatInv, clVars, cmVars

\* The label a handler continues at, when it may work on the same request there.
LEMMA ContinueTypes ==
  ASSUME Base, NEW l \in HandlerLabels \ {"recv", "stat"}, hpc # "recv", hreq.op \in OpsAt(l),
         hpc' = l, hreq' = hreq, hflag' \in BOOLEAN, UNCHANGED <<htodo, htid, hcount>>
  PROVE  HandlerTypes' /\ HandlerPlace' /\ (hpc' = "stat" => htid' \in Tid)
<1>1. HandlerTypes' /\ hpc' # "stat"
  BY DEF Base, TypeOK, HandlerTypes
<1>2. HandlerPlace'
  BY DEF Base, HandlerPlace, OpsAt
<1> QED
  BY <1>1, <1>2


\* The test of one waiter keeps the types of what it changes.
LEMMA CheckTypes ==
  ASSUME Base, NEW p \in Path, NEW t \in Tid, NEW b, CheckWaiter(b, p, t)
  PROVE  resp' \in [Tid -> Seq(Int)] /\ waitD' \in [Path -> [Tid -> Nat \cup {-1}]]
<1>1. ReplyValue(p) \in Int
  BY SizeType
<1>2. resp \in [Tid -> Seq(Int)] /\ waitD \in [Path -> [Tid -> Nat \cup {-1}]]
  BY DEF Base, TypeOK, ServerTypes
<1>3. resp' \in [Tid -> Seq(Int)]
  BY <1>1, <1>2, ReplyType DEF CheckWaiter
<1>4. CASE waitD' = waitD
  BY <1>2, <1>3, <1>4
<1>5. CASE waitD' = [waitD EXCEPT ![p][t] = -1]
  BY <1>2, <1>3, <1>5
<1> QED
  BY <1>4, <1>5 DEF CheckWaiter

\* Every step of the request handler keeps the types.
LEMMA RequestTypes ==
  ASSUME Base, Handler
  PROVE  Base'
<1> USE DEF Base
<1>0. hpc # "recv" => /\ hreq \in Request /\ hreq.tid \in Tid /\ hreq.op \in OpsAt(hpc) /\ hreq.n \in Nat
                      /\ hreq.op \notin {"HANDSHAKE", "EXIT"} => hreq.path \in Path
  BY DEF HandlerPlace, Request
<1>1. CASE read_next_request
  <2>1. reqs \in Seq(Request) /\ reqs # <<>>
    BY <1>1 DEF TypeOK, ServerTypes, read_next_request
  <2>2. Head(reqs) \in Request /\ Tail(reqs) \in Seq(Request)
    BY <2>1
  <2>3. Head(reqs).op \in RequestCodes
    BY <2>2 DEF Request, RequestCodes
  <2>4. HandlerTypes' /\ HandlerPlace'
    <3>1. HandlerTypes'
      BY <1>1, <2>2, <2>3 DEF TypeOK, HandlerTypes, read_next_request, HandlerLabels
    <3>2. hreq' \in Request /\ hreq'.op \in {hpc'} /\ hpc' \in RequestCodes
      BY <1>1, <2>2, <2>3 DEF read_next_request
    <3>3. OpsAt(hpc)' = {hpc'}
      BY <3>2 DEF OpsAt, RequestCodes
    <3> QED
      BY <3>1, <3>2, <3>3 DEF HandlerPlace
  <2>5. hpc' # "stat"
    BY <1>1, <2>3 DEF read_next_request, RequestCodes
  <2> QED
    BY <1>1, <2>2, <2>4, <2>5, HandlerFrame DEF TypeOK, FileTypes, ServerTypes, StatInv, clVars,
       cmVars, read_next_request
<1>2. CASE handshake_handler
  <2>1. cmVars' = <<bufs', appNames'>> /\ hreq.tid \in Tid
    BY <1>0, <1>2 DEF handshake_handler, cmVars
  <2>2. bufs' \subseteq Tid /\ appNames' \in [Tid -> App \cup {NoApp}]
    BY <1>2, <2>1, ThreadAssumption DEF handshake_handler, TypeOK, ServerTypes
  <2> QED
    BY <1>2, <2>2, HandlerFrame, ReturnTypes DEF TypeOK, FileTypes, ServerTypes, StatInv, clVars,
       handshake_handler
<1>3. ASSUME NEW from \in {"CREATE", "RENAME", "close_unlock"},
             NEW to \in {"add_producer", "recv", "close_count"},
             from = "CREATE" => to = "add_producer", from = "RENAME" => to = "recv",
             from = "close_unlock" => to = "close_count",
             UnlockCreation(from, to)
      PROVE  Base'
  <2>1. CASE \E t \in waitC[hreq.path] : Unknown(t)
    BY <1>3, <2>1, ThrowTypes DEF UnlockCreation
  <2>2. CASE ~\E t \in waitC[hreq.path] : Unknown(t)
    <3>1. /\ unlockThreadAwaitingCreation(hreq.path)
          /\ IF to = "recv" THEN Return ELSE Continue(to)
          /\ UNCHANGED <<token, clVars, reqs, cmVars, server, waitD, handlerOther>>
      BY <1>3, <2>2 DEF UnlockCreation
    <3>2. HandlerTypes' /\ HandlerPlace' /\ (hpc' = "stat" => htid' \in Tid)
      <4>1. CASE to = "recv"
        BY <3>1, <4>1, ReturnTypes
      <4>2. CASE to # "recv"
        <5>1. hreq.op \in OpsAt(to) /\ hpc # "recv"
          BY <1>0, <1>3, <4>2 DEF OpsAt, UnlockCreation, RequestCodes
        <5>2. Continue(to) /\ hflag \in BOOLEAN
          BY <3>1, <4>2 DEF TypeOK, HandlerTypes
        <5> QED
          BY <5>1, <5>2, <4>2, ContinueTypes DEF Continue, HandlerLabels
      <4> QED
        BY <4>1, <4>2
    <3>3. resp' \in [Tid -> Seq(Int)] /\ waitC' \in [Path -> SUBSET Tid]
      <4>1. resp \in [Tid -> Seq(Int)] /\ waitC \in [Path -> SUBSET Tid]
        BY DEF TypeOK, ServerTypes
      <4>2. reply_to_clients(waitC[hreq.path], 1) /\ waitC' = [waitC EXCEPT ![hreq.path] = {}]
        BY <3>1 DEF unlockThreadAwaitingCreation
      <4>3. resp' \in [Tid -> Seq(Int)]
        BY <4>1, <4>2, ReplyType
      <4> QED
        BY <4>1, <4>2, <4>3
    <3> QED
      BY <3>1, <3>2, <3>3, HandlerFrame DEF TypeOK, FileTypes, ServerTypes, StatInv, clVars, cmVars
  <2> QED
    BY <2>1, <2>2
<1>4. CASE create_handler
  BY <1>3, <1>4 DEF create_handler
<1>5. CASE addProducer
  <2>1. CASE Unnamed(hreq.tid)
    BY <1>5, <2>1, ThrowTypes DEF addProducer
  <2>2. CASE ~Unnamed(hreq.tid)
    <3>1. hreq.tid \in Tid /\ hreq.path \in Path
      BY <1>0, <1>5 DEF addProducer, OpsAt, RequestCodes
    <3>2. appNames[hreq.tid] \in App
      BY <2>2, <3>1 DEF Unnamed, TypeOK, ServerTypes
    <3>3. locations' \subseteq Path /\ producers' \in [Path -> SUBSET App]
      BY <1>5, <2>2, <3>1, <3>2 DEF addProducer, TypeOK, FileTypes
    <3> QED
      BY <1>5, <2>2, <3>3, HandlerFrame, ReturnTypes DEF TypeOK, FileTypes, ServerTypes, StatInv,
         cmVars, addProducer
  <2> QED
    BY <2>1, <2>2
<1>6. CASE rename_handler
  BY <1>3, <1>6 DEF rename_handler
<1>7. CASE exit_handler
  <2>1. CASE Unknown(hreq.tid)
    BY <1>7, <2>1, ThrowTypes DEF exit_handler
  <2>2. CASE ~Unknown(hreq.tid)
    BY <1>7, <2>2, HandlerFrame, ReturnTypes DEF TypeOK, FileTypes, ServerTypes, StatInv, clVars,
       exit_handler
  <2> QED
    BY <2>1, <2>2
<1>8. ASSUME NEW l \in HandlerLabels \ {"recv", "stat"}, hpc # "recv", hreq.op \in OpsAt(l),
             Move(Continue(l)) \/ \E b \in BOOLEAN : Move(Remember(b, l))
      PROVE  Base'
  <2>1. hpc' = l /\ hreq' = hreq /\ hflag' \in BOOLEAN /\ UNCHANGED <<htodo, htid, hcount>>
    BY <1>8 DEF Move, Continue, Remember, TypeOK, HandlerTypes
  <2>2. UNCHANGED <<token, clVars, reqs, resp, cmVars, server, waitC, waitD, handlerOther>>
    BY <1>8 DEF Move
  <2> QED
    BY <1>8, <2>1, <2>2, ContinueTypes, MoveTypes
<1>9. CASE open_handler
  <2>1. hpc = "OPEN" /\ hreq.op \in OpsAt("open_wait") /\ 1 \in Int
    BY <1>0, <1>9 DEF open_handler, OpsAt, RequestCodes
  <2>2. \/ Throw("out_of_range") \/ Answer(1) \/ Move(Continue("open_wait"))
    BY <1>9 DEF open_handler
  <2> QED
    BY <2>1, <2>2, <1>8, ThrowTypes, AnswerTypes DEF HandlerLabels
<1>10. CASE OpenWait
  <2>1. hreq.tid \in Tid /\ hreq.path \in Path
    BY <1>0, <1>10 DEF OpenWait, OpsAt, RequestCodes
  <2>2. waitC' \in [Path -> SUBSET Tid]
    BY <1>10, <2>1 DEF OpenWait, addThreadAwaitingCreation, TypeOK, ServerTypes
  <2> QED
    BY <1>10, <2>2, HandlerFrame, ReturnTypes DEF TypeOK, FileTypes, ServerTypes, StatInv, clVars,
       cmVars, OpenWait
<1>11. CASE consent_to_proceed_handler
  <2>1. hpc = "CONSENT" /\ hreq.op \in OpsAt("consent_committed") /\ 1 \in Int
        /\ Exists(hreq.path) \in BOOLEAN
    BY <1>0, <1>11 DEF consent_to_proceed_handler, OpsAt, RequestCodes, Exists
  <2>2. \/ Throw("out_of_range") \/ Answer(1)
        \/ Move(Remember(Exists(hreq.path), "consent_committed"))
    BY <1>11 DEF consent_to_proceed_handler
  <2> QED
    BY <2>1, <2>2, <1>8, ThrowTypes, AnswerTypes DEF HandlerLabels
<1>12. CASE ConsentCommitted
  <2>1. hpc = "consent_committed" /\ hreq.op \in OpsAt("data_wait") /\ 1 \in Int
    BY <1>0, <1>12 DEF ConsentCommitted, OpsAt, RequestCodes
  <2>2. Answer(1) \/ Move(Continue("data_wait"))
    BY <1>12 DEF ConsentCommitted
  <2> QED
    BY <2>1, <2>2, <1>8, AnswerTypes DEF HandlerLabels
<1>13. CASE read_handler
  <2>1. hpc = "READ" /\ hreq.op \in OpsAt("read_exists") /\ 1 \in Int
        /\ isCommitted(hreq.path) \in BOOLEAN
    BY <1>0, <1>13 DEF read_handler, OpsAt, RequestCodes, isCommitted
  <2>2. Answer(1) \/ Move(Remember(isCommitted(hreq.path), "read_exists"))
    BY <1>13 DEF read_handler
  <2> QED
    BY <2>1, <2>2, <1>8, AnswerTypes DEF HandlerLabels
<1>14. CASE ReadExists
  <2>1. /\ hpc = "read_exists" /\ hreq.op \in OpsAt("read_size") /\ hreq.op \in OpsAt("read_absent")
    BY <1>0, <1>14 DEF ReadExists, OpsAt, RequestCodes
  <2>2. Move(Continue("read_size")) \/ Move(Continue("read_absent"))
    BY <1>14 DEF ReadExists
  <2> QED
    BY <2>1, <2>2, <1>8 DEF HandlerLabels
<1>15. CASE ReadSize
  <2> DEFINE size == IF hpc = "read_size" THEN get_file_size_if_exists(hreq.path) ELSE 0
  <2>1. hpc \in {"read_size", "read_absent"} /\ hreq.op \in OpsAt("data_wait")
        /\ hreq.path \in Path
    BY <1>0, <1>15 DEF ReadSize, OpsAt, RequestCodes
  <2>2. (IF hflag THEN ULLONG_MAX ELSE size) \in Int
    BY <2>1, SizeType DEF ULLONG_MAX
  <2>3. \/ Throw("filesystem_error") \/ Throw("out_of_range")
        \/ Answer(IF hflag THEN ULLONG_MAX ELSE size) \/ Move(Continue("data_wait"))
    BY <1>15 DEF ReadSize
  <2> HIDE DEF size
  <2> QED
    BY <2>1, <2>2, <2>3, <1>8, ThrowTypes, AnswerTypes DEF HandlerLabels
<1>16. CASE DataWait
  <2>1. hreq.tid \in Tid /\ hreq.path \in Path /\ hreq.n \in Nat
    BY <1>0, <1>16 DEF DataWait, OpsAt, RequestCodes
  <2>2. waitD' \in [Path -> [Tid -> Nat \cup {-1}]]
    BY <1>16, <2>1 DEF DataWait, addThreadAwaitingData, TypeOK, ServerTypes
  <2> QED
    BY <1>16, <2>2, HandlerFrame, ReturnTypes DEF TypeOK, FileTypes, ServerTypes, StatInv, clVars,
       cmVars, DataWait
<1>17. ASSUME Move(Return) PROVE Base'
  <2>1. Return /\ UNCHANGED <<token, clVars, reqs, resp, cmVars, server, waitC, waitD, handlerOther>>
    BY <1>17 DEF Move
  <2> QED
    BY <2>1, ReturnTypes, MoveTypes
<1>18. CASE write_handler
  <2>1. hpc = "WRITE" /\ hreq.op \in OpsAt("lock")
    BY <1>0, <1>18 DEF write_handler, OpsAt, RequestCodes
  <2>2. Move(Continue("lock")) \/ Move(Return)
    BY <1>18 DEF write_handler
  <2> QED
    BY <2>1, <2>2, <1>8, <1>17 DEF HandlerLabels
<1>19. CASE close_handler
  <2>1. hpc = "CLOSE" /\ hreq.op \in OpsAt("lock") /\ hreq.path \in Path
    BY <1>0, <1>19 DEF close_handler, OpsAt, RequestCodes
  <2>2. CASE /\ token' = [token EXCEPT ![hreq.path] = IF @ = -1 THEN 0 ELSE @]
             /\ Continue("lock")
             /\ UNCHANGED <<clVars, reqs, resp, cmVars, server, waitC, waitD, handlerOther>>
    <3>1. token' \in [Path -> Nat \cup {-1}]
      BY <2>1, <2>2 DEF TypeOK, FileTypes
    <3>2. HandlerTypes' /\ HandlerPlace' /\ (hpc' = "stat" => htid' \in Tid)
      <4>1. hflag \in BOOLEAN /\ "lock" \in HandlerLabels \ {"recv", "stat"} /\ hpc # "recv"
        BY <2>1 DEF TypeOK, HandlerTypes, HandlerLabels
      <4> QED
        BY <2>1, <2>2, <4>1, ContinueTypes DEF Continue
    <3> QED
      BY <2>2, <3>1, <3>2, HandlerFrame DEF TypeOK, FileTypes, ServerTypes, StatInv, clVars, cmVars
  <2>3. \/ Throw("out_of_range") \/ Move(Return)
        \/ /\ token' = [token EXCEPT ![hreq.path] = IF @ = -1 THEN 0 ELSE @]
           /\ Continue("lock")
           /\ UNCHANGED <<clVars, reqs, resp, cmVars, server, waitC, waitD, handlerOther>>
    BY <1>19 DEF close_handler
  <2> QED
    BY <2>2, <2>3, <1>17, ThrowTypes
<1>20. CASE HandlerLock
  <2>1. HandlerTypes' /\ hpc' = "check" /\ hreq' = hreq
    BY <1>20 DEF HandlerLock, Move, TypeOK, HandlerTypes, HandlerLabels, WaitersOn
  <2>2. hreq \in Request /\ hreq.op \in {"WRITE", "CLOSE"}
    BY <1>0, <1>20 DEF HandlerLock, OpsAt, RequestCodes
  <2>3. HandlerPlace'
    BY <2>1, <2>2 DEF HandlerPlace, OpsAt, RequestCodes
  <2> QED
    BY <1>20, <2>1, <2>3, MoveTypes DEF HandlerLock, Move
<1>21. CASE \E t \in Tid : HandlerStat(t)
  <2>1. PICK t \in Tid : HandlerStat(t)
    BY <1>21
  <2>2. HandlerTypes' /\ hpc' = "stat" /\ hreq' = hreq /\ htid' \in Tid
    BY <2>1 DEF HandlerStat, Move, TypeOK, HandlerTypes, HandlerLabels, Exists
  <2>3. hreq \in Request /\ hreq.op \in {"WRITE", "CLOSE"}
    BY <1>0, <2>1 DEF HandlerStat, OpsAt, RequestCodes
  <2>4. HandlerPlace'
    BY <2>2, <2>3 DEF HandlerPlace, OpsAt, RequestCodes
  <2> QED
    BY <2>1, <2>2, <2>4, MoveTypes DEF HandlerStat, Move
<1>22. CASE HandlerCheck
  <2>1. CASE Throw("filesystem_error") \/ Throw("out_of_range")
    BY <2>1, ThrowTypes
  <2>2. CASE /\ CheckWaiter(hflag, hreq.path, htid)
             /\ hpc' = "check"
             /\ htid' = 0
             /\ hflag' = FALSE
             /\ UNCHANGED <<hreq, htodo, hcount, token, clVars, reqs, cmVars, server, waitC,
                            handlerOther>>
    <3>1. hpc = "stat" /\ hreq \in Request /\ hreq.op \in {"WRITE", "CLOSE"} /\ hreq.path \in Path
      BY <1>0, <1>22 DEF HandlerCheck, OpsAt, RequestCodes
    <3>2. HandlerTypes' /\ HandlerPlace'
      BY <2>2, <3>1 DEF TypeOK, HandlerTypes, HandlerLabels, HandlerPlace, OpsAt, RequestCodes
    <3>3. resp' \in [Tid -> Seq(Int)] /\ waitD' \in [Path -> [Tid -> Nat \cup {-1}]]
      BY <2>2, <3>1, CheckTypes DEF StatInv
    <3> QED
      BY <2>2, <3>2, <3>3, HandlerFrame DEF TypeOK, FileTypes, ServerTypes, StatInv, clVars, cmVars
  <2> QED
    BY <1>22, <2>1, <2>2 DEF HandlerCheck
<1>23. CASE HandlerRelease
  <2>1. hpc = "check" /\ (hreq.op = "CLOSE" => hreq.op \in OpsAt("close_unlock"))
    BY <1>23 DEF HandlerRelease, OpsAt, RequestCodes
  <2>2. (hreq.op = "CLOSE" /\ Move(Continue("close_unlock"))) \/ Move(Return)
    BY <1>23 DEF HandlerRelease
  <2> QED
    BY <2>1, <2>2, <1>8, <1>17 DEF HandlerLabels
<1>24. CASE CloseUnlock
  BY <1>3, <1>24 DEF CloseUnlock
<1>25. CASE CloseCountRead
  <2>1. hreq \in Request /\ hreq.op \in {"CLOSE"} /\ hreq.path \in Path
    BY <1>0, <1>25 DEF CloseCountRead, OpsAt, RequestCodes
  <2>2. token[hreq.path] + 1 \in Nat /\ token' \in [Path -> Nat \cup {-1}]
    BY <1>25, <2>1 DEF CloseCountRead, TypeOK, FileTypes
  <2>3. HandlerTypes' /\ HandlerPlace' /\ hpc' # "stat"
    BY <1>25, <2>1, <2>2 DEF CloseCountRead, TypeOK, HandlerTypes, HandlerLabels, HandlerPlace,
       OpsAt, RequestCodes
  <2> QED
    BY <1>25, <2>2, <2>3, HandlerFrame DEF CloseCountRead, TypeOK, FileTypes, ServerTypes, StatInv,
       clVars, cmVars
<1>26. CASE CloseCountWrite
  <2>1. hcount \in Nat
    BY DEF TypeOK, HandlerTypes
  <2>2. token' \in [Path -> Nat \cup {-1}]
    BY <1>26, <2>1 DEF CloseCountWrite, TypeOK, FileTypes
  <2> QED
    BY <1>26, <2>2, HandlerFrame, ReturnTypes DEF CloseCountWrite, TypeOK, FileTypes, ServerTypes,
       StatInv, clVars, cmVars
<1> QED
  BY <1>1, <1>2, <1>4, <1>5, <1>6, <1>7, <1>9, <1>10, <1>11, <1>12, <1>13, <1>14, <1>15, <1>16,
     <1>18, <1>19, <1>20, <1>21, <1>22, <1>23, <1>24, <1>25, <1>26 DEF Handler
-----------------------------------------------------------------------------
(* Types: the file-system monitor.                                         *)

\* What a monitor step leaves alone keeps its type.
LEMMA MonitorFrame ==
  ASSUME Base, UNCHANGED monitorOther
  PROVE  /\ FileTypes' /\ CallTypes' /\ CacheTypes' /\ HandlerTypes' /\ HandlerPlace'
         /\ reqs' \in Seq(Request) /\ bufs' \subseteq Tid
         /\ appNames' \in [Tid -> App \cup {NoApp}]
         /\ (hpc' = "stat" => htid' \in Tid)
<1> USE DEF Base, TypeOK, monitorOther
<1>1. FileTypes' /\ CallTypes' /\ CacheTypes'
  BY DEF FileTypes, CallTypes, CacheTypes, fsVars, clVars, clientVars
<1>2. HandlerTypes' /\ HandlerPlace' /\ (hpc' = "stat" => htid' \in Tid)
  BY DEF HandlerTypes, HandlerPlace, OpsAt, StatInv, handlerVars
<1> QED
  BY <1>1, <1>2 DEF ServerTypes, cmVars

\* A monitor step keeps the types if it keeps those of what it changes.
LEMMA MonitorStep ==
  ASSUME Base, UNCHANGED monitorOther, server' = server, MonitorTypes', MonitorPlace',
         mpc' = "stat" => mtid' \in Tid,
         resp' \in [Tid -> Seq(Int)], waitC' \in [Path -> SUBSET Tid],
         waitD' \in [Path -> [Tid -> Nat \cup {-1}]]
  PROVE  Base'
  BY MonitorFrame DEF Base, TypeOK, ServerTypes, StatInv

\* Every step of the monitor keeps the types.
LEMMA PollTypes ==
  ASSUME Base, Monitor
  PROVE  Base'
<1> USE DEF Base
<1>0. /\ MonitorTypes /\ resp \in [Tid -> Seq(Int)] /\ waitC \in [Path -> SUBSET Tid]
      /\ waitD \in [Path -> [Tid -> Nat \cup {-1}]]
  BY DEF TypeOK, ServerTypes
<1>1. CASE MonitorCreationList
  <2>1. MonitorTypes' /\ MonitorPlace' /\ mpc' # "stat"
    BY <1>0, <1>1 DEF MonitorCreationList, MonitorTypes, MonitorPlace, MonitorLabels,
       getFileAwaitingCreation
  <2> QED
    BY <1>0, <1>1, <2>1, MonitorStep DEF MonitorCreationList
<1>2. CASE \E p \in Path : MonitorCreation(p)
  <2>1. PICK p \in Path : MonitorCreation(p)
    BY <1>2
  <2>2. MonitorTypes' /\ MonitorPlace' /\ mpc' # "stat"
    BY <1>0, <2>1 DEF MonitorCreation, MonitorTypes, MonitorPlace, MonitorLabels
  <2> QED
    BY <1>0, <2>1, <2>2, MonitorStep DEF MonitorCreation
<1>3. CASE MonitorUnlock
  <2>1. CASE Throw("out_of_range")
    BY <2>1, ThrowTypes
  <2>2. CASE /\ unlockThreadAwaitingCreation(mpath)
             /\ mpc' = "delete"
             /\ UNCHANGED <<MonitorLocals, server, waitD, monitorOther>>
    <3>1. mpc = "unlock" /\ reply_to_clients(waitC[mpath], 1)
          /\ waitC' = [waitC EXCEPT ![mpath] = {}]
      BY <1>3, <2>2 DEF MonitorUnlock, unlockThreadAwaitingCreation
    <3>2. MonitorTypes' /\ MonitorPlace' /\ mpc' # "stat"
      BY <1>0, <2>2, <3>1 DEF MonitorTypes, MonitorPlace, MonitorLabels, MonitorLocals
    <3>3. resp' \in [Tid -> Seq(Int)]
      BY <1>0, <3>1, ReplyType
    <3>4. waitC' \in [Path -> SUBSET Tid]
      BY <1>0, <3>1
    <3> QED
      BY <1>0, <2>2, <3>2, <3>3, <3>4, MonitorStep
  <2> QED
    BY <1>3, <2>1, <2>2 DEF MonitorUnlock
<1>4. CASE MonitorDelete
  <2>1. MonitorTypes' /\ MonitorPlace' /\ mpc' # "stat"
    BY <1>0, <1>4 DEF MonitorDelete, MonitorTypes, MonitorPlace, MonitorLabels
  <2>2. waitC' \in [Path -> SUBSET Tid]
    BY <1>0, <1>4 DEF MonitorDelete, deleteFileAwaitingCreation
  <2> QED
    BY <1>0, <1>4, <2>1, <2>2, MonitorStep DEF MonitorDelete
<1>5. CASE MonitorDataList
  <2>1. MonitorTypes' /\ MonitorPlace' /\ mpc' # "stat"
    BY <1>0, <1>5 DEF MonitorDataList, MonitorTypes, MonitorPlace, MonitorLabels,
       getFileAwaitingData
  <2> QED
    BY <1>0, <1>5, <2>1, MonitorStep DEF MonitorDataList
<1>6. CASE \E p \in Path : MonitorData(p)
  <2>1. PICK p \in Path : MonitorData(p)
    BY <1>6
  <2>2. MonitorTypes' /\ MonitorPlace' /\ mpc' # "stat"
    BY <1>0, <2>1 DEF MonitorData, MonitorTypes, MonitorPlace, MonitorLabels
  <2> QED
    BY <1>0, <2>1, <2>2, MonitorStep DEF MonitorData
<1>7. CASE MonitorLock
  <2>1. MonitorTypes' /\ MonitorPlace' /\ mpc' # "stat"
    BY <1>0, <1>7 DEF MonitorLock, MonitorTypes, MonitorPlace, MonitorLabels, WaitersOn
  <2> QED
    BY <1>0, <1>7, <2>1, MonitorStep DEF MonitorLock
<1>8. CASE \E t \in Tid : MonitorStat(t)
  <2>1. PICK t \in Tid : MonitorStat(t)
    BY <1>8
  <2>2. MonitorTypes' /\ MonitorPlace' /\ mtid' \in Tid
    BY <1>0, <2>1 DEF MonitorStat, MonitorTypes, MonitorPlace, MonitorLabels, Exists
  <2> QED
    BY <1>0, <2>1, <2>2, MonitorStep DEF MonitorStat
<1>9. CASE MonitorCheck
  <2>1. CASE Throw("filesystem_error") \/ Throw("out_of_range")
    BY <2>1, ThrowTypes
  <2>2. CASE /\ CheckWaiter(mflag, mpath, mtid)
             /\ mpc' = "check"
             /\ mtid' = 0
             /\ mflag' = FALSE
             /\ UNCHANGED <<mfiles, mpath, mtodo, server, waitC, monitorOther>>
    <3>1. mpc = "stat" /\ mpath \in Path /\ mtid \in Tid
      BY <1>9 DEF MonitorCheck, MonitorPlace, StatInv
    <3>2. MonitorTypes' /\ MonitorPlace' /\ mpc' # "stat"
      BY <1>0, <2>2, <3>1 DEF MonitorTypes, MonitorPlace, MonitorLabels
    <3>3. resp' \in [Tid -> Seq(Int)] /\ waitD' \in [Path -> [Tid -> Nat \cup {-1}]]
      BY <2>2, <3>1, CheckTypes
    <3> QED
      BY <1>0, <2>2, <3>2, <3>3, MonitorStep
  <2> QED
    BY <1>9, <2>1, <2>2 DEF MonitorCheck
<1>10. CASE MonitorRelease
  <2>1. MonitorTypes' /\ MonitorPlace' /\ mpc' # "stat"
    BY <1>0, <1>10 DEF MonitorRelease, MonitorTypes, MonitorPlace, MonitorLabels
  <2> QED
    BY <1>0, <1>10, <2>1, MonitorStep DEF MonitorRelease
<1> QED
  BY <1>1, <1>2, <1>3, <1>4, <1>5, <1>6, <1>7, <1>8, <1>9, <1>10 DEF Monitor

-----------------------------------------------------------------------------
(* The effects of a server step.                                           *)

\* Nothing that is about a call moves; the handler stays on its request, or
\* returns from one nobody waits for.
Quiet ==
  /\ UNCHANGED <<reqs, resp, waitC, waitD, pc, call, out>>
  /\ \/ hpc' = hpc /\ hreq' = hreq
     \/ hpc # "recv" /\ hpc' # "recv" /\ hreq' = hreq
     \/ hpc # "recv" /\ hpc' = "recv" /\ hreq.op \notin Blocking

\* The request in the handler's hands is answered.
Answers ==
  /\ hpc # "recv" /\ hpc' = "recv" /\ hreq.op \in Blocking
  /\ \E v \in Int : reply_to_clients({hreq.tid}, v)
  /\ UNCHANGED <<reqs, waitC, waitD, pc, call, out>>

\* What the handler holds, if anything, stays in its hands or was no call.
HandsKept ==
  \/ hpc' = hpc /\ hreq' = hreq
  \/ hpc # "recv" /\ hreq.op \notin Blocking /\ (hpc' = "recv" \/ hreq' = hreq)

\* All threads that wait for the creation of a path are answered.
Unlocks(p) ==
  /\ p \in Path
  /\ unlockThreadAwaitingCreation(p)
  /\ HandsKept
  /\ UNCHANGED <<reqs, waitD, pc, call, out>>

\* One thread that waits for data is tested.
Checks(p, t) ==
  /\ \E b \in BOOLEAN : CheckWaiter(b, p, t)
  /\ HandsKept
  /\ UNCHANGED <<reqs, waitC, pc, call, out>>

\* The steps of the handler, by effect.
LEMMA HandlerEffects ==
  ASSUME Base, Handler
  PROVE  \/ \E e \in {"out_of_range", "filesystem_error"} : Throw(e)
         \/ /\ Quiet \/ Answers \/ Unlocks(hreq.path) \/ read_next_request \/ OpenWait
            /\ hpc \notin Holding /\ hpc' \notin Holding
            /\ UNCHANGED <<waitD, monitorVars>>
         \/ DataWait
         \/ Quiet /\ HandlerLock
         \/ Quiet /\ \E t \in Tid : HandlerStat(t)
         \/ Checks(hreq.path, htid) /\ HandlerCheck /\ hpc' = "check"
            /\ UNCHANGED <<hreq, htodo, monitorVars>>
         \/ Quiet /\ HandlerRelease
<1>0. hpc # "recv" => /\ hreq \in Request /\ hreq.tid \in Tid /\ hreq.op \in OpsAt(hpc)
                      /\ hflag \in BOOLEAN
  BY DEF Base, HandlerPlace, Request, TypeOK, HandlerTypes
<1> USE DEF handlerOther, clientVars
<1>1. ASSUME hpc # "recv", hpc \notin Holding, hreq.op \in Blocking, NEW v \in Int, Answer(v)
      PROVE  \/ Throw("out_of_range")
             \/ Answers /\ hpc' \notin Holding /\ UNCHANGED <<waitD, monitorVars>>
  BY <1>1 DEF Answer, Answers, Return, Holding
<1>2. ASSUME hpc # "recv", NEW l \in HandlerLabels \ ({"recv"} \cup Holding),
             Move(Continue(l)) \/ \E b \in BOOLEAN : Move(Remember(b, l))
      PROVE  Quiet /\ hpc' \notin Holding /\ UNCHANGED <<waitD, monitorVars>>
  BY <1>2 DEF Move, Continue, Remember, Quiet
<1>3. ASSUME hpc # "recv", hreq.op \notin Blocking, Move(Return)
      PROVE  Quiet /\ hpc' \notin Holding /\ UNCHANGED <<waitD, monitorVars>>
  BY <1>3 DEF Move, Return, Quiet, Holding
<1>4. ASSUME NEW from \in {"CREATE", "RENAME", "close_unlock"},
             NEW to \in {"add_producer", "recv", "close_count"}, UnlockCreation(from, to)
      PROVE  \/ Throw("out_of_range")
             \/ /\ Unlocks(hreq.path) /\ hpc \notin Holding /\ hpc' \notin Holding
                /\ UNCHANGED <<waitD, monitorVars>>
  <2>1. hpc = from /\ hreq.op \notin Blocking /\ hreq.path \in Path
    BY <1>0, <1>4 DEF UnlockCreation, OpsAt, RequestCodes, Blocking, Request
  <2> QED
    BY <1>4, <2>1 DEF UnlockCreation, Unlocks, HandsKept, Return, Continue, Holding
<1>5. CASE read_next_request
  <2>1. reqs \in Seq(Request) /\ reqs # <<>>
    BY <1>5 DEF Base, TypeOK, ServerTypes, read_next_request
  <2>2. Head(reqs).op \in RequestCodes
    BY <2>1 DEF Request, RequestCodes
  <2> QED
    BY <1>5, <2>2 DEF read_next_request, RequestCodes, Holding
<1>6. CASE handshake_handler \/ addProducer \/ exit_handler \/ CloseCountRead \/ CloseCountWrite
  <2>1. hpc # "recv" /\ hpc \notin Holding /\ hreq.op \notin Blocking
    BY <1>0, <1>6 DEF handshake_handler, addProducer, exit_handler, CloseCountRead,
       CloseCountWrite, OpsAt, RequestCodes, Blocking, Holding
  <2> QED
    BY <1>6, <2>1 DEF handshake_handler, addProducer, exit_handler, CloseCountRead,
       CloseCountWrite, Quiet, Return, Holding
<1>7. CASE create_handler \/ rename_handler \/ CloseUnlock
  BY <1>4, <1>7 DEF create_handler, rename_handler, CloseUnlock
<1>8. CASE OpenWait
  BY <1>8 DEF OpenWait, Return, Holding
<1>9. CASE open_handler
  <2>1. hpc = "OPEN" /\ hreq.op \in Blocking /\ 1 \in Int /\ hpc \notin Holding /\ hpc # "recv"
    BY <1>0, <1>9 DEF open_handler, OpsAt, RequestCodes, Blocking, Holding
  <2>2. \/ Throw("out_of_range") \/ Answer(1) \/ Move(Continue("open_wait"))
    BY <1>9 DEF open_handler
  <2>3. "open_wait" \in HandlerLabels \ ({"recv"} \cup Holding)
    BY DEF HandlerLabels, Holding
  <2> QED
    BY <2>1, <2>2, <2>3, <1>1, <1>2
<1>10. CASE consent_to_proceed_handler \/ ConsentCommitted
  <2>1. hpc \notin Holding /\ hpc # "recv" /\ hreq.op \in Blocking /\ 1 \in Int
    BY <1>0, <1>10 DEF consent_to_proceed_handler, ConsentCommitted, OpsAt, RequestCodes, Blocking,
       Holding
  <2>2. Exists(hreq.path) \in BOOLEAN
    BY DEF Exists
  <2>3. \/ Throw("out_of_range") \/ Answer(1) \/ Move(Continue("data_wait"))
        \/ Move(Remember(Exists(hreq.path), "consent_committed"))
    BY <1>10 DEF consent_to_proceed_handler, ConsentCommitted
  <2>4. {"data_wait", "consent_committed"} \subseteq HandlerLabels \ ({"recv"} \cup Holding)
    BY DEF HandlerLabels, Holding
  <2> QED
    BY <2>1, <2>2, <2>3, <2>4, <1>1, <1>2
<1>11. CASE read_handler \/ ReadExists
  <2>1. hpc \notin Holding /\ hpc # "recv" /\ hreq.op \in Blocking /\ 1 \in Int
    BY <1>0, <1>11 DEF read_handler, ReadExists, OpsAt, RequestCodes, Blocking, Holding
  <2>2. isCommitted(hreq.path) \in BOOLEAN
    BY DEF isCommitted
  <2>3. \/ Answer(1) \/ Move(Remember(isCommitted(hreq.path), "read_exists"))
        \/ Move(Continue("read_size")) \/ Move(Continue("read_absent"))
    BY <1>11 DEF read_handler, ReadExists
  <2>4. {"read_exists", "read_size", "read_absent"} \subseteq HandlerLabels \ ({"recv"} \cup Holding)
    BY DEF HandlerLabels, Holding
  <2> QED
    BY <2>1, <2>2, <2>3, <2>4, <1>1, <1>2
<1>12. CASE ReadSize
  <2> DEFINE size == IF hpc = "read_size" THEN get_file_size_if_exists(hreq.path) ELSE 0
  <2>1. hpc \in {"read_size", "read_absent"} /\ hreq.op = "READ" /\ hreq.path \in Path
    BY <1>0, <1>12 DEF ReadSize, OpsAt, RequestCodes, Request
  <2>2. (IF hflag THEN ULLONG_MAX ELSE size) \in Int
    BY <2>1, SizeType DEF ULLONG_MAX
  <2>3. \/ Throw("filesystem_error") \/ Throw("out_of_range")
        \/ Answer(IF hflag THEN ULLONG_MAX ELSE size) \/ Move(Continue("data_wait"))
    BY <1>12 DEF ReadSize
  <2>4. /\ "data_wait" \in HandlerLabels \ ({"recv"} \cup Holding)
        /\ hpc \notin Holding /\ hpc # "recv" /\ hreq.op \in Blocking
    BY <2>1 DEF HandlerLabels, Holding, Blocking
  <2> HIDE DEF size
  <2> QED
    BY <2>2, <2>3, <2>4, <1>1, <1>2
<1>13. CASE write_handler
  <2>1. hpc = "WRITE" /\ hpc \notin Holding /\ hpc # "recv" /\ hreq.op \notin Blocking
        /\ "lock" \in HandlerLabels \ ({"recv"} \cup Holding)
    BY <1>0, <1>13 DEF write_handler, OpsAt, RequestCodes, Blocking, Holding, HandlerLabels
  <2>2. Move(Continue("lock")) \/ Move(Return)
    BY <1>13 DEF write_handler
  <2> QED
    BY <2>1, <2>2, <1>2, <1>3
<1>14. CASE close_handler
  <2>1. hpc = "CLOSE" /\ hpc \notin Holding /\ hpc # "recv" /\ hreq.op \notin Blocking
    BY <1>0, <1>14 DEF close_handler, OpsAt, RequestCodes, Blocking, Holding
  <2>2. CASE /\ token' = [token EXCEPT ![hreq.path] = IF @ = -1 THEN 0 ELSE @]
             /\ Continue("lock")
             /\ UNCHANGED <<clVars, reqs, resp, cmVars, server, waitC, waitD, handlerOther>>
    BY <2>1, <2>2 DEF Continue, Quiet, Holding
  <2>3. \/ Throw("out_of_range") \/ Move(Return)
        \/ /\ token' = [token EXCEPT ![hreq.path] = IF @ = -1 THEN 0 ELSE @]
           /\ Continue("lock")
           /\ UNCHANGED <<clVars, reqs, resp, cmVars, server, waitC, waitD, handlerOther>>
    BY <1>14 DEF close_handler
  <2> QED
    BY <2>1, <2>2, <2>3, <1>3
<1>15. CASE HandlerLock \/ \E t \in Tid : HandlerStat(t)
  BY <1>15 DEF HandlerLock, HandlerStat, Move, Quiet
<1>16. CASE HandlerRelease
  <2>1. hpc = "check" /\ hreq.op \notin Blocking
    BY <1>0, <1>16 DEF HandlerRelease, OpsAt, RequestCodes, Blocking
  <2> QED
    BY <1>16, <2>1 DEF HandlerRelease, Move, Quiet, Continue, Return
<1>17. CASE HandlerCheck
  <2>1. hpc = "stat" /\ hreq.op \notin Blocking
    BY <1>0, <1>17 DEF HandlerCheck, OpsAt, RequestCodes, Blocking
  <2> QED
    BY <1>0, <1>17, <2>1 DEF HandlerCheck, Checks, HandsKept
<1> QED
  BY <1>5, <1>6, <1>7, <1>8, <1>9, <1>10, <1>11, <1>12, <1>13, <1>14, <1>15, <1>16, <1>17 DEF Handler

\* The steps of the monitor, by effect.
LEMMA MonitorEffects ==
  ASSUME Base, Monitor
  PROVE  \/ \E e \in {"out_of_range", "filesystem_error"} : Throw(e)
         \/ /\ Quiet \/ Unlocks(mpath) \/ MonitorDelete
            /\ mpc \notin Holding /\ mpc' \notin Holding
            /\ UNCHANGED <<waitD, handlerVars>>
         \/ Quiet /\ MonitorLock
         \/ Quiet /\ \E t \in Tid : MonitorStat(t)
         \/ Checks(mpath, mtid) /\ MonitorCheck /\ mpc' = "check"
            /\ UNCHANGED <<mpath, mtodo, handlerVars>>
         \/ Quiet /\ MonitorRelease
<1> USE DEF monitorOther, clientVars, handlerVars, Holding
<1>1. CASE \/ MonitorCreationList \/ MonitorDataList
           \/ \E p \in Path : MonitorCreation(p) \/ MonitorData(p)
  BY <1>1 DEF MonitorCreationList, MonitorDataList, MonitorCreation, MonitorData, Quiet
<1>2. CASE MonitorUnlock
  BY <1>2 DEF MonitorUnlock, Unlocks, HandsKept, Base, MonitorPlace
<1>3. CASE MonitorDelete
  BY <1>3 DEF MonitorDelete
<1>4. CASE MonitorLock \/ (\E t \in Tid : MonitorStat(t)) \/ MonitorRelease
  BY <1>4 DEF MonitorLock, MonitorStat, MonitorRelease, Quiet
<1>5. CASE MonitorCheck
  <2>1. mflag \in BOOLEAN
    BY DEF Base, TypeOK, MonitorTypes
  <2> QED
    BY <1>5, <2>1 DEF MonitorCheck, Checks, HandsKept
<1> QED
  BY <1>1, <1>2, <1>3, <1>4, <1>5 DEF Monitor

-----------------------------------------------------------------------------
(* data_mutex.                                                             *)

\* The part of DataMutexHeldOnce about one of the server's threads: its label,
\* its path, the waiters it has still to visit and the one it looks at.
Visits(l, p, todo, u) ==
  /\ l \in Holding => \A t \in todo : waitD[p][t] # -1
  /\ l = "stat" => u \in Tid \ todo /\ waitD[p][u] # -1

\* While a server thread walks the waiters of a path, the table is its own:
\* the other thread can neither remove a waiter nor start a walk.
LEMMA MutexKept ==
  ASSUME Base, DataMutexHeldOnce, Next
  PROVE  DataMutexHeldOnce'
<1> USE DEF Holding
<1>1. /\ ~(hpc \in Holding /\ mpc \in Holding)
      /\ Visits(hpc, hreq.path, htodo, htid) /\ Visits(mpc, mpath, mtodo, mtid)
  BY DEF DataMutexHeldOnce, Visits
<1>2. SUFFICES /\ ~(hpc' \in Holding /\ mpc' \in Holding)
               /\ Visits(hpc, hreq.path, htodo, htid)' /\ Visits(mpc, mpath, mtodo, mtid)'
  BY DEF DataMutexHeldOnce, Visits
<1>3. waitD \in [Path -> [Tid -> Nat \cup {-1}]] /\ htodo \subseteq Tid /\ mtodo \subseteq Tid
  BY DEF Base, TypeOK, ServerTypes, HandlerTypes, MonitorTypes
<1>4. ASSUME UNCHANGED <<waitD, handlerVars>>
      PROVE  Visits(hpc, hreq.path, htodo, htid)' <=> Visits(hpc, hreq.path, htodo, htid)
  BY <1>4 DEF Visits, handlerVars
<1>5. ASSUME UNCHANGED <<waitD, monitorVars>>
      PROVE  Visits(mpc, mpath, mtodo, mtid)' <=> Visits(mpc, mpath, mtodo, mtid)
  BY <1>5 DEF Visits, monitorVars
<1>6. ASSUME UNCHANGED <<waitD, handlerVars, monitorVars>> PROVE <1>2!1
  BY <1>1, <1>4, <1>5, <1>6 DEF handlerVars, monitorVars
<1>7. ASSUME NEW t \in Tid, Client(t) PROVE <1>2!1
  <2>1. UNCHANGED clientOther
    BY <1>7 DEF Client, Begin, Send, Resume, Kernel, Kill
  <2> QED
    BY <1>6, <2>1 DEF clientOther
<1>8. ASSUME NEW e, Throw(e) PROVE <1>2!1
  BY <1>6, <1>8 DEF Throw
<1>9. ASSUME Handler PROVE <1>2!1
  <2>1. CASE hpc \notin Holding /\ hpc' \notin Holding /\ UNCHANGED <<waitD, monitorVars>>
    BY <1>1, <1>5, <2>1 DEF Visits
  <2>2. CASE DataWait
    BY <2>2 DEF DataWait, addThreadAwaitingData, DataMutexFree, Return, handlerOther, monitorVars,
       Visits
  <2>3. CASE HandlerLock
    <3>1. /\ mpc' \notin Holding /\ waitD' = waitD /\ hreq' = hreq
          /\ htodo' = WaitersOn(hreq.path) /\ hpc' = "check"
      BY <2>3 DEF HandlerLock, Move, DataMutexFree, handlerOther, monitorVars
    <3> QED
      BY <3>1 DEF Visits, WaitersOn
  <2>4. CASE \E t \in Tid : HandlerStat(t)
    <3>1. PICK t \in Tid : HandlerStat(t)
      BY <2>4
    <3>2. /\ UNCHANGED <<waitD, monitorVars>> /\ hpc = "check" /\ hpc' = "stat" /\ hreq' = hreq
          /\ t \in htodo /\ htodo' = htodo \ {t} /\ htid' = t
      BY <3>1 DEF HandlerStat, Move, handlerOther
    <3> QED
      BY <1>1, <1>5, <3>2 DEF Visits, monitorVars
  <2>5. CASE Checks(hreq.path, htid) /\ HandlerCheck /\ hpc' = "check"
             /\ UNCHANGED <<hreq, htodo, monitorVars>>
    <3>1. hpc = "stat" /\ mpc' \notin Holding /\ htid \in Tid \ htodo
      BY <1>1, <2>5 DEF HandlerCheck, Visits, monitorVars
    <3>2. hreq.path \in Path
      BY <3>1 DEF Base, HandlerPlace, OpsAt, RequestCodes, Request
    <3>3. waitD' = waitD \/ waitD' = [waitD EXCEPT ![hreq.path][htid] = -1]
      BY <2>5 DEF Checks, CheckWaiter
    <3>4. \A t \in htodo : waitD'[hreq.path][t] = waitD[hreq.path][t]
      BY <1>3, <3>1, <3>2, <3>3
    <3> QED
      BY <1>1, <2>5, <3>1, <3>4 DEF Visits
  <2>6. CASE HandlerRelease
    <3>1. UNCHANGED <<waitD, monitorVars>> /\ hpc' \notin Holding
      BY <2>6 DEF HandlerRelease, Move, handlerOther, Continue, Return
    <3> QED
      BY <1>1, <1>5, <3>1 DEF Visits
  <2> QED
    BY <1>8, <1>9, <2>1, <2>2, <2>3, <2>4, <2>5, <2>6, HandlerEffects
<1>10. ASSUME Monitor PROVE <1>2!1
  <2>1. CASE mpc \notin Holding /\ mpc' \notin Holding /\ UNCHANGED <<waitD, handlerVars>>
    BY <1>1, <1>4, <2>1 DEF Visits
  <2>2. CASE MonitorLock
    <3>1. /\ hpc' \notin Holding /\ waitD' = waitD /\ mpath' = mpath
          /\ mtodo' = WaitersOn(mpath) /\ mpc' = "check"
      BY <2>2 DEF MonitorLock, DataMutexFree, monitorOther, handlerVars
    <3> QED
      BY <3>1 DEF Visits, WaitersOn
  <2>3. CASE \E t \in Tid : MonitorStat(t)
    <3>1. PICK t \in Tid : MonitorStat(t)
      BY <2>3
    <3>2. /\ UNCHANGED <<waitD, handlerVars>> /\ mpc = "check" /\ mpc' = "stat" /\ mpath' = mpath
          /\ t \in mtodo /\ mtodo' = mtodo \ {t} /\ mtid' = t
      BY <3>1 DEF MonitorStat, monitorOther
    <3> QED
      BY <1>1, <1>4, <3>2 DEF Visits, handlerVars
  <2>4. CASE Checks(mpath, mtid) /\ MonitorCheck /\ mpc' = "check"
             /\ UNCHANGED <<mpath, mtodo, handlerVars>>
    <3>1. mpc = "stat" /\ hpc' \notin Holding /\ mtid \in Tid \ mtodo
      BY <1>1, <2>4 DEF MonitorCheck, Visits, handlerVars
    <3>2. mpath \in Path
      BY <3>1 DEF Base, MonitorPlace
    <3>3. waitD' = waitD \/ waitD' = [waitD EXCEPT ![mpath][mtid] = -1]
      BY <2>4 DEF Checks, CheckWaiter
    <3>4. \A t \in mtodo : waitD'[mpath][t] = waitD[mpath][t]
      BY <1>3, <3>1, <3>2, <3>3
    <3> QED
      BY <1>1, <2>4, <3>1, <3>4 DEF Visits
  <2>5. CASE MonitorRelease
    <3>1. UNCHANGED <<waitD, handlerVars>> /\ mpc' \notin Holding
      BY <2>5 DEF MonitorRelease, monitorOther
    <3> QED
      BY <1>1, <1>4, <3>1 DEF Visits
  <2> QED
    BY <1>8, <1>10, <2>1, <2>2, <2>3, <2>4, <2>5, MonitorEffects
<1> QED
  BY <1>7, <1>9, <1>10 DEF Next

-----------------------------------------------------------------------------
(* The call of one thread, effect by effect.                               *)

\* Nothing about a call moves.
LEMMA QuietKeeps ==
  ASSUME Base, NEW t \in Tid, ThreadInv(t), Quiet
  PROVE  ThreadInv(t)'
<1>1. /\ InQueue(t)' <=> InQueue(t)
      /\ AwaitsCreation(t)' <=> AwaitsCreation(t)
      /\ AwaitsData(t)' <=> AwaitsData(t)
      /\ Answered(t)' <=> Answered(t)
  BY DEF Quiet, InQueue, AwaitsCreation, AwaitsData, Answered
<1>2. /\ InHand(t)' <=> InHand(t)
      /\ InHand(t)' => hreq' = hreq
  BY DEF Quiet, InHand, BlocksFor
<1>3. OutShape(t)'
  BY DEF Quiet, ThreadInv, OutShape
<1>4. OnePlace(t)'
  BY <1>1, <1>2 DEF Quiet, ThreadInv, OnePlace, Outstanding
<1>5. RequestIsCall(t)'
  BY <1>2 DEF Quiet, ThreadInv, RequestIsCall
<1>6. Kept(t)'
  BY <1>1, <1>2 DEF Quiet, ThreadInv, Kept
<1> QED
  BY <1>3, <1>4, <1>5, <1>6 DEF ThreadInv

\* An exception of the server moves nothing either.
LEMMA ThrowKeeps ==
  ASSUME Base, NEW t \in Tid, ThreadInv(t), NEW e, Throw(e)
  PROVE  ThreadInv(t)'
<1>1. Quiet
  BY DEF Throw, Quiet, clientVars, handlerVars
<1> QED
  BY <1>1, QuietKeeps

\* The answer goes to the thread whose call the handler holds: from the hands
\* of the handler, where it was alone, to the response queue.
LEMMA AnswersKeeps ==
  ASSUME Base, NEW t \in Tid, ThreadInv(t), Answers
  PROVE  ThreadInv(t)'
<1>1. PICK v \in Int : reply_to_clients({hreq.tid}, v)
  BY DEF Answers
<1>2. /\ InQueue(t)' <=> InQueue(t)
      /\ AwaitsCreation(t)' <=> AwaitsCreation(t)
      /\ AwaitsData(t)' <=> AwaitsData(t)
      /\ ~InHand(t)'
  BY DEF Answers, InQueue, AwaitsCreation, AwaitsData, InHand
<1>3. InHand(t) <=> hreq.tid = t
  BY DEF Answers, InHand, BlocksFor
<1>4. resp \in [Tid -> Seq(Int)]
  BY DEF Base, TypeOK, ServerTypes
<1>5. resp'[t] = IF InHand(t) THEN Append(resp[t], v) ELSE resp[t]
  BY <1>1, <1>3 DEF reply_to_clients
<1>6. /\ Answered(t)' <=> Answered(t) \/ InHand(t)
      /\ Len(resp'[t]) <= 1
  <2>1. CASE InHand(t)
    <3>1. resp[t] = <<>>
      BY <2>1 DEF ThreadInv, OnePlace, Answered
    <3>2. resp'[t] = <<v>>
      BY <1>5, <2>1, <3>1
    <3> QED
      BY <2>1, <3>2 DEF Answered
  <2>2. CASE ~InHand(t)
    BY <1>5, <2>2 DEF ThreadInv, OnePlace, Answered
  <2> QED
    BY <2>1, <2>2
<1>7. OutShape(t)'
  BY DEF Answers, ThreadInv, OutShape
<1>8. OnePlace(t)'
  BY <1>2, <1>6 DEF Answers, ThreadInv, OnePlace, Outstanding
<1>9. RequestIsCall(t)'
  BY <1>2 DEF Answers, ThreadInv, RequestIsCall
<1>10. Kept(t)'
  BY <1>2, <1>6 DEF Answers, ThreadInv, Kept
<1> QED
  BY <1>7, <1>8, <1>9, <1>10 DEF ThreadInv

\* The next request: a call moves from the queue to the hands of the handler.
LEMMA ReadMoves ==
  ASSUME Base, NEW t \in Tid, read_next_request
  PROVE  /\ AwaitsCreation(t)' <=> AwaitsCreation(t)
         /\ AwaitsData(t)' <=> AwaitsData(t)
         /\ Answered(t)' <=> Answered(t)
         /\ ~InHand(t)
         /\ InHand(t)' <=> BlocksFor(reqs[1], t)
         /\ InQueue(t)' \/ InHand(t)' <=> InQueue(t)
<1>1. /\ reqs \in Seq(Request) /\ reqs # <<>> /\ reqs' = Tail(reqs) /\ hreq' = reqs[1]
      /\ hpc = "recv" /\ hpc' = Head(reqs).op /\ UNCHANGED <<resp, waitC, waitD, pc, call, out>>
  BY DEF Base, TypeOK, ServerTypes, read_next_request, handlerOther, clientVars
<1>2. hpc' # "recv"
  <2>1. Head(reqs) \in Request
    BY <1>1
  <2> QED
    BY <1>1, <2>1 DEF Request, RequestCodes
<1>3. /\ Len(reqs') = Len(reqs) - 1 /\ Len(reqs) \in Nat \ {0}
      /\ \A i \in 1 .. Len(reqs') : i + 1 \in 1 .. Len(reqs) /\ reqs'[i] = reqs[i + 1]
  BY <1>1
<1>4. /\ AwaitsCreation(t)' <=> AwaitsCreation(t)
      /\ AwaitsData(t)' <=> AwaitsData(t)
      /\ Answered(t)' <=> Answered(t)
      /\ ~InHand(t)
  BY <1>1 DEF AwaitsCreation, AwaitsData, Answered, InHand
<1>5. InHand(t)' <=> BlocksFor(reqs[1], t)
  BY <1>1, <1>2 DEF InHand, BlocksFor
<1>6. InQueue(t)' \/ InHand(t)' <=> InQueue(t)
  <2>1. InQueue(t)' => InQueue(t)
    BY <1>3 DEF InQueue, BlocksFor
  <2>2. InHand(t)' => InQueue(t)
    BY <1>3, <1>5 DEF InQueue
  <2>3. ASSUME InQueue(t) PROVE InQueue(t)' \/ InHand(t)'
    <3>1. PICK i \in 1 .. Len(reqs) : BlocksFor(reqs[i], t)
      BY <2>3 DEF InQueue
    <3>2. CASE i = 1
      BY <1>5, <3>1, <3>2
    <3>3. CASE i # 1
      <4>1. i - 1 \in 1 .. Len(reqs') /\ reqs'[i - 1] = reqs[i]
        BY <1>3, <3>3
      <4> QED
        BY <3>1, <4>1 DEF InQueue, BlocksFor
    <3> QED
      BY <3>2, <3>3
  <2> QED
    BY <2>1, <2>2, <2>3
<1> QED
  BY <1>4, <1>5, <1>6

\* In the queue it was once, and it is not there any more.
LEMMA ReadKeeps ==
  ASSUME Base, NEW t \in Tid, ThreadInv(t), read_next_request
  PROVE  ThreadInv(t)'
<1>1. /\ reqs \in Seq(Request) /\ reqs # <<>> /\ reqs' = Tail(reqs) /\ hreq' = reqs[1]
      /\ hpc = "recv" /\ hpc' = Head(reqs).op /\ UNCHANGED <<resp, waitC, waitD, pc, call, out>>
  BY DEF Base, TypeOK, ServerTypes, read_next_request, handlerOther, clientVars
<1>3. /\ Len(reqs') = Len(reqs) - 1 /\ Len(reqs) \in Nat \ {0}
      /\ \A i \in 1 .. Len(reqs') : i + 1 \in 1 .. Len(reqs) /\ reqs'[i] = reqs[i + 1]
  BY <1>1
<1>4. /\ AwaitsCreation(t)' <=> AwaitsCreation(t)
      /\ AwaitsData(t)' <=> AwaitsData(t)
      /\ Answered(t)' <=> Answered(t)
      /\ ~InHand(t)
  BY ReadMoves
<1>5. InHand(t)' <=> BlocksFor(reqs[1], t)
  BY ReadMoves
<1>6. InQueue(t)' \/ InHand(t)' <=> InQueue(t)
  BY ReadMoves
<1>7. ~(InQueue(t)' /\ InHand(t)')
  <2>1. SUFFICES ASSUME NEW i \in 1 .. Len(reqs'), BlocksFor(reqs'[i], t), BlocksFor(reqs[1], t)
                 PROVE  FALSE
    BY <1>5 DEF InQueue, BlocksFor
  <2>2. i + 1 \in 1 .. Len(reqs) /\ 1 \in 1 .. Len(reqs) /\ BlocksFor(reqs[i + 1], t)
    BY <1>3, <2>1
  <2>3. i + 1 = 1
    BY <2>1, <2>2 DEF ThreadInv, OnePlace
  <2> QED
    BY <2>3
<1>8. \A i, j \in 1 .. Len(reqs') : BlocksFor(reqs'[i], t) /\ BlocksFor(reqs'[j], t) => i = j
  <2>1. SUFFICES ASSUME NEW i \in 1 .. Len(reqs'), NEW j \in 1 .. Len(reqs'),
                        BlocksFor(reqs'[i], t), BlocksFor(reqs'[j], t)
                 PROVE  i = j
    OBVIOUS
  <2>2. i + 1 = j + 1
    BY <1>3, <2>1 DEF ThreadInv, OnePlace
  <2> QED
    BY <2>2
<1>9. OutShape(t)'
  BY <1>1 DEF ThreadInv, OutShape
<1>10. OnePlace(t)'
  BY <1>1, <1>4, <1>6, <1>7, <1>8 DEF ThreadInv, OnePlace, Outstanding, BlocksFor
<1>11. RequestIsCall(t)'
  BY <1>1, <1>3, <1>5 DEF ThreadInv, RequestIsCall, BlocksFor, AsksFor
<1>12. Kept(t)'
  BY <1>1, <1>4, <1>6 DEF ThreadInv, Kept
<1> QED
  BY <1>9, <1>10, <1>11, <1>12 DEF ThreadInv

\* addThreadAwaitingCreation: from the handler to the first table.
LEMMA OpenWaitKeeps ==
  ASSUME Base, NEW t \in Tid, ThreadInv(t), OpenWait
  PROVE  ThreadInv(t)'
<1>1. hpc = "open_wait" /\ hreq.op = "OPEN" /\ hreq.path \in Path
  BY DEF OpenWait, Base, HandlerPlace, OpsAt, RequestCodes, Request
<1>2. /\ waitC \in [Path -> SUBSET Tid] /\ waitC' = [waitC EXCEPT ![hreq.path] = @ \cup {hreq.tid}]
      /\ hpc' = "recv" /\ UNCHANGED <<reqs, resp, waitD, pc, call, out>>
  BY DEF OpenWait, addThreadAwaitingCreation, Base, TypeOK, ServerTypes, Return, handlerOther,
         clientVars
<1>3. InHand(t) <=> hreq.tid = t
  BY <1>1 DEF InHand, BlocksFor, Blocking
<1>4. \A p \in Path : t \in waitC'[p] <=> t \in waitC[p] \/ (InHand(t) /\ p = hreq.path)
  BY <1>1, <1>2, <1>3
<1>5. /\ InQueue(t)' <=> InQueue(t)
      /\ AwaitsCreation(t)' <=> AwaitsCreation(t) \/ InHand(t)
      /\ AwaitsData(t)' <=> AwaitsData(t)
      /\ Answered(t)' <=> Answered(t)
      /\ ~InHand(t)'
  BY <1>1, <1>2, <1>4 DEF InQueue, AwaitsCreation, AwaitsData, Answered, InHand
<1>6. \A p, q \in Path : t \in waitC'[p] /\ t \in waitC'[q] => p = q
  BY <1>4 DEF ThreadInv, OnePlace, AwaitsCreation
<1>7. OutShape(t)'
  BY <1>2 DEF ThreadInv, OutShape
<1>8. OnePlace(t)'
  BY <1>2, <1>5, <1>6 DEF ThreadInv, OnePlace, Outstanding
<1>9. RequestIsCall(t)'
  BY <1>2, <1>5 DEF ThreadInv, RequestIsCall
<1>10. Kept(t)'
  BY <1>1, <1>2, <1>5 DEF ThreadInv, Kept, RequestIsCall, AsksFor, DataCalls
<1> QED
  BY <1>7, <1>8, <1>9, <1>10 DEF ThreadInv

\* addThreadAwaitingData: from the handler to the second table, under the path
\* the call is about.
LEMMA DataWaitKeeps ==
  ASSUME Base, NEW t \in Tid, ThreadInv(t), DataWait
  PROVE  ThreadInv(t)'
<1>1. /\ hpc = "data_wait" /\ hreq.op \in {"READ", "CONSENT"} /\ hreq.path \in Path
      /\ hreq.tid \in Tid /\ hreq.n \in Nat
  BY DEF DataWait, Base, HandlerPlace, OpsAt, RequestCodes, Request
<1>2. /\ waitD \in [Path -> [Tid -> Nat \cup {-1}]]
      /\ waitD' = [waitD EXCEPT ![hreq.path][hreq.tid] = IF @ = -1 THEN hreq.n ELSE @]
      /\ hpc' = "recv" /\ UNCHANGED <<reqs, resp, waitC, pc, call, out>>
  BY DEF DataWait, addThreadAwaitingData, Base, TypeOK, ServerTypes, Return, handlerOther,
         clientVars
<1>3. InHand(t) <=> hreq.tid = t
  BY <1>1 DEF InHand, BlocksFor, Blocking
<1>4. \A p \in Path : waitD'[p][t] # -1 <=> waitD[p][t] # -1 \/ (InHand(t) /\ p = hreq.path)
  BY <1>1, <1>2, <1>3
<1>5. /\ InQueue(t)' <=> InQueue(t)
      /\ AwaitsCreation(t)' <=> AwaitsCreation(t)
      /\ AwaitsData(t)' <=> AwaitsData(t) \/ InHand(t)
      /\ Answered(t)' <=> Answered(t)
      /\ ~InHand(t)'
  BY <1>1, <1>2, <1>4 DEF InQueue, AwaitsCreation, AwaitsData, Answered, InHand
<1>6. \A p, q \in Path : waitD'[p][t] # -1 /\ waitD'[q][t] # -1 => p = q
  BY <1>4 DEF ThreadInv, OnePlace, AwaitsData
<1>7. OutShape(t)'
  BY <1>2 DEF ThreadInv, OutShape
<1>8. OnePlace(t)'
  BY <1>2, <1>5, <1>6 DEF ThreadInv, OnePlace, Outstanding
<1>9. RequestIsCall(t)'
  BY <1>2, <1>5 DEF ThreadInv, RequestIsCall
<1>10. Kept(t)'
  <2>1. SUFFICES ASSUME pc[t] = "wait", call[t].op \in DataCalls, ~InQueue(t), ~Answered(t)
                 PROVE  waitD'[call[t].path][t] # -1
    BY <1>2, <1>5 DEF Kept
  <2>2. call[t].path \in Path
    <3>1. call[t] \in Calls[t] \cup {NoCall}
      BY DEF Base, TypeOK, CallTypes
    <3> QED
      BY <2>1, <3>1, ClientAssumption DEF NoCall, DataCalls
  <2>3. InHand(t) => hreq.path = call[t].path
    BY <2>1 DEF ThreadInv, RequestIsCall, AsksFor
  <2> QED
    BY <1>4, <2>1, <2>2, <2>3 DEF ThreadInv, Kept
<1> QED
  BY <1>7, <1>8, <1>9, <1>10 DEF ThreadInv

\* What HandsKept says of one thread's call.
LEMMA HandsKeptMeans ==
  ASSUME HandsKept, NEW t \in Tid
  PROVE  /\ InHand(t)' <=> InHand(t)
         /\ InHand(t)' => hreq' = hreq
  BY DEF HandsKept, InHand, BlocksFor

\* unlockThreadAwaitingCreation: from the first table, erased, to the answers.
LEMMA UnlocksKeeps ==
  ASSUME Base, NEW t \in Tid, ThreadInv(t), NEW p \in Path, Unlocks(p)
  PROVE  ThreadInv(t)'
<1>1. /\ waitC \in [Path -> SUBSET Tid] /\ waitC' = [waitC EXCEPT ![p] = {}]
      /\ resp \in [Tid -> Seq(Int)]
      /\ resp'[t] = IF t \in waitC[p] THEN Append(resp[t], 1) ELSE resp[t]
      /\ UNCHANGED <<reqs, waitD, pc, call, out>>
  BY DEF Unlocks, unlockThreadAwaitingCreation, reply_to_clients, Base, TypeOK, ServerTypes
<1>2. InHand(t)' <=> InHand(t)
  BY HandsKeptMeans DEF Unlocks
<1>3. InHand(t)' => hreq' = hreq
  BY HandsKeptMeans DEF Unlocks
<1>4. \A q \in Path : t \in waitC'[q] <=> t \in waitC[q] /\ q # p
  BY <1>1
<1>5. /\ Answered(t)' <=> Answered(t) \/ t \in waitC[p]
      /\ Len(resp'[t]) <= 1
  <2>1. CASE t \in waitC[p]
    <3>1. resp[t] = <<>>
      BY <2>1 DEF ThreadInv, OnePlace, Answered, AwaitsCreation
    <3>2. resp'[t] = <<1>>
      BY <1>1, <2>1, <3>1
    <3> QED
      BY <2>1, <3>2 DEF Answered
  <2>2. CASE t \notin waitC[p]
    BY <1>1, <2>2 DEF ThreadInv, OnePlace, Answered
  <2> QED
    BY <2>1, <2>2
<1>6. /\ InQueue(t)' <=> InQueue(t)
      /\ AwaitsCreation(t)' <=> AwaitsCreation(t) /\ t \notin waitC[p]
      /\ AwaitsData(t)' <=> AwaitsData(t)
  <2>1. AwaitsCreation(t)' <=> AwaitsCreation(t) /\ t \notin waitC[p]
    BY <1>4 DEF AwaitsCreation, ThreadInv, OnePlace
  <2> QED
    BY <1>1, <2>1 DEF InQueue, AwaitsData
<1>7. t \in waitC[p] => AwaitsCreation(t)
  BY DEF AwaitsCreation
<1>8. OutShape(t)'
  BY <1>1 DEF ThreadInv, OutShape
<1>9. OnePlace(t)'
  BY <1>1, <1>2, <1>4, <1>5, <1>6, <1>7 DEF ThreadInv, OnePlace, Outstanding
<1>10. RequestIsCall(t)'
  BY <1>1, <1>2, <1>3 DEF ThreadInv, RequestIsCall
<1>11. Kept(t)'
  BY <1>1, <1>2, <1>5, <1>6 DEF ThreadInv, Kept
<1> QED
  BY <1>8, <1>9, <1>10, <1>11 DEF ThreadInv

\* deleteFileAwaitingCreation: an open that came in between is dropped from
\* the table, and nothing else changes (see CreationReleases).
LEMMA DeleteKeeps ==
  ASSUME Base, NEW t \in Tid, ThreadInv(t), MonitorDelete
  PROVE  ThreadInv(t)'
<1>1. /\ mpath \in Path /\ waitC \in [Path -> SUBSET Tid] /\ waitC' = [waitC EXCEPT ![mpath] = {}]
      /\ UNCHANGED <<reqs, resp, waitD, pc, call, out, hpc, hreq>>
  BY DEF MonitorDelete, deleteFileAwaitingCreation, Base, MonitorPlace, TypeOK, ServerTypes,
         monitorOther, clientVars, handlerVars
<1>2. \A q \in Path : t \in waitC'[q] => t \in waitC[q]
  BY <1>1
<1>3. /\ InQueue(t)' <=> InQueue(t)
      /\ InHand(t)' <=> InHand(t)
      /\ AwaitsCreation(t)' => AwaitsCreation(t)
      /\ AwaitsData(t)' <=> AwaitsData(t)
      /\ Answered(t)' <=> Answered(t)
  BY <1>1, <1>2 DEF InQueue, InHand, AwaitsCreation, AwaitsData, Answered
<1>4. OutShape(t)'
  BY <1>1 DEF ThreadInv, OutShape
<1>5. OnePlace(t)'
  BY <1>1, <1>2, <1>3 DEF ThreadInv, OnePlace, Outstanding
<1>6. RequestIsCall(t)'
  BY <1>1, <1>3 DEF ThreadInv, RequestIsCall
<1>7. Kept(t)'
  BY <1>1, <1>3 DEF ThreadInv, Kept
<1> QED
  BY <1>4, <1>5, <1>6, <1>7 DEF ThreadInv

\* checkAndUnlockThreadAwaitingData, one waiter: it stays, or it is erased from
\* the second table and answered.
LEMMA ChecksKeeps ==
  ASSUME Base, NEW t \in Tid, ThreadInv(t), NEW p \in Path, NEW u \in Tid, waitD[p][u] # -1,
         Checks(p, u)
  PROVE  ThreadInv(t)'
<1>1. PICK b \in BOOLEAN : CheckWaiter(b, p, u)
  BY DEF Checks
<1>2. CASE UNCHANGED <<resp, waitD>>
  <2>1. Quiet
    BY <1>2 DEF Checks, Quiet, HandsKept
  <2> QED
    BY <2>1, QuietKeeps
<1>3. CASE reply_to_clients({u}, ReplyValue(p)) /\ waitD' = [waitD EXCEPT ![p][u] = -1]
  <2>1. /\ waitD \in [Path -> [Tid -> Nat \cup {-1}]]
        /\ resp \in [Tid -> Seq(Int)] /\ ReplyValue(p) \in Int
        /\ resp'[t] = IF t = u THEN Append(resp[t], ReplyValue(p)) ELSE resp[t]
        /\ UNCHANGED <<reqs, waitC, pc, call, out>>
    BY <1>3, SizeType DEF Checks, reply_to_clients, Base, TypeOK, ServerTypes
  <2>2. InHand(t)' <=> InHand(t)
    BY HandsKeptMeans DEF Checks
  <2>3. InHand(t)' => hreq' = hreq
    BY HandsKeptMeans DEF Checks
  <2>4. \A q \in Path : waitD'[q][t] # -1 <=> waitD[q][t] # -1 /\ ~(q = p /\ t = u)
    BY <1>3, <2>1
  <2>5. t = u => AwaitsData(t)
    BY DEF AwaitsData
  <2>6. /\ Answered(t)' <=> Answered(t) \/ t = u
        /\ Len(resp'[t]) <= 1
    <3>1. CASE t = u
      <4>1. resp[t] = <<>>
        BY <2>5, <3>1 DEF ThreadInv, OnePlace, Answered
      <4>2. resp'[t] = <<ReplyValue(p)>>
        BY <2>1, <3>1, <4>1
      <4> QED
        BY <3>1, <4>2 DEF Answered
    <3>2. CASE t # u
      BY <2>1, <3>2 DEF ThreadInv, OnePlace, Answered
    <3> QED
      BY <3>1, <3>2
  <2>7. AwaitsData(t)' <=> AwaitsData(t) /\ t # u
    BY <2>4 DEF AwaitsData, ThreadInv, OnePlace
  <2>8. /\ InQueue(t)' <=> InQueue(t)
        /\ AwaitsCreation(t)' <=> AwaitsCreation(t)
    BY <2>1 DEF InQueue, AwaitsCreation
  <2>9. OutShape(t)'
    BY <2>1 DEF ThreadInv, OutShape
  <2>10. OnePlace(t)'
    BY <2>1, <2>2, <2>4, <2>5, <2>6, <2>7, <2>8 DEF ThreadInv, OnePlace, Outstanding
  <2>11. RequestIsCall(t)'
    BY <2>1, <2>2, <2>3 DEF ThreadInv, RequestIsCall
  <2>12. Kept(t)'
    <3>1. CASE t = u
      BY <2>6, <3>1 DEF Kept
    <3>2. CASE t # u
      <4>1. waitD'[call[t].path][t] = waitD[call[t].path][t] \/ call[t].path \notin Path
        BY <1>3, <2>1, <3>2
      <4>2. call[t].op \in DataCalls => call[t].path \in Path
        <5>1. call[t] \in Calls[t] \cup {NoCall}
          BY DEF Base, TypeOK, CallTypes
        <5> QED
          BY <5>1, ClientAssumption DEF NoCall, DataCalls
      <4> QED
        BY <2>1, <2>2, <2>6, <2>8, <4>1, <4>2 DEF ThreadInv, Kept
    <3> QED
      BY <3>1, <3>2
  <2> QED
    BY <2>9, <2>10, <2>11, <2>12 DEF ThreadInv
<1> QED
  BY <1>1, <1>2, <1>3 DEF CheckWaiter

-----------------------------------------------------------------------------
(* The call of one thread, and the steps of the application threads.       *)

\* A step of the others: nothing of this thread moves.
LEMMA OthersKeep ==
  ASSUME NEW t \in Tid, ThreadInv(t), UNCHANGED <<reqs, waitC, waitD, hpc, hreq>>,
         pc'[t] = pc[t], call'[t] = call[t], out'[t] = out[t], resp'[t] = resp[t]
  PROVE  ThreadInv(t)'
<1>1. /\ InQueue(t)' <=> InQueue(t)
      /\ InHand(t)' <=> InHand(t)
      /\ AwaitsCreation(t)' <=> AwaitsCreation(t)
      /\ AwaitsData(t)' <=> AwaitsData(t)
      /\ Answered(t)' <=> Answered(t)
  BY DEF InQueue, InHand, AwaitsCreation, AwaitsData, Answered
<1>2. OutShape(t)'
  BY DEF ThreadInv, OutShape
<1>3. OnePlace(t)'
  BY <1>1 DEF ThreadInv, OnePlace, Outstanding
<1>4. RequestIsCall(t)' /\ Kept(t)'
  BY <1>1 DEF ThreadInv, RequestIsCall, Kept
<1> QED
  BY <1>2, <1>3, <1>4 DEF ThreadInv

\* Interception: a thread that is not waiting has nothing outstanding, and
\* what it will send ends in its one blocking request, if it has one.
LEMMA BeginKeeps ==
  ASSUME Base, NEW t \in Tid, ThreadInv(t), NEW u \in Tid, NEW c \in Calls[u], Begin(u, c)
  PROVE  ThreadInv(t)'
<1>1. /\ UNCHANGED <<reqs, resp, waitC, waitD, hpc, hreq>> /\ pc[u] = "idle"
      /\ call' = [call EXCEPT ![u] = c] /\ out' = [out EXCEPT ![u] = Requests(u, c)]
      /\ pc' = [pc EXCEPT ![u] = IF Requests(u, c) = <<>> THEN "kernel" ELSE "send"]
      /\ pc \in [Tid -> {"idle", "send", "wait", "kernel", "gone"}]
      /\ call \in [Tid -> Call] /\ out \in [Tid -> Seq(Request)]
  BY DEF Begin, Goto, clientOther, handlerVars, Base, TypeOK, CallTypes
<1>2. CASE t # u
  BY <1>1, <1>2, OthersKeep
<1>3. CASE t = u
  <2>1. /\ call'[t] = c /\ out'[t] = Requests(t, c) /\ pc[t] = "idle"
        /\ pc'[t] = IF Requests(t, c) = <<>> THEN "kernel" ELSE "send"
    BY <1>1, <1>3
  <2>2. ~Outstanding(t)
    BY <2>1 DEF ThreadInv, OnePlace
  <2>3. ~Outstanding(t)'
    BY <1>1, <2>2 DEF Outstanding, InQueue, InHand, AwaitsCreation, AwaitsData, Answered
  <2>4. OutShape(t)'
    <3>1. CacheTypes
      BY DEF Base, TypeOK
    <3>2. \A i \in 1 .. Len(Requests(t, c)) :
            /\ Requests(t, c)[i].tid = t
            /\ Requests(t, c)[i].op \in Blocking
               => i = Len(Requests(t, c)) /\ AsksFor(Requests(t, c)[i], c)
      BY <1>3, <3>1, RequestsShape
    <3> QED
      BY <2>1, <3>2 DEF OutShape, AsksFor
  <2>5. OnePlace(t)'
    BY <1>1, <2>3 DEF ThreadInv, OnePlace, Outstanding
  <2>6. RequestIsCall(t)' /\ Kept(t)'
    BY <2>1 DEF RequestIsCall, Kept
  <2> QED
    BY <2>4, <2>5, <2>6 DEF ThreadInv
<1> QED
  BY <1>2, <1>3

\* A response queue that is not empty and has at most one answer has one.
LEMMA OneElement ==
  ASSUME NEW q \in Seq(Int), q # <<>>, Len(q) <= 1
  PROVE  Len(q) = 1
<1>1. Len(q) \in Nat \ {0}
  BY EmptySeq
<1>2. \A n \in Nat \ {0} : n <= 1 => n = 1
  OBVIOUS
<1> QED
  BY <1>1, <1>2, Zenon

\* The answer is taken off the response queue, which had no other.
LEMMA ResumeKeeps ==
  ASSUME Base, NEW t \in Tid, ThreadInv(t), NEW u \in Tid, Resume(u)
  PROVE  ThreadInv(t)'
<1>1. /\ UNCHANGED <<reqs, call, out, waitC, waitD, hpc, hreq>> /\ pc[u] = "wait"
      /\ resp[u] # <<>> /\ resp' = [resp EXCEPT ![u] = Tail(@)]
      /\ pc' = [pc EXCEPT ![u] = "kernel"]
      /\ pc \in [Tid -> {"idle", "send", "wait", "kernel", "gone"}]
      /\ resp \in [Tid -> Seq(Int)]
  BY DEF Resume, Goto, clientOther, handlerVars, Base, TypeOK, CallTypes, ServerTypes
<1>2. CASE t # u
  BY <1>1, <1>2, OthersKeep
<1>3. CASE t = u
  <2>1. pc[t] = "wait" /\ pc'[t] = "kernel" /\ Answered(t)
    BY <1>1, <1>3 DEF Answered
  <2>2. ~InQueue(t) /\ ~InHand(t) /\ ~AwaitsCreation(t) /\ ~AwaitsData(t) /\ Len(resp[t]) <= 1
    BY <2>1 DEF ThreadInv, OnePlace
  <2>3. resp'[t] = <<>>
    <3>1. resp[t] \in Seq(Int) /\ resp[t] # <<>> /\ resp'[t] = Tail(resp[t])
      BY <1>1, <1>3
    <3>2. Len(resp[t]) = 1
      BY <2>2, <3>1, OneElement
    <3>3. Len(Tail(resp[t])) = 0 /\ Tail(resp[t]) \in Seq(Int)
      BY <3>1, <3>2, HeadTailProperties
    <3> QED
      BY <3>1, <3>3, EmptySeq
  <2>4. ~Outstanding(t)'
    BY <1>1, <2>2, <2>3 DEF Outstanding, InQueue, InHand, AwaitsCreation, AwaitsData, Answered
  <2>5. OutShape(t)'
    BY <1>1, <2>1 DEF ThreadInv, OutShape
  <2>6. OnePlace(t)'
    <3>1. Len(resp'[t]) <= 1
      BY <2>3
    <3> QED
      BY <1>1, <2>4, <3>1 DEF ThreadInv, OnePlace, Outstanding
  <2>7. RequestIsCall(t)' /\ Kept(t)'
    BY <2>1 DEF RequestIsCall, Kept
  <2> QED
    BY <2>5, <2>6, <2>7 DEF ThreadInv
<1> QED
  BY <1>2, <1>3

\* The system call itself, or the death of the thread: nothing the server
\* holds changes.
LEMMA LeaveKeeps ==
  ASSUME Base, NEW t \in Tid, ThreadInv(t), NEW u \in Tid, Kernel(u) \/ Kill(u)
  PROVE  ThreadInv(t)'
<1>1. /\ UNCHANGED <<reqs, resp, waitC, waitD, hpc, hreq>>
      /\ call' = [call EXCEPT ![u] = NoCall]
      /\ out' = out \/ out' = [out EXCEPT ![u] = <<>>]
      /\ pc \in [Tid -> {"idle", "send", "wait", "kernel", "gone"}]
      /\ call \in [Tid -> Call] /\ out \in [Tid -> Seq(Request)]
  BY DEF Kernel, Kill, clientOther, handlerVars, Base, TypeOK, CallTypes
<1>2. \/ pc[u] = "kernel" /\ out' = out /\ \E l \in {"idle", "gone"} : pc' = [pc EXCEPT ![u] = l]
      \/ pc' = [pc EXCEPT ![u] = "gone"] /\ out' = [out EXCEPT ![u] = <<>>]
  BY DEF Kernel, Kill, Goto
<1>3. CASE t # u
  <2>1. pc'[t] = pc[t] /\ call'[t] = call[t] /\ out'[t] = out[t] /\ resp'[t] = resp[t]
    BY <1>1, <1>2, <1>3
  <2> QED
    BY <1>1, <2>1, OthersKeep
<1>4. CASE t = u
  <2>1. /\ pc'[t] = "gone" \/ (pc[t] = "kernel" /\ pc'[t] = "idle")
        /\ out'[t] = <<>>
    BY <1>1, <1>2, <1>4 DEF ThreadInv, OutShape
  <2>2. pc'[t] = "idle" => ~Outstanding(t)
    BY <2>1 DEF ThreadInv, OnePlace
  <2>3. /\ InQueue(t)' <=> InQueue(t)
        /\ InHand(t)' <=> InHand(t)
        /\ AwaitsCreation(t)' <=> AwaitsCreation(t)
        /\ AwaitsData(t)' <=> AwaitsData(t)
        /\ Answered(t)' <=> Answered(t)
    BY <1>1 DEF InQueue, InHand, AwaitsCreation, AwaitsData, Answered
  <2>4. OutShape(t)'
    BY <2>1 DEF OutShape
  <2>5. OnePlace(t)'
    BY <1>1, <2>1, <2>2, <2>3 DEF ThreadInv, OnePlace, Outstanding
  <2>6. RequestIsCall(t)' /\ Kept(t)'
    BY <2>1 DEF RequestIsCall, Kept
  <2> QED
    BY <2>4, <2>5, <2>6 DEF ThreadInv
<1> QED
  BY <1>3, <1>4

\* A request enters the queue.  It bears its sender's id, and it is a call
\* only if it is the last the sender has: then the sender waits, and had
\* nothing else outstanding.
LEMMA SendKeeps ==
  ASSUME Base, NEW t \in Tid, ThreadInv(t), NEW u \in Tid, OutShape(u), Send(u)
  PROVE  ThreadInv(t)'
<1> DEFINE r == Head(out[u])
<1>1. /\ UNCHANGED <<resp, call, waitC, waitD, hpc, hreq>> /\ pc[u] = "send"
      /\ reqs' = Append(reqs, r) /\ out' = [out EXCEPT ![u] = Tail(@)]
      /\ pc' = [pc EXCEPT ![u] = IF Tail(out[u]) # <<>> THEN "send"
                                 ELSE IF r.op \in Blocking THEN "wait" ELSE "kernel"]
      /\ pc \in [Tid -> {"idle", "send", "wait", "kernel", "gone"}]
      /\ out \in [Tid -> Seq(Request)] /\ reqs \in Seq(Request)
  BY DEF Send, Goto, clientOther, handlerVars, Base, TypeOK, CallTypes, ServerTypes
<1>2. out[u] \in Seq(Request) /\ out[u] # <<>>
  BY <1>1 DEF OutShape
<1>3. /\ r \in Request /\ r = out[u][1] /\ Tail(out[u]) \in Seq(Request)
      /\ Len(Tail(out[u])) = Len(out[u]) - 1 /\ Len(out[u]) \in Nat \ {0}
      /\ \A i \in 1 .. Len(Tail(out[u])) :
           i + 1 \in 1 .. Len(out[u]) /\ Tail(out[u])[i] = out[u][i + 1]
  BY <1>2
<1>4. 1 \in 1 .. Len(out[u])
  BY <1>3
<1>5. r.tid = u /\ (r.op \in Blocking => Len(out[u]) = 1 /\ AsksFor(r, call[u]))
  BY <1>3, <1>4 DEF OutShape
<1> HIDE DEF r
<1>6. r.op \in Blocking => Tail(out[u]) = <<>>
  <2>1. ASSUME r.op \in Blocking PROVE Len(Tail(out[u])) = 0
    <3>1. Len(out[u]) = 1
      BY <1>5, <2>1
    <3> QED
      BY <1>3, <3>1
  <2>2. Len(Tail(out[u])) = 0 => Tail(out[u]) = <<>>
    <3>1. Tail(out[u]) # <<>> => Len(Tail(out[u])) \in Nat \ {0}
      BY <1>3, EmptySeq, Zenon
    <3> QED
      BY <3>1
  <2> QED
    BY <2>1, <2>2
<1>7. /\ Len(reqs') = Len(reqs) + 1 /\ Len(reqs) \in Nat
      /\ \A i \in 1 .. Len(reqs) : reqs'[i] = reqs[i]
      /\ reqs'[Len(reqs) + 1] = r
  BY <1>1, <1>3
<1>8. InQueue(t)' <=> InQueue(t) \/ BlocksFor(r, t)
  <2>1. InQueue(t) => InQueue(t)'
    BY <1>7 DEF InQueue, BlocksFor
  <2>2. BlocksFor(r, t) => InQueue(t)'
    BY <1>7 DEF InQueue, BlocksFor
  <2>3. InQueue(t)' => InQueue(t) \/ BlocksFor(r, t)
    <3>1. \A i \in 1 .. Len(reqs') : i \in 1 .. Len(reqs) \/ i = Len(reqs) + 1
      BY <1>7
    <3> QED
      BY <1>7, <3>1 DEF InQueue, BlocksFor
  <2> QED
    BY <2>1, <2>2, <2>3
<1>9. /\ InHand(t)' <=> InHand(t)
      /\ AwaitsCreation(t)' <=> AwaitsCreation(t)
      /\ AwaitsData(t)' <=> AwaitsData(t)
      /\ Answered(t)' <=> Answered(t)
  BY <1>1 DEF InHand, AwaitsCreation, AwaitsData, Answered
<1>10. BlocksFor(r, t) => ~Outstanding(t) /\ pc'[t] = "wait" /\ AsksFor(r, call[t])
  BY <1>1, <1>5, <1>6 DEF BlocksFor, ThreadInv, OnePlace
<1>11. OutShape(t)'
  <2>1. CASE t # u
    BY <1>1, <2>1 DEF ThreadInv, OutShape
  <2>2. CASE t = u
    <3>1. out'[t] = Tail(out[t]) /\ call'[t] = call[t] /\ (pc'[t] = "send" <=> out'[t] # <<>>)
      BY <1>1, <2>2
    <3>2. ASSUME NEW i \in 1 .. Len(Tail(out[t]))
          PROVE  /\ Tail(out[t])[i].tid = t
                 /\ Tail(out[t])[i].op \in Blocking
                    => i = Len(Tail(out[t])) /\ AsksFor(Tail(out[t])[i], call[t])
      <4>1. i + 1 \in 1 .. Len(out[t]) /\ Tail(out[t])[i] = out[t][i + 1]
        BY <1>3, <2>2
      <4>2. /\ out[t][i + 1].tid = t
            /\ out[t][i + 1].op \in Blocking
               => i + 1 = Len(out[t]) /\ AsksFor(out[t][i + 1], call[t])
        BY <4>1 DEF ThreadInv, OutShape
      <4> QED
        BY <1>3, <2>2, <4>1, <4>2
    <3>3. pc'[t] = "wait" => call'[t].op \in DataCalls \cup {"open"}
      BY <1>1, <1>5, <2>2 DEF AsksFor, Blocking, DataCalls
    <3> QED
      BY <3>1, <3>2, <3>3 DEF OutShape, AsksFor
  <2> QED
    BY <2>1, <2>2
<1>12. pc[t] \notin {"wait", "gone"} => ~Outstanding(t)
  BY DEF ThreadInv, OnePlace
<1>13. pc'[t] \notin {"wait", "gone"} => ~Outstanding(t)'
  <2>1. pc'[t] \notin {"wait", "gone"} => pc[t] \notin {"wait", "gone"}
    BY <1>1
  <2> QED
    BY <1>8, <1>9, <1>10, <1>12, <2>1 DEF Outstanding
<1>14. \A i, j \in 1 .. Len(reqs') : BlocksFor(reqs'[i], t) /\ BlocksFor(reqs'[j], t) => i = j
  <2>1. \A i \in 1 .. Len(reqs') : i \in 1 .. Len(reqs) \/ i = Len(reqs) + 1
    BY <1>7
  <2>2. \A i \in 1 .. Len(reqs) : ~(BlocksFor(reqs[i], t) /\ BlocksFor(r, t))
    BY <1>10 DEF Outstanding, InQueue
  <2> QED
    BY <1>7, <2>1, <2>2 DEF ThreadInv, OnePlace
<1>15. OnePlace(t)'
  BY <1>1, <1>8, <1>9, <1>10, <1>13, <1>14 DEF ThreadInv, OnePlace, Outstanding, BlocksFor
<1>16. RequestIsCall(t)'
  <2>1. SUFFICES ASSUME pc'[t] = "wait"
                 PROVE  /\ \A i \in 1 .. Len(reqs') :
                             BlocksFor(reqs'[i], t) => AsksFor(reqs'[i], call[t])
                        /\ InHand(t)' => AsksFor(hreq, call[t])
    BY <1>1 DEF RequestIsCall, BlocksFor, AsksFor
  <2>2. pc[t] = "wait" \/ ~Outstanding(t)
    BY <1>1, <2>1, <1>12
  <2>3. \A i \in 1 .. Len(reqs) : BlocksFor(reqs[i], t) => AsksFor(reqs[i], call[t])
    BY <2>2 DEF ThreadInv, RequestIsCall, Outstanding, InQueue
  <2>4. InHand(t)' => AsksFor(hreq, call[t])
    BY <1>9, <2>2 DEF ThreadInv, RequestIsCall, Outstanding
  <2>5. \A i \in 1 .. Len(reqs') : i \in 1 .. Len(reqs) \/ i = Len(reqs) + 1
    BY <1>7
  <2> QED
    BY <1>7, <1>10, <2>3, <2>4, <2>5
<1>17. Kept(t)'
  <2>1. SUFFICES ASSUME pc'[t] = "wait", call[t].op \in DataCalls
                 PROVE  InQueue(t)' \/ InHand(t)' \/ Answered(t)' \/ waitD[call[t].path][t] # -1
    BY <1>1 DEF Kept
  <2>2. CASE pc[t] = "wait"
    BY <1>8, <1>9, <2>1, <2>2 DEF ThreadInv, Kept
  <2>3. CASE pc[t] # "wait"
    <3>1. t = u /\ r.op \in Blocking
      BY <1>1, <2>1, <2>3
    <3> QED
      BY <1>5, <1>8, <3>1 DEF BlocksFor
  <2> QED
    BY <2>2, <2>3
<1> QED
  BY <1>11, <1>15, <1>16, <1>17 DEF ThreadInv

-----------------------------------------------------------------------------
(* The theorems.                                                           *)

\* At the start every thread has its handshake to send and nothing else is
\* anywhere.
LEMMA InitInv == Init => CallInv
<1> SUFFICES ASSUME Init PROVE CallInv
  OBVIOUS
<1> USE DEF Init
<1>1. FileTypes
  BY ConfigAssumption, BoundAssumption DEF FileTypes
<1>2. ServerTypes
  BY DEF ServerTypes
<1>3. ASSUME NEW t \in Tid
      PROVE  /\ init_process(t) \in Seq(Request) /\ init_process(t) # <<>>
             /\ \A i \in 1 .. Len(init_process(t)) :
                  init_process(t)[i].tid = t /\ init_process(t)[i].op \notin Blocking
  <2> DEFINE r == Req("HANDSHAKE", t, NoPath, 0)
  <2>1. r \in Request /\ r.tid = t /\ r.op \notin Blocking
    BY DEF Req, Request, Blocking
  <2>2. init_process(t) = <<r>>
    BY DEF init_process
  <2> HIDE DEF r
  <2> QED
    BY <2>1, <2>2
<1>4. CallTypes
  BY <1>3, ClientAssumption DEF CallTypes, NoCall, Call
<1>5. CacheTypes
  BY DEF CacheTypes, NoWrites, NoReads
<1>6. HandlerTypes /\ HandlerPlace /\ MonitorTypes /\ MonitorPlace
  BY DEF HandlerTypes, HandlerPlace, HandlerLabels, MonitorTypes, MonitorPlace, MonitorLabels
<1>7. DataMutexHeldOnce
  BY DEF DataMutexHeldOnce, Holding
<1>8. ASSUME NEW t \in Tid PROVE ThreadInv(t)
  <2>1. pc[t] = "send" /\ out[t] = init_process(t) /\ resp[t] = <<>>
    OBVIOUS
  <2>2. ~Outstanding(t)
    BY <2>1 DEF Outstanding, InQueue, InHand, AwaitsCreation, AwaitsData, Answered
  <2>3. OutShape(t)
    BY <1>3, <2>1 DEF OutShape
  <2>4. OnePlace(t)
    BY <2>1, <2>2 DEF OnePlace, Outstanding
  <2> QED
    BY <2>1, <2>3, <2>4 DEF ThreadInv, RequestIsCall, Kept
<1> QED
  BY <1>1, <1>2, <1>4, <1>5, <1>6, <1>7, <1>8 DEF CallInv, TypeOK

\* CallInv is inductive: the effects above are all there are.
LEMMA StepInv == CallInv /\ [Next]_vars => CallInv'
<1> SUFFICES ASSUME CallInv, [Next]_vars PROVE CallInv'
  OBVIOUS
<1>1. Base /\ DataMutexHeldOnce /\ \A t \in Tid : ThreadInv(t)
  BY DEF CallInv, DataMutexHeldOnce, StatInv, Base
<1>2. CASE UNCHANGED vars
  <2>1. Throw(server)
    BY <1>2 DEF vars, Throw
  <2>2. Quiet
    BY <2>1 DEF Throw, Quiet, clientVars, handlerVars
  <2>3. FileTypes' /\ ServerTypes' /\ HandlerTypes' /\ HandlerPlace'
    BY <1>1, <1>2 DEF vars, Base, TypeOK, FileTypes, ServerTypes, HandlerTypes, HandlerPlace,
       OpsAt, fsVars, clVars, cmVars, handlerVars
  <2>4. UNCHANGED handlerOther
    BY <1>2 DEF vars, handlerOther
  <2>5. CallTypes' /\ CacheTypes' /\ MonitorTypes' /\ MonitorPlace'
    BY <1>1, <2>4, HandlerFrame
  <2>6. DataMutexHeldOnce'
    BY <1>1, <1>2 DEF vars, DataMutexHeldOnce, handlerVars, monitorVars
  <2> QED
    BY <1>1, <2>2, <2>3, <2>5, <2>6, QuietKeeps DEF CallInv, TypeOK
<1>3. CASE Next
  <2>1. Base'
    BY <1>1, <1>3, ClientTypes, RequestTypes, PollTypes DEF Next, ThreadInv
  <2>2. DataMutexHeldOnce'
    BY <1>1, <1>3, MutexKept
  <2>3. ASSUME NEW t \in Tid PROVE ThreadInv(t)'
    <3>1. ThreadInv(t)
      BY <1>1
    <3>2. ASSUME NEW u \in Tid, Client(u) PROVE ThreadInv(t)'
      BY <1>1, <3>1, <3>2, BeginKeeps, SendKeeps, ResumeKeeps, LeaveKeeps DEF Client, ThreadInv
    <3>3. ASSUME Handler PROVE ThreadInv(t)'
      <4>1. CASE Unlocks(hreq.path)
        BY <1>1, <3>1, <4>1, UnlocksKeeps DEF Unlocks
      <4>2. CASE Checks(hreq.path, htid) /\ HandlerCheck
        <5>1. hpc = "stat" /\ htid \in Tid /\ waitD[hreq.path][htid] # -1
          BY <1>1, <4>2 DEF HandlerCheck, DataMutexHeldOnce
        <5>2. hreq.path \in Path
          BY <1>1, <5>1 DEF Base, HandlerPlace, OpsAt, RequestCodes, Request
        <5> QED
          BY <1>1, <3>1, <4>2, <5>1, <5>2, ChecksKeeps
      <4> QED
        BY <1>1, <3>1, <3>3, <4>1, <4>2, HandlerEffects, ThrowKeeps, QuietKeeps, AnswersKeeps,
           ReadKeeps, OpenWaitKeeps, DataWaitKeeps
    <3>4. ASSUME Monitor PROVE ThreadInv(t)'
      <4>1. CASE Unlocks(mpath)
        BY <1>1, <3>1, <4>1, UnlocksKeeps DEF Unlocks
      <4>2. CASE Checks(mpath, mtid) /\ MonitorCheck
        <5>1. mpc = "stat" /\ mtid \in Tid /\ waitD[mpath][mtid] # -1
          BY <1>1, <4>2 DEF MonitorCheck, DataMutexHeldOnce
        <5>2. mpath \in Path
          BY <1>1, <5>1 DEF Base, MonitorPlace
        <5> QED
          BY <1>1, <3>1, <4>2, <5>1, <5>2, ChecksKeeps
      <4> QED
        BY <1>1, <3>1, <3>4, <4>1, <4>2, MonitorEffects, ThrowKeeps, QuietKeeps, DeleteKeeps
    <3> QED
      BY <1>3, <3>2, <3>3, <3>4 DEF Next
  <2> QED
    BY <2>1, <2>2, <2>3 DEF CallInv, Base
<1> QED
  BY <1>2, <1>3

\* The inductive invariant holds in every execution of a node.
THEOREM CallInvariant == Spec => []CallInv
  BY InitInv, StepInv, PTL DEF Spec

\* Types of all the state of the node, in every execution.
THEOREM NodeTypes == Spec => []TypeOK
<1>1. CallInv => TypeOK
  BY DEF CallInv
<1> QED
  BY <1>1, CallInvariant, PTL

\* At most one answer per blocking call, and to no other call: for any number
\* of threads, killed at any moment, and whatever they call.
THEOREM OneAnswer == Spec => []AnswerMeetsItsCall
<1>1. CallInv => AnswerMeetsItsCall
  <2>1. SUFFICES ASSUME CallInv, NEW t \in Tid
                 PROVE  /\ pc[t] \notin {"wait", "gone"} => ~Outstanding(t)
                        /\ Answered(t) => /\ Len(resp[t]) = 1
                                          /\ ~InQueue(t) /\ ~InHand(t)
                                          /\ ~AwaitsCreation(t) /\ ~AwaitsData(t)
    BY DEF AnswerMeetsItsCall
  <2>2. OnePlace(t) /\ resp[t] \in Seq(Int)
    BY <2>1 DEF CallInv, ThreadInv, TypeOK, ServerTypes
  <2>3. Answered(t) => Len(resp[t]) = 1
    BY <2>2, OneElement DEF OnePlace, Answered
  <2> QED
    BY <2>2, <2>3 DEF OnePlace
<1> QED
  BY <1>1, CallInvariant, PTL

\* No thread that waits for data is ever forgotten by the server.
THEOREM DataWaiters == Spec => []DataWaiterKept
<1>1. CallInv => DataWaiterKept
  BY DEF CallInv, ThreadInv, DataWaiterKept
<1> QED
  BY <1>1, CallInvariant, PTL

\* data_mutex keeps the walks of the handler and of the monitor apart.
THEOREM DataMutex == Spec => []DataMutexHeldOnce
<1>1. CallInv => DataMutexHeldOnce
  BY DEF CallInv
<1> QED
  BY <1>1, CallInvariant, PTL

-----------------------------------------------------------------------------
(* The order in which the server hears of a thread.                        *)

\* Both tables of ClientManager have the thread.
Live(t) == t \in bufs /\ appNames[t] # NoApp

Holds(t) == hpc # "recv" /\ hreq.tid = t

Hears(r, t, op) == r.tid = t /\ r.op = op

Greets(t) == Holds(t) /\ hreq.op = "HANDSHAKE"

Greeting(t) == \E i \in 1 .. Len(reqs) : Hears(reqs[i], t, "HANDSHAKE")

\* EXIT is on its way, or in the hands of the handler.
Leaving(t) ==
  \/ Holds(t) /\ hreq.op = "EXIT"
  \/ \E i \in 1 .. Len(reqs) : Hears(reqs[i], t, "EXIT")

\* The thread has sent what it ever sends.
Silent(t) == pc[t] = "gone" \/ (pc[t] = "kernel" /\ call[t].op = "exit")

\* In the queue, nothing comes before the handshake and nothing after EXIT.
InOrder(t) ==
  \A i \in 1 .. Len(reqs) : reqs[i].tid = t =>
    /\ \/ reqs[i].op = "HANDSHAKE" \/ Live(t) \/ Greets(t)
       \/ \E j \in 1 .. (i - 1) : Hears(reqs[j], t, "HANDSHAKE")
    /\ \A j \in 1 .. (i - 1) : ~Hears(reqs[j], t, "EXIT")
    /\ ~(Holds(t) /\ hreq.op = "EXIT")

\* Whom the server works for, or keeps waiting, it knows.
InUse(t) ==
  (Holds(t) /\ hreq.op # "HANDSHAKE") \/ AwaitsCreation(t) \/ AwaitsData(t) => Live(t)

\* A thread that may still send has its handshake ahead of what it sends.
Introduced(t) == Silent(t) \/ Live(t) \/ Greets(t) \/ Greeting(t) \/ out[t] = init_process(t)

\* EXIT is the last a thread sends, and nobody waits who has sent it.
ExitLast(t) ==
  /\ \A i \in 1 .. Len(out[t]) :
       out[t][i].op = "EXIT" => i = Len(out[t]) /\ call[t].op = "exit"
  /\ Leaving(t) => /\ Silent(t) /\ ~InQueue(t) /\ ~InHand(t)
                   /\ ~AwaitsCreation(t) /\ ~AwaitsData(t)

Known(t) == InOrder(t) /\ InUse(t) /\ Introduced(t) /\ ExitLast(t)

KnownInv == NoUnknownThread /\ \A t \in Tid : Known(t)

\* What a call sends contains EXIT only as the last request of an exit.
LEMMA RequestsExit ==
  ASSUME CacheTypes, NEW t \in Tid, NEW c \in Calls[t],
         NEW i \in 1 .. Len(Requests(t, c)), Requests(t, c)[i].op = "EXIT"
  PROVE  i = Len(Requests(t, c)) /\ c.op = "exit"
<1> DEFINE w == flush(t, wcache[t])
           NoExit(s) == \A k \in 1 .. Len(s) : s[k].op # "EXIT"
<1>1. w \in Seq(Request) /\ \A k \in 1 .. Len(w) : w[k].tid = t /\ w[k].op = "WRITE"
  BY FlushType
<1>2. c \in Call
  BY ClientAssumption
<1>3. NoExit(<<>>) /\ NoExit(w)
  BY <1>1
<1>4. ASSUME NEW r \in Request, r.op # "EXIT" PROVE NoExit(<<r>>) /\ NoExit(w \o <<r>>)
  BY <1>1, <1>4
<1>5. \A r \in Request : /\ Len(w \o <<r>>) = Len(w) + 1
                         /\ \A k \in 1 .. Len(w) : (w \o <<r>>)[k] = w[k]
  BY <1>1
<1> HIDE DEF w, NoExit
<1>6. ASSUME NEW op \in RequestCodes \ {"HANDSHAKE", "EXIT"}, NEW p \in Path, NEW n \in Nat
      PROVE  NoExit(<<Req(op, t, p, n)>>) /\ NoExit(w \o <<Req(op, t, p, n)>>)
  BY <1>4 DEF Req, Request, RequestCodes
<1>7. (c.op # "exit" => c.path \in Path) /\ (c.op = "rename" => c.to \in Path)
  BY ClientAssumption
<1>8. CASE c.op = "exit"
  <2>1. Requests(t, c) = w \o <<Req("EXIT", t, NoPath, 0)>>
    BY <1>8 DEF Requests, capio_exit, exit_group_request, w
  <2>2. Req("EXIT", t, NoPath, 0) \in Request
    BY DEF Req, Request
  <2>3. Len(w) \in Nat
    BY <1>1
  <2>4. ASSUME i # Len(Requests(t, c)) PROVE FALSE
    <3>1. i \in 1 .. Len(w) /\ Requests(t, c)[i] = w[i]
      BY <1>5, <2>1, <2>2, <2>3, <2>4
    <3> QED
      BY <1>1, <3>1
  <2> QED
    BY <1>8, <2>4
<1>9. CASE c.op # "exit"
  <2> USE DEF Requests, RequestCodes
  <2>1. NoExit(write_request(t, c.path))
    <3>1. Cached(t, c.path).path = c.path /\ c.path # NoPath
      BY <1>7, <1>9, PathAssumption DEF Cached
    <3>2. flush(t, Cached(t, c.path)) = <<Req("WRITE", t, c.path, 0)>>
      BY <3>1 DEF flush
    <3>3. /\ <<>> \o <<>> = <<>> /\ w \o <<>> = w
          /\ <<>> \o <<Req("WRITE", t, c.path, 0)>> = <<Req("WRITE", t, c.path, 0)>>
      BY <1>1
    <3>4. write_request(t, c.path) \in {<<>>, w, <<Req("WRITE", t, c.path, 0)>>,
                                        w \o <<Req("WRITE", t, c.path, 0)>>}
      BY <3>2, <3>3 DEF write_request, w
    <3> QED
      BY <3>4, <1>3, <1>6, <1>7, <1>9
  <2>2. ASSUME c.op \in {"create", "mkdir"} PROVE NoExit(Requests(t, c))
    BY <2>2, <1>3, <1>6, <1>7 DEF creat_handler, capio_mkdirat, create_request
  <2>3. ASSUME c.op = "open" PROVE NoExit(Requests(t, c))
    BY <2>3, <1>3, <1>6, <1>7 DEF openat_handler, open_request, w
  <2>4. ASSUME c.op = "read" PROVE NoExit(Requests(t, c))
    <3>1. c.n \in Nat
      BY <1>2 DEF Call
    <3> QED
      BY <2>4, <3>1, <1>3, <1>6, <1>7 DEF capio_read, read_request
  <2>5. ASSUME c.op = "write" PROVE NoExit(Requests(t, c))
    BY <2>5, <2>1, <1>3 DEF capio_write
  <2>6. ASSUME c.op = "close" PROVE NoExit(Requests(t, c))
    BY <2>6, <1>3, <1>6, <1>7 DEF capio_close, close_request, w
  <2>7. ASSUME c.op \in {"stat", "access", "fstat"} PROVE NoExit(Requests(t, c))
    BY <2>7, <1>3, <1>6, <1>7 DEF capio_lstat, access_handler, getdents_handler_impl,
       consent_to_proceed_request
  <2>8. ASSUME c.op = "rename" PROVE NoExit(Requests(t, c))
    BY <2>8, <1>3, <1>6, <1>7 DEF capio_rename, rename_request
  <2>9. ASSUME c.op \in {"unlink", "handshake"} PROVE NoExit(Requests(t, c))
    BY <2>9, <1>3
  <2>10. NoExit(Requests(t, c))
    BY <1>2, <1>9, <2>2, <2>3, <2>4, <2>5, <2>6, <2>7, <2>8, <2>9 DEF Call
  <2> QED
    BY <2>10 DEF NoExit
<1> QED
  BY <1>8, <1>9

\* A server step that leaves the queue, the clients and the tables of
\* ClientManager alone, and brings nobody into a table but the sender of the
\* request in hand.
LEMMA ServerKnown ==
  ASSUME NEW t \in Tid, Known(t),
         UNCHANGED <<reqs, bufs, appNames, pc, call, out>>,
         \/ hpc' = hpc /\ hreq' = hreq
         \/ hpc # "recv" /\ hpc' # "recv" /\ hreq' = hreq
         \/ hpc # "recv" /\ hpc' = "recv" /\ hreq.op # "HANDSHAKE",
         AwaitsCreation(t)' \/ AwaitsData(t)' => AwaitsCreation(t) \/ AwaitsData(t) \/ InHand(t)
  PROVE  Known(t)'
<1>1. Live(t)' <=> Live(t)
  BY DEF Live
<1>2. Silent(t)' <=> Silent(t)
  BY DEF Silent
<1>3. /\ Holds(t)' => Holds(t) /\ hreq' = hreq
      /\ Greets(t)' <=> Greets(t)
  BY DEF Holds, Greets
<1>4. /\ InQueue(t)' <=> InQueue(t)
      /\ InHand(t)' => InHand(t)
      /\ Leaving(t)' => Leaving(t)
      /\ Greeting(t)' <=> Greeting(t)
  BY <1>3 DEF InQueue, InHand, Leaving, Greeting, Hears, BlocksFor, Holds
<1>5. InOrder(t)'
  BY <1>1, <1>3 DEF Known, InOrder, Hears
<1>6. InUse(t)'
  BY <1>1, <1>3 DEF Known, InUse, InHand, BlocksFor, Blocking, Holds
<1>7. Introduced(t)'
  BY <1>1, <1>2, <1>3, <1>4 DEF Known, Introduced, init_process, Req
<1>8. ExitLast(t)'
  BY <1>2, <1>4 DEF Known, ExitLast
<1> QED
  BY <1>5, <1>6, <1>7, <1>8 DEF Known

\* The next request: its sender has been introduced, or it is the handshake.
LEMMA ReadKnown ==
  ASSUME Base, NEW t \in Tid, Known(t), read_next_request
  PROVE  Known(t)'
<1> DEFINE n == Len(reqs)
<1>1. /\ UNCHANGED <<bufs, appNames, pc, call, out, waitC, waitD>>
      /\ hpc = "recv" /\ hreq' = Head(reqs) /\ hpc' = Head(reqs).op /\ reqs' = Tail(reqs)
      /\ reqs \in Seq(Request) /\ reqs # <<>>
  BY DEF read_next_request, cmVars, handlerOther, clientVars, Base, TypeOK, ServerTypes
<1>2. /\ n \in Nat \ {0} /\ Len(reqs') = n - 1 /\ Head(reqs) = reqs[1] /\ 1 \in 1 .. n
      /\ \A i \in 1 .. (n - 1) : i + 1 \in 1 .. n /\ reqs'[i] = reqs[i + 1]
  BY <1>1
<1>3. reqs[1].op \in RequestCodes /\ hpc' # "recv"
  <2>1. reqs[1] \in Request
    BY <1>1, <1>2
  <2> QED
    BY <1>1, <1>2, <2>1 DEF Request, RequestCodes
<1>4. Live(t)' <=> Live(t)
  BY <1>1 DEF Live
<1>5. Silent(t)' <=> Silent(t)
  BY <1>1 DEF Silent
<1>6. ~Holds(t) /\ ~Greets(t) /\ ~InHand(t)
  BY <1>1 DEF Holds, Greets, InHand
<1>7. /\ Holds(t)' <=> reqs[1].tid = t
      /\ hreq' = reqs[1]
      /\ Greets(t)' <=> Hears(reqs[1], t, "HANDSHAKE")
  BY <1>1, <1>2, <1>3 DEF Holds, Greets, Hears
<1> HIDE DEF n
<1>8. ASSUME NEW i \in 1 .. Len(reqs'), reqs'[i].tid = t
      PROVE  /\ \/ reqs'[i].op = "HANDSHAKE" \/ Live(t)' \/ Greets(t)'
                \/ \E j \in 1 .. (i - 1) : Hears(reqs'[j], t, "HANDSHAKE")
             /\ \A j \in 1 .. (i - 1) : ~Hears(reqs'[j], t, "EXIT")
             /\ ~(Holds(t)' /\ reqs[1].op = "EXIT")
  <2>1. i + 1 \in 1 .. n /\ reqs'[i] = reqs[i + 1] /\ i \in Nat /\ i + 1 - 1 = i
    BY <1>2
  <2>2. /\ \/ reqs[i + 1].op = "HANDSHAKE" \/ Live(t)
           \/ \E j \in 1 .. i : Hears(reqs[j], t, "HANDSHAKE")
        /\ \A j \in 1 .. i : ~Hears(reqs[j], t, "EXIT")
    BY <1>6, <1>8, <2>1 DEF Known, InOrder, n
  <2>3. 1 \in 1 .. i /\ ~Hears(reqs[1], t, "EXIT")
    BY <2>1, <2>2
  <2>4. \A j \in 1 .. (i - 1) : j + 1 \in 1 .. i /\ reqs'[j] = reqs[j + 1]
    BY <1>2, <2>1
  <2>5. \A j \in 1 .. i : j = 1 \/ (j - 1 \in 1 .. (i - 1) /\ reqs'[j - 1] = reqs[j])
    BY <1>2, <2>1
  <2>6. \A j \in 1 .. (i - 1) : ~Hears(reqs'[j], t, "EXIT")
    BY <2>2, <2>4
  <2>7. (\E j \in 1 .. i : Hears(reqs[j], t, "HANDSHAKE")) =>
          Greets(t)' \/ \E j \in 1 .. (i - 1) : Hears(reqs'[j], t, "HANDSHAKE")
    <3>1. SUFFICES ASSUME NEW j \in 1 .. i, Hears(reqs[j], t, "HANDSHAKE")
                   PROVE  Greets(t)' \/ \E k \in 1 .. (i - 1) : Hears(reqs'[k], t, "HANDSHAKE")
      OBVIOUS
    <3>2. CASE j = 1
      BY <1>7, <3>1, <3>2
    <3>3. CASE j - 1 \in 1 .. (i - 1) /\ reqs'[j - 1] = reqs[j]
      BY <3>1, <3>3
    <3> QED
      BY <2>5, <3>2, <3>3
  <2>8. ~(Holds(t)' /\ reqs[1].op = "EXIT")
    BY <1>7, <2>3 DEF Hears
  <2> QED
    BY <1>4, <2>1, <2>2, <2>6, <2>7, <2>8
<1>9. InOrder(t)'
  BY <1>7, <1>8 DEF InOrder, Hears
<1>10. InUse(t)'
  <2>1. AwaitsCreation(t)' \/ AwaitsData(t)' => Live(t)
    BY <1>1 DEF Known, InUse, AwaitsCreation, AwaitsData
  <2>2. reqs[1].tid = t /\ reqs[1].op # "HANDSHAKE" => Live(t)
    <3>1. \A j \in 1 .. (1 - 1) : FALSE
      OBVIOUS
    <3> QED
      BY <1>2, <1>6, <3>1 DEF Known, InOrder, n
  <2> QED
    BY <1>4, <1>7, <2>1, <2>2 DEF InUse
<1>11. \A i \in 1 .. n : i = 1 \/ (i - 1 \in 1 .. Len(reqs') /\ reqs'[i - 1] = reqs[i])
  BY <1>2
<1>12. Introduced(t)'
  <2>1. Greeting(t) => Greeting(t)' \/ Greets(t)'
    <3>1. SUFFICES ASSUME NEW i \in 1 .. n, Hears(reqs[i], t, "HANDSHAKE")
                   PROVE  Greeting(t)' \/ Greets(t)'
      BY DEF Greeting, n
    <3>2. CASE i = 1
      BY <1>7, <3>1, <3>2
    <3>3. CASE i - 1 \in 1 .. Len(reqs') /\ reqs'[i - 1] = reqs[i]
      BY <3>1, <3>3 DEF Greeting, Hears
    <3> QED
      BY <1>11, <3>2, <3>3
  <2> QED
    BY <1>1, <1>4, <1>5, <1>6, <2>1 DEF Known, Introduced
<1>13. ExitLast(t)'
  <2>1. \A i \in 1 .. Len(reqs') : i + 1 \in 1 .. n /\ reqs'[i] = reqs[i + 1]
    BY <1>2
  <2>2. Leaving(t)' => Leaving(t)
    BY <1>2, <1>7, <2>1 DEF Leaving, Hears, n
  <2>3. InQueue(t)' \/ InHand(t)' => InQueue(t)
    BY <1>2, <1>7, <2>1 DEF InQueue, InHand, BlocksFor, n
  <2>4. (AwaitsCreation(t)' <=> AwaitsCreation(t)) /\ (AwaitsData(t)' <=> AwaitsData(t))
    BY <1>1 DEF AwaitsCreation, AwaitsData
  <2> QED
    BY <1>1, <1>5, <2>2, <2>3, <2>4 DEF Known, ExitLast
<1> QED
  BY <1>9, <1>10, <1>12, <1>13 DEF Known

\* The handshake puts its sender into both tables of ClientManager.
LEMMA HandshakeKnown ==
  ASSUME Base, NEW t \in Tid, Known(t), handshake_handler
  PROVE  Known(t)'
<1>1. /\ UNCHANGED <<reqs, pc, call, out, waitC, waitD>>
      /\ hpc = "HANDSHAKE" /\ hpc' = "recv" /\ bufs' = bufs \cup {hreq.tid}
      /\ appNames' = [appNames EXCEPT ![hreq.tid] = IF @ = NoApp THEN AppOf[hreq.tid] ELSE @]
      /\ appNames \in [Tid -> App \cup {NoApp}]
  BY DEF handshake_handler, Return, handlerOther, clientVars, Base, TypeOK, ServerTypes
<1>2. hreq \in Request /\ hreq.op = "HANDSHAKE" /\ hreq.tid \in Tid
  BY <1>1 DEF Base, HandlerPlace, OpsAt, RequestCodes, Request
<1>3. Live(t)' <=> Live(t) \/ Greets(t)
  <2>1. AppOf[hreq.tid] # NoApp
    BY <1>2, ThreadAssumption
  <2>2. CASE t = hreq.tid
    BY <1>1, <1>2, <2>1, <2>2 DEF Live, Greets, Holds
  <2>3. CASE t # hreq.tid
    BY <1>1, <1>2, <2>3 DEF Live, Greets, Holds
  <2> QED
    BY <2>2, <2>3
<1>4. ~Holds(t)' /\ ~Greets(t)' /\ ~InHand(t)'
  BY <1>1 DEF Holds, Greets, InHand
<1>5. /\ Silent(t)' <=> Silent(t)
      /\ Greeting(t)' <=> Greeting(t)
      /\ InQueue(t)' <=> InQueue(t)
      /\ AwaitsCreation(t)' <=> AwaitsCreation(t)
      /\ AwaitsData(t)' <=> AwaitsData(t)
  BY <1>1 DEF Silent, Greeting, InQueue, AwaitsCreation, AwaitsData, Hears, BlocksFor
<1>6. Leaving(t)' => Leaving(t)
  BY <1>1, <1>4 DEF Leaving, Hears
<1>7. InOrder(t)'
  BY <1>1, <1>3, <1>4 DEF Known, InOrder, Hears
<1>8. InUse(t)' /\ Introduced(t)'
  BY <1>1, <1>3, <1>4, <1>5 DEF Known, InUse, Introduced
<1>9. ExitLast(t)'
  BY <1>1, <1>4, <1>5, <1>6 DEF Known, ExitLast
<1> QED
  BY <1>7, <1>8, <1>9 DEF Known

\* EXIT removes a response buffer nobody needs any more: its thread is silent
\* and nothing of it is queued or waiting.
LEMMA ExitKnown ==
  ASSUME Base, NEW t \in Tid, Known(t), exit_handler, ~Unknown(hreq.tid)
  PROVE  Known(t)'
<1>1. /\ UNCHANGED <<reqs, appNames, pc, call, out, waitC, waitD>>
      /\ hpc = "EXIT" /\ hpc' = "recv" /\ bufs' = bufs \ {hreq.tid}
  BY DEF exit_handler, Return, handlerOther, clientVars
<1>2. hreq.op = "EXIT"
  BY <1>1 DEF Base, HandlerPlace, OpsAt, RequestCodes
<1>3. CASE t # hreq.tid
  <2>1. Live(t)' <=> Live(t)
    BY <1>1, <1>3 DEF Live
  <2>2. ~Holds(t) /\ ~Holds(t)' /\ ~Greets(t) /\ ~Greets(t)' /\ ~InHand(t)'
    BY <1>1, <1>3 DEF Holds, Greets, InHand
  <2>3. /\ Silent(t)' <=> Silent(t)
        /\ Greeting(t)' <=> Greeting(t)
        /\ InQueue(t)' <=> InQueue(t)
        /\ AwaitsCreation(t)' <=> AwaitsCreation(t)
        /\ AwaitsData(t)' <=> AwaitsData(t)
        /\ Leaving(t)' => Leaving(t)
    BY <1>1, <2>2 DEF Silent, Greeting, InQueue, AwaitsCreation, AwaitsData, Leaving, Hears, BlocksFor
  <2>4. InOrder(t)'
    BY <1>1, <2>1, <2>2 DEF Known, InOrder, Hears
  <2>5. InUse(t)' /\ Introduced(t)' /\ ExitLast(t)'
    BY <1>1, <2>1, <2>2, <2>3 DEF Known, InUse, Introduced, ExitLast
  <2> QED
    BY <2>4, <2>5 DEF Known
<1>4. CASE t = hreq.tid
  <2>1. Holds(t) /\ Leaving(t)
    BY <1>1, <1>2, <1>4 DEF Holds, Leaving
  <2>2. Silent(t)' /\ ~AwaitsCreation(t)' /\ ~AwaitsData(t)' /\ ~Holds(t)'
    BY <1>1, <2>1 DEF Known, ExitLast, Silent, AwaitsCreation, AwaitsData, Holds
  <2>3. \A i \in 1 .. Len(reqs) : reqs[i].tid # t
    BY <1>2, <2>1 DEF Known, InOrder
  <2>4. ~Leaving(t)'
    BY <1>1, <2>2, <2>3 DEF Leaving, Hears
  <2>5. InOrder(t)'
    BY <1>1, <2>3 DEF InOrder
  <2> QED
    BY <1>1, <2>2, <2>4, <2>5 DEF Known, InUse, Introduced, ExitLast
<1> QED
  BY <1>3, <1>4

\* Only the handshake and EXIT change the tables of ClientManager.
LEMMA ManagerEffects ==
  ASSUME Handler
  PROVE  handshake_handler \/ exit_handler \/ UNCHANGED <<bufs, appNames>>
<1> USE DEF cmVars
<1>1. ASSUME NEW v, Answer(v) PROVE UNCHANGED <<bufs, appNames>>
  BY <1>1 DEF Answer, Throw
<1>2. ASSUME NEW A, Move(A) PROVE UNCHANGED <<bufs, appNames>>
  BY <1>2 DEF Move
<1>3. ASSUME NEW e, Throw(e) PROVE UNCHANGED <<bufs, appNames>>
  BY <1>3 DEF Throw
<1>4. ASSUME create_handler \/ rename_handler \/ CloseUnlock PROVE UNCHANGED <<bufs, appNames>>
  BY <1>4, <1>3 DEF create_handler, rename_handler, CloseUnlock, UnlockCreation
<1>5. ASSUME open_handler \/ consent_to_proceed_handler \/ ConsentCommitted \/ read_handler
             \/ ReadExists \/ ReadSize \/ write_handler
      PROVE  UNCHANGED <<bufs, appNames>>
  BY <1>1, <1>2, <1>3, <1>5 DEF open_handler, consent_to_proceed_handler, ConsentCommitted,
     read_handler, ReadExists, ReadSize, write_handler
<1>6. ASSUME close_handler \/ HandlerLock \/ (\E t \in Tid : HandlerStat(t)) \/ HandlerCheck
             \/ HandlerRelease
      PROVE  UNCHANGED <<bufs, appNames>>
  BY <1>2, <1>3, <1>6 DEF close_handler, HandlerLock, HandlerStat, HandlerCheck, HandlerRelease
<1>7. ASSUME read_next_request \/ addProducer \/ OpenWait \/ DataWait \/ CloseCountRead
             \/ CloseCountWrite
      PROVE  UNCHANGED <<bufs, appNames>>
  BY <1>3, <1>7 DEF read_next_request, addProducer, OpenWait, DataWait, CloseCountRead,
     CloseCountWrite
<1> QED
  BY <1>4, <1>5, <1>6, <1>7 DEF Handler

\* An answered or tested thread may leave a table, and none comes in.
LEMMA AwaitsLess ==
  ASSUME Base, NEW t \in Tid,
         \/ UNCHANGED <<waitC, waitD>>
         \/ (\E p : unlockThreadAwaitingCreation(p) \/ deleteFileAwaitingCreation(p)) /\ UNCHANGED waitD
         \/ (\E p \in Path, u \in Tid : \E b \in BOOLEAN : CheckWaiter(b, p, u)) /\ UNCHANGED waitC
  PROVE  AwaitsCreation(t)' \/ AwaitsData(t)' => AwaitsCreation(t) \/ AwaitsData(t)
<1>1. waitC \in [Path -> SUBSET Tid] /\ waitD \in [Path -> [Tid -> Nat \cup {-1}]]
  BY DEF Base, TypeOK, ServerTypes
<1>2. \A p : waitC' = [waitC EXCEPT ![p] = {}] => (AwaitsCreation(t)' => AwaitsCreation(t))
  BY <1>1 DEF AwaitsCreation
<1>3. \A p \in Path, u \in Tid :
        waitD' = [waitD EXCEPT ![p][u] = -1] => (AwaitsData(t)' => AwaitsData(t))
  BY <1>1 DEF AwaitsData
<1>4. waitC' = waitC => (AwaitsCreation(t)' => AwaitsCreation(t))
  BY DEF AwaitsCreation
<1>5. waitD' = waitD => (AwaitsData(t)' => AwaitsData(t))
  BY DEF AwaitsData
<1> QED
  BY <1>2, <1>3, <1>4, <1>5 DEF unlockThreadAwaitingCreation, deleteFileAwaitingCreation, CheckWaiter

\* No exception leaves the tables, and no look-up fails: a step of the handler
\* finds the thread it asks about.
LEMMA HandlerKnows ==
  ASSUME Base, DataMutexHeldOnce, \A t \in Tid : Known(t), Handler, NoUnknownThread
  PROVE  NoUnknownThread' /\ (exit_handler => ~Unknown(hreq.tid))
<1>1. /\ waitC \in [Path -> SUBSET Tid]
      /\ \A p \in Path : \A t \in waitC[p] : ~Unknown(t)
  <2>1. waitC \in [Path -> SUBSET Tid]
    BY DEF Base, TypeOK, ServerTypes
  <2> QED
    BY <2>1 DEF Known, InUse, AwaitsCreation, Live, Unknown
<1>2. \A p \in Path, t \in Tid : waitD[p][t] # -1 => ~Unknown(t) /\ ~Unnamed(t)
  BY DEF Known, InUse, AwaitsData, Live, Unknown, Unnamed
<1>3. hpc # "recv" => hreq \in Request /\ hreq.tid \in Tid /\ hreq.op \in OpsAt(hpc)
  BY DEF Base, HandlerPlace, Request
<1>4. hpc # "recv" /\ hpc # "HANDSHAKE" => ~Unknown(hreq.tid) /\ ~Unnamed(hreq.tid)
  <2>1. ASSUME hpc # "recv", hpc # "HANDSHAKE" PROVE hreq.op # "HANDSHAKE"
    BY <1>3, <2>1 DEF OpsAt, RequestCodes
  <2> QED
    BY <1>3, <2>1 DEF Known, InUse, Holds, Live, Unknown, Unnamed
<1>5. server = "up" /\ "up" # "out_of_range" /\ "filesystem_error" # "out_of_range"
  BY DEF Handler
<1>6. SUFFICES server' \in {"up", "filesystem_error"}
  BY <1>4 DEF NoUnknownThread, exit_handler
<1>7. ASSUME NEW v, Answer(v), hpc # "recv", hpc # "HANDSHAKE" PROVE server' = "up"
  BY <1>4, <1>5, <1>7 DEF Answer
<1>8. ASSUME NEW A, Move(A) PROVE server' = "up"
  BY <1>5, <1>8 DEF Move
<1>9. CASE create_handler \/ rename_handler \/ CloseUnlock
  <2>1. hpc \in {"CREATE", "RENAME", "close_unlock"}
    BY <1>9 DEF create_handler, rename_handler, CloseUnlock, UnlockCreation
  <2>2. hreq.path \in Path
    BY <1>3, <2>1 DEF OpsAt, RequestCodes, Request
  <2> QED
    BY <1>1, <1>5, <1>9, <2>2 DEF create_handler, rename_handler, CloseUnlock, UnlockCreation
<1>10. CASE open_handler \/ consent_to_proceed_handler \/ ConsentCommitted
  BY <1>4, <1>7, <1>8, <1>10 DEF open_handler, consent_to_proceed_handler, ConsentCommitted
<1>11. CASE read_handler \/ ReadExists \/ write_handler
  BY <1>7, <1>8, <1>11 DEF read_handler, ReadExists, write_handler
<1>12. CASE ReadSize
  <2>1. hpc \in {"read_size", "read_absent"}
    BY <1>12 DEF ReadSize
  <2>2. \/ Throw("filesystem_error") \/ (Unnamed(hreq.tid) /\ Throw("out_of_range"))
        \/ (\E v : Answer(v)) \/ Move(Continue("data_wait"))
    BY <1>12 DEF ReadSize
  <2> QED
    BY <1>4, <1>7, <1>8, <2>1, <2>2 DEF Throw
<1>13. CASE close_handler
  BY <1>4, <1>5, <1>8, <1>13 DEF close_handler
<1>14. CASE HandlerLock \/ (\E t \in Tid : HandlerStat(t)) \/ HandlerRelease
  BY <1>8, <1>14 DEF HandlerLock, HandlerStat, HandlerRelease
<1>15. CASE HandlerCheck
  <2>1. hpc = "stat"
    BY <1>15 DEF HandlerCheck
  <2>2. hreq.path \in Path
    BY <1>3, <2>1 DEF OpsAt, RequestCodes, Request
  <2>3. htid \in Tid /\ waitD[hreq.path][htid] # -1
    BY <2>1 DEF DataMutexHeldOnce
  <2>4. ~UnknownWaiter(hflag, hreq.path, htid)
    BY <1>2, <2>2, <2>3 DEF UnknownWaiter
  <2> QED
    BY <1>5, <1>15, <2>4 DEF HandlerCheck, Throw
<1>16. CASE addProducer \/ exit_handler
  BY <1>4, <1>5, <1>16 DEF addProducer, exit_handler
<1>17. CASE read_next_request \/ handshake_handler \/ OpenWait \/ DataWait \/ CloseCountRead
            \/ CloseCountWrite
  BY <1>5, <1>17 DEF read_next_request, handshake_handler, OpenWait, DataWait, CloseCountRead,
     CloseCountWrite
<1> QED
  BY <1>9, <1>10, <1>11, <1>12, <1>13, <1>14, <1>15, <1>16, <1>17 DEF Handler

\* The same for the monitor.
LEMMA MonitorKnows ==
  ASSUME Base, DataMutexHeldOnce, \A t \in Tid : Known(t), Monitor, NoUnknownThread
  PROVE  NoUnknownThread'
<1>1. /\ waitC \in [Path -> SUBSET Tid]
      /\ \A p \in Path : \A t \in waitC[p] : ~Unknown(t)
  <2>1. waitC \in [Path -> SUBSET Tid]
    BY DEF Base, TypeOK, ServerTypes
  <2> QED
    BY <2>1 DEF Known, InUse, AwaitsCreation, Live, Unknown
<1>2. server = "up"
  BY DEF Monitor
<1>3. SUFFICES server' \in {"up", "filesystem_error"}
  BY DEF NoUnknownThread
<1>4. CASE MonitorUnlock
  BY <1>1, <1>2, <1>4 DEF MonitorUnlock, Base, MonitorPlace
<1>5. CASE MonitorCheck
  <2>1. mpc = "stat" /\ mpath \in Path
    BY <1>5 DEF MonitorCheck, Base, MonitorPlace
  <2>2. mtid \in Tid /\ waitD[mpath][mtid] # -1
    BY <2>1 DEF DataMutexHeldOnce
  <2>3. ~UnknownWaiter(mflag, mpath, mtid)
    BY <2>1, <2>2 DEF Known, InUse, AwaitsData, Live, Unknown, Unnamed, UnknownWaiter
  <2> QED
    BY <1>2, <1>5, <2>3 DEF MonitorCheck, Throw
<1>6. CASE \/ MonitorCreationList \/ MonitorDataList \/ MonitorDelete \/ MonitorLock
           \/ MonitorRelease \/ (\E t \in Tid : MonitorStat(t))
           \/ \E p \in Path : MonitorCreation(p) \/ MonitorData(p)
  BY <1>2, <1>6 DEF MonitorCreationList, MonitorDataList, MonitorDelete, MonitorLock,
     MonitorRelease, MonitorStat, MonitorCreation, MonitorData
<1> QED
  BY <1>4, <1>5, <1>6 DEF Monitor

\* A step of the handler keeps the order in which it hears of a thread.
LEMMA HandlerKnown ==
  ASSUME Base, DataMutexHeldOnce, NEW t \in Tid, Known(t), Handler,
         exit_handler => ~Unknown(hreq.tid)
  PROVE  Known(t)'
<1>1. CASE handshake_handler
  BY <1>1, HandshakeKnown
<1>2. CASE exit_handler
  BY <1>2, ExitKnown
<1>3. CASE read_next_request
  BY <1>3, ReadKnown
<1>4. CASE ~handshake_handler /\ ~exit_handler /\ ~read_next_request
  <2>1. UNCHANGED <<bufs, appNames>>
    BY <1>4, ManagerEffects
  <2>2. hpc # "HANDSHAKE" /\ (hpc # "recv" => hreq.op # "HANDSHAKE")
    <3>1. hpc # "HANDSHAKE"
      BY <1>4 DEF Handler, create_handler, rename_handler, CloseUnlock, UnlockCreation,
         addProducer, open_handler, OpenWait, consent_to_proceed_handler, ConsentCommitted,
         read_handler, ReadExists, ReadSize, DataWait, write_handler, close_handler, HandlerLock,
         HandlerStat, HandlerCheck, HandlerRelease, CloseCountRead, CloseCountWrite
    <3> QED
      BY <3>1 DEF Base, HandlerPlace, OpsAt, RequestCodes
  <2>3. CASE \E e : Throw(e)
    BY <2>3, ServerKnown, AwaitsLess DEF Throw, cmVars, clientVars, handlerVars
  <2>4. CASE Quiet
    BY <2>1, <2>2, <2>4, ServerKnown, AwaitsLess DEF Quiet
  <2>5. CASE Answers
    BY <2>1, <2>2, <2>5, ServerKnown, AwaitsLess DEF Answers
  <2>6. CASE Unlocks(hreq.path)
    BY <2>1, <2>2, <2>6, ServerKnown, AwaitsLess DEF Unlocks, HandsKept
  <2>7. CASE Checks(hreq.path, htid) /\ HandlerCheck
    <3>1. hpc = "stat" /\ htid \in Tid
      BY <2>7 DEF HandlerCheck, DataMutexHeldOnce
    <3>2. hreq.path \in Path
      BY <3>1 DEF Base, HandlerPlace, OpsAt, RequestCodes, Request
    <3> QED
      BY <2>1, <2>2, <2>7, <3>1, <3>2, ServerKnown, AwaitsLess DEF Checks, HandsKept
  <2>8. CASE OpenWait \/ DataWait
    <3>1. /\ UNCHANGED <<reqs, pc, call, out>> /\ hpc \in {"open_wait", "data_wait"} /\ hpc' = "recv"
          /\ \/ waitC' = [waitC EXCEPT ![hreq.path] = @ \cup {hreq.tid}] /\ waitD' = waitD
             \/ /\ waitD' = [waitD EXCEPT ![hreq.path][hreq.tid] = IF @ = -1 THEN hreq.n ELSE @]
                /\ waitC' = waitC
      BY <2>8 DEF OpenWait, DataWait, addThreadAwaitingCreation, addThreadAwaitingData, Return,
         handlerOther, clientVars
    <3>2. hreq.op \in Blocking /\ hreq.path \in Path /\ hreq.tid \in Tid
      BY <3>1 DEF Base, HandlerPlace, OpsAt, RequestCodes, Request, Blocking
    <3>3. waitC \in [Path -> SUBSET Tid] /\ waitD \in [Path -> [Tid -> Nat \cup {-1}]]
      BY DEF Base, TypeOK, ServerTypes
    <3>4. InHand(t) <=> t = hreq.tid
      BY <3>1, <3>2 DEF InHand, BlocksFor
    <3>5. AwaitsCreation(t)' => AwaitsCreation(t) \/ InHand(t)
      BY <3>1, <3>2, <3>3, <3>4 DEF AwaitsCreation
    <3>6. AwaitsData(t)' => AwaitsData(t) \/ InHand(t)
      BY <3>1, <3>2, <3>3, <3>4 DEF AwaitsData
    <3> QED
      BY <2>1, <2>2, <3>1, <3>5, <3>6, ServerKnown
  <2> QED
    BY <1>4, <2>3, <2>4, <2>5, <2>6, <2>7, <2>8, HandlerEffects
<1> QED
  BY <1>1, <1>2, <1>3, <1>4

\* The monitor answers threads and forgets them, and makes none wait.
LEMMA MonitorKnown ==
  ASSUME Base, DataMutexHeldOnce, NEW t \in Tid, Known(t), Monitor
  PROVE  Known(t)'
<1>1. UNCHANGED <<reqs, bufs, appNames, pc, call, out, hpc, hreq>>
  BY DEF Monitor, MonitorCreationList, MonitorCreation, MonitorUnlock, MonitorDelete,
     MonitorDataList, MonitorData, MonitorLock, MonitorStat, MonitorCheck, MonitorRelease, Throw,
     monitorOther, cmVars, clientVars, handlerVars
<1>2. CASE \E e : Throw(e)
  BY <1>1, <1>2, ServerKnown, AwaitsLess DEF Throw
<1>3. CASE Quiet
  BY <1>1, <1>3, ServerKnown, AwaitsLess DEF Quiet
<1>4. CASE Unlocks(mpath)
  BY <1>1, <1>4, ServerKnown, AwaitsLess DEF Unlocks
<1>5. CASE MonitorDelete
  BY <1>1, <1>5, ServerKnown, AwaitsLess DEF MonitorDelete
<1>6. CASE Checks(mpath, mtid) /\ MonitorCheck
  <2>1. mpc = "stat" /\ mtid \in Tid /\ mpath \in Path
    BY <1>6 DEF MonitorCheck, DataMutexHeldOnce, Base, MonitorPlace
  <2> QED
    BY <1>1, <1>6, <2>1, ServerKnown, AwaitsLess DEF Checks
<1> QED
  BY <1>2, <1>3, <1>4, <1>5, <1>6, MonitorEffects

\* A step of another thread that at most adds a request of its own.
LEMMA OthersKnown ==
  ASSUME Base, NEW t \in Tid, Known(t),
         UNCHANGED <<bufs, appNames, hpc, hreq, waitC, waitD>>,
         pc'[t] = pc[t], call'[t] = call[t], out'[t] = out[t],
         reqs' = reqs \/ \E r \in Request : reqs' = Append(reqs, r) /\ r.tid # t
  PROVE  Known(t)'
<1>1. reqs \in Seq(Request)
  BY DEF Base, TypeOK, ServerTypes
<1>2. /\ Len(reqs) \in Nat /\ Len(reqs') \in Nat /\ Len(reqs') >= Len(reqs)
      /\ \A i \in 1 .. Len(reqs) : reqs'[i] = reqs[i]
      /\ \A i \in 1 .. Len(reqs') : i \in 1 .. Len(reqs) \/ reqs'[i].tid # t
  <2>1. CASE reqs' = reqs
    BY <1>1, <2>1
  <2>2. ASSUME NEW r \in Request, reqs' = Append(reqs, r), r.tid # t PROVE <1>2!:
    BY <1>1, <2>2
  <2> QED
    BY <2>1, <2>2
<1>3. /\ Live(t)' <=> Live(t)
      /\ Holds(t)' <=> Holds(t)
      /\ Greets(t)' <=> Greets(t)
      /\ Silent(t)' <=> Silent(t)
      /\ InHand(t)' <=> InHand(t)
      /\ AwaitsCreation(t)' <=> AwaitsCreation(t)
      /\ AwaitsData(t)' <=> AwaitsData(t)
  BY DEF Live, Holds, Greets, Silent, InHand, AwaitsCreation, AwaitsData
<1>4. \A i \in 1 .. Len(reqs) : i \in 1 .. Len(reqs')
  BY <1>2
<1>5. /\ Greeting(t) => Greeting(t)'
      /\ Leaving(t)' => Leaving(t)
      /\ InQueue(t)' => InQueue(t)
  BY <1>2, <1>3, <1>4 DEF Greeting, Leaving, InQueue, Hears, BlocksFor
<1>6. InOrder(t)'
  <2>1. SUFFICES ASSUME NEW i \in 1 .. Len(reqs'), reqs'[i].tid = t
                 PROVE  /\ \/ reqs'[i].op = "HANDSHAKE" \/ Live(t) \/ Greets(t)
                           \/ \E j \in 1 .. (i - 1) : Hears(reqs'[j], t, "HANDSHAKE")
                        /\ \A j \in 1 .. (i - 1) : ~Hears(reqs'[j], t, "EXIT")
                        /\ ~(Holds(t) /\ hreq.op = "EXIT")
    BY <1>3 DEF InOrder, Hears
  <2>2. i \in 1 .. Len(reqs) /\ reqs'[i] = reqs[i]
    BY <1>2, <2>1
  <2>3. \A j \in 1 .. (i - 1) : j \in 1 .. Len(reqs) /\ reqs'[j] = reqs[j]
    BY <1>2, <2>2
  <2> QED
    BY <2>1, <2>2, <2>3 DEF Known, InOrder
<1>7. InUse(t)'
  BY <1>3 DEF Known, InUse
<1>8. Introduced(t)' /\ ExitLast(t)'
  BY <1>3, <1>5 DEF Known, Introduced, ExitLast, init_process, Req
<1> QED
  BY <1>6, <1>7, <1>8 DEF Known

\* A call begins: its thread has nothing more to send of earlier ones, so it
\* was introduced before.
LEMMA BeginKnown ==
  ASSUME Base, NEW t \in Tid, Known(t), ThreadInv(t), NEW u \in Tid, NEW c \in Calls[u], Begin(u, c)
  PROVE  Known(t)'
<1>1. /\ UNCHANGED <<reqs, bufs, appNames, hpc, hreq, waitC, waitD>>
      /\ pc[u] = "idle" /\ call' = [call EXCEPT ![u] = c]
      /\ out' = [out EXCEPT ![u] = Requests(u, c)]
      /\ pc' = [pc EXCEPT ![u] = IF Requests(u, c) = <<>> THEN "kernel" ELSE "send"]
      /\ pc \in [Tid -> {"idle", "send", "wait", "kernel", "gone"}]
      /\ call \in [Tid -> Call] /\ out \in [Tid -> Seq(Request)]
  BY DEF Begin, Goto, clientOther, cmVars, handlerVars, Base, TypeOK, CallTypes
<1>2. CASE t # u
  BY <1>1, <1>2, OthersKnown
<1>3. CASE t = u
  <2>1. pc[t] = "idle" /\ out[t] = <<>> /\ ~Silent(t)
    BY <1>1, <1>3 DEF ThreadInv, OutShape, Silent
  <2>2. init_process(t) # <<>>
    BY DEF init_process
  <2>3. Live(t) \/ Greets(t) \/ Greeting(t)
    BY <2>1, <2>2 DEF Known, Introduced
  <2>4. ~Leaving(t)
    BY <2>1 DEF Known, ExitLast
  <2>5. /\ Live(t)' <=> Live(t)
        /\ Holds(t)' <=> Holds(t)
        /\ Greets(t)' <=> Greets(t)
        /\ Greeting(t)' <=> Greeting(t)
        /\ Leaving(t)' <=> Leaving(t)
        /\ AwaitsCreation(t)' <=> AwaitsCreation(t)
        /\ AwaitsData(t)' <=> AwaitsData(t)
    BY <1>1 DEF Live, Holds, Greets, Greeting, Leaving, Hears, AwaitsCreation, AwaitsData
  <2>6. InOrder(t)'
    BY <1>1, <2>5 DEF Known, InOrder, Hears
  <2>7. InUse(t)'
    BY <1>1, <2>5 DEF Known, InUse
  <2>8. Introduced(t)'
    BY <2>3, <2>5 DEF Introduced
  <2>9. ExitLast(t)'
    <3>1. out'[t] = Requests(t, c) /\ call'[t] = c /\ CacheTypes
      BY <1>1, <1>3 DEF Base, TypeOK
    <3> QED
      BY <1>3, <2>4, <2>5, <3>1, RequestsExit DEF ExitLast
  <2> QED
    BY <2>6, <2>7, <2>8, <2>9 DEF Known
<1> QED
  BY <1>2, <1>3

\* A request enters the queue, behind the handshake of its sender and before
\* nothing else of it if it is EXIT.
LEMMA SendKnown ==
  ASSUME Base, NEW t \in Tid, Known(t), ThreadInv(t), NEW u \in Tid, OutShape(u), Send(u)
  PROVE  Known(t)'
<1> DEFINE r == Head(out[u])
           n == Len(reqs)
<1>1. /\ UNCHANGED <<bufs, appNames, call, waitC, waitD, hpc, hreq>> /\ pc[u] = "send"
      /\ reqs' = Append(reqs, r) /\ out' = [out EXCEPT ![u] = Tail(@)]
      /\ pc' = [pc EXCEPT ![u] = IF Tail(out[u]) # <<>> THEN "send"
                                 ELSE IF r.op \in Blocking THEN "wait" ELSE "kernel"]
      /\ pc \in [Tid -> {"idle", "send", "wait", "kernel", "gone"}]
      /\ out \in [Tid -> Seq(Request)] /\ reqs \in Seq(Request)
  BY DEF Send, Goto, clientOther, cmVars, handlerVars, Base, TypeOK, CallTypes, ServerTypes
<1>2. out[u] \in Seq(Request) /\ out[u] # <<>>
  BY <1>1 DEF OutShape
<1>3. /\ r \in Request /\ r = out[u][1] /\ Tail(out[u]) \in Seq(Request)
      /\ Len(Tail(out[u])) = Len(out[u]) - 1 /\ Len(out[u]) \in Nat \ {0}
      /\ 1 \in 1 .. Len(out[u])
      /\ \A i \in 1 .. Len(Tail(out[u])) :
           i + 1 \in 1 .. Len(out[u]) /\ Tail(out[u])[i] = out[u][i + 1]
  BY <1>2
<1>4. r.tid = u
  BY <1>3 DEF OutShape
<1> HIDE DEF r
<1>5. CASE t # u
  <2>1. pc'[t] = pc[t] /\ call'[t] = call[t] /\ out'[t] = out[t]
    BY <1>1, <1>5
  <2> QED
    BY <1>1, <1>3, <1>4, <1>5, <2>1, OthersKnown
<1>6. CASE t = u
  <2>1. pc[t] = "send" /\ ~Silent(t) /\ ~Leaving(t)
    BY <1>1, <1>6 DEF Silent, Known, ExitLast
  <2>2. ~InQueue(t) /\ ~InHand(t) /\ ~AwaitsCreation(t) /\ ~AwaitsData(t)
    BY <2>1 DEF ThreadInv, OnePlace, Outstanding
  <2>3. /\ n \in Nat /\ Len(reqs') = n + 1 /\ n + 1 \in 1 .. Len(reqs')
        /\ \A i \in 1 .. n : reqs'[i] = reqs[i] /\ i \in 1 .. Len(reqs')
        /\ reqs'[n + 1] = r
        /\ \A i \in 1 .. Len(reqs') : i \in 1 .. n \/ i = n + 1
    BY <1>1, <1>3
  <2>4. /\ Live(t)' <=> Live(t)
        /\ Holds(t)' <=> Holds(t)
        /\ Greets(t)' <=> Greets(t)
        /\ InHand(t)' <=> InHand(t)
        /\ AwaitsCreation(t)' <=> AwaitsCreation(t)
        /\ AwaitsData(t)' <=> AwaitsData(t)
    BY <1>1 DEF Live, Holds, Greets, InHand, AwaitsCreation, AwaitsData
  <2>5. out[t] = init_process(t) => r.op = "HANDSHAKE"
    BY <1>3, <1>6 DEF init_process, Req
  <2>6. r.op = "HANDSHAKE" \/ Live(t) \/ Greets(t) \/ Greeting(t)
    BY <2>1, <2>5 DEF Known, Introduced
  <2>7. r.op = "EXIT" => Len(out[t]) = 1 /\ call[t].op = "exit"
    BY <1>3, <1>6 DEF Known, ExitLast
  <2>8. InOrder(t)'
    <3>1. SUFFICES ASSUME NEW i \in 1 .. Len(reqs'), reqs'[i].tid = t
                   PROVE  /\ \/ reqs'[i].op = "HANDSHAKE" \/ Live(t) \/ Greets(t)
                             \/ \E j \in 1 .. (i - 1) : Hears(reqs'[j], t, "HANDSHAKE")
                          /\ \A j \in 1 .. (i - 1) : ~Hears(reqs'[j], t, "EXIT")
                          /\ ~(Holds(t) /\ hreq.op = "EXIT")
      BY <1>1, <2>4 DEF InOrder, Hears
    <3>2. \A j \in 1 .. (i - 1) : j \in 1 .. n /\ reqs'[j] = reqs[j]
      BY <2>3
    <3>3. /\ \A j \in 1 .. (i - 1) : ~Hears(reqs'[j], t, "EXIT")
          /\ ~(Holds(t) /\ hreq.op = "EXIT")
      BY <2>1, <3>2 DEF Leaving, n
    <3>4. CASE i \in 1 .. n
      BY <2>3, <3>1, <3>2, <3>3, <3>4 DEF Known, InOrder, n
    <3>5. CASE i = n + 1
      <4>1. i - 1 = n
        BY <2>3, <3>5
      <4> QED
        BY <2>3, <2>6, <3>2, <3>3, <3>5, <4>1 DEF Greeting, n
    <3> QED
      BY <2>3, <3>4, <3>5
  <2>9. InUse(t)'
    BY <1>1, <2>4 DEF Known, InUse
  <2>10. Introduced(t)'
    <3>1. Greeting(t) \/ r.op = "HANDSHAKE" => Greeting(t)'
      BY <1>4, <1>6, <2>3 DEF Greeting, Hears, n
    <3> QED
      BY <2>4, <2>6, <3>1 DEF Introduced
  <2>11. r.op = "EXIT" => Silent(t)'
    <3>1. SUFFICES ASSUME r.op = "EXIT" PROVE pc'[t] = "kernel" /\ call'[t].op = "exit"
      BY DEF Silent
    <3>2. Len(Tail(out[u])) = 0
      BY <1>3, <1>6, <2>7, <3>1
    <3>3. Tail(out[u]) = <<>>
      BY <1>3, <3>2, EmptySeq
    <3> QED
      BY <1>1, <1>6, <2>7, <3>1, <3>3 DEF Blocking
  <2>12. Leaving(t)' => r.op = "EXIT"
    BY <1>1, <2>1, <2>3, <2>4 DEF Leaving, Hears, n
  <2>13. InQueue(t)' => r.op \in Blocking
    BY <2>2, <2>3 DEF InQueue, BlocksFor, n
  <2>14. \A i \in 1 .. Len(out'[t]) :
           out'[t][i].op = "EXIT" => i = Len(out'[t]) /\ call'[t].op = "exit"
    <3>1. out'[t] = Tail(out[t]) /\ call'[t] = call[t]
      BY <1>1, <1>6
    <3>2. SUFFICES ASSUME NEW i \in 1 .. Len(Tail(out[t])), Tail(out[t])[i].op = "EXIT"
                   PROVE  i = Len(Tail(out[t])) /\ call[t].op = "exit"
      BY <3>1
    <3>3. i + 1 \in 1 .. Len(out[t]) /\ out[t][i + 1].op = "EXIT" /\ i \in Nat
      BY <1>3, <1>6, <3>2
    <3>4. i + 1 = Len(out[t]) /\ call[t].op = "exit"
      BY <3>3 DEF Known, ExitLast
    <3> QED
      BY <1>3, <1>6, <3>3, <3>4
  <2>15. ExitLast(t)'
    BY <2>2, <2>4, <2>11, <2>12, <2>13, <2>14 DEF ExitLast, Blocking
  <2> QED
    BY <2>8, <2>9, <2>10, <2>15 DEF Known
<1> QED
  BY <1>5, <1>6

\* Answered, back from the kernel, or dead: who was silent stays so.
LEMMA MoveKnown ==
  ASSUME Base, NEW t \in Tid, Known(t), ThreadInv(t), NEW u \in Tid, Resume(u) \/ Kernel(u) \/ Kill(u)
  PROVE  Known(t)'
<1>1. /\ UNCHANGED <<reqs, bufs, appNames, waitC, waitD, hpc, hreq>>
      /\ pc \in [Tid -> {"idle", "send", "wait", "kernel", "gone"}]
      /\ call \in [Tid -> Call] /\ out \in [Tid -> Seq(Request)]
  BY DEF Resume, Kernel, Kill, clientOther, cmVars, handlerVars, Base, TypeOK, CallTypes
<1>2. \/ pc[u] = "wait" /\ pc' = [pc EXCEPT ![u] = "kernel"] /\ UNCHANGED <<call, out>>
      \/ /\ pc[u] = "kernel" /\ out' = out /\ call' = [call EXCEPT ![u] = NoCall]
         /\ pc' = [pc EXCEPT ![u] = IF call[u].op = "exit" THEN "gone" ELSE "idle"]
      \/ /\ pc' = [pc EXCEPT ![u] = "gone"] /\ out' = [out EXCEPT ![u] = <<>>]
         /\ call' = [call EXCEPT ![u] = NoCall]
  BY DEF Resume, Kernel, Kill, Goto
<1>3. CASE t # u
  <2>1. pc'[t] = pc[t] /\ call'[t] = call[t] /\ out'[t] = out[t]
    BY <1>1, <1>2, <1>3
  <2> QED
    BY <1>1, <2>1, OthersKnown
<1>4. CASE t = u
  <2>1. \/ out'[t] = out[t] /\ out[t] = <<>>
        \/ out'[t] = <<>>
    BY <1>1, <1>2, <1>4 DEF ThreadInv, OutShape
  <2>2. Silent(t) => Silent(t)'
    BY <1>1, <1>2, <1>4 DEF Silent
  <2>3. init_process(t) # <<>>
    BY DEF init_process
  <2>4. out[t] = init_process(t) => Silent(t)'
    BY <1>1, <1>2, <1>4, <2>3 DEF ThreadInv, OutShape, Silent
  <2>5. /\ Live(t)' <=> Live(t)
        /\ Holds(t)' <=> Holds(t)
        /\ Greets(t)' <=> Greets(t)
        /\ Greeting(t)' <=> Greeting(t)
        /\ Leaving(t)' <=> Leaving(t)
        /\ InQueue(t)' <=> InQueue(t)
        /\ InHand(t)' <=> InHand(t)
        /\ AwaitsCreation(t)' <=> AwaitsCreation(t)
        /\ AwaitsData(t)' <=> AwaitsData(t)
    BY <1>1 DEF Live, Holds, Greets, Greeting, Leaving, InQueue, InHand, Hears, BlocksFor,
       AwaitsCreation, AwaitsData
  <2>6. InOrder(t)'
    BY <1>1, <2>5 DEF Known, InOrder, Hears
  <2>7. InUse(t)'
    BY <1>1, <2>5 DEF Known, InUse
  <2>8. Introduced(t)'
    BY <2>2, <2>4, <2>5 DEF Known, Introduced
  <2>9. ExitLast(t)'
    BY <2>1, <2>2, <2>5 DEF Known, ExitLast
  <2> QED
    BY <2>6, <2>7, <2>8, <2>9 DEF Known
<1> QED
  BY <1>3, <1>4

\* At the start every thread has only its handshake to send.
LEMMA InitKnown == Init => KnownInv
<1> SUFFICES ASSUME Init PROVE KnownInv
  OBVIOUS
<1>1. NoUnknownThread
  BY DEF Init, NoUnknownThread
<1>2. ASSUME NEW t \in Tid PROVE Known(t)
  <2>1. /\ reqs = <<>> /\ hpc = "recv" /\ out[t] = init_process(t)
        /\ ~AwaitsCreation(t) /\ ~AwaitsData(t)
    BY DEF Init, AwaitsCreation, AwaitsData
  <2>2. InOrder(t) /\ InUse(t) /\ Introduced(t) /\ ~Leaving(t)
    BY <2>1 DEF InOrder, InUse, Introduced, Leaving, Holds
  <2>3. \A i \in 1 .. Len(out[t]) : out[t][i].op # "EXIT"
    BY <2>1 DEF init_process, Req
  <2> QED
    BY <2>2, <2>3 DEF Known, ExitLast
<1> QED
  BY <1>1, <1>2 DEF KnownInv

\* With CallInv, KnownInv is inductive.
LEMMA StepKnown == CallInv /\ KnownInv /\ [Next]_vars => KnownInv'
<1> SUFFICES ASSUME CallInv, KnownInv, [Next]_vars PROVE KnownInv'
  OBVIOUS
<1>1. /\ Base /\ DataMutexHeldOnce /\ NoUnknownThread
      /\ \A t \in Tid : Known(t) /\ ThreadInv(t) /\ OutShape(t)
  BY DEF CallInv, KnownInv, DataMutexHeldOnce, StatInv, Base, ThreadInv
<1>2. CASE UNCHANGED vars
  <2>1. UNCHANGED <<server, reqs, bufs, appNames, pc, call, out, hpc, hreq, waitC, waitD>>
    BY <1>2 DEF vars, cmVars, clientVars, handlerVars
  <2>2. ASSUME NEW t \in Tid PROVE Known(t)'
    BY <1>1, <2>1, ServerKnown, AwaitsLess
  <2> QED
    BY <1>1, <2>1, <2>2 DEF KnownInv, NoUnknownThread
<1>3. ASSUME NEW u \in Tid, Client(u) PROVE KnownInv'
  <2>1. server' = server
    BY <1>3 DEF Client, Begin, Send, Resume, Kernel, Kill, clientOther
  <2>2. ASSUME NEW t \in Tid PROVE Known(t)'
    BY <1>1, <1>3, BeginKnown, SendKnown, MoveKnown DEF Client
  <2> QED
    BY <1>1, <2>1, <2>2 DEF KnownInv, NoUnknownThread
<1>4. ASSUME Handler PROVE KnownInv'
  <2>1. NoUnknownThread' /\ (exit_handler => ~Unknown(hreq.tid))
    BY <1>1, <1>4, HandlerKnows
  <2> QED
    BY <1>1, <1>4, <2>1, HandlerKnown DEF KnownInv
<1>5. ASSUME Monitor PROVE KnownInv'
  BY <1>1, <1>5, MonitorKnows, MonitorKnown DEF KnownInv
<1> QED
  BY <1>2, <1>3, <1>4, <1>5 DEF Next

\* No look-up by thread id fails in the server, for any number of threads,
\* whatever they call and whenever they are killed or leave: the handshake of a
\* thread is handled before anything else of it, and EXIT after.
THEOREM ThreadsKnown == Spec => []NoUnknownThread
<1>1. Init => CallInv /\ KnownInv
  BY InitInv, InitKnown
<1>2. CallInv /\ KnownInv /\ [Next]_vars => (CallInv /\ KnownInv)'
  BY StepInv, StepKnown
<1>3. KnownInv => NoUnknownThread
  BY DEF KnownInv
<1> QED
  BY <1>1, <1>2, <1>3, PTL DEF Spec

-----------------------------------------------------------------------------
(* isCommitted.  The recursive function it is defined with exists; what it *)
(* says by induction on the depth is said of the least depth at which it   *)
(* would be false.                                                         *)

\* A property that fails at no least depth holds at every depth.
LEMMA LeastDepth ==
  ASSUME NEW T \in SUBSET Nat, T # {}
  PROVE  \E m \in T : \A n \in 0 .. m - 1 : n \notin T
<1> DEFINE R == {ss \in Nat \X Nat : ss[1] < ss[2]}
<1>1. IsWellFoundedOn(R, Nat)
  BY NatLessThanWellFounded DEF OpToRel
<1> HIDE DEF R
<1>2. PICK m \in T : \A y \in T : ~(<<y, m>> \in R)
  BY <1>1, WFMin
<1>3. ASSUME NEW n \in 0 .. m - 1, n \in T PROVE FALSE
  <2>1. n \in Nat /\ m \in Nat /\ n < m
    OBVIOUS
  <2> QED
    BY <1>2, <1>3, <2>1 DEF R
<1> QED
  BY <1>3

\* The values of the recursion up to a depth.
Values(G, n, h) ==
  h \in [0 .. n -> SUBSET Path] /\ \A i \in 0 .. n : h[i] = G[IF i = 0 THEN {} ELSE h[i - 1]]

\* The recursion reaches every depth.
LEMMA ValuesExist ==
  ASSUME NEW G \in [SUBSET Path -> SUBSET Path]
  PROVE  \A n \in Nat : \E h : Values(G, n, h)
<1> SUFFICES ASSUME \E n \in Nat : ~\E h : Values(G, n, h) PROVE FALSE
  OBVIOUS
<1> DEFINE T == {n \in Nat : ~\E h : Values(G, n, h)}
<1>1. PICK m \in T : \A n \in 0 .. m - 1 : n \notin T
  <2>1. T \in SUBSET Nat /\ T # {}
    OBVIOUS
  <2> HIDE DEF T
  <2> QED
    BY <2>1, LeastDepth
<1>2. CASE m = 0
  <2> DEFINE h == [i \in 0 .. 0 |-> G[{}]]
  <2>1. Values(G, 0, h)
    BY DEF Values
  <2> QED
    BY <1>2, <2>1
<1>3. CASE m # 0
  <2>1. m \in Nat /\ m - 1 \in Nat /\ m - 1 \in 0 .. m - 1
    BY <1>3
  <2>2. PICK g : Values(G, m - 1, g)
    BY <1>1, <2>1
  <2> DEFINE h == [i \in 0 .. m |-> IF i = m THEN G[g[m - 1]] ELSE g[i]]
  <2>3. /\ g \in [0 .. m - 1 -> SUBSET Path]
        /\ \A i \in 0 .. m - 1 : g[i] = G[IF i = 0 THEN {} ELSE g[i - 1]]
    BY <2>2 DEF Values
  <2>4. h \in [0 .. m -> SUBSET Path]
    BY <2>1, <2>3
  <2>5. ASSUME NEW i \in 0 .. m PROVE h[i] = G[IF i = 0 THEN {} ELSE h[i - 1]]
    <3>1. CASE i = m
      <4>1. h[i] = G[g[m - 1]] /\ h[i - 1] = g[m - 1] /\ i # 0
        BY <2>1, <3>1
      <4> QED
        BY <4>1, <3>1
    <3>2. CASE i # m
      <4>1. i \in 0 .. m - 1 /\ (i # 0 => i - 1 \in 0 .. m - 1 /\ i - 1 # m)
        BY <2>1, <3>2
      <4>2. h[i] = g[i] /\ (i # 0 => h[i - 1] = g[i - 1])
        BY <2>1, <4>1
      <4> QED
        BY <2>3, <4>1, <4>2
    <3> QED
      BY <3>1, <3>2
  <2>6. Values(G, m, h)
    BY <2>4, <2>5 DEF Values
  <2> QED
    BY <2>6
<1> QED
  BY <1>2, <1>3

\* Two runs of the recursion agree as far as both go.
LEMMA ValuesAgree ==
  ASSUME NEW G, NEW m \in Nat, NEW n \in Nat, NEW g, NEW h,
         Values(G, m, g), Values(G, n, h), NEW i \in Nat, i <= m, i <= n
  PROVE  g[i] = h[i]
<1> SUFFICES ASSUME g[i] # h[i] PROVE FALSE
  OBVIOUS
<1> DEFINE T == {j \in Nat : j <= m /\ j <= n /\ g[j] # h[j]}
<1>1. PICK j \in T : \A k \in 0 .. j - 1 : k \notin T
  <2>1. T \in SUBSET Nat /\ T # {}
    OBVIOUS
  <2> HIDE DEF T
  <2> QED
    BY <2>1, LeastDepth
<1>2. j \in 0 .. m /\ j \in 0 .. n /\ g[j] # h[j]
  OBVIOUS
<1>3. j # 0 => j - 1 \in 0 .. j - 1 /\ j - 1 \in Nat /\ j - 1 <= m /\ j - 1 <= n
  BY <1>2
<1>4. j # 0 => g[j - 1] = h[j - 1]
  BY <1>1, <1>3
<1> QED
  BY <1>2, <1>4 DEF Values

\* So the recursion defines a function.
LEMMA Recursion ==
  ASSUME NEW G \in [SUBSET Path -> SUBSET Path]
  PROVE  \E f \in [Nat -> SUBSET Path] : f = [n \in Nat |-> G[IF n = 0 THEN {} ELSE f[n - 1]]]
<1> DEFINE V(n) == CHOOSE h : Values(G, n, h)
           f == [n \in Nat |-> V(n)[n]]
<1>1. ASSUME NEW n \in Nat PROVE Values(G, n, V(n))
  BY ValuesExist
<1>2. ASSUME NEW n \in Nat PROVE f[n] = G[IF n = 0 THEN {} ELSE f[n - 1]]
  <2>1. f[n] = V(n)[n] /\ (n # 0 => f[n - 1] = V(n - 1)[n - 1])
    OBVIOUS
  <2> HIDE DEF f
  <2>2. Values(G, n, V(n)) /\ (n # 0 => Values(G, n - 1, V(n - 1)))
    BY <1>1
  <2> HIDE DEF V
  <2>3. V(n)[n] = G[IF n = 0 THEN {} ELSE V(n)[n - 1]]
    BY <2>2 DEF Values
  <2>4. n # 0 => V(n)[n - 1] = V(n - 1)[n - 1]
    BY <2>2, ValuesAgree
  <2> QED
    BY <2>1, <2>3, <2>4
<1>3. f \in [Nat -> SUBSET Path]
  <2>1. ASSUME NEW n \in Nat PROVE V(n)[n] \in SUBSET Path
    BY <1>1 DEF Values
  <2> HIDE DEF V
  <2> QED
    BY <2>1
<1>4. f = [n \in Nat |-> G[IF n = 0 THEN {} ELSE f[n - 1]]]
  <2>1. DOMAIN f = Nat /\ f = [n \in Nat |-> f[n]]
    OBVIOUS
  <2> HIDE DEF f
  <2> QED
    BY <1>2, <2>1
<1> HIDE DEF f
<1> QED
  BY <1>3, <1>4

\* The equation CommittedWithin is defined by.
Unfolds ==
  \A n \in Nat : CommittedWithin[n] = CommittedGiven(IF n = 0 THEN {} ELSE CommittedWithin[n - 1])

\* It holds: the nested calls of isCommitted are a recursive function.
LEMMA CommittedUnfolds == Unfolds
<1> DEFINE G == [S \in SUBSET Path |-> CommittedGiven(S)]
<1>1. \A S : CommittedGiven(S) \subseteq Path
  BY DEF CommittedGiven
<1>2. PICK f \in [Nat -> SUBSET Path] : f = [n \in Nat |-> G[IF n = 0 THEN {} ELSE f[n - 1]]]
  <2>1. G \in [SUBSET Path -> SUBSET Path]
    BY <1>1
  <2> HIDE DEF G
  <2> QED
    BY <2>1, Recursion
<1>3. \A n \in Nat : (IF n = 0 THEN {} ELSE f[n - 1]) \in SUBSET Path
  OBVIOUS
<1>4. f = [n \in Nat |-> CommittedGiven(IF n = 0 THEN {} ELSE f[n - 1])]
  BY <1>2, <1>3
<1>5. CommittedWithin
        = [n \in Nat |-> CommittedGiven(IF n = 0 THEN {} ELSE CommittedWithin[n - 1])]
  BY <1>4 DEF CommittedWithin
<1> QED
  BY <1>5 DEF Unfolds

\* In the next state too, as in every state.
LEMMA CommittedUnfoldsNext == Unfolds'
BY CommittedUnfolds, PTL

-----------------------------------------------------------------------------
(* A commit stays.                                                         *)

\* Only files of the configuration that are committed by closes have a count.
Tokens == \A p \in Path : token[p] # -1 => p \in locations /\ CommitRule[p] = "on_close"

\* close_handler has made sure that the file of the count is there, and found
\* that it counts; while the file is being rewritten it is empty.
Closing ==
  /\ \/ hpc \in {"close_unlock", "close_count", "close_write"}
     \/ hpc \in {"lock", "check", "stat"} /\ hreq.op = "CLOSE"
     => token[hreq.path] # -1
  /\ hpc = "close_write" => token[hreq.path] = 0

\* What read_handler remembers still holds.
Remembered ==
  hpc \in {"read_exists", "read_size", "read_absent"} /\ hflag /\ OnFiles(hreq.path)
    => isCommitted(hreq.path)

CommitInv == Tokens /\ Closing /\ Remembered

\* What is committed stays committed.
Sticks == \A p \in Path : OnFiles(p) /\ isCommitted(p) => isCommitted(p)'

\* The configuration grows, and no count is taken back.
CountsStay ==
  /\ locations \subseteq locations'
  /\ \A p \in Path : token[p] # -1 => token'[p] # -1
  /\ \A p \in Path : CloseCommitted(p) => CloseCommitted(p)'

\* If the configuration only grows and no count is taken back, no commit is,
\* however deep the dependencies it rests on.
LEMMA SticksWhen ==
  ASSUME Tokens, CountsStay, Unfolds, Unfolds'
  PROVE  Sticks
<1> SUFFICES ASSUME NEW p0 \in Path, OnFiles(p0), isCommitted(p0), ~isCommitted(p0)' PROVE FALSE
  BY DEF Sticks
<1> DEFINE T == {n \in Nat : \E p \in Path : /\ OnFiles(p) /\ p \in CommittedWithin[n]
                                             /\ ~(p \in CommittedWithin[n])'}
<1>1. Cardinality(Path) \in T
  <2>1. Cardinality(Path) \in Nat
    BY PathAssumption, FS_CardinalityType
  <2> QED
    BY <2>1 DEF isCommitted
<1>2. PICK m \in T : \A n \in 0 .. m - 1 : n \notin T
  <2>1. T \in SUBSET Nat /\ T # {}
    BY <1>1
  <2> HIDE DEF T
  <2> QED
    BY <2>1, LeastDepth
<1>3. PICK p \in Path : OnFiles(p) /\ p \in CommittedWithin[m] /\ ~(p \in CommittedWithin[m])'
  OBVIOUS
<1> DEFINE Before == IF m = 0 THEN {} ELSE CommittedWithin[m - 1]
<1>4. PICK S \in SUBSET (Path \ Dir) : p \in S /\ \A q \in S : Deps[q] \subseteq S
  BY <1>3 DEF OnFiles
<1>5. p \in CommittedGiven(Before) /\ ~(p \in CommittedGiven(Before))'
  BY <1>3 DEF Unfolds
<1>6. \A d \in Deps[p] : OnFiles(d) /\ d \in Path
  BY <1>4 DEF OnFiles
<1>7. \A d \in Deps[p] : d \in Before => (d \in Before)'
  <2> SUFFICES ASSUME NEW d \in Deps[p], d \in Before PROVE (d \in Before)'
    OBVIOUS
  <2>1. m # 0 /\ m - 1 \in 0 .. m - 1 /\ m - 1 \in Nat /\ m - 1 \notin T
    BY <1>2
  <2> QED
    BY <2>1, <1>6
<1> HIDE DEF Before, T
<1>8. p \notin Dir
  BY <1>4
<1>9. CASE getCommitRule(p) = "on_file"
  <2>1. p \in locations /\ p \in locations'
    BY <1>9 DEF getCommitRule, CountsStay
  <2>2. getCommitRule(p)' = "on_file" /\ get_file_deps(p)' = get_file_deps(p)
        /\ get_file_deps(p) \subseteq Deps[p]
    BY <1>9, <2>1 DEF getCommitRule, get_file_deps
  <2> QED
    BY <1>5, <1>7, <1>8, <1>9, <2>2 DEF CommittedGiven, is_directory
<1>10. CASE getCommitRule(p) # "on_file"
  <2>1. token[p] # -1 /\ (getCommitRule(p) = "on_close" => CloseCommitted(p))
    BY <1>5, <1>8, <1>10 DEF CommittedGiven, is_directory, CloseCommitted
  <2>2. p \in locations /\ CommitRule[p] = "on_close" /\ p \in locations'
    BY <2>1 DEF Tokens, CountsStay
  <2>3. getCommitRule(p) = "on_close" /\ getCommitRule(p)' = "on_close"
    BY <2>2 DEF getCommitRule
  <2> QED
    BY <1>5, <1>8, <2>1, <2>3 DEF CommittedGiven, is_directory, CountsStay
<1> QED
  BY <1>9, <1>10

\* Application threads change neither counts, nor configuration, nor the handler.
LEMMA ClientQuiet ==
  ASSUME NEW t \in Tid, Client(t)
  PROVE  UNCHANGED <<token, clVars, cmVars, handlerVars, waitC, waitD>>
BY DEF Client, Begin, Send, Resume, Kernel, Kill, clientOther

\* Nor does the monitor.
LEMMA MonitorQuiet ==
  ASSUME Monitor
  PROVE  UNCHANGED <<token, clVars, cmVars, handlerVars>>
BY DEF Monitor, MonitorCreationList, MonitorCreation, MonitorUnlock, MonitorDelete, MonitorDataList,
   MonitorData, MonitorLock, MonitorStat, MonitorCheck, MonitorRelease, Throw, monitorOther

\* No count goes down, but that of a file whose closes are being counted.
LEMMA StepCounts ==
  ASSUME CallInv, CommitInv, [Next]_vars
  PROVE  CountsStay \/ (CloseCountRead /\ Rewriting')
<1>1. CASE UNCHANGED <<token, locations>>
  BY <1>1 DEF CountsStay, CloseCommitted, getCommitCloseCount
<1>2. CASE token' = token /\ addProducer
  <2>1. locations \subseteq locations'
    BY <1>2 DEF addProducer, Throw, clVars
  <2>2. \A p \in Path : CloseCommitted(p) => CloseCommitted(p)'
    BY <1>2, <2>1 DEF CloseCommitted, CommitInv, Tokens, getCommitCloseCount
  <2> QED
    BY <1>2, <2>1, <2>2 DEF CountsStay
<1>3. CASE close_handler \/ CloseCountWrite
  <2>1. /\ locations' = locations
        /\ token' = token \/ \E p \in Path, n \in Nat :
             n >= token[p] /\ token' = [token EXCEPT ![p] = n]
    <3>1. hreq.path \in Path
      BY <1>3 DEF CallInv, HandlerPlace, close_handler, CloseCountWrite, OpsAt, RequestCodes, Request
    <3> QED
      BY <1>3, <3>1 DEF close_handler, CloseCountWrite, Throw, Move, clVars, CallInv, TypeOK, FileTypes,
         HandlerTypes, CommitInv, Closing
  <2>2. ASSUME NEW p \in Path, NEW n \in Nat, n >= token[p], token' = [token EXCEPT ![p] = n]
        PROVE  CountsStay
    <3>1. token \in [Path -> Nat \cup {-1}]
      BY DEF CallInv, TypeOK, FileTypes
    <3>2. \A q \in Path : token[q] # -1 => token'[q] # -1 /\ token'[q] >= token[q]
      BY <2>2, <3>1
    <3>3. \A q \in Path : getCommitCloseCount(q)' = getCommitCloseCount(q)
      BY <2>1 DEF getCommitCloseCount
    <3>4. ASSUME NEW q \in Path, CloseCommitted(q) PROVE CloseCommitted(q)'
      <4>1. getCommitCloseCount(q) \in Int
        BY ConfigAssumption DEF getCommitCloseCount
      <4>2. token[q] \in Int /\ token'[q] \in Int
        BY <2>2, <3>1
      <4>3. token[q] # -1 /\ (getCommitCloseCount(q) = -1 \/ token[q] >= getCommitCloseCount(q))
        BY <3>4 DEF CloseCommitted
      <4>4. token'[q] # -1 /\ (getCommitCloseCount(q) = -1 \/ token'[q] >= getCommitCloseCount(q))
        BY <3>2, <4>1, <4>2, <4>3
      <4> QED
        BY <3>3, <4>4 DEF CloseCommitted
    <3> QED
      BY <2>1, <3>2, <3>4 DEF CountsStay
  <2>3. CASE token' = token
    BY <2>1, <2>3 DEF CountsStay, CloseCommitted, getCommitCloseCount
  <2> QED
    BY <2>1, <2>2, <2>3
<1>4. CASE CloseCountRead
  <2> DEFINE p == hreq.path
  <2>1. /\ p \in Path /\ token[p] # -1 /\ token[p] \in Nat /\ locations' = locations
        /\ token' = [token EXCEPT ![p] = 0] /\ hcount' = token[p] + 1
        /\ hpc' = "close_write" /\ hreq' = hreq
    BY <1>4 DEF CallInv, HandlerPlace, CloseCountRead, OpsAt, RequestCodes, Request, TypeOK, FileTypes,
       CommitInv, Closing, clVars
  <2>2. getCommitCloseCount(p) \in Int
    BY <2>1, ConfigAssumption DEF getCommitCloseCount
  <2>3. CASE token[p] + 1 > getCommitCloseCount(p)
    BY <1>4, <2>1, <2>3 DEF Rewriting, getCommitCloseCount
  <2>4. CASE ~(token[p] + 1 > getCommitCloseCount(p))
    BY <2>1, <2>2, <2>4 DEF CountsStay, CloseCommitted, getCommitCloseCount, CallInv, TypeOK, FileTypes
  <2> QED
    BY <2>3, <2>4
<1>5. CASE Handler
  BY <1>1, <1>2, <1>3, <1>4, <1>5
     DEF Handler, read_next_request, handshake_handler, create_handler, UnlockCreation, addProducer,
         rename_handler, exit_handler, open_handler, OpenWait, consent_to_proceed_handler,
         ConsentCommitted, read_handler, ReadExists, ReadSize, DataWait, write_handler,
         HandlerLock, HandlerStat, HandlerCheck, HandlerRelease, CloseUnlock, Answer, Move, Throw, clVars
<1> QED
  BY <1>1, <1>5, ClientQuiet, MonitorQuiet DEF Next, vars, clVars

-----------------------------------------------------------------------------
(* CommitInv is inductive.                                                 *)

\* Steps that leave counts and configuration alone take no commit back.
LEMMA QuietSticks ==
  ASSUME Tokens, Unfolds, Unfolds', UNCHANGED <<token, locations>>
  PROVE  Sticks
<1>1. CountsStay
  BY DEF CountsStay, CloseCommitted, getCommitCloseCount
<1> QED
  BY <1>1, SticksWhen

\* What the handler does to its place, its request and the counts.
LEMMA HandlerMoves ==
  ASSUME CallInv, Handler
  PROVE  \/ UNCHANGED <<token, locations, handlerVars>>
         \/ hpc = "recv" /\ hpc' \in RequestCodes /\ UNCHANGED <<token, locations>>
         \/ addProducer /\ hpc' = "recv" /\ UNCHANGED token
         \/ close_handler
         \/ CloseCountRead \/ CloseCountWrite
         \/ read_handler /\ hpc' = "read_exists" /\ hflag' = isCommitted(hreq.path)
            /\ UNCHANGED <<token, locations, hreq>>
         \/ ReadExists /\ hpc' \in {"read_size", "read_absent"}
            /\ UNCHANGED <<token, locations, hreq, hflag>>
         \/ /\ hpc \in {"lock", "check", "stat", "close_unlock"}
            /\ hpc' \in {"lock", "check", "stat", "close_unlock", "close_count"}
            /\ hpc' \in {"close_unlock", "close_count"} =>
                 hpc = "close_unlock" \/ hreq.op = "CLOSE"
            /\ UNCHANGED <<token, locations, hreq>>
         \/ hpc # "CLOSE" /\ UNCHANGED <<token, locations>>
            /\ hpc' \in {"recv", "add_producer", "open_wait", "consent_committed", "data_wait"}
         \/ hpc = "WRITE" /\ hreq.op = "WRITE" /\ UNCHANGED <<token, locations, hreq>>
            /\ hpc' \in {"recv", "lock"}
<1> USE DEF Throw, clVars, Return, Continue, Move, Remember
<1>1. CASE read_next_request
  <2>1. reqs \in Seq(Request) /\ reqs # <<>>
    BY <1>1 DEF CallInv, TypeOK, ServerTypes, read_next_request
  <2>2. Head(reqs) \in Request
    BY <2>1
  <2>3. Head(reqs).op \in RequestCodes
    BY <2>2 DEF Request, RequestCodes
  <2> QED
    BY <1>1, <2>3 DEF read_next_request
<1>2. CASE handshake_handler
  BY <1>2 DEF handshake_handler
<1>3. CASE create_handler \/ rename_handler \/ CloseUnlock
  BY <1>3 DEF create_handler, rename_handler, CloseUnlock, UnlockCreation
<1>4. CASE addProducer
  BY <1>4 DEF addProducer
<1>5. CASE exit_handler
  BY <1>5 DEF exit_handler
<1>6. CASE open_handler
  BY <1>6 DEF open_handler, Answer
<1>7. CASE OpenWait
  BY <1>7 DEF OpenWait
<1>8. CASE consent_to_proceed_handler
  BY <1>8 DEF consent_to_proceed_handler, Answer
<1>9. CASE ConsentCommitted
  BY <1>9 DEF ConsentCommitted, Answer
<1>10. CASE read_handler
  BY <1>10 DEF read_handler, Answer
<1>11. CASE ReadExists
  BY <1>11 DEF ReadExists
<1>12. CASE ReadSize
  BY <1>12 DEF ReadSize, Answer
<1>13. CASE DataWait
  BY <1>13 DEF DataWait
<1>14. CASE write_handler
  <2>1. hreq.op = "WRITE"
    BY <1>14 DEF CallInv, HandlerPlace, write_handler, OpsAt, RequestCodes
  <2> QED
    BY <1>14, <2>1 DEF write_handler
<1>15. CASE close_handler
  BY <1>15
<1>16. CASE HandlerLock
  BY <1>16 DEF HandlerLock
<1>17. CASE \E t \in Tid : HandlerStat(t)
  BY <1>17 DEF HandlerStat
<1>18. CASE HandlerCheck
  BY <1>18 DEF HandlerCheck
<1>19. CASE HandlerRelease
  BY <1>19 DEF HandlerRelease
<1>20. CASE CloseCountRead \/ CloseCountWrite
  BY <1>20
<1> QED
  BY <1>1, <1>2, <1>3, <1>4, <1>5, <1>6, <1>7, <1>8, <1>9, <1>10, <1>11, <1>12, <1>13, <1>14,
     <1>15, <1>16, <1>17, <1>18, <1>19, <1>20 DEF Handler

\* Every file with a count keeps being one that the configuration names and
\* commits by closes.
LEMMA TokensKept ==
  ASSUME CallInv, CommitInv, [Next]_vars
  PROVE  Tokens'
<1> USE DEF CommitInv, Tokens
<1>1. CASE UNCHANGED <<token, locations>>
  BY <1>1
<1>2. CASE UNCHANGED token /\ addProducer
  BY <1>2 DEF addProducer, Throw, clVars
<1>3. CASE close_handler
  <2>1. hreq.path \in Path /\ token \in [Path -> Nat \cup {-1}]
    BY <1>3 DEF CallInv, HandlerPlace, close_handler, OpsAt, RequestCodes, Request, TypeOK, FileTypes
  <2> QED
    BY <1>3, <2>1 DEF close_handler, getCommitRule, Throw, Move, clVars
<1>4. CASE CloseCountRead \/ CloseCountWrite
  <2>1. /\ hreq.path \in Path /\ token \in [Path -> Nat \cup {-1}] /\ token[hreq.path] # -1
    BY <1>4 DEF CallInv, HandlerPlace, CloseCountRead, CloseCountWrite, OpsAt, RequestCodes, Request,
       TypeOK, FileTypes, Closing
  <2> QED
    BY <1>4, <2>1 DEF CloseCountRead, CloseCountWrite, clVars
<1>5. CASE Handler
  BY <1>1, <1>2, <1>3, <1>4, <1>5, HandlerMoves
<1> QED
  BY <1>1, <1>5, ClientQuiet, MonitorQuiet DEF Next, vars, clVars

\* close_handler keeps the count it works on.
LEMMA ClosingKept ==
  ASSUME CallInv, CommitInv, [Next]_vars
  PROVE  Closing'
<1> USE DEF CommitInv, Closing
<1>1. CASE UNCHANGED <<token, handlerVars>>
  BY <1>1 DEF handlerVars
<1>2. CASE Handler
  <2>1. CASE hpc' \in RequestCodes \cup {"recv", "add_producer", "open_wait", "consent_committed",
                                         "data_wait", "read_exists", "read_size", "read_absent"}
    BY <2>1 DEF RequestCodes
  <2>2. CASE close_handler
    <3>1. hreq.path \in Path /\ token \in [Path -> Nat \cup {-1}]
      BY <2>2 DEF CallInv, HandlerPlace, close_handler, OpsAt, RequestCodes, Request, TypeOK, FileTypes
    <3> QED
      BY <2>1, <2>2, <3>1, <1>1 DEF close_handler, Throw, Move, Continue, Return, handlerVars
  <2>3. CASE CloseCountRead
    <3>1. hreq.path \in Path /\ token \in [Path -> Nat \cup {-1}]
      BY <2>3 DEF CallInv, HandlerPlace, CloseCountRead, OpsAt, RequestCodes, Request, TypeOK, FileTypes
    <3> QED
      BY <2>3, <3>1 DEF CloseCountRead
  <2>4. CASE CloseCountWrite
    BY <2>1, <2>4 DEF CloseCountWrite, Return
  <2>5. CASE /\ hpc \in {"lock", "check", "stat", "close_unlock"}
             /\ hpc' \in {"lock", "check", "stat", "close_unlock", "close_count"}
             /\ hpc' \in {"close_unlock", "close_count"} =>
                  hpc = "close_unlock" \/ hreq.op = "CLOSE"
             /\ UNCHANGED <<token, locations, hreq>>
    BY <2>5
  <2>6. CASE hpc = "WRITE" /\ hreq.op = "WRITE" /\ UNCHANGED <<token, locations, hreq>>
             /\ hpc' \in {"recv", "lock"}
    BY <2>6
  <2>7. CASE UNCHANGED <<token, locations, handlerVars>>
    BY <1>1, <2>7
  <2> QED
    BY <1>2, <2>1, <2>2, <2>3, <2>4, <2>5, <2>6, <2>7, HandlerMoves
<1> QED
  BY <1>1, <1>2, ClientQuiet, MonitorQuiet DEF Next, vars

\* What read_handler found committed is still committed.
LEMMA RememberedKept ==
  ASSUME CallInv, CommitInv, Unfolds, Unfolds', [Next]_vars
  PROVE  Remembered'
<1>1. CASE UNCHANGED <<token, locations, hreq>> /\ hpc' \in {"read_exists", "read_size", "read_absent"}
           /\ \/ hflag' = hflag /\ hpc \in {"read_exists", "read_size", "read_absent"}
              \/ hpc = "READ" /\ hflag' = isCommitted(hreq.path)
  <2>1. Sticks
    BY <1>1, QuietSticks DEF CommitInv
  <2>2. PICK p \in Path : p = hreq.path
    BY <1>1 DEF CallInv, HandlerPlace, OpsAt, RequestCodes, Request
  <2>3. hflag' /\ OnFiles(p) => isCommitted(p)
    BY <1>1, <2>2 DEF CommitInv, Remembered
  <2>4. hflag' /\ OnFiles(p) => isCommitted(p)'
    BY <2>1, <2>3 DEF Sticks
  <2>5. hreq.path' = p
    BY <1>1, <2>2
  <2> QED
    BY <2>4, <2>5 DEF Remembered, isCommitted
<1>2. CASE hpc' \notin {"read_exists", "read_size", "read_absent"}
  BY <1>2 DEF Remembered
<1>3. CASE UNCHANGED <<token, locations, handlerVars>>
  BY <1>1, <1>2, <1>3 DEF handlerVars
<1>4. CASE Handler
  <2>1. CASE close_handler \/ CloseCountRead \/ CloseCountWrite
    BY <2>1, <1>2, <1>3 DEF close_handler, CloseCountRead, CloseCountWrite, Throw, Move, Continue,
       Return, handlerVars
  <2>2. CASE read_handler /\ hpc' = "read_exists" /\ hflag' = isCommitted(hreq.path)
             /\ UNCHANGED <<token, locations, hreq>>
    BY <2>2, <1>1 DEF read_handler
  <2>3. CASE ReadExists /\ hpc' \in {"read_size", "read_absent"}
             /\ UNCHANGED <<token, locations, hreq, hflag>>
    BY <2>3, <1>1 DEF ReadExists
  <2>4. CASE hpc' \in RequestCodes
    BY <2>4, <1>2 DEF RequestCodes
  <2> QED
    BY <1>2, <1>3, <1>4, <2>1, <2>2, <2>3, <2>4, HandlerMoves
<1> QED
  BY <1>3, <1>4, ClientQuiet, MonitorQuiet DEF Next, vars, clVars

\* CommitInv holds from the start.
LEMMA CommitInit == Init => CommitInv
BY DEF Init, CommitInv, Tokens, Closing, Remembered

\* Every step keeps CommitInv.
LEMMA CommitStep ==
  ASSUME CallInv, CommitInv, Unfolds, Unfolds', [Next]_vars
  PROVE  CommitInv'
BY TokensKept, ClosingKept, RememberedKept DEF CommitInv

\* In every execution, counts belong to files of the configuration, close_handler
\* works on one that is there, and what read_handler remembers still holds.
THEOREM CommitInvariant == Spec => []CommitInv
BY CallInvariant, CommittedUnfolds, CommittedUnfoldsNext, CommitInit, CommitStep, PTL DEF Spec

-----------------------------------------------------------------------------
\* A step takes no commit back, and the count that is written commits again.
LEMMA CommitStays ==
  ASSUME CallInv, CommitInv, Unfolds, Unfolds', [Next]_vars, NEW p \in Path
  PROVE  /\ OnFiles(p) /\ isCommitted(p) => isCommitted(p)' \/ Rewriting'
         /\ Rewriting /\ hreq.path = p /\ p \notin Dir => isCommitted(p)' \/ Rewriting'
<1>1. OnFiles(p) /\ isCommitted(p) => isCommitted(p)' \/ Rewriting'
  BY StepCounts, SticksWhen DEF CommitInv, Sticks
<1>2. ASSUME Rewriting, hreq.path = p, p \notin Dir PROVE isCommitted(p)' \/ Rewriting'
  <2>1. hpc = "close_write" /\ hcount > getCommitCloseCount(p) /\ hcount \in Nat
        /\ token[p] # -1 /\ token \in [Path -> Nat \cup {-1}] /\ p \in locations
        /\ CommitRule[p] = "on_close"
    BY <1>2 DEF Rewriting, CallInv, TypeOK, HandlerTypes, FileTypes, CommitInv, Closing, Tokens
  <2>2. CASE UNCHANGED <<handlerVars, locations>>
    BY <1>2, <2>2 DEF Rewriting, getCommitCloseCount, handlerVars
  <2>3. CASE CloseCountWrite
    <3>1. token'[p] = hcount /\ locations' = locations
      BY <1>2, <2>1, <2>3 DEF CloseCountWrite, clVars
    <3>2. CloseCommitted(p)'
      <4>1. getCommitCloseCount(p)' = getCommitCloseCount(p) /\ getCommitCloseCount(p) \in Int
        BY <3>1, ConfigAssumption DEF getCommitCloseCount
      <4> QED
        BY <2>1, <3>1, <4>1 DEF CloseCommitted
    <3>3. getCommitRule(p)' = "on_close"
      BY <2>1, <3>1 DEF getCommitRule
    <3>4. Cardinality(Path) \in Nat
      BY PathAssumption, FS_CardinalityType
    <3> QED
      BY <1>2, <3>2, <3>3, <3>4 DEF isCommitted, Unfolds, CommittedGiven, is_directory
  <2>4. CASE Handler
    BY <2>1, <2>3, <2>4 DEF Handler, read_next_request, handshake_handler, create_handler,
       UnlockCreation, addProducer, rename_handler, exit_handler, open_handler, OpenWait,
       consent_to_proceed_handler, ConsentCommitted, read_handler, ReadExists, ReadSize, DataWait,
       write_handler, close_handler, HandlerLock, HandlerStat, HandlerCheck, HandlerRelease,
       CloseUnlock, CloseCountRead
  <2> QED
    BY <2>2, <2>4, ClientQuiet, MonitorQuiet DEF Next, vars, clVars
<1> QED
  BY <1>1, <1>2

\* A commit is never taken back, for any configuration, any dependencies between
\* files and any calls; while increaseCloseCount rewrites a count the file may
\* look uncommitted, and is committed again when the count is written.
THEOREM CommitNeverTakenBack == Spec => CommitSticky
<1>1. CallInv /\ CommitInv /\ Unfolds /\ Unfolds' /\ [Next]_vars
      => [\A p \in Path :
            /\ OnFiles(p) /\ isCommitted(p) => isCommitted(p)' \/ Rewriting'
            /\ Rewriting /\ hreq.path = p /\ p \notin Dir => isCommitted(p)' \/ Rewriting']_vars
  BY CommitStays
<1> QED
  BY <1>1, CallInvariant, CommitInvariant, CommittedUnfolds, CommittedUnfoldsNext, PTL DEF Spec, CommitSticky

-----------------------------------------------------------------------------
(* When a thread that waits for data is answered.                          *)

\* The call a thread waits for data in.
Waits(t) == pc[t] = "wait" /\ call[t].op \in DataCalls

\* Such a thread is not in the table of those that wait for a creation, and in
\* the table of data only under the path of its call.
LEMMA DataWaiterPlace ==
  ASSUME CallInv, NEW t \in Tid, Waits(t)
  PROVE  /\ call[t].path \in Path
         /\ ~AwaitsCreation(t)
         /\ \A p \in Path : waitD[p][t] # -1 => p = call[t].path
<1>1. InQueue(t) \/ InHand(t) \/ Answered(t) \/ waitD[call[t].path][t] # -1
  BY DEF CallInv, ThreadInv, Kept, Waits
<1>2. /\ InQueue(t) => ~InHand(t) /\ ~AwaitsCreation(t) /\ ~AwaitsData(t) /\ ~Answered(t)
      /\ InHand(t) => ~AwaitsCreation(t) /\ ~AwaitsData(t) /\ ~Answered(t)
      /\ AwaitsCreation(t) => ~AwaitsData(t) /\ ~Answered(t)
      /\ AwaitsData(t) => ~Answered(t)
      /\ \A p, q \in Path : waitD[p][t] # -1 /\ waitD[q][t] # -1 => p = q
  BY DEF CallInv, ThreadInv, OnePlace
<1>3. call[t].path \in Path
  <2>1. call[t] \in Calls[t] \cup {NoCall}
    BY DEF CallInv, TypeOK, CallTypes
  <2> QED
    BY <2>1, ClientAssumption DEF NoCall, DataCalls, Waits
<1>4. \A p \in Path : waitD[p][t] # -1 => AwaitsData(t)
  BY DEF AwaitsData
<1> QED
  BY <1>1, <1>2, <1>3, <1>4

\* The threads that wait for a creation are others.
LEMMA UnlockPasses ==
  ASSUME CallInv, NEW t \in Tid, Waits(t), NEW p \in Path, unlockThreadAwaitingCreation(p)
  PROVE  resp'[t] = resp[t]
<1>1. t \notin waitC[p]
  BY DataWaiterPlace DEF AwaitsCreation
<1> QED
  BY <1>1 DEF unlockThreadAwaitingCreation, reply_to_clients

\* checkAndUnlockThreadAwaitingData answers on a commit, or a producer, when
\* the file is in mode "update".
LEMMA CheckJustified ==
  ASSUME CallInv, NEW t \in Tid, Waits(t), getFireRule(call[t].path) = "update",
         NEW q \in Path, NEW u, waitD[q][u] # -1, NEW b, CheckWaiter(b, q, u),
         resp'[t] # resp[t]
  PROVE  isCommitted(call[t].path) \/ isProducer(call[t].path, t)
<1>1. lock_condition(b, q, u) /\ u = t
  BY DEF CheckWaiter, reply_to_clients
<1>2. q = call[t].path
  BY <1>1, DataWaiterPlace
<1> QED
  BY <1>1, <1>2 DEF lock_condition

\* The request handler answers a thread whose request it holds only as the
\* rules of the file allow.
LEMMA HandlerJustified ==
  ASSUME CallInv, CommitInv, Handler, NEW t \in Tid, Waits(t), resp'[t] # resp[t],
         call[t].path \in Handled, getFireRule(call[t].path) = "update",
         call[t].op = "read" => OnFiles(call[t].path)
  PROVE  \/ isCommitted(call[t].path) \/ isProducer(call[t].path, t) \/ EnoughData(t)
<1> DEFINE p == call[t].path
<1>0. hpc # "recv" => hreq \in Request /\ hreq.op \in OpsAt(hpc)
  BY DEF CallInv, HandlerPlace
<1>1. ASSUME NEW v, Answer(v), hpc # "recv", hreq.op \in Blocking
      PROVE  hreq.tid = t /\ AsksFor(hreq, call[t]) /\ hreq.path = p
  <2>1. hreq.tid = t
    BY <1>1 DEF Answer, Throw, reply_to_clients
  <2>2. InHand(t)
    BY <1>1, <2>1 DEF InHand, BlocksFor
  <2> QED
    BY <2>1, <2>2 DEF CallInv, ThreadInv, RequestIsCall, Waits, AsksFor
<1> HIDE DEF p
<1>2. CASE create_handler \/ rename_handler \/ CloseUnlock
  <2>1. hreq.path \in Path
    BY <1>0, <1>2 DEF create_handler, rename_handler, CloseUnlock, UnlockCreation, OpsAt, RequestCodes,
       Request
  <2> QED
    BY <1>2, <2>1, UnlockPasses DEF create_handler, rename_handler, CloseUnlock, UnlockCreation, Throw
<1>3. CASE open_handler
  <2>1. PICK v : Answer(v)
    BY <1>3 DEF open_handler, Throw, Move
  <2>2. hpc # "recv" /\ hreq.op = "OPEN"
    BY <1>0, <1>3 DEF open_handler, OpsAt, RequestCodes
  <2>3. AsksFor(hreq, call[t])
    BY <1>1, <2>1, <2>2 DEF Blocking
  <2> QED
    BY <2>2, <2>3 DEF AsksFor, Waits, DataCalls
<1>4. CASE consent_to_proceed_handler
  <2>1. hpc # "recv" /\ hreq.op = "CONSENT"
    BY <1>0, <1>4 DEF consent_to_proceed_handler, OpsAt, RequestCodes
  <2>2. Answer(1) /\ (~fileToBeHandled(hreq.path) \/ isProducer(hreq.path, hreq.tid))
    BY <1>4 DEF consent_to_proceed_handler, Throw, Move
  <2>3. hreq.tid = t /\ hreq.path = p
    BY <1>1, <2>1, <2>2 DEF Blocking
  <2> QED
    BY <2>2, <2>3 DEF fileToBeHandled, p
<1>5. CASE ConsentCommitted
  <2>1. hpc # "recv" /\ hreq.op = "CONSENT"
    BY <1>0, <1>5 DEF ConsentCommitted, OpsAt, RequestCodes
  <2>2. Answer(1) /\ (isCommitted(hreq.path) \/ getFireRule(hreq.path) = "no_update")
    BY <1>5 DEF ConsentCommitted, Move
  <2>3. hreq.tid = t /\ hreq.path = p
    BY <1>1, <2>1, <2>2 DEF Blocking
  <2> QED
    BY <2>2, <2>3 DEF p
<1>6. CASE read_handler
  <2>1. hpc # "recv" /\ hreq.op = "READ"
    BY <1>0, <1>6 DEF read_handler, OpsAt, RequestCodes
  <2>2. Answer(1) /\ ~fileToBeHandled(hreq.path)
    BY <1>6 DEF read_handler, Move
  <2>3. hreq.tid = t /\ hreq.path = p
    BY <1>1, <2>1, <2>2 DEF Blocking
  <2> QED
    BY <2>2, <2>3 DEF fileToBeHandled, p
<1>7. CASE ReadSize
  <2> DEFINE size == IF hpc = "read_size" THEN get_file_size_if_exists(hreq.path) ELSE 0
  <2>1. hpc \in {"read_size", "read_absent"} /\ hreq.op = "READ" /\ hreq.n \in Nat
    BY <1>0, <1>7 DEF ReadSize, OpsAt, RequestCodes, Request
  <2>2. /\ Answer(IF hflag THEN ULLONG_MAX ELSE size)
        /\ size >= hreq.n \/ hflag \/ isProducer(hreq.path, hreq.tid)
    BY <1>7 DEF ReadSize, Throw, Move
  <2>3. hreq.tid = t /\ AsksFor(hreq, call[t]) /\ hreq.path = p
    BY <1>1, <2>1, <2>2 DEF Blocking
  <2>4. call[t].op = "read" /\ call[t].n = hreq.n /\ OnFiles(p)
    BY <2>1, <2>3 DEF AsksFor, p
  <2>5. CASE size >= hreq.n
    <3>1. get_file_size_if_exists(p) \in Nat
      BY SizeType, DataWaiterPlace DEF Base, StatInv, CallInv, DataMutexHeldOnce, p
    <3>2. get_file_size_if_exists(p) >= hreq.n
      BY <2>1, <2>3, <2>5, <3>1
    <3> QED
      BY <2>4, <3>2 DEF EnoughData, p
  <2>6. CASE hflag
    BY <2>1, <2>3, <2>4, <2>6 DEF CommitInv, Remembered, p
  <2> QED
    BY <2>2, <2>3, <2>5, <2>6 DEF p
<1>8. CASE HandlerCheck
  <2>1. /\ CheckWaiter(hflag, hreq.path, htid) /\ hpc = "stat"
        /\ htid \in Tid /\ waitD[hreq.path][htid] # -1
    BY <1>8 DEF HandlerCheck, Throw, CallInv, DataMutexHeldOnce
  <2>2. hreq.path \in Path
    BY <1>0, <2>1 DEF OpsAt, RequestCodes, Request
  <2> QED
    BY <2>1, <2>2, CheckJustified DEF p
<1> QED
  BY <1>2, <1>3, <1>4, <1>5, <1>6, <1>7, <1>8
     DEF Handler, read_next_request, handshake_handler, addProducer, exit_handler, OpenWait, ReadExists,
         DataWait, write_handler, close_handler, HandlerLock, HandlerStat, HandlerRelease,
         CloseCountRead, CloseCountWrite, Move, Throw

\* Nor does the monitor answer a thread otherwise.
LEMMA MonitorJustified ==
  ASSUME CallInv, Monitor, NEW t \in Tid, Waits(t), resp'[t] # resp[t],
         getFireRule(call[t].path) = "update"
  PROVE  isCommitted(call[t].path) \/ isProducer(call[t].path, t)
<1>1. CASE MonitorUnlock
  <2>1. mpath \in Path
    BY <1>1 DEF MonitorUnlock, CallInv, MonitorPlace
  <2> QED
    BY <1>1, <2>1, UnlockPasses DEF MonitorUnlock, Throw
<1>2. CASE MonitorCheck
  <2>1. /\ CheckWaiter(mflag, mpath, mtid) /\ mpath \in Path
        /\ mtid \in Tid /\ waitD[mpath][mtid] # -1
    BY <1>2 DEF MonitorCheck, Throw, CallInv, DataMutexHeldOnce, MonitorPlace
  <2> QED
    BY <2>1, CheckJustified
<1> QED
  BY <1>1, <1>2 DEF Monitor, MonitorCreationList, MonitorCreation, MonitorDelete, MonitorDataList,
     MonitorData, MonitorLock, MonitorStat, MonitorRelease

\* No step of an application thread lengthens a response queue.
LEMMA ClientAnswersNobody ==
  ASSUME CallInv, NEW u \in Tid, Client(u), NEW t \in Tid
  PROVE  ~Releases(t)
<1>1. CASE resp' = resp
  BY <1>1 DEF Releases
<1>2. CASE Resume(u)
  <2>1. resp \in [Tid -> Seq(Int)]
    BY DEF CallInv, TypeOK, ServerTypes
  <2>2. CASE t # u
    BY <1>2, <2>1, <2>2 DEF Resume, Releases
  <2>3. CASE t = u
    <3>1. resp[t] \in Seq(Int) /\ resp[t] # <<>> /\ resp'[t] = Tail(resp[t])
      BY <1>2, <2>1, <2>3 DEF Resume
    <3>2. Len(resp'[t]) = Len(resp[t]) - 1 /\ Len(resp[t]) \in Nat
      BY <3>1
    <3> QED
      BY <3>2 DEF Releases
  <2> QED
    BY <2>2, <2>3
<1> QED
  BY <1>1, <1>2 DEF Client, Begin, Send, Kernel, Kill

\* A thread that waits on a file in mode "update" is answered only when the
\* file is committed, its application produces the file, or the bytes it asked
\* for are there: for any configuration, whichever of the server's threads
\* answers, and whatever the other one and the applications do meanwhile.
THEOREM UpdateWaits == Spec => UpdateReleaseJustified
<1> DEFINE Justified(t) ==
      LET p == call[t].path IN
      /\ Releases(t) /\ pc[t] = "wait" /\ call[t].op \in DataCalls
      /\ p \in Handled /\ getFireRule(p) = "update"
      /\ call[t].op = "read" => OnFiles(p)
      => isCommitted(p) \/ isProducer(p, t) \/ EnoughData(t)
<1>1. ASSUME CallInv, CommitInv, Next, NEW t \in Tid PROVE Justified(t)
  <2>1. Releases(t) => resp'[t] # resp[t]
    BY DEF Releases
  <2> QED
    BY <1>1, <2>1, ClientAnswersNobody, HandlerJustified, MonitorJustified DEF Next, Waits
<1>2. CallInv /\ CommitInv /\ [Next]_vars => [\A t \in Tid : Justified(t)]_vars
  BY <1>1
<1> QED
  BY <1>2, CallInvariant, CommitInvariant, PTL DEF Spec, UpdateReleaseJustified

-----------------------------------------------------------------------------
(* The node implements BlockingCalls.                                      *)

\* What a step can do to the call of one thread: nothing, answer it, or drop
\* it from the table of those that wait for a creation.
Stays(t) == (Answered(t)' <=> Answered(t)) /\ (Outstanding(t)' <=> Outstanding(t))

Gets(t) == Outstanding(t) /\ ~Answered(t) /\ Answered(t)'

Drops(t) == AwaitsCreation(t) /\ ~Answered(t) /\ ~Answered(t)' /\ ~Outstanding(t)'

LEMMA QuietStays ==
  ASSUME Quiet, NEW t \in Tid
  PROVE  Stays(t)
<1>1. InHand(t)' <=> InHand(t)
  BY DEF Quiet, InHand, BlocksFor
<1>2. /\ InQueue(t)' <=> InQueue(t)
      /\ AwaitsCreation(t)' <=> AwaitsCreation(t)
      /\ AwaitsData(t)' <=> AwaitsData(t)
      /\ Answered(t)' <=> Answered(t)
  BY DEF Quiet, InQueue, AwaitsCreation, AwaitsData, Answered
<1> QED
  BY <1>1, <1>2 DEF Stays, Outstanding

\* An answer in a response queue leaves no doubt where the call is.
LEMMA NowAnswered ==
  ASSUME NEW t \in Tid, resp \in [Tid -> Seq(Int)], NEW v \in Int, resp'[t] = Append(resp[t], v)
  PROVE  Answered(t)' /\ Outstanding(t)'
<1>1. resp[t] \in Seq(Int)
  OBVIOUS
<1>2. Append(resp[t], v) # <<>>
  BY <1>1, AppendProperties
<1> QED
  BY <1>2 DEF Answered, Outstanding

\* reply_to_client at the end of a handler.
LEMMA AnswersGets ==
  ASSUME Base, NEW t \in Tid, ThreadInv(t), Answers
  PROVE  Stays(t) \/ Gets(t)
<1>1. PICK v \in Int : reply_to_clients({hreq.tid}, v)
  BY DEF Answers
<1>2. resp \in [Tid -> Seq(Int)]
  BY DEF Base, TypeOK, ServerTypes
<1>3. CASE hreq.tid = t
  <2>1. InHand(t)
    BY <1>3 DEF Answers, InHand, BlocksFor
  <2>2. resp'[t] = Append(resp[t], v)
    BY <1>1, <1>3 DEF reply_to_clients
  <2>3. Answered(t)'
    BY <1>2, <2>2, NowAnswered
  <2> QED
    BY <2>1, <2>3 DEF Gets, Outstanding, ThreadInv, OnePlace
<1>4. CASE hreq.tid # t
  <2>1. resp'[t] = resp[t]
    BY <1>1, <1>4 DEF reply_to_clients
  <2>2. ~InHand(t) /\ ~InHand(t)'
    BY <1>4 DEF Answers, InHand, BlocksFor
  <2>3. /\ InQueue(t)' <=> InQueue(t)
        /\ AwaitsCreation(t)' <=> AwaitsCreation(t)
        /\ AwaitsData(t)' <=> AwaitsData(t)
        /\ Answered(t)' <=> Answered(t)
    BY <2>1 DEF Answers, InQueue, AwaitsCreation, AwaitsData, Answered
  <2> QED
    BY <2>2, <2>3 DEF Stays, Outstanding
<1> QED
  BY <1>3, <1>4

\* A request that the handler takes up, or puts in a table, is still there.
LEMMA MovesStay ==
  ASSUME Base, NEW t \in Tid, read_next_request \/ OpenWait \/ DataWait
  PROVE  Stays(t)
<1>1. CASE read_next_request
  BY <1>1, ReadMoves DEF Stays, Outstanding
<1>2. CASE OpenWait
  <2>1. /\ hreq.path \in Path /\ hpc # "recv" /\ hpc' = "recv" /\ hreq.op \in Blocking
        /\ waitC \in [Path -> SUBSET Tid] /\ waitC' = [waitC EXCEPT ![hreq.path] = @ \cup {hreq.tid}]
        /\ UNCHANGED <<reqs, resp, waitD>>
    BY <1>2 DEF OpenWait, addThreadAwaitingCreation, Base, HandlerPlace, OpsAt, RequestCodes, Request,
       TypeOK, ServerTypes, Return, Blocking
  <2>2. (InHand(t) <=> hreq.tid = t) /\ ~InHand(t)'
    BY <2>1 DEF InHand, BlocksFor
  <2>3. \A p \in Path : t \in waitC'[p] <=> t \in waitC[p] \/ (InHand(t) /\ p = hreq.path)
    BY <2>1, <2>2
  <2>4. AwaitsCreation(t)' <=> AwaitsCreation(t) \/ InHand(t)
    BY <2>1, <2>3 DEF AwaitsCreation
  <2>5. /\ InQueue(t)' <=> InQueue(t)
        /\ AwaitsData(t)' <=> AwaitsData(t)
        /\ Answered(t)' <=> Answered(t)
    BY <2>1 DEF InQueue, AwaitsData, Answered
  <2> QED
    BY <2>2, <2>4, <2>5 DEF Stays, Outstanding
<1>3. CASE DataWait
  <2>1. /\ hreq.path \in Path /\ hreq.tid \in Tid /\ hreq.n \in Nat
        /\ hpc # "recv" /\ hpc' = "recv" /\ hreq.op \in Blocking
        /\ waitD \in [Path -> [Tid -> Nat \cup {-1}]]
        /\ waitD' = [waitD EXCEPT ![hreq.path][hreq.tid] = IF @ = -1 THEN hreq.n ELSE @]
        /\ UNCHANGED <<reqs, resp, waitC>>
    BY <1>3 DEF DataWait, addThreadAwaitingData, Base, HandlerPlace, OpsAt, RequestCodes, Request,
       TypeOK, ServerTypes, Return, Blocking
  <2>2. (InHand(t) <=> hreq.tid = t) /\ ~InHand(t)'
    BY <2>1 DEF InHand, BlocksFor
  <2>3. \A p \in Path : waitD'[p][t] # -1 <=> waitD[p][t] # -1 \/ (InHand(t) /\ p = hreq.path)
    BY <2>1, <2>2
  <2>4. AwaitsData(t)' <=> AwaitsData(t) \/ InHand(t)
    BY <2>1, <2>3 DEF AwaitsData
  <2>5. /\ InQueue(t)' <=> InQueue(t)
        /\ AwaitsCreation(t)' <=> AwaitsCreation(t)
        /\ Answered(t)' <=> Answered(t)
    BY <2>1 DEF InQueue, AwaitsCreation, Answered
  <2> QED
    BY <2>2, <2>4, <2>5 DEF Stays, Outstanding
<1> QED
  BY <1>1, <1>2, <1>3

\* Those that wait for a path to be created are all answered, and no other.
LEMMA UnlocksGets ==
  ASSUME Base, NEW t \in Tid, ThreadInv(t), NEW p \in Path, Unlocks(p)
  PROVE  Stays(t) \/ Gets(t)
<1>1. /\ waitC \in [Path -> SUBSET Tid] /\ waitC' = [waitC EXCEPT ![p] = {}]
      /\ resp \in [Tid -> Seq(Int)]
      /\ resp'[t] = IF t \in waitC[p] THEN Append(resp[t], 1) ELSE resp[t]
      /\ UNCHANGED <<reqs, waitD>>
  BY DEF Unlocks, unlockThreadAwaitingCreation, reply_to_clients, Base, TypeOK, ServerTypes
<1>2. CASE t \in waitC[p]
  <2>1. AwaitsCreation(t)
    BY <1>2 DEF AwaitsCreation
  <2>2. Answered(t)'
    BY <1>1, <1>2, NowAnswered
  <2> QED
    BY <2>1, <2>2 DEF Gets, Outstanding, ThreadInv, OnePlace
<1>3. CASE t \notin waitC[p]
  <2>1. \A q \in Path : t \in waitC'[q] <=> t \in waitC[q]
    BY <1>1, <1>3
  <2>2. /\ InQueue(t)' <=> InQueue(t)
        /\ AwaitsCreation(t)' <=> AwaitsCreation(t)
        /\ AwaitsData(t)' <=> AwaitsData(t)
        /\ Answered(t)' <=> Answered(t)
    BY <1>1, <1>3, <2>1 DEF InQueue, AwaitsCreation, AwaitsData, Answered
  <2>3. InHand(t)' <=> InHand(t)
    BY HandsKeptMeans DEF Unlocks
  <2> QED
    BY <2>2, <2>3 DEF Stays, Outstanding
<1> QED
  BY <1>2, <1>3

\* A waiter that is tested is answered or stays in the table.
LEMMA ChecksGets ==
  ASSUME Base, NEW t \in Tid, ThreadInv(t), NEW p \in Path, NEW u \in Tid, waitD[p][u] # -1,
         Checks(p, u)
  PROVE  Stays(t) \/ Gets(t)
<1>1. PICK b \in BOOLEAN : CheckWaiter(b, p, u)
  BY DEF Checks
<1>2. CASE UNCHANGED <<resp, waitD>>
  <2>1. Quiet
    BY <1>2 DEF Checks, Quiet, HandsKept
  <2> QED
    BY <2>1, QuietStays
<1>3. CASE reply_to_clients({u}, ReplyValue(p)) /\ waitD' = [waitD EXCEPT ![p][u] = -1]
  <2>1. /\ waitD \in [Path -> [Tid -> Nat \cup {-1}]]
        /\ resp \in [Tid -> Seq(Int)] /\ ReplyValue(p) \in Int
        /\ resp'[t] = IF t = u THEN Append(resp[t], ReplyValue(p)) ELSE resp[t]
        /\ UNCHANGED <<reqs, waitC>>
    BY <1>3, SizeType DEF Checks, reply_to_clients, Base, TypeOK, ServerTypes
  <2>2. CASE t = u
    <3>1. AwaitsData(t)
      BY <2>2 DEF AwaitsData
    <3>2. Answered(t)'
      BY <2>1, <2>2, NowAnswered
    <3> QED
      BY <3>1, <3>2 DEF Gets, Outstanding, ThreadInv, OnePlace
  <2>3. CASE t # u
    <3>1. \A q \in Path : waitD'[q][t] = waitD[q][t]
      BY <1>3, <2>1, <2>3
    <3>2. /\ InQueue(t)' <=> InQueue(t)
          /\ AwaitsCreation(t)' <=> AwaitsCreation(t)
          /\ AwaitsData(t)' <=> AwaitsData(t)
          /\ Answered(t)' <=> Answered(t)
      BY <2>1, <2>3, <3>1 DEF InQueue, AwaitsCreation, AwaitsData, Answered
    <3>3. InHand(t)' <=> InHand(t)
      BY HandsKeptMeans DEF Checks
    <3> QED
      BY <3>2, <3>3 DEF Stays, Outstanding
  <2> QED
    BY <2>2, <2>3
<1> QED
  BY <1>1, <1>2, <1>3 DEF CheckWaiter

\* deleteFileAwaitingCreation answers nobody.
LEMMA DeleteDrops ==
  ASSUME Base, NEW t \in Tid, ThreadInv(t), MonitorDelete
  PROVE  Stays(t) \/ Drops(t)
<1>1. /\ mpath \in Path /\ waitC \in [Path -> SUBSET Tid] /\ waitC' = [waitC EXCEPT ![mpath] = {}]
      /\ UNCHANGED <<reqs, resp, waitD, hpc, hreq>>
  BY DEF MonitorDelete, deleteFileAwaitingCreation, Base, MonitorPlace, TypeOK, ServerTypes,
         monitorOther, handlerVars
<1>2. \A q \in Path : t \in waitC'[q] => t \in waitC[q]
  BY <1>1
<1>3. /\ InQueue(t)' <=> InQueue(t)
      /\ InHand(t)' <=> InHand(t)
      /\ AwaitsCreation(t)' => AwaitsCreation(t)
      /\ AwaitsData(t)' <=> AwaitsData(t)
      /\ Answered(t)' <=> Answered(t)
  BY <1>1, <1>2 DEF InQueue, InHand, AwaitsCreation, AwaitsData, Answered
<1> QED
  BY <1>3 DEF Stays, Drops, Outstanding, ThreadInv, OnePlace

\* A step of the server moves no application thread; it answers calls, or it
\* is the deletion and drops some.
LEMMA ServerPlaces ==
  ASSUME CallInv, Handler \/ Monitor
  PROVE  /\ UNCHANGED <<pc, call>>
         /\ \/ \A t \in Tid : Stays(t) \/ Gets(t)
            \/ MonitorDelete /\ \A t \in Tid : Stays(t) \/ Drops(t)
<1>1. Base /\ \A t \in Tid : ThreadInv(t)
  BY DEF CallInv, DataMutexHeldOnce, StatInv, Base
<1>2. CASE Quiet
  BY <1>2, QuietStays DEF Quiet
<1>3. ASSUME NEW e, Throw(e) PROVE Quiet
  BY <1>3 DEF Throw, Quiet, clientVars, handlerVars
<1>4. CASE Answers
  BY <1>1, <1>4, AnswersGets DEF Answers
<1>5. CASE read_next_request \/ OpenWait \/ DataWait
  <2>1. UNCHANGED <<pc, call>>
    BY <1>5 DEF read_next_request, OpenWait, DataWait, handlerOther, clientVars
  <2> QED
    BY <1>1, <1>5, <2>1, MovesStay
<1>6. ASSUME NEW p, Unlocks(p)
      PROVE  UNCHANGED <<pc, call>> /\ \A t \in Tid : Stays(t) \/ Gets(t)
  BY <1>1, <1>6, UnlocksGets DEF Unlocks
<1>7. CASE MonitorDelete
  <2>1. UNCHANGED <<pc, call>>
    BY <1>7 DEF MonitorDelete, monitorOther, clientVars
  <2> QED
    BY <1>1, <1>7, <2>1, DeleteDrops
<1>8. CASE Checks(hreq.path, htid) /\ HandlerCheck
  <2>1. hpc = "stat" /\ htid \in Tid /\ waitD[hreq.path][htid] # -1
    BY <1>8 DEF HandlerCheck, CallInv, DataMutexHeldOnce
  <2>2. hreq.path \in Path
    BY <1>1, <2>1 DEF Base, HandlerPlace, OpsAt, RequestCodes, Request
  <2>3. \A t \in Tid : Stays(t) \/ Gets(t)
    BY <1>1, <1>8, <2>1, <2>2, ChecksGets
  <2> QED
    BY <1>8, <2>3 DEF Checks
<1>9. CASE Checks(mpath, mtid) /\ MonitorCheck
  <2>1. mpc = "stat" /\ mtid \in Tid /\ waitD[mpath][mtid] # -1
    BY <1>9 DEF MonitorCheck, CallInv, DataMutexHeldOnce
  <2>2. mpath \in Path
    BY <1>1, <2>1 DEF Base, MonitorPlace
  <2>3. \A t \in Tid : Stays(t) \/ Gets(t)
    BY <1>1, <1>9, <2>1, <2>2, ChecksGets
  <2> QED
    BY <1>9, <2>3 DEF Checks
<1>10. CASE Handler
  BY <1>1, <1>2, <1>3, <1>4, <1>5, <1>6, <1>8, <1>10, HandlerEffects
<1>11. CASE Monitor
  BY <1>1, <1>2, <1>3, <1>6, <1>7, <1>9, <1>11, MonitorEffects
<1> QED
  BY <1>10, <1>11

\* What a step leaves alone keeps its phase.
LEMMA PhaseStays ==
  ASSUME NEW t \in Tid, pc'[t] = pc[t], call'[t] = call[t], pc[t] = "wait" => Stays(t)
  PROVE  PhaseOf(t)' = PhaseOf(t)
<1>1. CASE pc[t] = "wait"
  BY <1>1 DEF PhaseOf, Stays
<1>2. CASE pc[t] # "wait"
  BY <1>2 DEF PhaseOf
<1> QED
  BY <1>1, <1>2

Phases == [t \in Tid |-> PhaseOf(t)]

\* A step of the server answers calls that may go on, or forgets opens.
LEMMA ServerPromise ==
  ASSUME CallInv, CommitInv, Handler \/ Monitor
  PROVE  Promise!Next
<1>1. UNCHANGED <<pc, call>>
  BY ServerPlaces
<1>2. ASSUME NEW t \in Tid, pc[t] = "wait"
      PROVE  call[t].op \in DataCalls \cup {"open"} /\ "open" \notin DataCalls
  BY <1>2 DEF CallInv, ThreadInv, OutShape, DataCalls
<1>3. ASSUME NEW S \in SUBSET Tid, NEW f, f \in {"answered", "lost"},
             \A t \in S : PhaseOf(t)' = f,
             \A t \in Tid \ S : PhaseOf(t)' = PhaseOf(t)
      PROVE  Promise!To(S, f)
  BY <1>3 DEF Promise!To
<1>4. ASSUME \A t \in Tid : Stays(t) \/ Gets(t)
      PROVE  \E S \in SUBSET Tid : Promise!Answer(S)
  <2>1. PICK S \in SUBSET Tid : \A t \in Tid : t \in S <=> pc[t] = "wait" /\ Gets(t)
    <3> WITNESS {t \in Tid : pc[t] = "wait" /\ Gets(t)} \in SUBSET Tid
    <3> QED
      OBVIOUS
  <2>2. ASSUME NEW t \in S
        PROVE  /\ PhaseOf(t) = "opening" \/ (PhaseOf(t) = "asking" /\ MayGoOn(t))
               /\ PhaseOf(t)' = "answered"
    <3>1. t \in Tid /\ pc[t] = "wait" /\ Gets(t)
      BY <2>1
    <3>2. PhaseOf(t)' = "answered"
      BY <1>1, <3>1 DEF PhaseOf, Gets
    <3>3. PhaseOf(t) = IF call[t].op = "open" THEN "opening" ELSE "asking"
      BY <3>1 DEF PhaseOf, Gets
    <3>4. CASE call[t].op = "open"
      BY <3>2, <3>3, <3>4
    <3>5. CASE call[t].op # "open"
      <4>1. Waits(t)
        BY <1>2, <3>1, <3>5 DEF Waits
      <4>2. resp'[t] # resp[t]
        BY <3>1 DEF Gets, Answered
      <4>3. call[t].path \in Path
        BY <3>1, <4>1, DataWaiterPlace
      <4>4. getFireRule(call[t].path) \in {"update", "no_update"}
        BY <4>3, ConfigAssumption DEF getFireRule
      <4>5. MayGoOn(t)
        <5>1. SUFFICES ASSUME call[t].path \in Handled, getFireRule(call[t].path) = "update",
                              call[t].op = "read" => OnFiles(call[t].path)
                       PROVE  \/ isCommitted(call[t].path) \/ isProducer(call[t].path, t)
                              \/ EnoughData(t)
          BY <4>1, <4>4 DEF MayGoOn, Waits
        <5> QED
          BY <3>1, <4>1, <4>2, <5>1, HandlerJustified, MonitorJustified
      <4> QED
        BY <3>2, <3>3, <3>5, <4>5
    <3> QED
      BY <3>4, <3>5
  <2>3. ASSUME NEW t \in Tid \ S PROVE PhaseOf(t)' = PhaseOf(t)
    BY <1>1, <1>4, <2>1, <2>3, PhaseStays
  <2>4. Promise!To(S, "answered")
    BY <1>3, <2>2, <2>3
  <2> QED
    BY <2>2, <2>4 DEF Promise!Answer
<1>5. ASSUME \A t \in Tid : Stays(t) \/ Drops(t)
      PROVE  \E S \in SUBSET Tid : Promise!Forget(S)
  <2>1. PICK S \in SUBSET Tid : \A t \in Tid : t \in S <=> pc[t] = "wait" /\ Drops(t)
    <3> WITNESS {t \in Tid : pc[t] = "wait" /\ Drops(t)} \in SUBSET Tid
    <3> QED
      OBVIOUS
  <2>2. ASSUME NEW t \in S
        PROVE  PhaseOf(t) = "opening" /\ PhaseOf(t)' = "lost"
    <3>1. t \in Tid /\ pc[t] = "wait" /\ Drops(t)
      BY <2>1
    <3>2. call[t].op = "open"
      BY <1>2, <3>1, DataWaiterPlace DEF Waits, Drops
    <3> QED
      BY <1>1, <3>1, <3>2 DEF PhaseOf, Drops, Outstanding
  <2>3. ASSUME NEW t \in Tid \ S PROVE PhaseOf(t)' = PhaseOf(t)
    BY <1>1, <1>5, <2>1, <2>3, PhaseStays
  <2>4. Promise!To(S, "lost")
    BY <1>3, <2>2, <2>3
  <2> QED
    BY <2>2, <2>4 DEF Promise!Forget
<1> QED
  BY <1>4, <1>5, ServerPlaces DEF Promise!Next

\* The request that enters the queue is the sender's, behind all others; the
\* sender waits only on one that blocks.
LEMMA Sent ==
  ASSUME CallInv, NEW u \in Tid, Send(u)
  PROVE  /\ Len(reqs) \in Nat /\ Len(reqs') = Len(reqs) + 1
         /\ \A i \in 1 .. Len(reqs) : reqs'[i] = reqs[i]
         /\ reqs'[Len(reqs) + 1].tid = u
         /\ pc'[u] = "wait" => reqs'[Len(reqs) + 1].op \in Blocking
<1>1. /\ pc[u] = "send" /\ OutShape(u) /\ reqs \in Seq(Request) /\ out[u] \in Seq(Request)
      /\ pc \in [Tid -> {"idle", "send", "wait", "kernel", "gone"}]
  BY DEF Send, CallInv, ThreadInv, TypeOK, CallTypes, ServerTypes
<1>2. out[u] # <<>>
  BY <1>1 DEF OutShape
<1>3. 1 \in 1 .. Len(out[u]) /\ Head(out[u]) = out[u][1] /\ Head(out[u]) \in Request
  BY <1>1, <1>2
<1>4. Head(out[u]).tid = u
  BY <1>1, <1>3 DEF OutShape
<1>5. pc'[u] = "wait" => Head(out[u]).op \in Blocking
  BY <1>1 DEF Send, Goto
<1>6. reqs' = Append(reqs, Head(out[u]))
  BY DEF Send
<1> QED
  BY <1>1, <1>3, <1>4, <1>5, <1>6

\* A step of an application thread is about its own call only.
LEMMA OthersStay ==
  ASSUME CallInv, NEW u \in Tid, Client(u), NEW t \in Tid, t # u
  PROVE  PhaseOf(t)' = PhaseOf(t)
<1>1. /\ UNCHANGED <<waitC, waitD, hpc, hreq>>
      /\ pc'[t] = pc[t] /\ call'[t] = call[t] /\ resp'[t] = resp[t]
  <2>1. /\ pc \in [Tid -> {"idle", "send", "wait", "kernel", "gone"}]
        /\ call \in [Tid -> Call] /\ resp \in [Tid -> Seq(Int)]
    BY DEF CallInv, TypeOK, CallTypes, ServerTypes
  <2> QED
    BY <2>1 DEF Client, Begin, Send, Resume, Kernel, Kill, Goto, clientOther, handlerVars
<1>2. InQueue(t)' <=> InQueue(t)
  <2>1. CASE reqs' = reqs
    BY <2>1 DEF InQueue
  <2>2. CASE Send(u)
    <3>1. \A i \in 1 .. Len(reqs') : i \in 1 .. Len(reqs) \/ i = Len(reqs) + 1
      BY <2>2, Sent
    <3>2. 1 .. Len(reqs) \subseteq 1 .. Len(reqs')
      BY <2>2, Sent
    <3> QED
      BY <2>2, <3>1, <3>2, Sent DEF InQueue, BlocksFor
  <2> QED
    BY <2>1, <2>2 DEF Client, Begin, Resume, Kernel, Kill
<1>3. /\ InHand(t)' <=> InHand(t)
      /\ AwaitsCreation(t)' <=> AwaitsCreation(t)
      /\ AwaitsData(t)' <=> AwaitsData(t)
      /\ Answered(t)' <=> Answered(t)
  BY <1>1 DEF InHand, AwaitsCreation, AwaitsData, Answered
<1>4. Stays(t)
  BY <1>2, <1>3 DEF Stays, Outstanding
<1> QED
  BY <1>1, <1>4, PhaseStays

\* A thread asks, takes its answer, ends, or does what is no concern of the
\* server.
LEMMA ClientPromise ==
  ASSUME CallInv, CallInv', NEW u \in Tid, Client(u)
  PROVE  Promise!Next \/ Phases' = Phases
<1>1. \A t \in Tid \ {u} : PhaseOf(t)' = PhaseOf(t)
  BY OthersStay
<1>2. ASSUME NEW f, PhaseOf(u)' = f PROVE Promise!To({u}, f)
  BY <1>1, <1>2 DEF Promise!To
<1>3. ASSUME PhaseOf(u)' = PhaseOf(u) PROVE Phases' = Phases
  BY <1>1, <1>3 DEF Phases
<1>4. pc \in [Tid -> {"idle", "send", "wait", "kernel", "gone"}]
  BY DEF CallInv, TypeOK, CallTypes
<1>5. CASE Kill(u) \/ PhaseOf(u)' = "gone"
  <2>1. PhaseOf(u)' = "gone"
    BY <1>4, <1>5 DEF Kill, Goto, PhaseOf
  <2>2. Promise!End(u)
    BY <1>2, <2>1 DEF Promise!End
  <2> QED
    BY <2>2 DEF Promise!Next
<1>6. CASE \E c \in Calls[u] : Begin(u, c)
  <2>1. pc[u] = "idle" /\ pc'[u] \in {"kernel", "send"}
    BY <1>4, <1>6 DEF Begin, Goto
  <2>2. PhaseOf(u)' = PhaseOf(u)
    BY <2>1 DEF PhaseOf
  <2> QED
    BY <1>3, <2>2
<1>7. CASE Kernel(u)
  <2>1. pc[u] = "kernel" /\ pc'[u] \in {"idle", "gone"}
    BY <1>4, <1>7 DEF Kernel, Goto
  <2>2. PhaseOf(u)' = PhaseOf(u) \/ PhaseOf(u)' = "gone"
    BY <2>1 DEF PhaseOf
  <2> QED
    BY <1>3, <1>5, <2>2
<1>8. CASE Resume(u)
  <2>1. pc[u] = "wait" /\ Answered(u) /\ pc'[u] = "kernel"
    BY <1>4, <1>8 DEF Resume, Goto, Answered
  <2>2. PhaseOf(u) = "answered" /\ PhaseOf(u)' = "none"
    BY <2>1 DEF PhaseOf
  <2>3. Promise!Return(u)
    BY <1>2, <2>2 DEF Promise!Return
  <2> QED
    BY <2>3 DEF Promise!Next
<1>9. CASE Send(u)
  <2>1. pc[u] = "send" /\ pc'[u] \in {"send", "wait", "kernel"} /\ resp' = resp
    BY <1>4, <1>9 DEF Send, Goto
  <2>2. PhaseOf(u) = "none"
    BY <2>1 DEF PhaseOf
  <2>3. CASE pc'[u] # "wait"
    <3>1. PhaseOf(u)' = "none"
      BY <2>1, <2>3 DEF PhaseOf
    <3> QED
      BY <1>3, <2>2, <3>1
  <2>4. CASE pc'[u] = "wait"
    <3>1. ~Answered(u)'
      BY <2>1 DEF CallInv, ThreadInv, OnePlace, Outstanding, Answered
    <3>2. Outstanding(u)'
      <4>1. Len(reqs) + 1 \in 1 .. Len(reqs')
        BY <1>9, Sent
      <4> QED
        BY <1>9, <2>4, <4>1, Sent DEF Outstanding, InQueue, BlocksFor
    <3>3. PhaseOf(u)' = "opening" \/ PhaseOf(u)' = "asking"
      BY <2>4, <3>1, <3>2 DEF PhaseOf
    <3>4. Promise!Ask(u)
      BY <1>2, <2>2, <3>3 DEF Promise!Ask
    <3> QED
      BY <3>4 DEF Promise!Next
  <2> QED
    BY <2>3, <2>4
<1> QED
  BY <1>5, <1>6, <1>7, <1>8, <1>9 DEF Client

\* A node keeps what BlockingCalls promises, for any number of threads and
\* files and whatever they call: every step of the client library, the handler
\* and the monitor asks, answers, returns, ends or forgets an open, or is
\* invisible to the callers.
THEOREM NodeKeepsPromise == Spec => KeepsPromise
<1>1. Init => Promise!Init
  <2>1. ASSUME Init, NEW t \in Tid PROVE PhaseOf(t) = "none"
    BY <2>1 DEF Init, PhaseOf
  <2> QED
    BY <2>1 DEF Promise!Init
<1>2. CallInv /\ CallInv' /\ CommitInv /\ [Next]_vars => [Promise!Next]_Phases
  <2> SUFFICES ASSUME CallInv, CallInv', CommitInv, [Next]_vars, Phases' # Phases
               PROVE  Promise!Next
    OBVIOUS
  <2>1. CASE UNCHANGED vars
    <3>1. Quiet /\ UNCHANGED <<pc, call>>
      BY <2>1 DEF vars, Quiet, clientVars, handlerVars, fsVars, clVars, cmVars
    <3>2. \A t \in Tid : PhaseOf(t)' = PhaseOf(t)
      BY <3>1, QuietStays, PhaseStays
    <3> QED
      BY <3>2 DEF Phases
  <2> QED
    BY <2>1, ClientPromise, ServerPromise DEF Next
<1> QED
  BY <1>1, <1>2, CallInvariant, CommitInvariant, PTL DEF Spec, KeepsPromise, Promise!Spec, Phases

=============================================================================
