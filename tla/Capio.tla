------------------------------- MODULE Capio -------------------------------
(***************************************************************************)
(* A CAPIO node: the application threads, the server's request handler and *)
(* its file-system monitor, interleaved.  The properties here are the      *)
(* promises the blocking calls rest on: an answer for every waiting        *)
(* thread, once, and not before the CAPIO-CL rules of the file allow it.   *)
(***************************************************************************)
EXTENDS PosixClient, RequestHandlers

Init ==
  /\ link \in {l \in [Path -> Inode \cup {0}] :
                /\ \A p \in Path : l[p] # 0 <=> p \in Present
                /\ \A p, q \in Present : l[p] = l[q] => p = q}
  /\ isize = [i \in Inode |-> 0]
  /\ token = [p \in Path |-> -1]
  /\ locations = Declared
  /\ producers = [p \in Path |-> IF p \in Declared THEN Producers[p] ELSE {}]
  /\ reqs = <<>>
  /\ resp = [t \in Tid |-> <<>>]
  /\ bufs = {}
  /\ appNames = [t \in Tid |-> NoApp]
  /\ server = "up"
  /\ waitC = [p \in Path |-> {}]
  /\ waitD = [p \in Path |-> [t \in Tid |-> -1]]
  /\ pc = [t \in Tid |-> "send"]
  /\ call = [t \in Tid |-> NoCall]
  /\ out = [t \in Tid |-> init_process(t)]
  /\ wcache = [t \in Tid |-> NoWrites]
  /\ rcache = [t \in Tid |-> NoReads]
  /\ fds = [t \in Tid |-> [p \in Path |-> 0]]
  /\ left = MaxCalls
  /\ hpc = "recv" /\ hreq = NoReq /\ hflag = FALSE
  /\ htodo = {} /\ htid = 0 /\ hcount = 0
  /\ mpc = "data" /\ mfiles = {} /\ mpath = NoPath
  /\ mflag = FALSE /\ mtodo = {} /\ mtid = 0

Next == (\E t \in Tid : Client(t)) \/ Handler \/ Monitor

Spec == Init /\ [][Next]_vars

(***************************************************************************)
(* A thread inside a system call keeps running, and the two threads of the *)
(* server are loops that never stop.  The monitor sleeps between rounds    *)
(* with no mutex held, so a handler waiting for data_mutex gets it: strong *)
(* fairness for the steps that take it.  Nothing makes a program call.     *)
(***************************************************************************)
Fairness ==
  /\ \A t \in Tid : WF_vars(Send(t)) /\ WF_vars(Resume(t)) /\ WF_vars(Kernel(t))
  /\ WF_vars(Handler)
  /\ WF_vars(Monitor)
  /\ SF_vars(server = "up" /\ HandlerLock)
  /\ SF_vars(server = "up" /\ DataWait)

FairSpec == Spec /\ Fairness

-----------------------------------------------------------------------------
HandlerLabels == RequestCodes \cup
  {"recv", "add_producer", "open_wait", "consent_committed", "read_exists", "read_size",
   "read_absent", "data_wait", "lock", "check", "stat", "close_unlock", "close_count",
   "close_write"}

MonitorLabels == {"data", "creation", "unlock", "delete", "lock", "check", "stat"}

FileTypes ==
  /\ link \in [Path -> Inode \cup {0}]
  /\ isize \in [Inode -> 0 .. MaxSize]
  /\ token \in [Path -> Nat \cup {-1}]
  /\ locations \subseteq Path
  /\ producers \in [Path -> SUBSET App]

ServerTypes ==
  /\ reqs \in Seq(Request)
  /\ resp \in [Tid -> Seq(Int)]
  /\ bufs \subseteq Tid
  /\ appNames \in [Tid -> App \cup {NoApp}]
  /\ server \in {"up", "out_of_range", "filesystem_error"}
  /\ waitC \in [Path -> SUBSET Tid]
  /\ waitD \in [Path -> [Tid -> Nat \cup {-1}]]

CallTypes ==
  /\ pc \in [Tid -> {"idle", "send", "wait", "kernel", "gone"}]
  /\ call \in [Tid -> Call] /\ \A t \in Tid : call[t] \in Calls[t] \cup {NoCall}
  /\ out \in [Tid -> Seq(Request)]
  /\ left \in [Tid -> Nat]

CacheTypes ==
  /\ wcache \in [Tid -> [path : Path \cup {NoPath}, sum : Nat]]
  /\ rcache \in [Tid -> [path : Path \cup {NoPath}, max : Int, moved : BOOLEAN,
                       avail : [Path -> Int]]]
  /\ fds \in [Tid -> [Path -> Inode \cup {0}]]

HandlerTypes ==
  /\ hpc \in HandlerLabels
  /\ hreq \in Request \cup {NoReq}
  /\ hflag \in BOOLEAN
  /\ htodo \subseteq Tid
  /\ htid \in Tid \cup {0}
  /\ hcount \in Nat

MonitorTypes ==
  /\ mpc \in MonitorLabels
  /\ mfiles \subseteq Path
  /\ mpath \in Path \cup {NoPath}
  /\ mflag \in BOOLEAN
  /\ mtodo \subseteq Tid
  /\ mtid \in Tid \cup {0}

\* Types of all the state of the node, the locals of the three kinds of thread
\* included.
TypeOK == FileTypes /\ ServerTypes /\ CallTypes /\ CacheTypes /\ HandlerTypes /\ MonitorTypes

-----------------------------------------------------------------------------
\* The calls that may wait in thread_awaiting_data.
DataCalls == {"read", "stat", "access", "fstat"}

(* Where the blocking call of a thread can be, once sent.                  *)

BlocksFor(r, t) == r.tid = t /\ r.op \in Blocking

InQueue(t) == \E i \in 1 .. Len(reqs) : BlocksFor(reqs[i], t)

InHand(t) == hpc # "recv" /\ BlocksFor(hreq, t)

AwaitsCreation(t) == \E p \in Path : t \in waitC[p]

AwaitsData(t) == \E p \in Path : waitD[p][t] # -1

Answered(t) == resp[t] # <<>>

Outstanding(t) ==
  InQueue(t) \/ InHand(t) \/ AwaitsCreation(t) \/ AwaitsData(t) \/ Answered(t)

\* Every blocking call gets at most one answer, and an answer never meets
\* another call than the one it was given for: a thread that is not waiting
\* has no request, table entry or answer left anywhere, and a call that has
\* its answer is in neither table nor queue (reply_to_client and the tables
\* of CapioFileManager).
AnswerMeetsItsCall ==
  \A t \in Tid :
    /\ pc[t] \notin {"wait", "gone"} => ~Outstanding(t)
    /\ Answered(t) => /\ Len(resp[t]) = 1
                      /\ ~InQueue(t) /\ ~InHand(t) /\ ~AwaitsCreation(t) /\ ~AwaitsData(t)

Kept(t) ==
  pc[t] = "wait" /\ call[t].op \in DataCalls =>
    InQueue(t) \/ InHand(t) \/ Answered(t) \/ waitD[call[t].path][t] # -1

\* A thread waiting for data (READ, CONSENT) is never forgotten: until its
\* answer is there its request is queued, in the handler, or in
\* thread_awaiting_data under the path it asked for.
DataWaiterKept == \A t \in Tid : Kept(t)

\* No look-up by thread id ever fails: every thread in a table or a request
\* is registered, in spite of exits, kills and requests overtaking nothing
\* (the .at(tid) calls of ClientManager).
NoUnknownThread == server # "out_of_range"

\* data_mutex: the handler and the monitor are never both inside
\* checkAndUnlockThreadAwaitingData, and what either has still to visit is
\* still in the table.
DataMutexHeldOnce ==
  /\ ~(hpc \in Holding /\ mpc \in Holding)
  /\ hpc \in Holding => \A t \in htodo : waitD[hreq.path][t] # -1
  /\ hpc = "stat" => htid \in Tid \ htodo /\ waitD[hreq.path][htid] # -1
  /\ mpc \in Holding => \A t \in mtodo : waitD[mpath][t] # -1
  /\ mpc = "stat" => mtid \in Tid \ mtodo /\ waitD[mpath][mtid] # -1

-----------------------------------------------------------------------------
(* The strengthening that makes AnswerMeetsItsCall and DataWaiterKept      *)
(* inductive.                                                              *)

\* The requests a label of the handler can be working on.
OpsAt(l) ==
  CASE l \in RequestCodes                               -> {l}
    [] l = "add_producer"                               -> {"CREATE"}
    [] l = "open_wait"                                  -> {"OPEN"}
    [] l = "consent_committed"                          -> {"CONSENT"}
    [] l \in {"read_exists", "read_size", "read_absent"} -> {"READ"}
    [] l = "data_wait"                                  -> {"READ", "CONSENT"}
    [] l \in {"lock", "check", "stat"}                  -> {"WRITE", "CLOSE"}
    [] OTHER                                            -> {"CLOSE"}

HandlerPlace == hpc # "recv" => hreq \in Request /\ hreq.op \in OpsAt(hpc)

MonitorPlace == mpc \in {"unlock", "delete", "lock", "check", "stat"} => mpath \in Path

\* What is still to be sent: only the last request can be a blocking one, and
\* it is the one of the call.
AsksFor(r, c) ==
  /\ r.path = c.path
  /\ r.op = "OPEN" => c.op = "open"
  /\ r.op = "READ" => c.op = "read" /\ c.n = r.n
  /\ r.op = "CONSENT" => c.op \in DataCalls

OutShape(t) ==
  /\ pc[t] = "send" <=> out[t] # <<>>
  /\ pc[t] = "wait" => call[t].op \in DataCalls \cup {"open"}
  /\ \A i \in 1 .. Len(out[t]) :
       /\ out[t][i].tid = t
       /\ out[t][i].op \in Blocking => i = Len(out[t]) /\ AsksFor(out[t][i], call[t])

\* The blocking call of a thread is in one place at a time, and once in it.
OnePlace(t) ==
  /\ pc[t] \notin {"wait", "gone"} => ~Outstanding(t)
  /\ \A i, j \in 1 .. Len(reqs) : BlocksFor(reqs[i], t) /\ BlocksFor(reqs[j], t) => i = j
  /\ InQueue(t) => ~InHand(t) /\ ~AwaitsCreation(t) /\ ~AwaitsData(t) /\ ~Answered(t)
  /\ InHand(t) => ~AwaitsCreation(t) /\ ~AwaitsData(t) /\ ~Answered(t)
  /\ AwaitsCreation(t) => ~AwaitsData(t) /\ ~Answered(t)
  /\ AwaitsData(t) => ~Answered(t)
  /\ \A p, q \in Path : t \in waitC[p] /\ t \in waitC[q] => p = q
  /\ \A p, q \in Path : waitD[p][t] # -1 /\ waitD[q][t] # -1 => p = q
  /\ Len(resp[t]) <= 1

\* A request on its way to the handler, or in its hands, is about the call its
\* sender is still waiting in.
RequestIsCall(t) ==
  pc[t] = "wait" =>
    /\ \A i \in 1 .. Len(reqs) : BlocksFor(reqs[i], t) => AsksFor(reqs[i], call[t])
    /\ InHand(t) => AsksFor(hreq, call[t])

ThreadInv(t) == OutShape(t) /\ OnePlace(t) /\ RequestIsCall(t) /\ Kept(t)

\* The inductive invariant: types, the places of the two server threads, who
\* holds data_mutex, and where the call of each thread is.
CallInv == /\ TypeOK /\ HandlerPlace /\ MonitorPlace /\ DataMutexHeldOnce
           /\ \A t \in Tid : ThreadInv(t)

-----------------------------------------------------------------------------
(* When a thread is released.                                              *)

Releases(t) == resp'[t] # resp[t] /\ Len(resp'[t]) > Len(resp[t])

EnoughData(t) ==
  call[t].op = "read" /\ get_file_size_if_exists(call[t].path) >= call[t].n

\* Neither the path nor what its commit depends on is a directory, whose
\* content comes and goes.
OnFiles(p) ==
  \E S \in SUBSET (Path \ Dir) : p \in S /\ \A q \in S : Deps[q] \subseteq S

\* A thread waiting on a file in mode "update" is answered only when the file
\* is committed, the thread's application produces it, or all the bytes it
\* asked for are there (read_handler, consent_to_proceed_handler and
\* checkAndUnlockThreadAwaitingData, from either thread of the server).  Where
\* directories count, read_handler may answer a read from a commit that was
\* taken back since it looked.
UpdateReleaseJustified ==
  [][\A t \in Tid :
       LET p == call[t].path IN
       /\ Releases(t) /\ pc[t] = "wait" /\ call[t].op \in DataCalls
       /\ p \in Handled /\ getFireRule(p) = "update"
       /\ call[t].op = "read" => OnFiles(p)
       => isCommitted(p) \/ isProducer(p, t) \/ EnoughData(t)]_vars

\* Where the call of a thread stands.
PhaseOf(t) ==
  CASE pc[t] = "gone"              -> "gone"
    [] pc[t] \notin {"wait", "gone"} -> "none"
    [] OTHER -> IF Answered(t) THEN "answered"
                ELSE IF ~Outstanding(t) THEN "lost"
                ELSE IF call[t].op = "open" THEN "opening" ELSE "asking"

\* The rule of UpdateReleaseJustified, for a thread that waits for data.
MayGoOn(t) ==
  LET p == call[t].path IN
  /\ pc[t] = "wait" /\ call[t].op \in DataCalls
  /\ \/ p \notin Handled \/ getFireRule(p) = "no_update"
     \/ call[t].op = "read" /\ ~OnFiles(p)
     \/ isCommitted(p) \/ isProducer(p, t) \/ EnoughData(t)

Promise == INSTANCE BlockingCalls WITH
  Thread <- Tid, phase <- [t \in Tid |-> PhaseOf(t)], ready <- [t \in Tid |-> MayGoOn(t)]

\* The whole node, seen from the calls of its threads: whatever way a request
\* takes through the queue, the handler, the tables and the monitor, it is
\* answered once, not before its file allows, and forgotten only if it is an
\* open (the race in deleteFileAwaitingCreation).
KeepsPromise == Promise!Spec

\* increaseCloseCount has truncated the metadata file of a path whose count
\* had been reached.
Rewriting == hpc = "close_write" /\ hcount > getCommitCloseCount(hreq.path)

\* A file that is committed stays committed, except in the moment in which
\* increaseCloseCount rewrites the count it depends on; and when the count is
\* written the file is committed again: no later close takes a commit back
\* (directories follow their content instead).
CommitSticky ==
  [][\A p \in Path :
       /\ OnFiles(p) /\ isCommitted(p) => isCommitted(p)' \/ Rewriting'
       /\ Rewriting /\ hreq.path = p /\ p \notin Dir => isCommitted(p)' \/ Rewriting']_vars

-----------------------------------------------------------------------------
(* What must eventually happen.                                            *)

\* A thread that waits for data of a file that exists and is committed does
\* not wait forever: the monitor comes round.
CommittedDataReleases ==
  \A t \in Tid, p \in Path :
    []<>~(/\ pc[t] = "wait" /\ call[t].op \in DataCalls /\ call[t].path = p
          /\ Exists(p) /\ isCommitted(p))

\* A thread that waits for the creation of a file that exists does not wait
\* forever.
CreationReleases ==
  \A t \in Tid, p \in Path :
    []<>~(pc[t] = "wait" /\ call[t].op = "open" /\ call[t].path = p /\ Exists(p))

\* A full request queue holds a thread up only for a while, whoever waits for
\* whom: the handler never blocks on a client.
SendsComplete == \A t \in Tid : pc[t] = "send" ~> pc[t] # "send"

=============================================================================
