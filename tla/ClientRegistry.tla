--------------------------- MODULE ClientRegistry ---------------------------
(***************************************************************************)
(* How threads come to the server and leave it: the library's constructor, *)
(* the clone hooks, fork, exec and exit on one side, the tables of         *)
(* ClientManager on the other, and between them the request queue and, per *)
(* thread id, a named response queue that either side makes or attaches to.*)
(***************************************************************************)
EXTENDS Naturals, Sequences, FiniteSets

CONSTANTS
  Tid,          \* the thread ids the kernel gives out
  App,          \* values of CAPIO_APP_NAME
  NoApp,        \* no entry in app_names
  MaxObjects,   \* bound: response queues ever made
  MaxStarts     \* bound: processes and threads started, programs executed

ASSUME RegistryAssumption ==
  /\ NoApp \notin App
  /\ MaxObjects \in Nat /\ MaxStarts \in Nat

VARIABLES
  st,       \* where each thread is
  leader,   \* the process a thread belongs to, named by its first thread
  subject,  \* the thread that a thread in init_process initialises
  forked,   \* threads that began in fork_handler
  tids,     \* the set tids of each process
  app,      \* CAPIO_APP_NAME of a thread's process
  reqs,     \* the request queue
  objects,  \* response queues made so far: each is a number above 0
  name,     \* the queue that a thread id's name stands for, 0: none
  answers,  \* the answers in each queue, not yet read
  cmap,     \* the queue the client has mapped for a thread
  smap,     \* bufs_response of the server: the queue it has mapped, 0: no entry
  appNames, \* app_names of the server
  server,   \* "up", or "out_of_range"
  starts,   \* history, for the bound
  ended,    \* history: threads that called exit after they had registered
  early     \* history: whether an id was given out again while the server, or
            \* the tids of a process, still had its last thread

clientVars == <<st, leader, subject, forked, tids, app, starts, ended, early>>
shmVars == <<objects, name, answers, cmap>>
serverVars == <<smap, appNames, server>>
vars == <<clientVars, shmVars, serverVars, reqs>>

Req(op, t, a) == [op |-> op, tid |-> t, app |-> a]

Send(r) == reqs' = Append(reqs, r)

Pending(t) == \E i \in DOMAIN reqs : reqs[i].tid = t

GroupOf(t) == {u \in Tid : leader[u] = leader[t] /\ st[u] \notin {"free", "gone"}}

-----------------------------------------------------------------------------
(* init_process, in the steps another process can see.                     *)

\* The constructor of a queue makes it, or attaches to the one that is there.
Attach(map, t) ==
  /\ IF name[t] # 0
       THEN map' = [map EXCEPT ![t] = name[t]] /\ UNCHANGED <<objects, name>>
       ELSE /\ objects < MaxObjects
            /\ objects' = objects + 1
            /\ name' = [name EXCEPT ![t] = objects + 1]
            /\ map' = [map EXCEPT ![t] = objects + 1]

register_listener(t) ==
  /\ st[t] = "listen"
  /\ Attach(cmap, subject[t]) /\ UNCHANGED answers
  /\ st' = [st EXCEPT ![t] = "handshake"]
  /\ UNCHANGED <<leader, subject, forked, tids, app, starts, ended, early, serverVars, reqs>>

\* A forked child does not register itself in tids.
handshake_request(t) ==
  /\ st[t] = "handshake"
  /\ Send(Req("HANDSHAKE", subject[t], app[t]))
  /\ st' = [st EXCEPT ![t] = IF t \in forked /\ subject[t] = t THEN "running" ELSE "register"]
  /\ UNCHANGED <<leader, subject, forked, tids, app, starts, ended, early, shmVars, serverVars>>

\* Mutant: nobody is woken.
register_capio_tid_NoNotify(t) ==
  /\ st[t] = "register"
  /\ tids' = [tids EXCEPT ![leader[t]] = @ \cup {subject[t]}]
  /\ st' = [st EXCEPT ![t] = "running"]
  /\ UNCHANGED <<leader, subject, forked, app, starts, ended, early, shmVars, serverVars, reqs>>

register_capio_tid(t) ==
  /\ st[t] = "register"
  /\ tids' = [tids EXCEPT ![leader[t]] = @ \cup {subject[t]}]
  /\ st' = [st EXCEPT ![t] = IF subject[t] = t THEN "running" ELSE "notify"]
  /\ UNCHANGED <<leader, subject, forked, app, starts, ended, early, shmVars, serverVars, reqs>>

\* clone_cv.notify_all: the sleeping children look again.
hook_clone_parent_Notify(t) ==
  /\ st[t] = "notify"
  /\ st' = [u \in Tid |-> IF u = t THEN "running"
                          ELSE IF st[u] = "asleep" /\ leader[u] = leader[t] THEN "born" ELSE st[u]]
  /\ UNCHANGED <<leader, subject, forked, tids, app, starts, ended, early, shmVars, serverVars, reqs>>

\* Mutant: the child does not wait for its parent.
hook_clone_child_NoWait(t) ==
  /\ st[t] = "born"
  /\ st' = [st EXCEPT ![t] = "running"]
  /\ UNCHANGED <<leader, subject, forked, tids, app, starts, ended, early, shmVars, serverVars, reqs>>

\* clone_cv.wait: the test and going to sleep are one step, under clone_mutex.
hook_clone_child(t) ==
  /\ st[t] = "born"
  /\ st' = [st EXCEPT ![t] = IF t \in tids[leader[t]] THEN "running" ELSE "asleep"]
  /\ UNCHANGED <<leader, subject, forked, tids, app, starts, ended, early, shmVars, serverVars, reqs>>

-----------------------------------------------------------------------------
(* Processes and threads.                                                  *)

Begin == starts < MaxStarts /\ starts' = starts + 1

\* A program is started under the library: its constructor runs.
init(t, a) ==
  /\ st[t] = "free" /\ Begin
  /\ st' = [st EXCEPT ![t] = "listen"] /\ subject' = [subject EXCEPT ![t] = t]
  /\ leader' = [leader EXCEPT ![t] = t] /\ tids' = [tids EXCEPT ![t] = {}]
  /\ app' = [app EXCEPT ![t] = a] /\ forked' = forked \ {t} /\ ended' = ended \ {t}
  /\ UNCHANGED <<early, shmVars, serverVars, reqs>>

\* The kernel has made the child when the two hooks begin to run.
clone(t, c) ==
  /\ st[t] = "running" /\ st[c] = "free" /\ Begin
  /\ st' = [st EXCEPT ![t] = "listen", ![c] = "born"]
  /\ subject' = [subject EXCEPT ![t] = c]
  /\ leader' = [leader EXCEPT ![c] = leader[t]] /\ app' = [app EXCEPT ![c] = app[t]]
  /\ forked' = forked \ {c} /\ ended' = ended \ {c}
  /\ UNCHANGED <<tids, early, shmVars, serverVars, reqs>>

\* The child gets a copy of tids, which holds its parent's id.
fork_handler(t, c) ==
  /\ st[t] = "running" /\ st[c] = "free" /\ Begin
  /\ st' = [st EXCEPT ![c] = "listen"] /\ subject' = [subject EXCEPT ![c] = c]
  /\ leader' = [leader EXCEPT ![c] = c] /\ tids' = [tids EXCEPT ![c] = tids[leader[t]]]
  /\ app' = [app EXCEPT ![c] = app[t]]
  /\ forked' = forked \cup {c} /\ ended' = ended \ {c}
  /\ UNCHANGED <<early, shmVars, serverVars, reqs>>

\* execve in the first thread: the others are gone, the id stays, and the
\* library's constructor runs again.
execve(t, a) ==
  /\ st[t] = "running" /\ leader[t] = t /\ Begin
  /\ st' = [u \in Tid |-> IF u = t THEN "listen" ELSE IF u \in GroupOf(t) THEN "gone" ELSE st[u]]
  /\ subject' = [subject EXCEPT ![t] = t] /\ tids' = [tids EXCEPT ![t] = {}]
  /\ app' = [app EXCEPT ![t] = a] /\ forked' = forked \ {t}
  /\ UNCHANGED <<leader, ended, early, shmVars, serverVars, reqs>>

\* Mutant: the server is not told.
exit_handler_Silent(t, S) ==
  /\ st[t] = "running" /\ S \in {{t}, GroupOf(t)}
  /\ tids' = [tids EXCEPT ![leader[t]] = @ \ {t}]
  /\ st' = [u \in Tid |-> IF u \in S THEN "gone" ELSE st[u]]
  /\ ended' = ended \cup {t}
  /\ UNCHANGED <<leader, subject, forked, app, starts, early, shmVars, serverVars, reqs>>

\* exit_handler, the same for exit and exit_group: the latter ends every
\* thread of the process.  Only a thread in tids tells the server.
exit_handler(t, S) ==
  /\ st[t] = "running" /\ S \in {{t}, GroupOf(t)}
  /\ IF t \in tids[leader[t]]
       THEN Send(Req("EXIT", t, NoApp)) /\ tids' = [tids EXCEPT ![leader[t]] = @ \ {t}]
       ELSE UNCHANGED <<reqs, tids>>
  /\ st' = [u \in Tid |-> IF u \in S THEN "gone" ELSE st[u]]
  /\ ended' = ended \cup {t}
  /\ UNCHANGED <<leader, subject, forked, app, starts, early, shmVars, serverVars>>

\* A process is killed.
Kill(t) ==
  /\ leader[t] = t /\ GroupOf(t) # {}
  /\ st' = [u \in Tid |-> IF u \in GroupOf(t) THEN "gone" ELSE st[u]]
  /\ UNCHANGED <<leader, subject, forked, tids, app, starts, ended, early, shmVars, serverVars, reqs>>

\* The kernel has the id to give again, whoever still has it in his tables.
Reuse(t) ==
  /\ st[t] = "gone"
  /\ \A u \in Tid : leader[u] = t => st[u] \in {"free", "gone"}
  /\ st' = [st EXCEPT ![t] = "free"]
  /\ early' = \/ early \/ smap[t] # 0 \/ Pending(t)
               \/ \E u \in Tid : st[u] \notin {"free", "gone"} /\ t \in tids[leader[u]]
  /\ UNCHANGED <<leader, subject, forked, tids, app, starts, ended, shmVars, serverVars, reqs>>

\* A blocking request: consent_to_proceed_request and its like.
Call(t) ==
  /\ st[t] = "running"
  /\ Send(Req("CALL", t, NoApp))
  /\ st' = [st EXCEPT ![t] = "calling"]
  /\ UNCHANGED <<leader, subject, forked, tids, app, starts, ended, early, shmVars, serverVars>>

\* bufs_response->at(tid)->read takes the first answer there is.
Answered(t) ==
  /\ st[t] = "calling" /\ answers[cmap[t]] > 0
  /\ answers' = [answers EXCEPT ![cmap[t]] = @ - 1]
  /\ st' = [st EXCEPT ![t] = "running"]
  /\ UNCHANGED <<leader, subject, forked, tids, app, starts, ended, early, objects, name, cmap,
                 serverVars, reqs>>

-----------------------------------------------------------------------------
(* The server takes one request after the other.                           *)

Next1(op) == server = "up" /\ reqs # <<>> /\ Head(reqs).op = op /\ reqs' = Tail(reqs)

out_of_range == server' = "out_of_range" /\ UNCHANGED <<smap, appNames, clientVars, shmVars>>

\* Mutant: the queue of a thread that is known is taken to be a new one.
register_new_client_Replaces(t, a) ==
  /\ objects < MaxObjects
  /\ objects' = objects + 1
  /\ name' = [name EXCEPT ![t] = objects + 1] /\ smap' = [smap EXCEPT ![t] = objects + 1]
  /\ appNames' = [appNames EXCEPT ![t] = a]

\* insert and emplace keep what is there for the id already.
register_new_client(t, a) ==
  /\ IF smap[t] = 0 THEN Attach(smap, t) ELSE UNCHANGED <<smap, objects, name>>
  /\ appNames' = [appNames EXCEPT ![t] = IF @ = NoApp THEN a ELSE @]

handshake_handler ==
  /\ Next1("HANDSHAKE")
  /\ register_new_client(Head(reqs).tid, Head(reqs).app)
  /\ UNCHANGED <<server, clientVars, answers, cmap>>

\* The destructor of the queue unlinks its name; app_names keeps its entry.
remove_client(t) ==
  /\ smap' = [smap EXCEPT ![t] = 0]
  /\ name' = IF smap[t] # 0 THEN [name EXCEPT ![t] = 0] ELSE name

\* setCommitted(tid) looks the thread up before it is removed.
server_exit_handler ==
  LET t == Head(reqs).tid IN
  /\ Next1("EXIT")
  /\ IF smap[t] = 0 THEN out_of_range
     ELSE remove_client(t) /\ UNCHANGED <<appNames, server, clientVars, objects, answers, cmap>>

\* Mutant: no answer is given.
reply_to_client_Never ==
  Next1("CALL") /\ UNCHANGED <<clientVars, shmVars, serverVars>>

\* The answer goes to the queue the server has mapped.
reply_to_client ==
  LET t == Head(reqs).tid IN
  /\ Next1("CALL")
  /\ IF smap[t] = 0 \/ appNames[t] = NoApp THEN out_of_range
     ELSE /\ answers' = [answers EXCEPT ![smap[t]] = @ + 1]
          /\ UNCHANGED <<clientVars, objects, name, cmap, serverVars>>

Serve == handshake_handler \/ server_exit_handler \/ reply_to_client

-----------------------------------------------------------------------------

Init ==
  /\ st = [t \in Tid |-> "free"] /\ leader = [t \in Tid |-> t]
  /\ subject = [t \in Tid |-> t] /\ forked = {} /\ tids = [t \in Tid |-> {}]
  /\ app = [t \in Tid |-> NoApp] /\ reqs = <<>>
  /\ objects = 0 /\ answers = [o \in 0 .. MaxObjects |-> 0] /\ name = [t \in Tid |-> 0] /\ cmap = name /\ smap = name
  /\ appNames = [t \in Tid |-> NoApp] /\ server = "up" /\ starts = 0 /\ ended = {}
  /\ early = FALSE

\* What a thread does without being asked to.
Proceed(t) ==
  \/ register_listener(t)
  \/ handshake_request(t)
  \/ register_capio_tid(t)
  \/ hook_clone_parent_Notify(t)
  \/ hook_clone_child(t)
  \/ Answered(t)

Next ==
  \/ \E t \in Tid : \/ Proceed(t) \/ Kill(t) \/ Reuse(t) \/ Call(t)
                    \/ \E a \in App : init(t, a) \/ execve(t, a)
                    \/ \E c \in Tid : clone(t, c) \/ fork_handler(t, c)
                    \/ \E S \in {{t}, GroupOf(t)} : exit_handler(t, S)
  \/ Serve

Spec == Init /\ [][Next]_vars

\* Threads that can go on do, and the server takes the next request.
FairSpec == Spec /\ (\A t \in Tid : WF_vars(Proceed(t))) /\ WF_vars(Serve)

-----------------------------------------------------------------------------
(* Properties.                                                             *)

\* Whatever threads and processes are cloned, executed, ended and killed, no
\* request of a thread comes to the server before its handshake or after its
\* exit, unless an id was given out again too early: the .at(tid) of
\* ClientManager never throws.
NoUnknownTid == ~early => server = "up"

\* The server answers in the queue the thread reads: both have the same object
\* behind the name, although each side makes it when it finds none.  (Not so
\* when an id is given out again while the exit of its last thread is queued.)
SameQueue ==
  ~early => \A t \in Tid : st[t] \in {"running", "calling"} /\ smap[t] # 0 => smap[t] = cmap[t]

\* A cloned thread does not sleep for ever: its parent wakes it once the server
\* has been told of it, whichever of the two comes first to clone_mutex.
ChildStarts == \A t \in Tid : st[t] \in {"born", "asleep"} ~> st[t] \notin {"born", "asleep"}

\* A blocking call returns, or its caller is killed.
CallReturns == []~early => \A t \in Tid : st[t] = "calling" ~> st[t] # "calling"

\* The server keeps a queue, its semaphores and their names for every thread it has
\* registered (register_new_client): those of a thread that has ended by exit or
\* exit_group are given back, unless its id has been given out again.  This says
\* nothing of the thread's files, which EXIT does not commit, and nothing of a
\* process made by fork, which sends no EXIT.
EndedForgotten ==
  []~early => \A t \in Tid : t \in ended \ forked ~> (smap[t] = 0 \/ t \notin ended)

=============================================================================
