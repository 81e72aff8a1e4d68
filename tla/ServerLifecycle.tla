-------------------------- MODULE ServerLifecycle --------------------------
(***************************************************************************)
(* How capio_server starts and stops: main constructs its components one   *)
(* after the other, two of them with a thread of their own, and a signal   *)
(* makes some thread run sig_term_handler, which deletes them again.  The  *)
(* servers of one workflow on one node, the threads of applications and    *)
(* capioctl meet in the names of shared memory.                            *)
(***************************************************************************)
EXTENDS Naturals, Sequences

CONSTANTS
  Server,      \* server processes of one workflow, each started once
  Client,      \* threads of applications under the library, each started once
  Signal,      \* the signals sig_term_handler is installed for
  MaxSignals,  \* bound: signals sent to a server
  MaxKills     \* bound: servers killed with SIGKILL

ASSUME LifecycleAssumption == MaxSignals \in Nat /\ MaxKills \in Nat

VARIABLES
  names,     \* the names in shared memory, but those of response queues
  answers,   \* the threads whose response queue is in shared memory
  objects,   \* request queues made so far: the last one is what its name stands for
  reader,    \* the request queue each server has mapped, 0: none ...
  writer,    \* ... and each client thread
  client,    \* where each client thread is
  mail,      \* what its request queue holds of it: HANDSHAKE, EXIT
  bufs,      \* bufs_response of each server: the threads it has a queue for
  selfmade,  \* history: whether a client made a request queue
  run,       \* how each process is doing
  made,      \* how many components main has constructed ...
  known,     \* ... and how many of the global pointers it has set
  mutex,     \* who is in a critical section of CapioFileManager
  thread,    \* the threads of the monitor and of CapioCTLModule
  cancelled, \* threads a pthread_cancel was sent to
  frames,    \* the activations of sig_term_handler of each thread
  freed,     \* components whose delete has begun
  ctl,       \* capioctl: "off", "checked" or "attached"
  sent, kills,   \* history, for the bounds
  foundOld,  \* history: servers that constructed a queue whose name was taken
  untimely   \* history: whether a signal came while main constructed, while a
             \* request handler was in a critical section or while another was
             \* handled

clientVars == <<answers, objects, reader, writer, client, mail, bufs, selfmade>>
vars == <<names, run, made, known, mutex, thread, cancelled, frames, freed, ctl, sent, kills, foundOld, untimely,
          clientVars>>

\* The order in which main constructs, and in which sig_term_handler deletes.
Order == <<"canary", "file_manager", "fs_monitor", "ctl_module", "engine">>

Deletions == <<"engine", "ctl_module", "fs_monitor", "canary">>

\* The names a constructor makes.  The response queues that the server makes for
\* its clients later are not among them: those are in answers.
NamesOf(c) ==
  CASE c = "canary" -> {"canary"}
    [] c = "ctl_module" -> {"RX", "TX"}
    [] c = "engine" -> {"requests"}
    [] OTHER -> {}

Own == {"fs_monitor", "ctl_module"}   \* components with a thread

Thread == {"main"} \cup Own

KnownTo(s) == {Order[i] : i \in 1..known[s]}

Alive(s, t) == t = "main" \/ (t \in Own /\ thread[s][t] \notin {"none", "ended"})

\* A thread goes on with its own work when it runs no signal handler.
Free(s, t) == run[s] = "up" /\ Alive(s, t) /\ frames[s][t] = <<>>

Serving(s) == known[s] = Len(Order)

-----------------------------------------------------------------------------
(* main.                                                                   *)

\* parseCLI has read its options and setup_signal_handlers has run.
main_Start(s) ==
  /\ run[s] = "off"
  /\ run' = [run EXCEPT ![s] = "up"]
  /\ UNCHANGED <<names, made, known, mutex, thread, cancelled, frames, freed, ctl, sent, kills, foundOld, untimely>>
  /\ UNCHANGED clientVars

\* parseCLI exits for --help, for an option it does not know and when it gets
\* no configuration; JsonParser::parse, for a document it cannot use.
parseCLI_Exits(s) ==
  /\ run[s] = "off"
  /\ run' = [run EXCEPT ![s] = "exited"]
  /\ UNCHANGED <<names, made, known, mutex, thread, cancelled, frames, freed, ctl, sent, kills, foundOld, untimely>>
  /\ UNCHANGED clientVars

\* Mutant: shm_open without O_EXCL.
CapioShmCanary_Refused_Never(s) == FALSE

\* shm_open(O_CREAT | O_EXCL) finds the name taken: ERR_EXIT.
CapioShmCanary_Refused(s) == Order[made[s] + 1] = "canary" /\ "canary" \in names

\* The request queue a process maps: the one its name stands for, or a new one.
Mapped == IF "requests" \in names THEN objects ELSE objects + 1

\* A constructor, up to the point where its object is complete.  A queue is made
\* when its name is not there and attached to when it is.
main_Construct(s) ==
  /\ Free(s, "main") /\ made[s] = known[s] /\ made[s] < Len(Order)
  /\ LET c == Order[made[s] + 1] IN
     IF CapioShmCanary_Refused(s)
       THEN /\ run' = [run EXCEPT ![s] = "exited"]
            /\ UNCHANGED <<names, made, thread, foundOld, objects, reader>>
       ELSE /\ names' = names \cup NamesOf(c)
            /\ made' = [made EXCEPT ![s] = @ + 1]
            /\ thread' = [thread EXCEPT ![s] =
                            [t \in Own |-> IF t = c THEN "run" ELSE @[t]]]
            /\ foundOld' = IF c # "canary" /\ NamesOf(c) \cap names # {}
                             THEN foundOld \cup {s} ELSE foundOld
            /\ objects' = IF c = "engine" THEN Mapped ELSE objects
            /\ reader' = IF c = "engine" THEN [reader EXCEPT ![s] = Mapped] ELSE reader
            /\ UNCHANGED run
  /\ UNCHANGED <<known, mutex, cancelled, frames, freed, ctl, sent, kills, untimely>>
  /\ UNCHANGED <<answers, writer, client, mail, bufs, selfmade>>

\* The global pointer is set once the constructor has returned.
main_Assign(s) ==
  /\ Free(s, "main") /\ known[s] < made[s]
  /\ known' = [known EXCEPT ![s] = made[s]]
  /\ UNCHANGED <<names, run, made, mutex, thread, cancelled, frames, freed, ctl, sent, kills, foundOld, untimely>>
  /\ UNCHANGED clientVars

\* RequestHandlerEngine::start: a handler enters and leaves a critical section
\* of threads_mutex or data_mutex; no handler holds both.
start_Lock(s) ==
  /\ Free(s, "main") /\ Serving(s) /\ mutex[s] = "free"
  /\ mutex' = [mutex EXCEPT ![s] = "main"]
  /\ UNCHANGED <<names, run, made, known, thread, cancelled, frames, freed, ctl, sent, kills, foundOld, untimely>>
  /\ UNCHANGED clientVars

start_Unlock(s) ==
  /\ Free(s, "main") /\ mutex[s] = "main"
  /\ mutex' = [mutex EXCEPT ![s] = "free"]
  /\ UNCHANGED <<names, run, made, known, thread, cancelled, frames, freed, ctl, sent, kills, foundOld, untimely>>
  /\ UNCHANGED clientVars

-----------------------------------------------------------------------------
(* The threads of FileSystemMonitor and CapioCTLModule.  The first sleeps  *)
(* and wants the mutex in turn, the second waits in the queue RX and drops *)
(* what it reads.                                                          *)

Monitor == "fs_monitor"

monitor_Wake(s) ==
  /\ Free(s, Monitor) /\ thread[s][Monitor] = "run"
  /\ thread' = [thread EXCEPT ![s][Monitor] = "lock"]
  /\ UNCHANGED <<names, run, made, known, mutex, cancelled, frames, freed, ctl, sent, kills, foundOld, untimely>>
  /\ UNCHANGED clientVars

\* pthread_mutex_lock is not a cancellation point.
monitor_Lock(s) ==
  /\ Free(s, Monitor) /\ thread[s][Monitor] = "lock" /\ mutex[s] = "free"
  /\ thread' = [thread EXCEPT ![s][Monitor] = "inside"]
  /\ mutex' = [mutex EXCEPT ![s] = "monitor"]
  /\ UNCHANGED <<names, run, made, known, cancelled, frames, freed, ctl, sent, kills, foundOld, untimely>>
  /\ UNCHANGED clientVars

monitor_Unlock(s) ==
  /\ Free(s, Monitor) /\ thread[s][Monitor] = "inside"
  /\ thread' = [thread EXCEPT ![s][Monitor] = "run"]
  /\ mutex' = [mutex EXCEPT ![s] = "free"]
  /\ UNCHANGED <<names, run, made, known, cancelled, frames, freed, ctl, sent, kills, foundOld, untimely>>
  /\ UNCHANGED clientVars

\* nanosleep and sem_wait are cancellation points, and so is the output of
\* sig_term_handler.
EndThread(s, t) ==
  /\ run[s] = "up" /\ t \in cancelled[s] /\ Alive(s, t)
  /\ thread[s][t] = "run" \/ frames[s][t] # <<>>
  /\ thread' = [thread EXCEPT ![s][t] = "ended"]
  /\ frames' = [frames EXCEPT ![s][t] = <<>>]
  /\ mutex' = [mutex EXCEPT ![s] = IF thread[s][t] = "inside" THEN "free" ELSE @]
  /\ UNCHANGED <<names, run, made, known, cancelled, freed, ctl, sent, kills, foundOld, untimely>>
  /\ UNCHANGED clientVars

-----------------------------------------------------------------------------
(* sig_term_handler.                                                       *)

Blocked(s, t, sig) == \E i \in DOMAIN frames[s][t] : frames[s][t][i].sig = sig

\* The kernel prefers the main thread; a signal that thread is handling, and so
\* blocks, goes to another one.  A signal of another number interrupts the
\* handler: sa_mask is empty.
Receivers(s, sig) ==
  IF ~Blocked(s, "main", sig) THEN {"main"}
  ELSE {t \in Own : Alive(s, t) /\ ~Blocked(s, t, sig)}

\* Thread t comes to run sig_term_handler.
Handle(s, t, sig) ==
  frames' = [frames EXCEPT ![s][t] = <<[sig |-> sig, next |-> 1, joining |-> FALSE]>> \o @]

Deliver(s, sig) ==
  /\ run[s] = "up" /\ sent < MaxSignals
  /\ untimely' = \/ untimely \/ ~Serving(s) \/ mutex[s] = "main"
                  \/ \E t \in Thread : frames[s][t] # <<>>
  /\ \E t \in Receivers(s, sig) : Handle(s, t, sig)
  /\ sent' = sent + 1
  /\ UNCHANGED <<names, run, made, known, mutex, thread, cancelled, freed, ctl, kills, foundOld>>
  /\ UNCHANGED clientVars

Handling(s, t) == run[s] = "up" /\ Alive(s, t) /\ frames[s][t] # <<>>

Skip(s, t) ==
  /\ frames' = [frames EXCEPT ![s][t][1].next = @ + 1]
  /\ UNCHANGED <<names, run, cancelled, freed>>

\* Mutant: the destructors set continue_execution and do not cancel.
Cancel_FlagOnly(s, t) == cancelled' = cancelled

\* pthread_cancel.
Cancel(s, t) == cancelled' = [cancelled EXCEPT ![s] = @ \cup {t}]

\* Mutant: the queues of CapioCTLModule are not deleted.
Removed_KeepsCtl(c) == IF c = "ctl_module" THEN {} ELSE NamesOf(c)

\* Mutant: the request queue is not deleted.
Removed_KeepsRequests(c) == IF c = "engine" THEN {} ELSE NamesOf(c)

\* The names a destructor takes away: SHM_DESTROY_CHECK and sem_unlink.
\* ~RequestHandlerEngine deletes buf_requests only: client_manager stays, and with
\* it the response queue of every client that has not exited.
Removed(c) == NamesOf(c)

\* One delete of sig_term_handler.  A null pointer is skipped.  Deleting a
\* second time, and joining oneself, which throws out of a destructor, end in
\* no defined state.
sig_term_handler_Delete(s, t) ==
  /\ Handling(s, t)
  /\ LET f == frames[s][t][1]
         c == Deletions[f.next]
     IN  /\ ~f.joining /\ f.next <= Len(Deletions)
         /\ \/ c \notin KnownTo(s) /\ Skip(s, t)
            \/ /\ c \in KnownTo(s) /\ (c \in freed[s] \/ c = t)
               /\ run' = [run EXCEPT ![s] = "undefined"]
               /\ UNCHANGED <<names, cancelled, frames, freed>>
            \/ /\ c \in KnownTo(s) \ (freed[s] \cup {t}) /\ c \in Own
               /\ Cancel(s, c)
               /\ freed' = [freed EXCEPT ![s] = @ \cup {c}]
               /\ frames' = [frames EXCEPT ![s][t][1].joining = TRUE]
               /\ UNCHANGED <<names, run>>
            \/ /\ c \in KnownTo(s) \ (freed[s] \cup Own)
               /\ names' = names \ Removed(c)
               /\ freed' = [freed EXCEPT ![s] = @ \cup {c}]
               /\ frames' = [frames EXCEPT ![s][t][1].next = @ + 1]
               /\ UNCHANGED <<run, cancelled>>
  /\ UNCHANGED <<made, known, mutex, thread, ctl, sent, kills, foundOld, untimely>>
  /\ UNCHANGED clientVars

\* join returns; the rest of the destructor.
sig_term_handler_Joined(s, t) ==
  /\ Handling(s, t) /\ frames[s][t][1].joining
  /\ LET c == Deletions[frames[s][t][1].next] IN
     /\ c \in Own /\ thread[s][c] = "ended"
     /\ names' = names \ Removed(c)
     /\ frames' = [frames EXCEPT ![s][t][1] =
                    [sig |-> @.sig, next |-> @.next + 1, joining |-> FALSE]]
  /\ UNCHANGED <<run, made, known, mutex, thread, cancelled, freed, ctl, sent, kills, foundOld, untimely>>
  /\ UNCHANGED clientVars

\* The process is gone, with its threads and its mutexes.
Gone(s, how) ==
  /\ run' = [run EXCEPT ![s] = how]
  /\ mutex' = [mutex EXCEPT ![s] = "free"]
  /\ thread' = [thread EXCEPT ![s] = [t \in Own |-> "none"]]
  /\ cancelled' = [cancelled EXCEPT ![s] = {}]
  /\ frames' = [frames EXCEPT ![s] = [t \in Thread |-> <<>>]]

\* exit(EXIT_SUCCESS).
sig_term_handler_Exit(s, t) ==
  /\ Handling(s, t) /\ frames[s][t][1].next > Len(Deletions)
  /\ Gone(s, "exited")
  /\ UNCHANGED <<names, made, known, freed, ctl, sent, kills, foundOld, untimely>>
  /\ UNCHANGED clientVars

-----------------------------------------------------------------------------
(* The world around the servers.                                           *)

\* SIGKILL: the names stay.
Kill(s) ==
  /\ run[s] = "up" /\ kills < MaxKills
  /\ Gone(s, "killed")
  /\ kills' = kills + 1
  /\ UNCHANGED <<names, made, known, freed, ctl, sent, foundOld, untimely>>
  /\ UNCHANGED clientVars

\* capioctl looks for the canary ...
capioctl_Check ==
  /\ ctl = "off" /\ "canary" \in names
  /\ ctl' = "checked"
  /\ UNCHANGED <<names, run, made, known, mutex, thread, cancelled, frames, freed, sent, kills, foundOld, untimely>>
  /\ UNCHANGED clientVars

\* ... then makes or attaches to its queues, writes to RX, and waits in TX for an
\* answer CapioCTLModule does not give.
capioctl_Attach ==
  /\ ctl = "checked"
  /\ ctl' = "attached"
  /\ names' = names \cup NamesOf("ctl_module")
  /\ UNCHANGED <<run, made, known, mutex, thread, cancelled, frames, freed, sent, kills, foundOld, untimely>>
  /\ UNCHANGED clientVars

-----------------------------------------------------------------------------
(* The threads of applications.                                            *)

\* The library is loaded: init_client maps the request queue, or makes it.
init_client(t) ==
  /\ client[t] = "off"
  /\ client' = [client EXCEPT ![t] = "begun"]
  /\ writer' = [writer EXCEPT ![t] = Mapped]
  /\ objects' = Mapped
  /\ names' = names \cup {"requests"}
  /\ selfmade' = (selfmade \/ "requests" \notin names)
  /\ UNCHANGED <<run, made, known, mutex, thread, cancelled, frames, freed, ctl, sent, kills, foundOld, untimely>>
  /\ UNCHANGED <<answers, reader, mail, bufs>>

\* It maps or makes its response queue, and sends its handshake.
init_process(t) ==
  /\ client[t] = "begun"
  /\ client' = [client EXCEPT ![t] = "up"]
  /\ answers' = answers \cup {t}
  /\ mail' = [mail EXCEPT ![t] = Append(@, "HANDSHAKE")]
  /\ UNCHANGED <<names, run, made, known, mutex, thread, cancelled, frames, freed, ctl, sent, kills, foundOld, untimely>>
  /\ UNCHANGED <<objects, reader, writer, bufs, selfmade>>

\* It ends with the request EXIT, or is killed without one.  A client takes no
\* name away.
client_End(t, req) ==
  /\ client[t] = "up" /\ req \in {<<>>, <<"EXIT">>}
  /\ client' = [client EXCEPT ![t] = "gone"]
  /\ mail' = [mail EXCEPT ![t] = @ \o req]
  /\ UNCHANGED <<names, run, made, known, mutex, thread, cancelled, frames, freed, ctl, sent, kills, foundOld, untimely>>
  /\ UNCHANGED <<answers, objects, reader, writer, bufs, selfmade>>

\* start takes a request of t out of the queue it has mapped.
Takes(s, t, req) ==
  /\ Free(s, "main") /\ Serving(s) /\ mutex[s] # "main"
  /\ reader[s] = writer[t] /\ mail[t] # <<>> /\ Head(mail[t]) = req
  /\ mail' = [mail EXCEPT ![t] = Tail(@)]
  /\ UNCHANGED <<names, run, made, known, mutex, thread, cancelled, freed, ctl, sent, kills, foundOld, untimely>>
  /\ UNCHANGED <<objects, reader, writer, client, selfmade>>

\* The server maps or makes the response queue of t.
register_new_client(s, t) ==
  /\ Takes(s, t, "HANDSHAKE")
  /\ bufs' = [bufs EXCEPT ![s] = @ \cup {t}]
  /\ answers' = answers \cup {t}
  /\ UNCHANGED frames

\* Its names are taken away when t has ended.
remove_client(s, t) ==
  /\ bufs' = [bufs EXCEPT ![s] = @ \ {t}]
  /\ answers' = answers \ {t}
  /\ UNCHANGED frames

\* The server looks the thread up first; at() of one it does not know throws out
\* of main, and abort raises SIGABRT, for which sig_term_handler is installed.
exit_handler(s, t) ==
  /\ Takes(s, t, "EXIT")
  /\ IF t \in bufs[s] THEN remove_client(s, t)
     ELSE Handle(s, "main", "SIGABRT") /\ UNCHANGED <<answers, bufs>>

-----------------------------------------------------------------------------

Init ==
  /\ names = {} /\ ctl = "off" /\ sent = 0 /\ kills = 0 /\ foundOld = {} /\ untimely = FALSE
  /\ run = [s \in Server |-> "off"]
  /\ made = [s \in Server |-> 0] /\ known = [s \in Server |-> 0]
  /\ mutex = [s \in Server |-> "free"]
  /\ thread = [s \in Server |-> [t \in Own |-> "none"]]
  /\ cancelled = [s \in Server |-> {}] /\ freed = [s \in Server |-> {}]
  /\ frames = [s \in Server |-> [t \in Thread |-> <<>>]]
  /\ answers = {} /\ objects = 0 /\ selfmade = FALSE
  /\ reader = [s \in Server |-> 0] /\ writer = [t \in Client |-> 0]
  /\ client = [t \in Client |-> "off"] /\ mail = [t \in Client |-> <<>>]
  /\ bufs = [s \in Server |-> {}]

Main(s) == main_Construct(s) \/ main_Assign(s) \/ start_Lock(s) \/ start_Unlock(s)

MonitorStep(s) == monitor_Wake(s) \/ monitor_Lock(s) \/ monitor_Unlock(s)

HandlerStep(s, t) ==
  sig_term_handler_Delete(s, t) \/ sig_term_handler_Joined(s, t) \/ sig_term_handler_Exit(s, t)

ClientStep(t) ==
  init_client(t) \/ init_process(t) \/ \E req \in {<<>>, <<"EXIT">>} : client_End(t, req)

Registration(s, t) == register_new_client(s, t) \/ exit_handler(s, t)

Next ==
  \/ \E s \in Server :
       \/ main_Start(s) \/ parseCLI_Exits(s) \/ Main(s) \/ MonitorStep(s) \/ Kill(s)
       \/ \E t \in Own : EndThread(s, t)
       \/ \E t \in Thread : HandlerStep(s, t)
       \/ \E sig \in Signal : Deliver(s, sig)
       \/ \E t \in Client : Registration(s, t)
  \/ \E t \in Client : ClientStep(t)
  \/ capioctl_Check
  \/ capioctl_Attach

Spec == Init /\ [][Next]_vars

\* Threads that can run do.  A thread that was cancelled and comes to a
\* cancellation point again and again ends at one of them.
FairSpec ==
  /\ Spec
  /\ \A s \in Server :
       /\ \A t \in Thread : WF_vars(HandlerStep(s, t))
       /\ WF_vars(MonitorStep(s))
       /\ \A t \in Own : SF_vars(EndThread(s, t))

-----------------------------------------------------------------------------
(* Properties.                                                             *)

\* The process has the canary: it made it and has not taken it away again.
HasCanary(s) == made[s] > 0 /\ "canary" \notin freed[s]

\* Whatever signals come and whichever servers are killed, two servers of a
\* workflow never serve side by side, and while one lives its canary is there.
OneServer ==
  /\ \A s, t \in Server : HasCanary(s) /\ HasCanary(t) => s = t
  /\ \A s \in Server : HasCanary(s) => "canary" \in names

\* The names of those main makes that others have made.
OfOthers == (IF ctl = "attached" THEN NamesOf("ctl_module") ELSE {})
              \cup (IF selfmade THEN NamesOf("engine") ELSE {})

\* Unless a signal was untimely, main makes its request queue and those for
\* capioctl itself: it finds none that an earlier server, stopped or killed, left
\* with messages and semaphores in some state (a capioctl that stays behind and a
\* client without a server do leave some).  It does find the response queues of an
\* earlier server's clients.
CleanStart == ~untimely /\ OfOthers = {} => foundOld = {}

\* Unless a signal was untimely, nothing that main has made is left in shared
\* memory when the handler says "shutdown completed", but what a capioctl or a
\* client has made, and what a new server has.  The response queues of clients
\* that have not exited stay, with what is unread in them, and a later client with
\* the same thread id attaches to one: nobody deletes client_manager, and
\* ~ClientManager would not delete its queues.
CleanupComplete ==
  ~untimely => \A s \in Server :
    run[s] = "exited" /\ made[s] > 0 =>
      names \subseteq OfOthers \/ \E t \in Server \ {s} : HasCanary(t)

\* Whatever signals come and whichever servers are killed, a server takes EXIT
\* only of threads it has registered (any other would end it): no request of an
\* earlier server's clients comes to a later one.
KnowsItsClients ==
  \A s \in Server, t \in Client :
    Serving(s) /\ run[s] = "up" /\ reader[s] = writer[t] /\ mail[t] # <<>> =>
      Head(mail[t]) = "HANDSHAKE" \/ t \in bufs[s]

\* A server that got a signal in time stops: both threads come to a cancellation
\* point, whoever of them holds or wants the mutex.
ShutdownCompletes ==
  []~untimely =>
    \A s \in Server : frames[s]["main"] # <<>> ~> run[s] \in {"exited", "killed"}

=============================================================================
