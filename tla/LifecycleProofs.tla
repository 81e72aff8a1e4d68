-------------------------- MODULE LifecycleProofs --------------------------
(***************************************************************************)
(* For any number of servers, clients, signals and kills: one server of a  *)
(* workflow at a time, by the canary made with O_EXCL; and, unless a       *)
(* signal was untimely, none that finds or leaves a name that main makes.  *)
(* The response queues of clients are outside these names, and do stay.    *)
(***************************************************************************)
EXTENDS ServerLifecycle, TLAPS

\* The counters of main: a pointer is set after its constructor.
Counters ==
  /\ made \in [Server -> 0..5] /\ known \in [Server -> 0..5]
  /\ \A s \in Server : known[s] <= made[s]
  /\ freed \in [Server -> SUBSET {"canary", "file_manager", "fs_monitor", "ctl_module", "engine"}]

\* What makes OneServer inductive: who deletes the canary has it, as it found
\* the pointer set and nobody has deleted it before.
CanaryInv == Counters /\ OneServer

canaryVars == <<names, made, known, freed>>

-----------------------------------------------------------------------------

\* Only the canary carries the canary's name.
LEMMA CanaryName ==
  ASSUME NEW c
  PROVE  /\ "canary" \in NamesOf(c) <=> c = "canary"
         /\ "canary" \in Removed(c) <=> c = "canary"
BY DEF NamesOf, Removed

\* Whoever has the pointer to the canary has made it.
LEMMA CanaryKnown ==
  ASSUME Counters, NEW s \in Server, "canary" \in KnownTo(s)
  PROVE  made[s] > 0
<1>1. PICK i \in 1..known[s] : Order[i] = "canary"
  BY DEF KnownTo
<1> QED
  BY <1>1 DEF Counters

\* A step that leaves the canary and its owners alone keeps the invariant.
LEMMA CanaryStutters ==
  ASSUME CanaryInv, UNCHANGED canaryVars
  PROVE  CanaryInv'
BY DEF CanaryInv, Counters, OneServer, HasCanary, canaryVars

\* A constructor: the first one makes the canary, when it is not there.
LEMMA CanaryConstruct ==
  ASSUME CanaryInv, NEW s \in Server, main_Construct(s)
  PROVE  CanaryInv'
<1> DEFINE c == Order[made[s] + 1]
<1> USE DEF CanaryInv, Counters
<1>1. made[s] \in 0..4 /\ freed' = freed /\ known' = known /\ made[s] = known[s]
  BY DEF main_Construct, Order
<1>2. CASE CapioShmCanary_Refused(s)
  <2>1. UNCHANGED canaryVars
    BY <1>1, <1>2 DEF main_Construct, canaryVars
  <2> QED
    BY <2>1, CanaryStutters
<1>3. CASE ~CapioShmCanary_Refused(s)
  <2>1. names' = names \cup NamesOf(c) /\ made' = [made EXCEPT ![s] = @ + 1]
    BY <1>3 DEF main_Construct
  <2>2. Counters'
    BY <1>1, <2>1
  <2>3. c = "canary" <=> made[s] = 0
    BY <1>1 DEF Order
  <2>4. CASE made[s] = 0
    <3>1. "canary" \notin names /\ "canary" \in names'
      BY <2>3, <2>4, <1>3, <2>1, CanaryName DEF CapioShmCanary_Refused
    <3>2. \A t \in Server : ~HasCanary(t)
      BY <3>1 DEF OneServer
    <3>3. \A t \in Server : HasCanary(t)' => t = s
      BY <3>2, <1>1, <2>1 DEF HasCanary
    <3> QED
      BY <3>1, <3>3, <2>2 DEF OneServer
  <2>5. CASE made[s] # 0
    <3>1. \A t \in Server : HasCanary(t)' <=> HasCanary(t)
      BY <1>1, <2>1, <2>5 DEF HasCanary
    <3> QED
      BY <3>1, <2>1, <2>2 DEF OneServer
  <2> QED
    BY <2>4, <2>5
<1> QED
  BY <1>2, <1>3

\* A delete: the canary goes with its owner's claim to it.
LEMMA CanaryDelete ==
  ASSUME CanaryInv, NEW s \in Server, NEW t \in Thread, sig_term_handler_Delete(s, t)
  PROVE  CanaryInv'
<1> DEFINE c == Deletions[frames[s][t][1].next]
<1> USE DEF CanaryInv, Counters
<1>1. made' = made /\ known' = known
  BY DEF sig_term_handler_Delete
<1>2. CASE UNCHANGED <<names, freed>>
  BY <1>1, <1>2, CanaryStutters DEF canaryVars
<1>3. CASE /\ c \in KnownTo(s) \ (freed[s] \cup {t}) /\ c \in Own
           /\ freed' = [freed EXCEPT ![s] = @ \cup {c}]
           /\ UNCHANGED names
  <2>1. c # "canary" /\ c \in {"fs_monitor", "ctl_module"}
    BY <1>3 DEF Own
  <2>2. \A u \in Server : HasCanary(u)' <=> HasCanary(u)
    BY <1>1, <1>3, <2>1 DEF HasCanary
  <2> QED
    BY <1>1, <1>3, <2>1, <2>2 DEF OneServer
<1>4. CASE /\ c \in KnownTo(s) \ (freed[s] \cup Own)
           /\ names' = names \ Removed(c)
           /\ freed' = [freed EXCEPT ![s] = @ \cup {c}]
  <2>0. c \in {"canary", "file_manager", "fs_monitor", "ctl_module", "engine"}
    <3>1. PICK i \in 1..known[s] : c = Order[i]
      BY <1>4 DEF KnownTo
    <3> QED
      BY <3>1 DEF Order
  <2>1. Counters'
    BY <1>1, <1>4, <2>0
  <2>2. CASE c = "canary"
    <3>1. HasCanary(s)
      BY <1>4, <2>2, CanaryKnown DEF HasCanary
    <3>2. \A u \in Server : ~HasCanary(u)'
      BY <3>1, <1>1, <1>4, <2>2 DEF HasCanary, OneServer
    <3> QED
      BY <3>2, <2>1 DEF OneServer
  <2>3. CASE c # "canary"
    <3>1. \A u \in Server : HasCanary(u)' <=> HasCanary(u)
      BY <1>1, <1>4, <2>3 DEF HasCanary
    <3>2. "canary" \in names' <=> "canary" \in names
      BY <1>4, <2>3, CanaryName
    <3> QED
      BY <3>1, <3>2, <2>1 DEF OneServer
  <2> QED
    BY <2>2, <2>3
<1> QED
  BY <1>2, <1>3, <1>4, Zenon DEF sig_term_handler_Delete, Skip

\* At the start there is no canary.
LEMMA CanaryInit == Init => CanaryInv
BY DEF Init, CanaryInv, Counters, OneServer, HasCanary

\* CanaryInv is inductive.
LEMMA CanaryStep == CanaryInv /\ [Next]_vars => CanaryInv'
<1> SUFFICES ASSUME CanaryInv, [Next]_vars PROVE CanaryInv'
  OBVIOUS
<1>1. CASE UNCHANGED vars
  BY <1>1, CanaryStutters DEF vars, canaryVars
<1>2. ASSUME NEW s \in Server, main_Start(s) \/ parseCLI_Exits(s) PROVE CanaryInv'
  BY <1>2, CanaryStutters DEF main_Start, parseCLI_Exits, canaryVars
<1>3. ASSUME NEW s \in Server, main_Construct(s) PROVE CanaryInv'
  BY <1>3, CanaryConstruct
<1>4. ASSUME NEW s \in Server, main_Assign(s) PROVE CanaryInv'
  BY <1>4 DEF main_Assign, CanaryInv, Counters, OneServer, HasCanary
<1>5. ASSUME NEW s \in Server, start_Lock(s) \/ start_Unlock(s) \/ MonitorStep(s) \/ Kill(s)
      PROVE  CanaryInv'
  BY <1>5, CanaryStutters
     DEF start_Lock, start_Unlock, MonitorStep, monitor_Wake, monitor_Lock, monitor_Unlock,
         Kill, canaryVars
<1>6. ASSUME NEW s \in Server, NEW t \in Own, EndThread(s, t) PROVE CanaryInv'
  BY <1>6, CanaryStutters DEF EndThread, canaryVars
<1>7. ASSUME NEW s \in Server, NEW t \in Thread, sig_term_handler_Delete(s, t)
      PROVE  CanaryInv'
  BY <1>7, CanaryDelete
<1>8. ASSUME NEW s \in Server, NEW t \in Thread, sig_term_handler_Joined(s, t)
      PROVE  CanaryInv'
  <2>1. PICK c \in Own : names' = names \ Removed(c)
    BY <1>8 DEF sig_term_handler_Joined
  <2>2. "canary" \in names' <=> "canary" \in names
    BY <2>1, CanaryName DEF Own
  <2> QED
    BY <2>2, <1>8 DEF sig_term_handler_Joined, CanaryInv, Counters, OneServer, HasCanary
<1>9. ASSUME NEW s \in Server, NEW t \in Thread, sig_term_handler_Exit(s, t)
      PROVE  CanaryInv'
  BY <1>9, CanaryStutters DEF sig_term_handler_Exit, canaryVars
<1>10. ASSUME NEW s \in Server, NEW sig \in Signal, Deliver(s, sig) PROVE CanaryInv'
  BY <1>10, CanaryStutters DEF Deliver, canaryVars
<1>11. CASE capioctl_Check
  BY <1>11, CanaryStutters DEF capioctl_Check, canaryVars
<1>12. CASE capioctl_Attach
  BY <1>12, CanaryName DEF capioctl_Attach, CanaryInv, Counters, OneServer, HasCanary
<1>13. ASSUME NEW s \in Server, NEW t \in Client, Registration(s, t) PROVE CanaryInv'
  BY <1>13, CanaryStutters
     DEF Registration, register_new_client, exit_handler, Takes, canaryVars
<1>14. ASSUME NEW t \in Client, init_client(t) PROVE CanaryInv'
  BY <1>14 DEF init_client, CanaryInv, Counters, OneServer, HasCanary
<1>15. ASSUME NEW t \in Client, init_process(t) \/ \E req \in {<<>>, <<"EXIT">>} : client_End(t, req)
      PROVE  CanaryInv'
  BY <1>15, CanaryStutters DEF init_process, client_End, canaryVars
<1> QED
  BY <1>1, <1>2, <1>3, <1>4, <1>5, <1>6, <1>7, <1>8, <1>9, <1>10, <1>11, <1>12, <1>13, <1>14,
     <1>15 DEF Next, Main, HandlerStep, ClientStep

\* Whatever happens to the servers, at most one has the canary, and it is there.
THEOREM LifecycleOneServer == Spec => []OneServer
BY CanaryInit, CanaryStep, PTL DEF Spec, CanaryInv

-----------------------------------------------------------------------------
(* What is left in shared memory, as long as no signal was untimely.       *)

\* The names of the components main has constructed.
Built(n) == UNION {NamesOf(Order[i]) : i \in 1..n}

\* The names still there when a handler has come to its k-th deletion.
Kept(k) == UNION {NamesOf(Deletions[i]) : i \in k..4}

Frame == [sig : Signal \cup {"SIGABRT"}, next : 1..5, joining : BOOLEAN]

\* The deletions a handler has begun.
Begun(f) == {Deletions[i] : i \in 1..(IF f.joining THEN f.next ELSE f.next - 1)}

FrameTypes ==
  /\ run \in [Server -> {"off", "up", "exited", "killed", "undefined"}]
  /\ frames \in [Server -> [Thread -> {<<>>} \cup {<<f>> : f \in Frame}]]

\* A handler runs on the main thread of a complete server, alone.  The deletions
\* it has come to are begun, and those behind it have taken their names away.
OneHandler(s) ==
  /\ \A t \in Own : frames[s][t] = <<>>
  /\ frames[s]["main"] # <<>> =>
       LET f == frames[s]["main"][1] IN
       /\ known[s] = 5
       /\ f.joining => f.next \in {2, 3}
       /\ freed[s] = Begun(f)
       /\ HasCanary(s) => names \subseteq Kept(f.next) \cup OfOthers

\* Who has the canary has made all names there are, but those of others; a
\* server without a handler has deleted nothing, one that has exited everything.
Tidy(s) ==
  /\ HasCanary(s) => names \subseteq Built(made[s]) \cup OfOthers
  /\ run[s] \in {"off", "up"} /\ frames[s]["main"] = <<>> => freed[s] = {}
  /\ run[s] = "exited" /\ made[s] > 0 => ~HasCanary(s)
  /\ run[s] = "off" => made[s] = 0

AllTidy ==
  /\ FrameTypes
  /\ \A s \in Server : OneHandler(s) /\ Tidy(s)
  /\ (\A s \in Server : ~HasCanary(s)) => names \subseteq OfOthers
  /\ OfOthers = {} => foundOld = {}

TidyInv == ~untimely => AllTidy

\* What the components are called, in the order they are made and deleted.
LEMMA NameFacts ==
  /\ Built(0) = {}
  /\ \A n \in 0..4 : Built(n + 1) = Built(n) \cup NamesOf(Order[n + 1])
  /\ \A n \in 1..4 : NamesOf(Order[n + 1]) \cap Built(n) = {}
  /\ Built(5) \subseteq Kept(1)
  /\ \A k \in 1..4 : Kept(k) = NamesOf(Deletions[k]) \cup Kept(k + 1)
  /\ Kept(5) = {}
<1>1. Built(0) = {} /\ Kept(5) = {}
  BY DEF Built, Kept
<1>2. \A n \in 0..4 : Built(n + 1) = Built(n) \cup NamesOf(Order[n + 1])
  <2>1. \A n \in 0..4 : 1..(n + 1) = (1..n) \cup {n + 1}
    OBVIOUS
  <2> QED
    BY <2>1 DEF Built
<1>3. \A k \in 1..4 : Kept(k) = NamesOf(Deletions[k]) \cup Kept(k + 1)
  <2>1. \A k \in 1..4 : k..4 = {k} \cup ((k + 1)..4)
    OBVIOUS
  <2> QED
    BY <2>1 DEF Kept
<1>4. /\ Order[1] = "canary" /\ Order[2] = "file_manager" /\ Order[3] = "fs_monitor"
      /\ Order[4] = "ctl_module" /\ Order[5] = "engine"
      /\ Deletions[1] = "engine" /\ Deletions[2] = "ctl_module" /\ Deletions[3] = "fs_monitor"
      /\ Deletions[4] = "canary"
  BY DEF Order, Deletions
<1>5. /\ NamesOf("canary") = {"canary"} /\ NamesOf("file_manager") = {}
      /\ NamesOf("fs_monitor") = {} /\ NamesOf("ctl_module") = {"RX", "TX"}
      /\ NamesOf("engine") = {"requests"}
  BY DEF NamesOf
<1>6. Built(1) = {"canary"}
  BY <1>1, <1>2, <1>4, <1>5
<1>7. Built(2) = {"canary"} /\ Built(3) = {"canary"}
  BY <1>2, <1>4, <1>5, <1>6
<1>8. Built(4) = {"canary", "RX", "TX"}
  BY <1>2, <1>4, <1>5, <1>7
<1>9. Built(5) = {"canary", "RX", "TX", "requests"}
  BY <1>2, <1>4, <1>5, <1>8
<1>10. \A n \in 1..4 : NamesOf(Order[n + 1]) \cap Built(n) = {}
  <2>1. \A n \in 1..4 : n = 1 \/ n = 2 \/ n = 3 \/ n = 4
    OBVIOUS
  <2>2. ASSUME NEW n \in 1..4 PROVE NamesOf(Order[n + 1]) \cap Built(n) = {}
    BY <2>1, <1>4, <1>5, <1>6, <1>7, <1>8
  <2> QED
    BY <2>2
<1>11. Kept(4) = {"canary"}
  BY <1>1, <1>3, <1>4, <1>5
<1>12. Kept(3) = {"canary"}
  BY <1>3, <1>4, <1>5, <1>11
<1>13. Kept(2) = {"canary", "RX", "TX"}
  BY <1>3, <1>4, <1>5, <1>12
<1>14. Kept(1) = {"canary", "RX", "TX", "requests"}
  BY <1>3, <1>4, <1>5, <1>13
<1> QED
  BY <1>1, <1>2, <1>3, <1>9, <1>10, <1>14

\* A complete server knows all its components.
LEMMA AllKnown ==
  ASSUME NEW s, known[s] = 5
  PROVE  KnownTo(s) = {"canary", "file_manager", "fs_monitor", "ctl_module", "engine"}
<1>1. 1..known[s] = {1, 2, 3, 4, 5}
  OBVIOUS
<1> QED
  BY <1>1 DEF KnownTo, Order

\* Which deletions have begun, by how far the handler has come.
LEMMA BegunFacts ==
  ASSUME NEW f \in Frame
  PROVE  /\ f.next = 1 /\ ~f.joining => Begun(f) = {}
         /\ f.next \in 1..4 /\ ~f.joining => Deletions[f.next] \notin Begun(f)
         /\ f.next \in 1..4 /\ ~f.joining =>
              /\ Begun([f EXCEPT !.next = @ + 1]) = Begun(f) \cup {Deletions[f.next]}
              /\ Begun([f EXCEPT !.joining = TRUE]) = Begun(f) \cup {Deletions[f.next]}
         /\ f.next \in 1..4 /\ f.joining =>
              Begun([sig |-> f.sig, next |-> f.next + 1, joining |-> FALSE]) = Begun(f)
         /\ f.next = 5 /\ ~f.joining => "canary" \in Begun(f)
         /\ f.next <= 3 \/ (f.next = 4 /\ ~f.joining) => "canary" \notin Begun(f)
<1>0. f.next \in 1..5 /\ f.joining \in BOOLEAN
  BY DEF Frame
<1>1. f.next = 1 /\ ~f.joining => Begun(f) = {}
  BY DEF Begun
<1>2. f.next \in 1..4 /\ ~f.joining => Deletions[f.next] \notin Begun(f)
  <2>1. \A i, j \in 1..4 : Deletions[i] = Deletions[j] => i = j
    BY DEF Deletions
  <2> QED
    BY <1>0, <2>1 DEF Begun
<1>3. f.next \in 1..4 => 1..f.next = (1..(f.next - 1)) \cup {f.next}
  BY <1>0
<1>4. ASSUME f.next \in 1..4, ~f.joining
      PROVE  /\ Begun([f EXCEPT !.next = @ + 1]) = Begun(f) \cup {Deletions[f.next]}
             /\ Begun([f EXCEPT !.joining = TRUE]) = Begun(f) \cup {Deletions[f.next]}
  <2>1. /\ [f EXCEPT !.next = @ + 1].next = f.next + 1 /\ ~[f EXCEPT !.next = @ + 1].joining
        /\ [f EXCEPT !.joining = TRUE].next = f.next /\ [f EXCEPT !.joining = TRUE].joining
        /\ f.next + 1 - 1 = f.next
    BY <1>0, <1>4 DEF Frame
  <2> QED
    BY <1>3, <1>4, <2>1 DEF Begun
<1>5. ASSUME f.next \in 1..4, f.joining
      PROVE  Begun([sig |-> f.sig, next |-> f.next + 1, joining |-> FALSE]) = Begun(f)
  <2>1. f.next + 1 - 1 = f.next
    BY <1>0
  <2> QED
    BY <1>5, <2>1 DEF Begun
<1>6. f.next = 5 /\ ~f.joining => "canary" \in Begun(f)
  BY DEF Begun, Deletions
<1>7. f.next <= 3 \/ (f.next = 4 /\ ~f.joining) => "canary" \notin Begun(f)
  BY <1>0 DEF Begun, Deletions
<1> QED
  BY <1>1, <1>2, <1>4, <1>5, <1>6, <1>7

\* The activation on the main thread goes on to g.
LEMMA FrameMoves ==
  ASSUME FrameTypes, NEW s \in Server, frames[s]["main"] # <<>>, NEW g \in Frame,
         frames' = [frames EXCEPT ![s]["main"][1] = g]
  PROVE  /\ frames' \in [Server -> [Thread -> {<<>>} \cup {<<f>> : f \in Frame}]]
         /\ frames'[s]["main"] = <<g>>
         /\ \A t \in Own : frames'[s][t] = frames[s][t]
         /\ \A u \in Server \ {s} : frames'[u] = frames[u]
<1>1. /\ frames \in [Server -> [Thread -> {<<>>} \cup {<<f>> : f \in Frame}]]
      /\ "main" \in Thread /\ Own \subseteq Thread /\ "main" \notin Own
  BY DEF FrameTypes, Thread, Own
<1>2. PICK f \in Frame : frames[s]["main"] = <<f>>
  BY <1>1
<1>3. [<<f>> EXCEPT ![1] = g] = <<g>>
  OBVIOUS
<1>4. frames' = [frames EXCEPT ![s] = [frames[s] EXCEPT !["main"] = <<g>>]]
  BY <1>1, <1>2, <1>3
<1> QED
  BY <1>1, <1>4

\* The frame of a handling thread, which is the main thread.
LEMMA FrameOf ==
  ASSUME AllTidy, NEW s \in Server, NEW t \in Thread, frames[s][t] # <<>>
  PROVE  /\ t = "main" /\ frames[s][t][1] \in Frame
         /\ frames[s][t][1].next \in 1..5 /\ frames[s][t][1].joining \in BOOLEAN
<1>1. t = "main"
  BY DEF AllTidy, OneHandler, Thread
<1>2. PICK f \in Frame : frames[s][t] = <<f>>
  BY <1>1 DEF AllTidy, FrameTypes
<1> QED
  BY <1>1, <1>2 DEF Frame

\* A step that touches neither names nor handlers.
LEMMA TidyStutters ==
  ASSUME AllTidy, UNCHANGED <<names, run, made, known, frames, freed, foundOld>>,
         ctl' = "attached" <=> ctl = "attached", selfmade' = selfmade
  PROVE  AllTidy'
<1>1. OfOthers' = OfOthers
  BY DEF OfOthers
<1>2. \A s \in Server : HasCanary(s)' <=> HasCanary(s)
  BY DEF HasCanary
<1> QED
  BY <1>1, <1>2 DEF AllTidy, FrameTypes, OneHandler, Tidy

\* The process of s starts, exits or dies without changing a name.
LEMMA TidyRuns ==
  ASSUME AllTidy, Counters, NEW s \in Server,
         UNCHANGED <<names, made, known, freed, foundOld, ctl, selfmade>>,
         NEW r \in {"up", "exited", "killed", "undefined"}, run' = [run EXCEPT ![s] = r],
         \/ frames' = frames
         \/ r # "up" /\ frames' = [frames EXCEPT ![s] = [t \in Thread |-> <<>>]],
         r = "up" => run[s] \in {"off", "up"},
         r = "exited" /\ made[s] > 0 => ~HasCanary(s)
  PROVE  AllTidy'
<1>1. OfOthers' = OfOthers
  BY DEF OfOthers
<1>2. \A u \in Server : HasCanary(u)' <=> HasCanary(u)
  BY DEF HasCanary
<1>3. FrameTypes'
  BY DEF AllTidy, FrameTypes
<1>4. ASSUME NEW u \in Server PROVE OneHandler(u)' /\ Tidy(u)'
  <2>1. CASE u # s
    <3>1. run'[u] = run[u] /\ frames'[u] = frames[u]
      BY <2>1 DEF AllTidy, FrameTypes
    <3> QED
      BY <1>1, <1>2, <3>1 DEF AllTidy, OneHandler, Tidy
  <2>2. CASE u = s /\ frames' = frames
    <3>1. run'[u] = r
      BY <2>2 DEF AllTidy, FrameTypes
    <3> QED
      BY <1>1, <1>2, <2>2, <3>1 DEF AllTidy, OneHandler, Tidy
  <2>3. CASE u = s /\ r # "up" /\ frames' = [frames EXCEPT ![s] = [t \in Thread |-> <<>>]]
    <3>1. run'[u] = r /\ \A t \in Thread : frames'[u][t] = <<>>
      BY <2>3 DEF AllTidy, FrameTypes
    <3>2. "main" \in Thread /\ Own \subseteq Thread
      BY DEF Thread, Own
    <3> QED
      BY <1>1, <1>2, <2>3, <3>1, <3>2 DEF AllTidy, OneHandler, Tidy
  <2> QED
    BY <2>1, <2>2, <2>3
<1> QED
  BY <1>1, <1>2, <1>3, <1>4 DEF AllTidy

\* A constructor: the one of the canary finds nothing there, the later ones only
\* what this server has made.
LEMMA TidyConstruct ==
  ASSUME AllTidy, CanaryInv, NEW s \in Server, main_Construct(s)
  PROVE  AllTidy'
<1> DEFINE c == Order[made[s] + 1]
<1>1. /\ run[s] = "up" /\ frames[s]["main"] = <<>> /\ made[s] = known[s] /\ made[s] \in 0..4
      /\ UNCHANGED <<known, frames, freed, ctl, selfmade>>
  BY DEF main_Construct, Free, CanaryInv, Counters, Order
<1>2. freed[s] = {}
  BY <1>1 DEF AllTidy, Tidy
<1>3. made[s] > 0 => c # "canary"
  BY <1>1 DEF Order
<1>4. CASE CapioShmCanary_Refused(s)
  <2>1. run' = [run EXCEPT ![s] = "exited"] /\ UNCHANGED <<names, made, foundOld>>
    BY <1>4 DEF main_Construct
  <2>2. ~(made[s] > 0)
    BY <1>3, <1>4 DEF CapioShmCanary_Refused
  <2> QED
    BY <1>1, <2>1, <2>2, TidyRuns DEF CanaryInv
<1>5. CASE ~CapioShmCanary_Refused(s)
  <2>1. /\ names' = names \cup NamesOf(c) /\ made' = [made EXCEPT ![s] = @ + 1]
        /\ foundOld' = IF c # "canary" /\ NamesOf(c) \cap names # {}
                         THEN foundOld \cup {s} ELSE foundOld
        /\ run' = run
    BY <1>5 DEF main_Construct
  <2>2. made'[s] = made[s] + 1 /\ \A u \in Server \ {s} : made'[u] = made[u]
    BY <1>1, <2>1 DEF CanaryInv, Counters
  <2>3. HasCanary(s)' /\ \A u \in Server \ {s} : HasCanary(u)' <=> HasCanary(u)
    BY <1>1, <1>2, <2>2 DEF HasCanary
  <2>4. \A u \in Server \ {s} : ~HasCanary(u)
    <3>1. CASE made[s] = 0
      <4>1. c = "canary"
        BY <3>1 DEF Order
      <4>2. "canary" \notin names
        BY <1>5, <4>1 DEF CapioShmCanary_Refused
      <4> QED
        BY <4>2 DEF CanaryInv, OneServer
    <3>2. CASE made[s] > 0
      BY <1>2, <3>2 DEF HasCanary, CanaryInv, OneServer
    <3> QED
      BY <1>1, <3>1, <3>2
  <2>5. names \subseteq Built(made[s]) \cup OfOthers
    <3>1. CASE made[s] = 0
      BY <2>4, <3>1 DEF AllTidy, HasCanary
    <3>2. CASE made[s] > 0
      BY <1>2, <3>2 DEF AllTidy, Tidy, HasCanary
    <3> QED
      BY <1>1, <3>1, <3>2
  <2>6. OfOthers' = OfOthers
    BY <1>1 DEF OfOthers
  <2>7. names' \subseteq Built(made'[s]) \cup OfOthers'
    BY <1>1, <2>1, <2>2, <2>5, <2>6, NameFacts
  <2>8. OfOthers' = {} => foundOld' = {}
    <3>1. SUFFICES ASSUME OfOthers = {}, c # "canary" PROVE NamesOf(c) \cap names = {}
      BY <1>1, <2>1, <2>6 DEF AllTidy
    <3>2. made[s] \in 1..4
      BY <1>1, <3>1 DEF Order
    <3>3. NamesOf(c) \cap Built(made[s]) = {}
      BY <3>2, NameFacts
    <3> QED
      BY <2>5, <3>1, <3>3
  <2>9. ASSUME NEW u \in Server PROVE OneHandler(u)' /\ Tidy(u)'
    <3>1. CASE u = s
      BY <1>1, <1>2, <2>1, <2>2, <2>3, <2>7, <3>1 DEF AllTidy, OneHandler, Tidy
    <3>2. CASE u # s
      BY <1>1, <2>1, <2>2, <2>3, <2>4, <3>2 DEF AllTidy, OneHandler, Tidy
    <3> QED
      BY <3>1, <3>2
  <2>10. FrameTypes'
    BY <1>1, <2>1 DEF AllTidy, FrameTypes
  <2> QED
    BY <2>3, <2>8, <2>9, <2>10 DEF AllTidy
<1> QED
  BY <1>4, <1>5

\* A handler moves its frame on, taking away at most the names of the component
\* it is at.
LEMMA TidyHandler ==
  ASSUME AllTidy, CanaryInv, NEW s \in Server, frames[s]["main"] # <<>>, run[s] = "up",
         UNCHANGED <<run, made, known, foundOld, ctl, selfmade>>,
         NEW g \in Frame, frames' = [frames EXCEPT ![s]["main"][1] = g],
         frames[s]["main"][1].next \in 1..4,
         freed' = [freed EXCEPT ![s] = Begun(g)],
         g.joining => g.next \in {2, 3},
         \/ names' = names /\ g.next = frames[s]["main"][1].next /\ g.next \in {2, 3}
         \/ /\ names' = names \ NamesOf(Deletions[frames[s]["main"][1].next])
            /\ g.next = frames[s]["main"][1].next + 1 /\ ~g.joining,
         frames[s]["main"][1].next = 4 => ~frames[s]["main"][1].joining
  PROVE  AllTidy'
<1> DEFINE f == frames[s]["main"][1]
<1>1. FrameTypes /\ OneHandler(s) /\ Tidy(s)
  BY DEF AllTidy
<1>2. /\ frames' \in [Server -> [Thread -> {<<>>} \cup {<<h>> : h \in Frame}]]
      /\ frames'[s]["main"] = <<g>>
      /\ \A t \in Own : frames'[s][t] = frames[s][t]
      /\ \A u \in Server \ {s} : frames'[u] = frames[u]
  BY <1>1, FrameMoves
<1>3. FrameTypes'
  BY <1>1, <1>2 DEF FrameTypes
<1>4. f \in Frame /\ f.next \in 1..4 /\ known[s] = 5 /\ freed[s] = Begun(f)
  <2>1. "main" \in Thread
    BY DEF Thread
  <2> QED
    BY <1>1, <2>1, FrameOf DEF OneHandler
<1>5. HasCanary(s) /\ \A u \in Server \ {s} : ~HasCanary(u)
  <2>1. made[s] > 0
    BY <1>4 DEF CanaryInv, Counters
  <2>2. f.next <= 3 \/ (f.next = 4 /\ ~f.joining)
    BY <1>4
  <2>3. "canary" \notin freed[s]
    <3> HIDE DEF f
    <3> QED
      BY <1>4, <2>2, BegunFacts
  <2> QED
    BY <2>1, <2>3 DEF HasCanary, CanaryInv, OneServer
<1>6. names \subseteq Kept(f.next) \cup OfOthers
  BY <1>1, <1>5 DEF OneHandler
<1>7. names' \subseteq names /\ OfOthers' = OfOthers
  BY DEF OfOthers
<1>8. names' \subseteq Kept(g.next) \cup OfOthers'
  BY <1>4, <1>6, <1>7, NameFacts
<1>9. freed'[s] = Begun(g) /\ \A u \in Server \ {s} : freed'[u] = freed[u]
  BY DEF CanaryInv, Counters
<1>10. \A u \in Server \ {s} : ~HasCanary(u)'
  BY <1>5, <1>9 DEF HasCanary
<1>11. ~HasCanary(s)' => names' \subseteq OfOthers'
  <2>1. SUFFICES ASSUME ~HasCanary(s)' PROVE names' \subseteq OfOthers'
    OBVIOUS
  <2>2. "canary" \in Begun(g)
    BY <1>5, <1>9, <2>1 DEF HasCanary
  <2>3. g.next <= 3 \/ (g.next = 4 /\ ~g.joining) \/ g.next = 5
    BY <1>4
  <2>4. g.next = 5
    BY <2>2, <2>3, BegunFacts
  <2> QED
    BY <1>8, <2>4, NameFacts
<1>12. OneHandler(s)'
  <2>1. frames'[s]["main"][1] = g
    BY <1>2
  <2> QED
    BY <1>1, <1>2, <1>4, <1>8, <1>9, <2>1 DEF OneHandler, Begun
<1>13. Tidy(s)'
  BY <1>1, <1>2, <1>5, <1>7 DEF Tidy
<1>14. ASSUME NEW u \in Server \ {s} PROVE OneHandler(u)' /\ Tidy(u)'
  BY <1>2, <1>9, <1>10 DEF AllTidy, OneHandler, Tidy
<1>15. OfOthers' = {} => foundOld' = {}
  BY <1>7 DEF AllTidy
<1> QED
  BY <1>3, <1>10, <1>11, <1>12, <1>13, <1>14, <1>15 DEF AllTidy

\* The main thread of a complete server without a handler begins one.
LEMMA TidyHandle ==
  ASSUME AllTidy, CanaryInv, NEW s \in Server, NEW sig \in Signal \cup {"SIGABRT"},
         run[s] = "up", known[s] = 5, frames[s]["main"] = <<>>,
         Handle(s, "main", sig),
         UNCHANGED <<names, run, made, known, freed, foundOld, ctl, selfmade>>
  PROVE  AllTidy'
<1> DEFINE g == [sig |-> sig, next |-> 1, joining |-> FALSE]
<1>1. \A t \in Thread : frames[s][t] = <<>>
  BY DEF AllTidy, OneHandler, Thread
<1>2. "main" \in Thread /\ Own \subseteq Thread /\ "main" \notin Own
  BY DEF Thread, Own
<1>3. /\ frames \in [Server -> [Thread -> {<<>>} \cup {<<f>> : f \in Frame}]]
      /\ frames[s]["main"] = <<>>
  BY <1>1, <1>2 DEF AllTidy, FrameTypes
<1>4. frames' = [frames EXCEPT ![s]["main"] = <<g>> \o @]
  BY DEF Handle
<1>5. g \in Frame
  BY DEF Frame
<1>6. <<g>> \o <<>> = <<g>>
  <2> HIDE DEF g
  <2> QED
    BY <1>5
<1> HIDE DEF g
<1>7. frames' = [frames EXCEPT ![s] = [frames[s] EXCEPT !["main"] = <<g>>]]
  BY <1>3, <1>4, <1>6
<1>8. /\ FrameTypes' /\ frames'[s]["main"] = <<g>>
      /\ \A t \in Own : frames'[s][t] = <<>>
      /\ \A u \in Server \ {s} : frames'[u] = frames[u]
  BY <1>1, <1>2, <1>3, <1>5, <1>7 DEF AllTidy, FrameTypes
<1>9. freed[s] = {} /\ made[s] = 5
  BY <1>1, <1>3 DEF AllTidy, Tidy, CanaryInv, Counters
<1>10. OfOthers' = OfOthers /\ \A u \in Server : HasCanary(u)' <=> HasCanary(u)
  BY DEF OfOthers, HasCanary
<1>11. g.next = 1 /\ ~g.joining /\ frames'[s]["main"][1] = g
  BY <1>8 DEF g
<1>12. OneHandler(s)'
  <2>1. freed'[s] = Begun(g)
    BY <1>1, <1>5, <1>9, <1>11, BegunFacts
  <2>2. names' \subseteq Kept(1) \cup OfOthers'
    <3>1. HasCanary(s)
      BY <1>9 DEF HasCanary
    <3> QED
      BY <1>1, <1>9, <1>10, <3>1, NameFacts DEF AllTidy, Tidy
  <2> QED
    BY <1>1, <1>8, <1>11, <2>1, <2>2 DEF OneHandler, Begun
<1>13. Tidy(s)'
  BY <1>1, <1>8, <1>9, <1>10 DEF AllTidy, Tidy
<1>14. ASSUME NEW u \in Server \ {s} PROVE OneHandler(u)' /\ Tidy(u)'
  BY <1>1, <1>8, <1>10 DEF AllTidy, OneHandler, Tidy
<1> QED
  BY <1>1, <1>8, <1>10, <1>12, <1>13, <1>14 DEF AllTidy

\* A signal that comes in time finds a complete server without a handler.
LEMMA TidyDeliver ==
  ASSUME AllTidy, CanaryInv, NEW s \in Server, NEW sig \in Signal, Deliver(s, sig), ~untimely'
  PROVE  AllTidy'
<1>1. /\ run[s] = "up" /\ known[s] = 5 /\ \A t \in Thread : frames[s][t] = <<>>
      /\ UNCHANGED <<names, run, made, known, freed, ctl, foundOld, selfmade>>
  BY DEF Deliver, Serving, Order, clientVars
<1>2. frames[s]["main"] = <<>>
  BY <1>1 DEF Thread
<1>3. Handle(s, "main", sig)
  <2>1. ~Blocked(s, "main", sig)
    BY <1>2 DEF Blocked
  <2> QED
    BY <2>1 DEF Deliver, Receivers
<1> QED
  BY <1>1, <1>2, <1>3, TidyHandle

\* A deletion: no component is deleted twice, and the names of the engine and
\* the canary go at once, those of the control module when its thread has ended.
LEMMA TidyDelete ==
  ASSUME AllTidy, CanaryInv, NEW s \in Server, NEW t \in Thread, sig_term_handler_Delete(s, t)
  PROVE  AllTidy'
<1> DEFINE f == frames[s][t][1]
           c == Deletions[f.next]
<1>1. /\ run[s] = "up" /\ frames[s][t] # <<>> /\ f.next <= 4 /\ ~f.joining
      /\ UNCHANGED <<made, known, ctl, foundOld, selfmade>>
  BY DEF sig_term_handler_Delete, Handling, Deletions, clientVars
<1>2. t = "main" /\ f \in Frame /\ f.next \in 1..4
  BY <1>1, FrameOf
<1>3. known[s] = 5 /\ freed[s] = Begun(f) /\ freed \in [Server -> SUBSET
        {"canary", "file_manager", "fs_monitor", "ctl_module", "engine"}]
  BY <1>1, <1>2 DEF AllTidy, OneHandler, CanaryInv, Counters
<1>4. c \in KnownTo(s) /\ c # t
  BY <1>2, <1>3, AllKnown DEF Deletions
<1> HIDE DEF f
<1>5. c \notin freed[s]
  BY <1>1, <1>2, <1>3, BegunFacts
<1>6. Begun(f) \cup {c} = Begun([f EXCEPT !.next = @ + 1])
      /\ Begun(f) \cup {c} = Begun([f EXCEPT !.joining = TRUE])
  BY <1>1, <1>2, BegunFacts
<1>7. c \in Own <=> f.next \in {2, 3}
  BY <1>2 DEF Deletions, Own
<1>8. CASE c \in Own
  <2> DEFINE g == [f EXCEPT !.joining = TRUE]
  <2>1. /\ freed' = [freed EXCEPT ![s] = @ \cup {c}] /\ UNCHANGED <<names, run>>
        /\ frames' = [frames EXCEPT ![s][t][1].joining = TRUE]
    BY <1>4, <1>5, <1>8 DEF sig_term_handler_Delete, f
  <2>2. g \in Frame /\ g.joining /\ g.next = f.next
    BY <1>2 DEF Frame
  <2>3. frames' = [frames EXCEPT ![s]["main"][1] = g]
    BY <1>2, <2>1 DEF f
  <2>4. freed' = [freed EXCEPT ![s] = Begun(g)]
    BY <1>3, <1>6, <2>1
  <2> HIDE DEF g
  <2> QED
    BY <1>1, <1>2, <1>7, <1>8, <2>1, <2>2, <2>3, <2>4, TidyHandler DEF f
<1>9. CASE c \notin Own
  <2> DEFINE g == [f EXCEPT !.next = @ + 1]
  <2>1. /\ freed' = [freed EXCEPT ![s] = @ \cup {c}] /\ run' = run
        /\ names' = names \ NamesOf(c)
        /\ frames' = [frames EXCEPT ![s][t][1].next = @ + 1]
    BY <1>4, <1>5, <1>9 DEF sig_term_handler_Delete, f, Removed
  <2>2. g \in Frame /\ ~g.joining /\ g.next = f.next + 1
    BY <1>1, <1>2 DEF Frame
  <2>3. frames' = [frames EXCEPT ![s]["main"][1] = g]
    BY <1>2, <2>1 DEF f
  <2>4. freed' = [freed EXCEPT ![s] = Begun(g)]
    BY <1>3, <1>6, <2>1
  <2> HIDE DEF g
  <2> QED
    BY <1>1, <1>2, <2>1, <2>2, <2>3, <2>4, TidyHandler DEF f
<1> QED
  BY <1>8, <1>9

\* The rest of a destructor, when its thread has ended.
LEMMA TidyJoined ==
  ASSUME AllTidy, CanaryInv, NEW s \in Server, NEW t \in Thread, sig_term_handler_Joined(s, t)
  PROVE  AllTidy'
<1> DEFINE f == frames[s][t][1]
           g == [sig |-> f.sig, next |-> f.next + 1, joining |-> FALSE]
<1>1. /\ run[s] = "up" /\ frames[s][t] # <<>> /\ f.joining
      /\ UNCHANGED <<run, made, known, freed, ctl, foundOld, selfmade>>
      /\ names' = names \ NamesOf(Deletions[f.next])
      /\ frames' = [frames EXCEPT ![s][t][1] =
                      [sig |-> @.sig, next |-> @.next + 1, joining |-> FALSE]]
  BY DEF sig_term_handler_Joined, Handling, Removed, clientVars
<1>2. t = "main" /\ f \in Frame
  BY <1>1, FrameOf
<1>3. /\ f.next \in {2, 3} /\ freed[s] = Begun(f)
      /\ freed \in [Server -> SUBSET {"canary", "file_manager", "fs_monitor", "ctl_module", "engine"}]
  BY <1>1, <1>2 DEF AllTidy, OneHandler, CanaryInv, Counters
<1>4. frames' = [frames EXCEPT ![s]["main"][1] = g]
  BY <1>1, <1>2
<1>5. g \in Frame /\ ~g.joining /\ g.next = f.next + 1
  BY <1>2, <1>3 DEF Frame
<1> HIDE DEF f
<1>6. Begun(g) = Begun(f)
  <2>1. f.next \in 1..4
    BY <1>3
  <2> QED
    BY <1>1, <1>2, <2>1, BegunFacts
<1> HIDE DEF g
<1>7. freed' = [freed EXCEPT ![s] = Begun(g)]
  BY <1>1, <1>3, <1>6
<1>8. f.next \in 1..4 /\ f.next # 4
  BY <1>3
<1> QED
  BY <1>1, <1>2, <1>4, <1>5, <1>7, <1>8, TidyHandler DEF f

\* exit: the handler has come to the end of the list.
LEMMA TidyExit ==
  ASSUME AllTidy, CanaryInv, NEW s \in Server, NEW t \in Thread, sig_term_handler_Exit(s, t)
  PROVE  AllTidy'
<1> DEFINE f == frames[s][t][1]
<1>1. /\ frames[s][t] # <<>> /\ f.next > 4 /\ run' = [run EXCEPT ![s] = "exited"]
      /\ frames' = [frames EXCEPT ![s] = [u \in Thread |-> <<>>]]
      /\ UNCHANGED <<names, made, known, freed, ctl, foundOld, selfmade>>
  BY DEF sig_term_handler_Exit, Handling, Gone, Deletions, clientVars
<1>2. t = "main" /\ f \in Frame /\ f.next = 5
  BY <1>1, FrameOf
<1>3. ~f.joining /\ freed[s] = Begun(f)
  BY <1>1, <1>2 DEF AllTidy, OneHandler
<1> HIDE DEF f
<1>4. ~HasCanary(s)
  BY <1>2, <1>3, BegunFacts DEF HasCanary
<1> QED
  BY <1>1, <1>4, TidyRuns DEF CanaryInv

\* Others make or find their queues, in whatever state the servers are.
LEMMA TidyOthers ==
  ASSUME AllTidy, UNCHANGED <<run, made, known, frames, freed, foundOld>>,
         names \subseteq names', names' \subseteq names \cup OfOthers',
         OfOthers \subseteq OfOthers'
  PROVE  AllTidy'
<1>1. \A s \in Server : HasCanary(s)' <=> HasCanary(s)
  BY DEF HasCanary
<1>2. ASSUME NEW s \in Server PROVE OneHandler(s)' /\ Tidy(s)'
  BY <1>1 DEF AllTidy, OneHandler, Tidy
<1> QED
  BY <1>1, <1>2 DEF AllTidy, FrameTypes

\* A request of a client: what a thread that is not known leads to is a handler.
LEMMA TidyRegistration ==
  ASSUME AllTidy, CanaryInv, NEW s \in Server, NEW t \in Client, Registration(s, t)
  PROVE  AllTidy'
<1>1. /\ UNCHANGED <<names, run, made, known, freed, foundOld, ctl, selfmade>>
      /\ run[s] = "up" /\ known[s] = 5 /\ frames[s]["main"] = <<>>
  BY DEF Registration, register_new_client, exit_handler, Takes, Free, Serving, Order
<1>2. CASE frames' = frames
  BY <1>1, <1>2, TidyStutters
<1>3. CASE Handle(s, "main", "SIGABRT")
  BY <1>1, <1>3, TidyHandle
<1> QED
  BY <1>2, <1>3 DEF Registration, register_new_client, exit_handler, remove_client

\* TidyInv is inductive, together with what OneServer needs.
LEMMA TidyStep == CanaryInv /\ TidyInv /\ [Next]_vars => TidyInv'
<1> SUFFICES ASSUME CanaryInv, TidyInv, [Next]_vars, ~untimely' PROVE AllTidy'
  BY DEF TidyInv
<1>1. ~untimely
  <2>1. CASE UNCHANGED vars
    BY <2>1 DEF vars
  <2>2. ASSUME NEW s \in Server,
               main_Start(s) \/ parseCLI_Exits(s) \/ Main(s) \/ MonitorStep(s) \/ Kill(s)
        PROVE  ~untimely
    BY <2>2 DEF main_Start, parseCLI_Exits, Main, main_Construct, main_Assign, start_Lock,
       start_Unlock, MonitorStep, monitor_Wake, monitor_Lock, monitor_Unlock, Kill
  <2>3. ASSUME NEW s \in Server, NEW t \in Own, EndThread(s, t) PROVE ~untimely
    BY <2>3 DEF EndThread
  <2>4. ASSUME NEW s \in Server, NEW t \in Thread, HandlerStep(s, t) PROVE ~untimely
    BY <2>4 DEF HandlerStep, sig_term_handler_Delete, sig_term_handler_Joined,
       sig_term_handler_Exit
  <2>5. ASSUME NEW s \in Server, NEW sig \in Signal, Deliver(s, sig) PROVE ~untimely
    BY <2>5, Zenon DEF Deliver
  <2>6. CASE capioctl_Check \/ capioctl_Attach
    BY <2>6 DEF capioctl_Check, capioctl_Attach
  <2>7. ASSUME NEW s \in Server, NEW t \in Client, Registration(s, t) PROVE ~untimely
    BY <2>7 DEF Registration, register_new_client, exit_handler, Takes
  <2>8. ASSUME NEW t \in Client, ClientStep(t) PROVE ~untimely
    BY <2>8 DEF ClientStep, init_client, init_process, client_End
  <2> QED
    BY <2>1, <2>2, <2>3, <2>4, <2>5, <2>6, <2>7, <2>8 DEF Next
<1>2. AllTidy /\ Counters
  BY <1>1 DEF TidyInv, CanaryInv
<1>3. CASE UNCHANGED vars
  BY <1>2, <1>3, TidyStutters DEF vars, clientVars
<1>4. ASSUME NEW s \in Server, main_Start(s) PROVE AllTidy'
  BY <1>2, <1>4, TidyRuns DEF main_Start, clientVars
<1>5. ASSUME NEW s \in Server, parseCLI_Exits(s) PROVE AllTidy'
  <2>1. ~(made[s] > 0)
    <3>1. made[s] = 0
      BY <1>2, <1>5 DEF parseCLI_Exits, AllTidy, Tidy
    <3> QED
      BY <3>1
  <2> QED
    BY <1>2, <1>5, <2>1, TidyRuns DEF parseCLI_Exits, clientVars
<1>6. ASSUME NEW s \in Server, main_Construct(s) PROVE AllTidy'
  BY <1>2, <1>6, TidyConstruct
<1>7. ASSUME NEW s \in Server, main_Assign(s) PROVE AllTidy'
  <2>1. /\ UNCHANGED <<names, run, made, frames, freed, ctl, foundOld, selfmade>>
        /\ frames[s]["main"] = <<>>
        /\ known' = [known EXCEPT ![s] = made[s]]
    BY <1>7 DEF main_Assign, Free, clientVars
  <2>2. \A u \in Server \ {s} : known'[u] = known[u]
    BY <1>2, <2>1 DEF Counters
  <2>3. OfOthers' = OfOthers /\ \A u \in Server : HasCanary(u)' <=> HasCanary(u)
    BY <2>1 DEF OfOthers, HasCanary
  <2>4. ASSUME NEW u \in Server PROVE OneHandler(u)' /\ Tidy(u)'
    BY <1>2, <2>1, <2>2, <2>3 DEF AllTidy, OneHandler, Tidy
  <2> QED
    BY <1>2, <2>1, <2>3, <2>4 DEF AllTidy, FrameTypes
<1>8. ASSUME NEW s \in Server, start_Lock(s) \/ start_Unlock(s) \/ MonitorStep(s) PROVE AllTidy'
  BY <1>2, <1>8, TidyStutters DEF start_Lock, start_Unlock, MonitorStep, monitor_Wake,
     monitor_Lock, monitor_Unlock, clientVars
<1>9. ASSUME NEW s \in Server, NEW t \in Own, EndThread(s, t) PROVE AllTidy'
  <2>1. frames[s][t] = <<>> /\ frames \in [Server -> [Thread -> {<<>>} \cup {<<f>> : f \in Frame}]]
    BY <1>2 DEF AllTidy, OneHandler, FrameTypes
  <2>2. frames' = frames
    BY <1>9, <2>1 DEF EndThread
  <2> QED
    BY <1>2, <1>9, <2>2, TidyStutters DEF EndThread, clientVars
<1>10. ASSUME NEW s \in Server, NEW t \in Thread, HandlerStep(s, t) PROVE AllTidy'
  BY <1>2, <1>10, TidyDelete, TidyJoined, TidyExit DEF HandlerStep
<1>11. ASSUME NEW s \in Server, NEW sig \in Signal, Deliver(s, sig) PROVE AllTidy'
  BY <1>2, <1>11, TidyDeliver
<1>12. ASSUME NEW s \in Server, Kill(s) PROVE AllTidy'
  BY <1>2, <1>12, TidyRuns DEF Kill, Gone, clientVars
<1>13. CASE capioctl_Check
  BY <1>2, <1>13, TidyStutters DEF capioctl_Check, clientVars
<1>14. CASE capioctl_Attach
  BY <1>2, <1>14, TidyOthers DEF capioctl_Attach, OfOthers, clientVars
<1>15. ASSUME NEW s \in Server, NEW t \in Client, Registration(s, t) PROVE AllTidy'
  BY <1>2, <1>15, TidyRegistration
<1>16. ASSUME NEW t \in Client, init_client(t) PROVE AllTidy'
  <2>1. /\ UNCHANGED <<run, made, known, frames, freed, foundOld, ctl>>
        /\ names' = names \cup {"requests"}
        /\ selfmade' = (selfmade \/ "requests" \notin names)
    BY <1>16 DEF init_client
  <2>2. OfOthers \subseteq OfOthers' /\ ("requests" \notin names => "requests" \in OfOthers')
    BY <2>1 DEF OfOthers, NamesOf
  <2> QED
    BY <1>2, <2>1, <2>2, TidyOthers
<1>17. ASSUME NEW t \in Client, init_process(t) \/ \E req \in {<<>>, <<"EXIT">>} : client_End(t, req)
      PROVE  AllTidy'
  BY <1>2, <1>17, TidyStutters DEF init_process, client_End
<1> QED
  BY <1>3, <1>4, <1>5, <1>6, <1>7, <1>8, <1>9, <1>10, <1>11, <1>12, <1>13, <1>14,
     <1>15, <1>16, <1>17 DEF Next, Main, ClientStep

\* The inductive invariant, in every execution.
THEOREM LifecycleTidy == Spec => [](CanaryInv /\ TidyInv)
<1>1. Init => CanaryInv /\ TidyInv
  <2> SUFFICES ASSUME Init PROVE CanaryInv /\ TidyInv
    OBVIOUS
  <2>1. CanaryInv
    BY CanaryInit
  <2>2. \A s \in Server : made[s] = 0 /\ freed[s] = {} /\ run[s] = "off" /\ ~HasCanary(s)
    <3>1. SUFFICES ASSUME NEW s \in Server
                   PROVE  made[s] = 0 /\ freed[s] = {} /\ run[s] = "off" /\ ~HasCanary(s)
      OBVIOUS
    <3>2. made[s] = 0 /\ freed[s] = {} /\ run[s] = "off"
      BY DEF Init
    <3> QED
      BY <3>2 DEF HasCanary
  <2>3. FrameTypes /\ \A s \in Server : \A t \in Thread : frames[s][t] = <<>>
    BY DEF Init, FrameTypes
  <2>4. "main" \in Thread /\ Own \subseteq Thread
    BY DEF Thread, Own
  <2> QED
    BY <2>1, <2>2, <2>3, <2>4 DEF Init, TidyInv, AllTidy, OneHandler, Tidy, HasCanary
<1>2. (CanaryInv /\ TidyInv) /\ [Next]_vars => (CanaryInv /\ TidyInv)'
  BY CanaryStep, TidyStep
<1> QED
  BY <1>1, <1>2, PTL DEF Spec

\* Unless a signal was untimely, main finds neither the request queue nor the
\* queues for capioctl of an earlier server, stopped or killed at any moment, when
\* no capioctl and no client has made one.
THEOREM LifecycleCleanStart == Spec => []CleanStart
<1>1. CanaryInv /\ TidyInv => CleanStart
  BY DEF TidyInv, AllTidy, CleanStart
<1> QED
  BY <1>1, LifecycleTidy, PTL

\* Unless a signal was untimely, a server that has shut down leaves none of the
\* names main makes, but what a capioctl, a client or the next server has made.
THEOREM LifecycleCleanup == Spec => []CleanupComplete
<1>1. CanaryInv /\ TidyInv => CleanupComplete
  <2> SUFFICES ASSUME TidyInv, ~untimely, NEW s \in Server, run[s] = "exited", made[s] > 0
               PROVE  names \subseteq OfOthers \/ \E t \in Server \ {s} : HasCanary(t)
    BY DEF CleanupComplete
  <2>1. AllTidy /\ ~HasCanary(s)
    BY DEF TidyInv, AllTidy, Tidy
  <2> QED
    BY <2>1 DEF AllTidy
<1> QED
  BY <1>1, LifecycleTidy, PTL

=============================================================================
