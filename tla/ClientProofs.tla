---------------------------- MODULE ClientProofs ----------------------------
(***************************************************************************)
(* Proofs about the POSIX library towards the server.  For any number of   *)
(* threads: as long as no id is given out again too early, the server      *)
(* never meets a thread it does not know, and both sides of a response     *)
(* queue have the same object.  For any names and any tree: what the       *)
(* library tells the server a call is about is what the kernel takes it    *)
(* to be about.                                                            *)
(***************************************************************************)
EXTENDS ClientRegistry, PathResolution, SequenceTheorems, WellFoundedInduction, TLAPS

-----------------------------------------------------------------------------
(* How threads come to the server and leave it.                            *)

States == {"free", "listen", "handshake", "register", "notify", "born", "asleep", "running",
           "calling", "gone"}

Request == [op : {"HANDSHAKE", "EXIT", "CALL"}, tid : Tid, app : App \cup {NoApp}]

TypeOK ==
  /\ st \in [Tid -> States]
  /\ leader \in [Tid -> Tid] /\ subject \in [Tid -> Tid]
  /\ tids \in [Tid -> SUBSET Tid]
  /\ app \in [Tid -> App \cup {NoApp}] /\ appNames \in [Tid -> App \cup {NoApp}]
  /\ reqs \in Seq(Request)
  /\ objects \in Nat
  /\ name \in [Tid -> Nat] /\ cmap \in [Tid -> Nat] /\ smap \in [Tid -> Nat]

Live(t) == st[t] \notin {"free", "gone"}

\* A thread that initialises another or itself, up to the entry in tids.
Pre(t) == st[t] \in {"listen", "handshake", "register"}

Queued(op, t) == \E i \in DOMAIN reqs : reqs[i].op = op /\ reqs[i].tid = t

\* The server knows the thread, or will when it comes to what is queued.
Reg(t) == smap[t] # 0 \/ Queued("HANDSHAKE", t)

\* The client reads the queue that the name stands for.
Mapped(t) == cmap[t] = name[t] /\ name[t] # 0

\* Threads that have been initialised: the running ones, the ones that run the
\* parent's side of a clone, and the children whose parent has got that far.
Own(t) ==
  \/ st[t] \in {"running", "calling", "register", "notify"}
  \/ Pre(t) /\ subject[t] # t
  \/ Live(t) /\ t \in tids[leader[t]]

\* Where initialisation stands.
Initialised ==
  /\ \A t \in Tid : Own(t) => Reg(t) /\ Mapped(t)
  /\ \A t \in Tid : st[t] \in {"handshake", "register"} => Mapped(subject[t])
  /\ \A t \in Tid : st[t] = "register" => Reg(subject[t])

\* The child of a clone waits for its parent, who is of the same process.
Waits ==
  /\ \A t \in Tid : Pre(t) /\ subject[t] # t =>
       /\ st[subject[t]] \in {"born", "asleep"}
       /\ leader[subject[t]] = leader[t]
       /\ subject[t] \notin tids[leader[t]]
  /\ \A t, u \in Tid : Pre(t) /\ Pre(u) /\ subject[t] = subject[u] => t = u

\* Nothing is left of the last thread that had a free id.
FreeClean ==
  \A t \in Tid : st[t] = "free" =>
    /\ ~Pending(t) /\ smap[t] = 0
    /\ \A u \in Tid : Live(u) => t \notin tids[leader[u]] /\ leader[u] # t

\* A thread's handshake comes before its other requests, its exit after them.
InOrder ==
  /\ \A i \in DOMAIN reqs : reqs[i].op # "HANDSHAKE" =>
       \/ smap[reqs[i].tid] # 0
       \/ \E j \in 1 .. i - 1 : reqs[j].op = "HANDSHAKE" /\ reqs[j].tid = reqs[i].tid
  /\ \A i, j \in DOMAIN reqs : reqs[i].op = "EXIT" /\ reqs[j].tid = reqs[i].tid => j <= i
  /\ \A i \in DOMAIN reqs : reqs[i].op = "HANDSHAKE" => reqs[i].app \in App

\* Only a thread that has ended has its exit in the queue.
ExitLast == \A t \in Tid : st[t] # "gone" => ~Queued("EXIT", t)

\* Who is known has an application and the queue of its name.
Tables ==
  /\ \A t \in Tid : Live(t) => app[t] \in App
  /\ \A t \in Tid : smap[t] # 0 => appNames[t] # NoApp /\ smap[t] = name[t]

Clean ==
  server = "up" /\ Initialised /\ Waits /\ FreeClean /\ InOrder /\ ExitLast /\ Tables

\* The inductive invariant: early, once true, stays so.
RegistryInv == ~early => TypeOK /\ Clean

-----------------------------------------------------------------------------
(* The request queue.                                                      *)

\* A request is sent.
LEMMA SendQueues ==
  ASSUME TypeOK, NEW r \in Request, Send(r)
  PROVE  /\ reqs' \in Seq(Request)
         /\ \A op, t : Queued(op, t)' <=> Queued(op, t) \/ (r.op = op /\ r.tid = t)
         /\ \A t : Pending(t)' <=> Pending(t) \/ r.tid = t
<1>1. /\ reqs' \in Seq(Request) /\ DOMAIN reqs' = DOMAIN reqs \cup {Len(reqs) + 1}
      /\ reqs'[Len(reqs) + 1] = r /\ \A i \in DOMAIN reqs : reqs'[i] = reqs[i]
  BY DEF TypeOK, Send
<1> QED
  BY <1>1 DEF Queued, Pending

\* The server may be sent what comes after a handshake and before an exit.
LEMMA SendInOrder ==
  ASSUME TypeOK, InOrder, NEW r \in Request, Send(r), smap' = smap,
         r.op # "HANDSHAKE" => Reg(r.tid), r.op = "HANDSHAKE" => r.app \in App,
         ~Queued("EXIT", r.tid)
  PROVE  InOrder'
<1>1. /\ DOMAIN reqs = 1 .. Len(reqs) /\ Len(reqs) \in Nat /\ DOMAIN reqs' = 1 .. Len(reqs) + 1
      /\ reqs'[Len(reqs) + 1] = r /\ \A i \in DOMAIN reqs : reqs'[i] = reqs[i]
  BY DEF TypeOK, Send
<1>2. ASSUME NEW i \in DOMAIN reqs', reqs'[i].op # "HANDSHAKE"
      PROVE  \/ smap'[reqs'[i].tid] # 0
             \/ \E j \in 1 .. i - 1 : reqs'[j].op = "HANDSHAKE" /\ reqs'[j].tid = reqs'[i].tid
  <2>1. CASE i = Len(reqs) + 1
    BY <1>1, <1>2, <2>1 DEF Reg, Queued
  <2>2. CASE i # Len(reqs) + 1
    <3>1. i \in DOMAIN reqs /\ 1 .. i - 1 \subseteq DOMAIN reqs
      BY <1>1, <2>2
    <3> QED
      BY <1>1, <1>2, <3>1 DEF InOrder
  <2> QED
    BY <2>1, <2>2
<1>3. ASSUME NEW i \in DOMAIN reqs', NEW j \in DOMAIN reqs',
             reqs'[i].op = "EXIT", reqs'[j].tid = reqs'[i].tid
      PROVE  j <= i
  <2>1. CASE i = Len(reqs) + 1
    BY <1>1, <2>1
  <2>2. CASE i # Len(reqs) + 1
    <3>1. i \in DOMAIN reqs
      BY <1>1, <2>2
    <3>2. j # Len(reqs) + 1
      BY <1>1, <1>3, <3>1 DEF Queued
    <3> QED
      BY <1>1, <1>3, <3>1, <3>2 DEF InOrder
  <2> QED
    BY <2>1, <2>2
<1>4. ASSUME NEW i \in DOMAIN reqs', reqs'[i].op = "HANDSHAKE" PROVE reqs'[i].app \in App
  BY <1>1, <1>4 DEF InOrder
<1> QED
  BY <1>2, <1>3, <1>4 DEF InOrder

\* The server takes the first request.
LEMMA TakeQueues ==
  ASSUME TypeOK, NEW op, Next1(op)
  PROVE  /\ reqs' \in Seq(Request) /\ Head(reqs) \in Request /\ Head(reqs) = reqs[1]
         /\ Len(reqs) \in Nat \ {0} /\ DOMAIN reqs = 1 .. Len(reqs)
         /\ DOMAIN reqs' = 1 .. Len(reqs) - 1
         /\ \A i \in 1 .. Len(reqs) - 1 : reqs'[i] = reqs[i + 1]
         /\ \A o, t : Queued(o, t) <=> Queued(o, t)' \/ (op = o /\ Head(reqs).tid = t)
         /\ \A t : Pending(t)' => Pending(t)
<1>1. /\ reqs' \in Seq(Request) /\ Head(reqs) \in Request /\ Head(reqs) = reqs[1]
      /\ Len(reqs) \in Nat \ {0} /\ DOMAIN reqs = 1 .. Len(reqs)
      /\ DOMAIN reqs' = 1 .. Len(reqs) - 1
      /\ \A i \in 1 .. Len(reqs) - 1 : reqs'[i] = reqs[i + 1]
  BY DEF TypeOK, Next1
<1>2. ASSUME NEW o, NEW t PROVE Queued(o, t) <=> Queued(o, t)' \/ (op = o /\ Head(reqs).tid = t)
  <2>1. ASSUME Queued(o, t) PROVE Queued(o, t)' \/ (op = o /\ Head(reqs).tid = t)
    <3>1. PICK i \in DOMAIN reqs : reqs[i].op = o /\ reqs[i].tid = t
      BY <2>1 DEF Queued
    <3>2. CASE i = 1
      BY <1>1, <3>1, <3>2 DEF Next1
    <3>3. CASE i # 1
      <4>1. i - 1 \in DOMAIN reqs' /\ reqs'[i - 1] = reqs[i]
        BY <1>1, <3>3
      <4> QED
        BY <3>1, <4>1 DEF Queued
    <3> QED
      BY <3>2, <3>3
  <2>2. ASSUME Queued(o, t)' PROVE Queued(o, t)
    <3>1. PICK i \in DOMAIN reqs' : reqs'[i].op = o /\ reqs'[i].tid = t
      BY <2>2 DEF Queued
    <3>2. i + 1 \in DOMAIN reqs /\ reqs'[i] = reqs[i + 1]
      BY <1>1
    <3> QED
      BY <3>1, <3>2 DEF Queued
  <2>3. ASSUME op = o, Head(reqs).tid = t PROVE Queued(o, t)
    BY <1>1, <2>3 DEF Next1, Queued
  <2> QED
    BY <2>1, <2>2, <2>3
<1>3. ASSUME NEW t, Pending(t)' PROVE Pending(t)
  <2>1. PICK i \in DOMAIN reqs' : reqs'[i].tid = t
    BY <1>3 DEF Pending
  <2>2. i + 1 \in DOMAIN reqs /\ reqs'[i] = reqs[i + 1]
    BY <1>1
  <2> QED
    BY <2>1, <2>2 DEF Pending
<1> QED
  BY <1>1, <1>2, <1>3

\* What is left is in order when the server knows the thread of a handshake it
\* took, and forgets a thread only with the last request it has of it.
LEMMA TakeInOrder ==
  ASSUME TypeOK, InOrder, NEW op, Next1(op),
         op = "HANDSHAKE" => smap'[Head(reqs).tid] # 0,
         \A t \in Tid : smap[t] # 0 => smap'[t] # 0 \/ (op = "EXIT" /\ t = Head(reqs).tid)
  PROVE  InOrder'
<1>1. /\ reqs' \in Seq(Request) /\ Head(reqs) \in Request /\ Head(reqs) = reqs[1]
      /\ Len(reqs) \in Nat \ {0} /\ DOMAIN reqs = 1 .. Len(reqs)
      /\ DOMAIN reqs' = 1 .. Len(reqs) - 1
      /\ \A i \in 1 .. Len(reqs) - 1 : reqs'[i] = reqs[i + 1]
  BY TakeQueues
<1>2. ASSUME NEW i \in DOMAIN reqs'
      PROVE  i + 1 \in DOMAIN reqs /\ reqs'[i] = reqs[i + 1] /\ reqs[i + 1].tid \in Tid
  <2>1. i + 1 \in DOMAIN reqs /\ reqs'[i] = reqs[i + 1]
    BY <1>1
  <2>2. reqs[i + 1] \in Request
    BY <1>1, <2>1, ElementOfSeq DEF TypeOK
  <2> QED
    BY <2>1, <2>2 DEF Request
<1>3. ASSUME NEW i \in DOMAIN reqs', reqs'[i].op # "HANDSHAKE"
      PROVE  \/ smap'[reqs'[i].tid] # 0
             \/ \E j \in 1 .. i - 1 : reqs'[j].op = "HANDSHAKE" /\ reqs'[j].tid = reqs'[i].tid
  <2>1. \/ smap[reqs[i + 1].tid] # 0
        \/ \E j \in 1 .. (i + 1) - 1 : reqs[j].op = "HANDSHAKE" /\ reqs[j].tid = reqs[i + 1].tid
    BY <1>2, <1>3 DEF InOrder
  <2>2. CASE smap[reqs[i + 1].tid] # 0
    <3>1. ~(op = "EXIT" /\ reqs[i + 1].tid = Head(reqs).tid)
      <4> SUFFICES ASSUME op = "EXIT", reqs[i + 1].tid = reqs[1].tid PROVE FALSE
        BY <1>1
      <4>1. reqs[1].op = "EXIT" /\ 1 \in DOMAIN reqs
        BY <1>1 DEF Next1
      <4>2. i + 1 <= 1
        BY <1>2, <4>1 DEF InOrder
      <4> QED
        BY <1>1, <4>2
    <3> QED
      BY <1>2, <2>2, <3>1
  <2>3. ASSUME NEW j \in 1 .. (i + 1) - 1, reqs[j].op = "HANDSHAKE", reqs[j].tid = reqs[i + 1].tid
        PROVE  \/ smap'[reqs'[i].tid] # 0
               \/ \E k \in 1 .. i - 1 : reqs'[k].op = "HANDSHAKE" /\ reqs'[k].tid = reqs'[i].tid
    <3>1. CASE j = 1
      BY <1>1, <1>2, <2>3, <3>1 DEF Next1
    <3>2. CASE j # 1
      <4>1. j - 1 \in 1 .. i - 1 /\ j - 1 \in DOMAIN reqs' /\ (j - 1) + 1 = j
        BY <1>1, <3>2
      <4> QED
        BY <1>2, <2>3, <4>1
    <3> QED
      BY <3>1, <3>2
  <2> QED
    BY <2>1, <2>2, <2>3
<1>4. ASSUME NEW i \in DOMAIN reqs', NEW j \in DOMAIN reqs',
             reqs'[i].op = "EXIT", reqs'[j].tid = reqs'[i].tid
      PROVE  j <= i
  <2>1. j + 1 <= i + 1
    BY <1>2, <1>4 DEF InOrder
  <2> QED
    BY <1>1, <2>1
<1>5. ASSUME NEW i \in DOMAIN reqs', reqs'[i].op = "HANDSHAKE" PROVE reqs'[i].app \in App
  BY <1>2, <1>5 DEF InOrder
<1> QED
  BY <1>3, <1>4, <1>5 DEF InOrder

\* A step that leaves the queue and the server's table alone.
LEMMA QuietQueue ==
  ASSUME reqs' = reqs, smap' = smap
  PROVE  /\ \A op, t : Queued(op, t)' <=> Queued(op, t)
         /\ \A t : Pending(t)' <=> Pending(t)
         /\ \A t : Reg(t)' <=> Reg(t)
         /\ InOrder => InOrder'
  BY DEF Queued, Pending, Reg, InOrder

-----------------------------------------------------------------------------
(* Each step of a client keeps the invariant.                              *)

\* register_listener: the name of a known thread stands for a queue.
LEMMA ListenKeeps ==
  ASSUME TypeOK, Clean, NEW t \in Tid, register_listener(t)
  PROVE  TypeOK' /\ Clean'
<1> DEFINE s == subject[t]
<1>0. /\ st[t] = "listen" /\ s \in Tid /\ \A u \in Tid : st'[u] = IF u = t THEN "handshake" ELSE st[u]
      /\ UNCHANGED <<leader, subject, tids, app, reqs, smap, appNames, server>>
      /\ st' \in [Tid -> States]
  BY DEF TypeOK, register_listener, serverVars, States
<1>8. /\ name' \in [Tid -> Nat] /\ cmap' \in [Tid -> Nat] /\ objects' \in Nat
      /\ name'[s] # 0 /\ cmap'[s] = name'[s]
      /\ \A u \in Tid : u # s => name'[u] = name[u] /\ cmap'[u] = cmap[u]
      /\ name[s] # 0 => name'[s] = name[s]
  <2>1. IF name[s] # 0 THEN cmap' = [cmap EXCEPT ![s] = name[s]] /\ UNCHANGED <<objects, name>>
        ELSE /\ objects' = objects + 1 /\ name' = [name EXCEPT ![s] = objects + 1]
             /\ cmap' = [cmap EXCEPT ![s] = objects + 1]
    BY DEF register_listener, Attach
  <2>2. name \in [Tid -> Nat] /\ cmap \in [Tid -> Nat] /\ objects \in Nat /\ s \in Tid
    BY <1>0 DEF TypeOK
  <2> HIDE DEF s
  <2>3. CASE name[s] # 0
    BY <2>1, <2>2, <2>3
  <2>4. CASE name[s] = 0
    BY <2>1, <2>2, <2>4
  <2> QED
    BY <2>3, <2>4
<1> HIDE DEF s
<1>1. TypeOK'
  BY <1>0, <1>8 DEF TypeOK
<1>2. /\ UNCHANGED <<reqs, smap, appNames, server>>
      /\ \A op, u : Queued(op, u)' <=> Queued(op, u)
      /\ \A u : Pending(u)' <=> Pending(u)
      /\ \A u : Reg(u)' <=> Reg(u)
      /\ InOrder'
  BY <1>0, QuietQueue DEF Clean
<1>9. \A u \in Tid : (Own(u)' => Own(u)) /\ (Mapped(u) \/ u = s => Mapped(u)')
  BY <1>0, <1>8 DEF Own, Pre, Live, Mapped
<1>3. Initialised'
  BY <1>0, <1>2, <1>9 DEF Clean, Initialised, TypeOK, s
<1>4. Waits'
  <2>1. \A v \in Tid : Pre(v)' <=> Pre(v)
    BY <1>0 DEF Pre
  <2>2. ASSUME NEW v \in Tid, Pre(v), subject[v] # v
        PROVE  st'[subject[v]] \in {"born", "asleep"}
    <3>1. st[subject[v]] \in {"born", "asleep"} /\ subject[v] \in Tid
      BY <2>2 DEF TypeOK, Clean, Waits
    <3> QED
      BY <1>0, <3>1
  <2> QED
    BY <1>0, <2>1, <2>2 DEF Clean, Waits
<1>5. FreeClean'
  BY <1>0, <1>2 DEF TypeOK, Clean, FreeClean, Live
<1>6. ExitLast'
  BY <1>0, <1>2 DEF Clean, ExitLast
<1>7. Tables'
  BY <1>0, <1>2, <1>8 DEF Clean, Tables, Live
<1> QED
  BY <1>1, <1>2, <1>3, <1>4, <1>5, <1>6, <1>7 DEF Clean

\* register_capio_tid: the handshake has been sent before.
LEMMA RegisterKeeps ==
  ASSUME TypeOK, Clean, NEW t \in Tid, register_capio_tid(t)
  PROVE  TypeOK' /\ Clean'
<1> DEFINE s == subject[t]
<1>0. /\ st[t] = "register" /\ s \in Tid
      /\ \A u \in Tid : st'[u] = IF u = t THEN IF s = t THEN "running" ELSE "notify" ELSE st[u]
      /\ \A u \in Tid : tids'[u] = IF u = leader[t] THEN tids[u] \cup {s} ELSE tids[u]
      /\ UNCHANGED <<leader, subject, app, objects, name, cmap, reqs, smap, appNames, server>>
  BY DEF TypeOK, register_capio_tid, shmVars, serverVars
<1>1. TypeOK'
  BY DEF TypeOK, register_capio_tid, shmVars, serverVars, States
<1> HIDE DEF s
<1>2. /\ UNCHANGED <<reqs, smap, appNames, server>>
      /\ \A op, u : Queued(op, u)' <=> Queued(op, u)
      /\ \A u : Pending(u)' <=> Pending(u)
      /\ \A u : Reg(u)' <=> Reg(u)
      /\ InOrder'
  BY <1>0, QuietQueue DEF Clean
<1>3. Initialised'
  <2>1. \A u \in Tid : (Own(u)' => Own(u) \/ u = s) /\ (Mapped(u)' <=> Mapped(u))
    <3>1. ASSUME NEW u \in Tid, Own(u)' PROVE Own(u) \/ u = s
      <4>1. CASE u = t
        BY <1>0, <4>1 DEF Own
      <4>2. CASE u # t
        <5>1. st'[u] = st[u] /\ leader[u] \in Tid
          BY <1>0, <4>2 DEF TypeOK
        <5>2. u \in tids'[leader[u]] => u \in tids[leader[u]] \/ u = s
          BY <1>0, <5>1
        <5> QED
          BY <1>0, <3>1, <5>1, <5>2 DEF Own, Pre, Live
      <4> QED
        BY <4>1, <4>2
    <3> QED
      BY <1>0, <3>1 DEF Mapped
  <2>2. Reg(s) /\ Mapped(s)
    BY <1>0 DEF Clean, Initialised, s
  <2> QED
    BY <1>0, <1>2, <2>1, <2>2 DEF TypeOK, Clean, Initialised
<1>4. Waits'
  <2>1. \A v \in Tid : Pre(v)' => Pre(v) /\ subject[v] # s /\ v # t
    BY <1>0 DEF Clean, Waits, Pre, s
  <2>2. ASSUME NEW v \in Tid, Pre(v)', subject[v] # v
        PROVE  /\ st'[subject[v]] \in {"born", "asleep"} /\ leader'[subject[v]] = leader[v]
               /\ subject[v] \notin tids'[leader[v]]
    <3>1. Pre(v) /\ subject[v] # s /\ v # t
      BY <2>1, <2>2
    <3>2. /\ st[subject[v]] \in {"born", "asleep"} /\ leader[subject[v]] = leader[v]
          /\ subject[v] \notin tids[leader[v]] /\ subject[v] \in Tid /\ leader[v] \in Tid
      BY <2>2, <3>1 DEF TypeOK, Clean, Waits
    <3> QED
      BY <1>0, <3>1, <3>2
  <2> QED
    BY <1>0, <2>1, <2>2 DEF Clean, Waits
<1>5. FreeClean'
  <2>1. st[s] # "free"
    BY <1>0 DEF Clean, Waits, Pre, s
  <2> QED
    <3>1. \A u \in Tid : Live(u)' => Live(u) /\ leader[u] \in Tid
      BY <1>0 DEF TypeOK, Live
    <3>2. \A u \in Tid : st'[u] = "free" => st[u] = "free" /\ u # s
      BY <1>0, <2>1
    <3>3. \A u, x \in Tid : x \in tids'[u] => x \in tids[u] \/ x = s
      BY <1>0
    <3> QED
      BY <1>0, <1>2, <3>1, <3>2, <3>3 DEF Clean, FreeClean
<1>6. ExitLast'
  BY <1>0, <1>2 DEF Clean, ExitLast
<1>7. Tables'
  BY <1>0, <1>2 DEF Clean, Tables, Live
<1> QED
  BY <1>1, <1>2, <1>3, <1>4, <1>5, <1>6, <1>7 DEF Clean

\* hook_clone_parent: the children look again.
LEMMA NotifyKeeps ==
  ASSUME TypeOK, Clean, NEW t \in Tid, hook_clone_parent_Notify(t)
  PROVE  TypeOK' /\ Clean'
<1> USE DEF hook_clone_parent_Notify, shmVars, serverVars
<1>1. TypeOK'
  BY DEF TypeOK, States
<1>2. /\ UNCHANGED <<reqs, smap, appNames, server>>
      /\ \A op, u : Queued(op, u)' <=> Queued(op, u)
      /\ \A u : Pending(u)' <=> Pending(u)
      /\ \A u : Reg(u)' <=> Reg(u)
      /\ InOrder'
  BY QuietQueue DEF Clean
<1>3. Initialised'
  BY <1>2 DEF TypeOK, Clean, Initialised, Waits, FreeClean, Own, Pre, Live, Mapped, Tables
<1>4. Waits'
  BY <1>2 DEF TypeOK, Clean, Waits, FreeClean, Pre, Live
<1>5. FreeClean'
  BY <1>2 DEF TypeOK, Clean, Waits, FreeClean, Pre, Live
<1>6. ExitLast'
  BY <1>2 DEF TypeOK, Clean, ExitLast, FreeClean, Pending, Queued
<1>7. Tables'
  BY <1>2 DEF TypeOK, Clean, Tables, Live
<1> QED
  BY <1>1, <1>2, <1>3, <1>4, <1>5, <1>6, <1>7 DEF Clean

\* hook_clone_child: it goes on only when it is in tids.
LEMMA ChildKeeps ==
  ASSUME TypeOK, Clean, NEW t \in Tid, hook_clone_child(t)
  PROVE  TypeOK' /\ Clean'
<1> USE DEF hook_clone_child, shmVars, serverVars
<1>1. TypeOK'
  BY DEF TypeOK, States
<1>2. /\ UNCHANGED <<reqs, smap, appNames, server>>
      /\ \A op, u : Queued(op, u)' <=> Queued(op, u)
      /\ \A u : Pending(u)' <=> Pending(u)
      /\ \A u : Reg(u)' <=> Reg(u)
      /\ InOrder'
  BY QuietQueue DEF Clean
<1>3. Initialised'
  BY <1>2 DEF TypeOK, Clean, Initialised, Waits, FreeClean, Own, Pre, Live, Mapped, Tables
<1>4. Waits'
  BY <1>2 DEF TypeOK, Clean, Waits, FreeClean, Pre, Live
<1>5. FreeClean'
  BY <1>2 DEF TypeOK, Clean, Waits, FreeClean, Pre, Live
<1>6. ExitLast'
  BY <1>2 DEF TypeOK, Clean, ExitLast, FreeClean, Pending, Queued
<1>7. Tables'
  BY <1>2 DEF TypeOK, Clean, Tables, Live
<1> QED
  BY <1>1, <1>2, <1>3, <1>4, <1>5, <1>6, <1>7 DEF Clean

\* A call returns.
LEMMA AnsweredKeeps ==
  ASSUME TypeOK, Clean, NEW t \in Tid, Answered(t)
  PROVE  TypeOK' /\ Clean'
<1> USE DEF Answered, serverVars
<1>1. TypeOK'
  BY DEF TypeOK, States
<1>2. /\ UNCHANGED <<reqs, smap, appNames, server>>
      /\ \A op, u : Queued(op, u)' <=> Queued(op, u)
      /\ \A u : Pending(u)' <=> Pending(u)
      /\ \A u : Reg(u)' <=> Reg(u)
      /\ InOrder'
  BY QuietQueue DEF Clean
<1>3. Initialised'
  BY <1>2 DEF TypeOK, Clean, Initialised, Waits, FreeClean, Own, Pre, Live, Mapped, Tables
<1>4. Waits'
  BY <1>2 DEF TypeOK, Clean, Waits, FreeClean, Pre, Live
<1>5. FreeClean'
  BY <1>2 DEF TypeOK, Clean, Waits, FreeClean, Pre, Live
<1>6. ExitLast'
  BY <1>2 DEF TypeOK, Clean, ExitLast, FreeClean, Pending, Queued
<1>7. Tables'
  BY <1>2 DEF TypeOK, Clean, Tables, Live
<1> QED
  BY <1>1, <1>2, <1>3, <1>4, <1>5, <1>6, <1>7 DEF Clean

\* A program starts, with an id that nobody has in his tables.
LEMMA InitKeeps ==
  ASSUME TypeOK, Clean, NEW t \in Tid, NEW a \in App, init(t, a)
  PROVE  TypeOK' /\ Clean'
<1>0. /\ st[t] = "free" /\ \A u \in Tid : st'[u] = IF u = t THEN "listen" ELSE st[u]
      /\ \A u \in Tid : /\ subject'[u] = IF u = t THEN t ELSE subject[u]
                        /\ leader'[u] = IF u = t THEN t ELSE leader[u]
                        /\ tids'[u] = IF u = t THEN {} ELSE tids[u]
                        /\ app'[u] = IF u = t THEN a ELSE app[u]
      /\ UNCHANGED <<objects, name, cmap, reqs, smap, appNames, server>>
  BY DEF TypeOK, init, shmVars, serverVars
<1>1. TypeOK'
  BY DEF TypeOK, init, Begin, shmVars, serverVars, States
<1>2. /\ UNCHANGED <<reqs, smap, appNames, server>>
      /\ \A op, u : Queued(op, u)' <=> Queued(op, u)
      /\ \A u : Pending(u)' <=> Pending(u)
      /\ \A u : Reg(u)' <=> Reg(u)
      /\ InOrder'
  BY <1>0, QuietQueue DEF Clean
<1>8. \A u \in Tid : Live(u) => leader[u] # t /\ u # t /\ leader[u] \in Tid
  BY <1>0 DEF TypeOK, Clean, FreeClean, Live
<1>9. \A u \in Tid : Pre(u) => subject[u] # t /\ u # t
  BY <1>0 DEF Clean, Waits, Pre
<1>3. Initialised'
  <2>1. \A u \in Tid : Own(u) => Live(u)
    BY DEF Own, Live, Pre
  <2>2. \A u \in Tid : (Own(u)' => Own(u)) /\ (Mapped(u)' <=> Mapped(u))
    BY <1>0, <1>8 DEF Own, Pre, Live, Mapped
  <2> QED
    BY <1>0, <1>2, <2>2 DEF TypeOK, Clean, Initialised
<1>4. Waits'
  <2>1. \A v \in Tid : Pre(v)' /\ v # t => Pre(v) /\ leader[v] # t /\ subject'[v] = subject[v]
    BY <1>0, <1>8 DEF Pre, Live
  <2>2. ASSUME NEW v \in Tid, Pre(v)', subject'[v] # v
        PROVE  /\ st'[subject'[v]] \in {"born", "asleep"} /\ leader'[subject'[v]] = leader'[v]
               /\ subject'[v] \notin tids'[leader'[v]]
    <3>1. v # t /\ Pre(v) /\ subject'[v] = subject[v] /\ subject[v] # t /\ subject[v] # v
      BY <1>0, <1>9, <2>1, <2>2
    <3>2. /\ st[subject[v]] \in {"born", "asleep"} /\ leader[subject[v]] = leader[v]
          /\ subject[v] \notin tids[leader[v]] /\ subject[v] \in Tid /\ leader[v] \in Tid
      BY <3>1 DEF TypeOK, Clean, Waits
    <3> QED
      BY <1>0, <2>1, <2>2, <3>1, <3>2
  <2>3. ASSUME NEW v \in Tid, NEW u \in Tid, Pre(v)', Pre(u)', subject'[v] = subject'[u]
        PROVE  v = u
    <3>1. CASE v # t /\ u # t
      BY <2>1, <2>3, <3>1 DEF Clean, Waits
    <3>2. CASE v = t \/ u = t
      BY <1>0, <1>9, <2>1, <2>3, <3>2
    <3> QED
      BY <3>1, <3>2
  <2> QED
    BY <2>2, <2>3 DEF Waits
<1>5. FreeClean'
  <2>1. \A u \in Tid : Live(u)' => \/ u = t /\ leader'[u] = t /\ tids'[leader'[u]] = {}
                                   \/ Live(u) /\ leader'[u] = leader[u] /\ tids'[leader'[u]] = tids[leader[u]]
    BY <1>0, <1>8 DEF Live
  <2> QED
    BY <1>0, <1>2, <2>1 DEF Clean, FreeClean
<1>6. ExitLast'
  BY <1>0, <1>2 DEF Clean, ExitLast
<1>7. Tables'
  BY <1>0, <1>2 DEF Clean, Tables, Live
<1> QED
  BY <1>1, <1>2, <1>3, <1>4, <1>5, <1>6, <1>7 DEF Clean

\* A thread starts, with an id that is not in tids.
LEMMA CloneKeeps ==
  ASSUME TypeOK, Clean, NEW t \in Tid, NEW c \in Tid, clone(t, c)
  PROVE  TypeOK' /\ Clean'
<1>0. /\ st[t] = "running" /\ st[c] = "free" /\ t # c
      /\ \A u \in Tid : st'[u] = IF u = t THEN "listen" ELSE IF u = c THEN "born" ELSE st[u]
      /\ \A u \in Tid : /\ subject'[u] = IF u = t THEN c ELSE subject[u]
                        /\ leader'[u] = IF u = c THEN leader[t] ELSE leader[u]
                        /\ app'[u] = IF u = c THEN app[t] ELSE app[u]
      /\ UNCHANGED <<tids, objects, name, cmap, reqs, smap, appNames, server>>
  BY DEF TypeOK, clone, shmVars, serverVars
<1>1. TypeOK'
  BY DEF TypeOK, clone, Begin, shmVars, serverVars, States
<1>2. /\ UNCHANGED <<reqs, smap, appNames, server>>
      /\ \A op, u : Queued(op, u)' <=> Queued(op, u)
      /\ \A u : Pending(u)' <=> Pending(u)
      /\ \A u : Reg(u)' <=> Reg(u)
      /\ InOrder'
  BY <1>0, QuietQueue DEF Clean
<1>8. /\ \A u \in Tid : Live(u) => leader[u] # c /\ u # c /\ leader[u] \in Tid
      /\ c \notin tids[leader[t]] /\ leader[t] # c
  BY <1>0 DEF TypeOK, Clean, FreeClean, Live
<1>9. \A u \in Tid : Pre(u) => subject[u] # c /\ subject[u] # t /\ u # c /\ u # t
  BY <1>0 DEF Clean, Waits, Pre
<1>3. Initialised'
  <2>1. \A u \in Tid : (Own(u)' => Own(u)) /\ (Mapped(u)' <=> Mapped(u))
    BY <1>0, <1>8 DEF Own, Pre, Live, Mapped
  <2> QED
    BY <1>0, <1>2, <2>1 DEF TypeOK, Clean, Initialised
<1>4. Waits'
  <2>1. \A v \in Tid : Pre(v)' /\ v # t => Pre(v) /\ v # c /\ subject'[v] = subject[v]
    BY <1>0 DEF Pre
  <2>2. ASSUME NEW v \in Tid, Pre(v)', subject'[v] # v
        PROVE  /\ st'[subject'[v]] \in {"born", "asleep"} /\ leader'[subject'[v]] = leader'[v]
               /\ subject'[v] \notin tids'[leader'[v]]
    <3>1. CASE v = t
      BY <1>0, <1>8, <3>1
    <3>2. CASE v # t
      <4>1. v # t /\ Pre(v) /\ subject'[v] = subject[v] /\ subject[v] # t /\ subject[v] # c /\ v # c /\ subject[v] # v
        BY <1>0, <1>9, <2>1, <2>2, <3>2
      <4>2. /\ st[subject[v]] \in {"born", "asleep"} /\ leader[subject[v]] = leader[v]
            /\ subject[v] \notin tids[leader[v]] /\ subject[v] \in Tid /\ leader[v] \in Tid
        BY <4>1 DEF TypeOK, Clean, Waits
      <4> QED
        BY <1>0, <2>1, <2>2, <3>2, <4>1, <4>2
    <3> QED
      BY <3>1, <3>2
  <2>3. ASSUME NEW v \in Tid, NEW u \in Tid, Pre(v)', Pre(u)', subject'[v] = subject'[u]
        PROVE  v = u
    <3>1. CASE v # t /\ u # t
      BY <2>1, <2>3, <3>1 DEF Clean, Waits
    <3>2. CASE v = t \/ u = t
      BY <1>0, <1>9, <2>1, <2>3, <3>2
    <3> QED
      BY <3>1, <3>2
  <2> QED
    BY <2>2, <2>3 DEF Waits
<1>5. FreeClean'
  <2>1. \A u \in Tid : Live(u)' => (u = c /\ leader'[u] = leader[t]) \/ (Live(u) /\ leader'[u] = leader[u])
    BY <1>0 DEF Live
  <2>2. Live(t)
    BY <1>0 DEF Live
  <2> QED
    BY <1>0, <1>2, <2>1, <2>2 DEF Clean, FreeClean
<1>6. ExitLast'
  BY <1>0, <1>2 DEF Clean, ExitLast
<1>7. Tables'
  BY <1>0, <1>2 DEF Clean, Tables, Live
<1> QED
  BY <1>1, <1>2, <1>3, <1>4, <1>5, <1>6, <1>7 DEF Clean

\* A process starts with its parent's tids.
LEMMA ForkKeeps ==
  ASSUME TypeOK, Clean, NEW t \in Tid, NEW c \in Tid, fork_handler(t, c)
  PROVE  TypeOK' /\ Clean'
<1>0. /\ st[t] = "running" /\ st[c] = "free" /\ t # c
      /\ \A u \in Tid : st'[u] = IF u = c THEN "listen" ELSE st[u]
      /\ \A u \in Tid : /\ subject'[u] = IF u = c THEN c ELSE subject[u]
                        /\ leader'[u] = IF u = c THEN c ELSE leader[u]
                        /\ tids'[u] = IF u = c THEN tids[leader[t]] ELSE tids[u]
                        /\ app'[u] = IF u = c THEN app[t] ELSE app[u]
      /\ UNCHANGED <<objects, name, cmap, reqs, smap, appNames, server>>
  BY DEF TypeOK, fork_handler, shmVars, serverVars
<1>1. TypeOK'
  BY DEF TypeOK, fork_handler, Begin, shmVars, serverVars, States
<1>2. /\ UNCHANGED <<reqs, smap, appNames, server>>
      /\ \A op, u : Queued(op, u)' <=> Queued(op, u)
      /\ \A u : Pending(u)' <=> Pending(u)
      /\ \A u : Reg(u)' <=> Reg(u)
      /\ InOrder'
  BY <1>0, QuietQueue DEF Clean
<1>8. /\ \A u \in Tid : Live(u) => leader[u] # c /\ u # c /\ leader[u] \in Tid
      /\ c \notin tids[leader[t]] /\ leader[t] # c
  BY <1>0 DEF TypeOK, Clean, FreeClean, Live
<1>9. \A u \in Tid : Pre(u) => subject[u] # c /\ u # c
  BY <1>0 DEF Clean, Waits, Pre
<1>3. Initialised'
  <2>1. \A u \in Tid : (Own(u)' => Own(u)) /\ (Mapped(u)' <=> Mapped(u))
    BY <1>0, <1>8 DEF Own, Pre, Live, Mapped
  <2> QED
    BY <1>0, <1>2, <2>1 DEF TypeOK, Clean, Initialised
<1>4. Waits'
  <2>1. \A v \in Tid : Pre(v)' /\ v # c => Pre(v) /\ leader[v] # c /\ subject'[v] = subject[v]
    BY <1>0, <1>8 DEF Pre, Live
  <2>2. ASSUME NEW v \in Tid, Pre(v)', subject'[v] # v
        PROVE  /\ st'[subject'[v]] \in {"born", "asleep"} /\ leader'[subject'[v]] = leader'[v]
               /\ subject'[v] \notin tids'[leader'[v]]
    <3>1. v # c /\ Pre(v) /\ subject'[v] = subject[v] /\ subject[v] # c /\ subject[v] # v
      BY <1>0, <1>9, <2>1, <2>2
    <3>2. /\ st[subject[v]] \in {"born", "asleep"} /\ leader[subject[v]] = leader[v]
          /\ subject[v] \notin tids[leader[v]] /\ subject[v] \in Tid /\ leader[v] \in Tid
      BY <3>1 DEF TypeOK, Clean, Waits
    <3> QED
      BY <1>0, <2>1, <2>2, <3>1, <3>2
  <2>3. ASSUME NEW v \in Tid, NEW u \in Tid, Pre(v)', Pre(u)', subject'[v] = subject'[u]
        PROVE  v = u
    <3>1. CASE v # c /\ u # c
      BY <2>1, <2>3, <3>1 DEF Clean, Waits
    <3>2. CASE v = c \/ u = c
      BY <1>0, <1>9, <2>1, <2>3, <3>2
    <3> QED
      BY <3>1, <3>2
  <2> QED
    BY <2>2, <2>3 DEF Waits
<1>5. FreeClean'
  <2>1. \A u \in Tid : Live(u)' => \/ u = c /\ leader'[u] = c /\ tids'[leader'[u]] = tids[leader[t]]
                                   \/ Live(u) /\ leader'[u] = leader[u] /\ tids'[leader'[u]] = tids[leader[u]]
    BY <1>0, <1>8 DEF Live
  <2>2. Live(t)
    BY <1>0 DEF Live
  <2> QED
    BY <1>0, <1>2, <2>1, <2>2 DEF Clean, FreeClean
<1>6. ExitLast'
  BY <1>0, <1>2 DEF Clean, ExitLast
<1>7. Tables'
  BY <1>0, <1>2 DEF Clean, Tables, Live
<1> QED
  BY <1>1, <1>2, <1>3, <1>4, <1>5, <1>6, <1>7 DEF Clean

\* execve: the other threads of the process are gone, and its tids is empty.
LEMMA ExecKeeps ==
  ASSUME TypeOK, Clean, NEW t \in Tid, NEW a \in App, execve(t, a)
  PROVE  TypeOK' /\ Clean'
<1>0. /\ st[t] = "running" /\ leader[t] = t
      /\ \A u \in Tid : st'[u] = IF u = t THEN "listen"
                                 ELSE IF leader[u] = t /\ Live(u) THEN "gone" ELSE st[u]
      /\ \A u \in Tid : /\ subject'[u] = IF u = t THEN t ELSE subject[u]
                        /\ tids'[u] = IF u = t THEN {} ELSE tids[u]
                        /\ app'[u] = IF u = t THEN a ELSE app[u]
      /\ UNCHANGED <<leader, objects, name, cmap, reqs, smap, appNames, server>>
  BY DEF TypeOK, execve, GroupOf, Live, shmVars, serverVars
<1>1. TypeOK'
  BY DEF TypeOK, execve, Begin, GroupOf, shmVars, serverVars, States
<1>2. /\ UNCHANGED <<reqs, smap, appNames, server>>
      /\ \A op, u : Queued(op, u)' <=> Queued(op, u)
      /\ \A u : Pending(u)' <=> Pending(u)
      /\ \A u : Reg(u)' <=> Reg(u)
      /\ InOrder'
  BY <1>0, QuietQueue DEF Clean
<1>8. \A u \in Tid : Live(u)' => /\ Live(u) /\ leader[u] \in Tid
                                 /\ u # t => leader[u] # t /\ st'[u] = st[u] /\ subject'[u] = subject[u]
  BY <1>0 DEF TypeOK, Live
<1>9. \A u \in Tid : Pre(u)' => Live(u)' /\ (u # t => Pre(u) /\ subject[u] # t)
  <2>1. \A u \in Tid : Pre(u)' => Live(u)' /\ (u # t => Pre(u))
    BY <1>0 DEF Pre, Live
  <2> QED
    BY <1>0, <2>1 DEF Clean, Waits
<1>3. Initialised'
  <2>1. \A u \in Tid : (Own(u)' => Own(u)) /\ (Mapped(u)' <=> Mapped(u))
    <3>1. ASSUME NEW u \in Tid, Own(u)' PROVE Own(u)
      <4>1. Live(u)'
        BY <3>1 DEF Own, Live, Pre
      <4>2. CASE u = t
        BY <1>0, <4>2 DEF Own
      <4>3. CASE u # t
        BY <1>0, <1>8, <3>1, <4>1, <4>3 DEF Own, Pre, Live
      <4> QED
        BY <4>2, <4>3
    <3> QED
      BY <1>0, <3>1 DEF Mapped
  <2>2. \A u \in Tid : st'[u] \in {"handshake", "register"} => st[u] = st'[u] /\ subject'[u] = subject[u]
    BY <1>0 DEF Live
  <2> QED
    BY <1>0, <1>2, <2>1, <2>2 DEF TypeOK, Clean, Initialised
<1>4. Waits'
  <2>2. ASSUME NEW v \in Tid, Pre(v)', subject'[v] # v
        PROVE  /\ st'[subject'[v]] \in {"born", "asleep"} /\ leader'[subject'[v]] = leader'[v]
               /\ subject'[v] \notin tids'[leader'[v]]
    <3>1. v # t /\ Pre(v) /\ leader[v] # t /\ subject'[v] = subject[v] /\ subject[v] # t
      BY <1>0, <1>8, <1>9, <2>2
    <3>2. /\ st[subject[v]] \in {"born", "asleep"} /\ leader[subject[v]] = leader[v]
          /\ subject[v] \notin tids[leader[v]] /\ subject[v] \in Tid /\ leader[v] \in Tid
      BY <2>2, <3>1 DEF TypeOK, Clean, Waits
    <3> QED
      BY <1>0, <3>1, <3>2
  <2>3. ASSUME NEW v \in Tid, NEW u \in Tid, Pre(v)', Pre(u)', subject'[v] = subject'[u]
        PROVE  v = u
    BY <1>0, <1>8, <1>9, <2>3 DEF Clean, Waits
  <2> QED
    BY <2>2, <2>3 DEF Waits
<1>5. FreeClean'
  <2>1. \A u \in Tid : st'[u] = "free" => st[u] = "free"
    BY <1>0
  <2>2. \A u \in Tid : Live(u)' => Live(u) /\ leader[u] \in Tid
    BY <1>8
  <2>3. \A u \in Tid : tids'[u] \subseteq tids[u]
    BY <1>0
  <2> QED
    BY <1>0, <1>2, <2>1, <2>2, <2>3 DEF Clean, FreeClean
<1>6. ExitLast'
  BY <1>0, <1>2 DEF Clean, ExitLast
<1>7. Tables'
  BY <1>0, <1>2 DEF Clean, Tables, Live
<1> QED
  BY <1>1, <1>2, <1>3, <1>4, <1>5, <1>6, <1>7 DEF Clean

\* All threads of a process end.
LEMMA KillKeeps ==
  ASSUME TypeOK, Clean, NEW t \in Tid, Kill(t)
  PROVE  TypeOK' /\ Clean'
<1>0. /\ leader[t] = t
      /\ \A u \in Tid : st'[u] = IF leader[u] = t /\ Live(u) THEN "gone" ELSE st[u]
      /\ UNCHANGED <<leader, subject, tids, app, objects, name, cmap, reqs, smap, appNames, server>>
  BY DEF TypeOK, Kill, GroupOf, Live, shmVars, serverVars
<1>1. TypeOK'
  BY DEF TypeOK, Kill, GroupOf, shmVars, serverVars, States
<1>2. /\ UNCHANGED <<reqs, smap, appNames, server>>
      /\ \A op, u : Queued(op, u)' <=> Queued(op, u)
      /\ \A u : Pending(u)' <=> Pending(u)
      /\ \A u : Reg(u)' <=> Reg(u)
      /\ InOrder'
  BY <1>0, QuietQueue DEF Clean
<1>8. \A u \in Tid : Live(u)' => Live(u) /\ leader[u] # t /\ st'[u] = st[u]
  BY <1>0 DEF Live
<1>9. \A u \in Tid : (Pre(u)' => Live(u)' /\ Pre(u)) /\ (Own(u)' => Live(u)' /\ Own(u))
  BY <1>0, <1>8 DEF Pre, Live, Own
<1>3. Initialised'
  <2>1. \A u \in Tid : Mapped(u)' <=> Mapped(u)
    BY <1>0 DEF Mapped
  <2>2. \A u \in Tid : st'[u] \in {"handshake", "register"} => st[u] = st'[u]
    BY <1>0
  <2> QED
    BY <1>0, <1>2, <1>9, <2>1, <2>2 DEF TypeOK, Clean, Initialised
<1>4. Waits'
  <2>1. ASSUME NEW v \in Tid, Pre(v)', subject[v] # v
        PROVE  /\ st'[subject[v]] \in {"born", "asleep"} /\ leader[subject[v]] = leader[v]
               /\ subject[v] \notin tids[leader[v]]
    <3>1. Pre(v) /\ leader[v] # t
      BY <1>8, <1>9, <2>1
    <3>2. /\ st[subject[v]] \in {"born", "asleep"} /\ leader[subject[v]] = leader[v]
          /\ subject[v] \notin tids[leader[v]] /\ subject[v] \in Tid
      BY <2>1, <3>1 DEF TypeOK, Clean, Waits
    <3> QED
      BY <1>0, <3>1, <3>2
  <2> QED
    BY <1>0, <1>9, <2>1 DEF Clean, Waits
<1>5. FreeClean'
  BY <1>0, <1>2, <1>8 DEF Clean, FreeClean, Live
<1>6. ExitLast'
  BY <1>0, <1>2 DEF Clean, ExitLast
<1>7. Tables'
  BY <1>0, <1>2, <1>8 DEF Clean, Tables
<1> QED
  BY <1>1, <1>2, <1>3, <1>4, <1>5, <1>6, <1>7 DEF Clean

\* An id is given back of which nothing is left.
LEMMA ReuseKeeps ==
  ASSUME TypeOK, Clean, NEW t \in Tid, ~early', Reuse(t)
  PROVE  TypeOK' /\ Clean'
<1> USE DEF Reuse, shmVars, serverVars
<1>1. TypeOK'
  BY DEF TypeOK, States
<1>2. /\ UNCHANGED <<reqs, smap, appNames, server>>
      /\ \A op, u : Queued(op, u)' <=> Queued(op, u)
      /\ \A u : Pending(u)' <=> Pending(u)
      /\ \A u : Reg(u)' <=> Reg(u)
      /\ InOrder'
  BY QuietQueue DEF Clean
<1>3. Initialised'
  BY <1>2 DEF TypeOK, Clean, Initialised, Waits, FreeClean, Own, Pre, Live, Mapped, Tables
<1>4. Waits'
  BY <1>2 DEF TypeOK, Clean, Waits, FreeClean, Pre, Live
<1>5. FreeClean'
  BY <1>2 DEF TypeOK, Clean, Waits, FreeClean, Pre, Live
<1>6. ExitLast'
  BY <1>2 DEF TypeOK, Clean, ExitLast, FreeClean, Pending, Queued
<1>7. Tables'
  BY <1>2 DEF TypeOK, Clean, Tables, Live
<1> QED
  BY <1>1, <1>2, <1>3, <1>4, <1>5, <1>6, <1>7 DEF Clean

\* handshake_request: the thread is on the client's side ready for its answers.
LEMMA HandshakeKeeps ==
  ASSUME TypeOK, Clean, NEW t \in Tid, handshake_request(t)
  PROVE  TypeOK' /\ Clean'
<1> DEFINE s == subject[t]
           r == Req("HANDSHAKE", s, app[t])
<1>0. /\ st[t] = "handshake" /\ s \in Tid /\ Send(r) /\ r.op = "HANDSHAKE" /\ r.tid = s
      /\ r.app = app[t] /\ app[t] \in App /\ r \in Request
      /\ \A u \in Tid : u # t => st'[u] = st[u]
      /\ st'[t] = "register" \/ (s = t /\ st'[t] = "running")
      /\ UNCHANGED <<leader, subject, tids, app, objects, name, cmap, smap, appNames, server>>
      /\ st' \in [Tid -> States]
  BY DEF TypeOK, handshake_request, shmVars, serverVars, Req, Request, Clean, Tables, Live, States
<1>1. /\ reqs' \in Seq(Request)
      /\ \A op, u : Queued(op, u)' <=> Queued(op, u) \/ ("HANDSHAKE" = op /\ s = u)
      /\ \A u : Pending(u)' <=> Pending(u) \/ s = u
  BY <1>0, SendQueues
<1>2. st[s] \notin {"gone", "free"}
  BY <1>0 DEF Clean, Waits, Pre
<1>3. TypeOK'
  BY <1>0, <1>1 DEF TypeOK
<1>4. InOrder'
  BY <1>0, <1>2, SendInOrder DEF Clean, ExitLast
<1> HIDE DEF s, r
<1>5. Initialised'
  <2>1. \A u \in Tid : Reg(u) \/ u = s => Reg(u)'
    BY <1>0, <1>1 DEF Reg
  <2>2. \A u \in Tid : Mapped(u)' <=> Mapped(u)
    BY <1>0 DEF Mapped
  <2>3. Mapped(s)
    BY <1>0 DEF Clean, Initialised, s
  <2>4. \A u \in Tid : Own(u)' => Own(u) \/ u = s
    BY <1>0 DEF Own, Pre, Live, s
  <2> QED
    BY <1>0, <2>1, <2>2, <2>3, <2>4 DEF TypeOK, Clean, Initialised, s
<1>6. Waits'
  <2>1. \A v \in Tid : Pre(v)' => Pre(v)
    BY <1>0 DEF Pre
  <2>2. ASSUME NEW v \in Tid, Pre(v), subject[v] # v
        PROVE  st'[subject[v]] \in {"born", "asleep"}
    <3>1. st[subject[v]] \in {"born", "asleep"} /\ subject[v] \in Tid
      BY <2>2 DEF TypeOK, Clean, Waits
    <3> QED
      BY <1>0, <3>1
  <2> QED
    BY <1>0, <2>1, <2>2 DEF Clean, Waits
<1>7. FreeClean'
  BY <1>0, <1>1, <1>2 DEF Clean, FreeClean, Live
<1>8. ExitLast'
  BY <1>0, <1>1 DEF Clean, ExitLast
<1>9. Tables'
  BY <1>0 DEF Clean, Tables, Live
<1> QED
  BY <1>0, <1>3, <1>4, <1>5, <1>6, <1>7, <1>8, <1>9 DEF Clean

\* exit_handler: whoever tells the server has been in tids.
LEMMA ExitKeeps ==
  ASSUME TypeOK, Clean, NEW t \in Tid, NEW S \in {{t}, GroupOf(t)}, exit_handler(t, S)
  PROVE  TypeOK' /\ Clean'
<1> DEFINE r == Req("EXIT", t, NoApp)
           told == t \in tids[leader[t]]
<1>0. /\ st[t] = "running" /\ t \in S /\ S \subseteq GroupOf(t) /\ leader[t] \in Tid
      /\ IF told THEN Send(r) ELSE reqs' = reqs
      /\ r.op = "EXIT" /\ r.tid = t /\ r \in Request
      /\ \A u \in Tid : st'[u] = IF u \in S THEN "gone" ELSE st[u]
      /\ \A u \in Tid : tids'[u] \subseteq tids[u]
      /\ UNCHANGED <<leader, subject, app, objects, name, cmap, smap, appNames, server>>
      /\ st' \in [Tid -> States] /\ tids' \in [Tid -> SUBSET Tid]
  <2>1. t \in GroupOf(t) /\ S \in {{t}, GroupOf(t)} /\ GroupOf(t) \subseteq Tid
    BY DEF GroupOf, exit_handler
  <2>2. r.op = "EXIT" /\ r.tid = t /\ r \in Request
    BY DEF Req, Request
  <2>3. /\ st[t] = "running" /\ (IF told THEN Send(r) ELSE reqs' = reqs)
        /\ st' = [u \in Tid |-> IF u \in S THEN "gone" ELSE st[u]]
        /\ UNCHANGED <<leader, subject, app, objects, name, cmap, smap, appNames, server>>
    BY DEF exit_handler, shmVars, serverVars
  <2>4. tids' \in [Tid -> SUBSET Tid] /\ \A u \in Tid : tids'[u] \subseteq tids[u]
    <3>1. tids' = [tids EXCEPT ![leader[t]] = @ \ {t}] \/ tids' = tids
      BY DEF exit_handler
    <3>2. CASE tids' = [tids EXCEPT ![leader[t]] = @ \ {t}]
      BY <3>2 DEF TypeOK
    <3>3. CASE tids' = tids
      BY <3>3 DEF TypeOK
    <3> QED
      BY <3>1, <3>2, <3>3
  <2>5. st' \in [Tid -> States] /\ leader[t] \in Tid
    BY <2>3 DEF TypeOK, States
  <2> HIDE DEF r, told
  <2> QED
    BY <2>1, <2>2, <2>3, <2>4, <2>5
<1>1. /\ reqs' \in Seq(Request)
      /\ \A op, u : Queued(op, u)' => Queued(op, u) \/ ("EXIT" = op /\ t = u)
      /\ \A op, u : Queued(op, u) => Queued(op, u)'
      /\ \A u : Pending(u)' => Pending(u) \/ t = u
      /\ InOrder'
  <2> HIDE DEF r
  <2>1. CASE told
    <3>1. Reg(t) /\ ~Queued("EXIT", t)
      BY <1>0 DEF Clean, Initialised, ExitLast, Own
    <3> QED
      BY <1>0, <2>1, <3>1, SendQueues, SendInOrder DEF Clean
  <2>2. CASE ~told
    BY <1>0, <2>2, QuietQueue DEF TypeOK, Clean
  <2> QED
    BY <2>1, <2>2
<1> HIDE DEF r, told
<1>2. TypeOK'
  BY <1>0, <1>1 DEF TypeOK
<1>3. \A u \in Tid : /\ Live(u)' => Live(u) /\ st'[u] = st[u] /\ leader[u] \in Tid
                     /\ Pre(u)' => Pre(u) /\ Live(u)' /\ u \notin S
                     /\ Own(u)' => Own(u)
  BY <1>0 DEF TypeOK, Live, Pre, Own
<1>4. Initialised'
  <2>1. \A u \in Tid : (Reg(u) => Reg(u)') /\ (Mapped(u)' <=> Mapped(u))
    BY <1>0, <1>1 DEF Reg, Mapped
  <2>2. \A u \in Tid : st'[u] \in {"handshake", "register"} => st[u] = st'[u]
    BY <1>0
  <2> QED
    BY <1>0, <1>3, <2>1, <2>2 DEF TypeOK, Clean, Initialised
<1>5. Waits'
  <2>1. ASSUME NEW v \in Tid, Pre(v)', subject[v] # v
        PROVE  /\ st'[subject[v]] \in {"born", "asleep"} /\ leader[subject[v]] = leader[v]
               /\ subject[v] \notin tids'[leader[v]]
    <3>1. Pre(v) /\ v \notin S /\ Live(v)
      BY <1>3, <2>1
    <3>2. /\ st[subject[v]] \in {"born", "asleep"} /\ leader[subject[v]] = leader[v]
          /\ subject[v] \notin tids[leader[v]] /\ subject[v] \in Tid /\ leader[v] \in Tid
      BY <2>1, <3>1 DEF TypeOK, Clean, Waits
    <3>3. subject[v] \notin S
      <4>1. CASE S = {t}
        BY <1>0, <3>2, <4>1
      <4>2. CASE S = GroupOf(t)
        BY <3>1, <3>2, <4>2 DEF GroupOf, Live
      <4> QED
        BY <4>1, <4>2
    <3> QED
      BY <1>0, <3>2, <3>3
  <2> QED
    BY <1>0, <1>3, <2>1 DEF Clean, Waits
<1>6. FreeClean'
  BY <1>0, <1>1, <1>3 DEF Clean, FreeClean
<1>7. ExitLast'
  BY <1>0, <1>1 DEF Clean, ExitLast
<1>8. Tables'
  BY <1>0, <1>3 DEF Clean, Tables
<1> QED
  BY <1>0, <1>1, <1>2, <1>4, <1>5, <1>6, <1>7, <1>8 DEF Clean

\* A blocking request comes after the handshake.
LEMMA CallKeeps ==
  ASSUME TypeOK, Clean, NEW t \in Tid, Call(t)
  PROVE  TypeOK' /\ Clean'
<1> DEFINE r == Req("CALL", t, NoApp)
<1>0. /\ st[t] = "running" /\ Send(r) /\ r.op = "CALL" /\ r.tid = t /\ r \in Request
      /\ \A u \in Tid : st'[u] = IF u = t THEN "calling" ELSE st[u]
      /\ UNCHANGED <<leader, subject, tids, app, objects, name, cmap, smap, appNames, server>>
      /\ st' \in [Tid -> States]
  BY DEF TypeOK, Call, shmVars, serverVars, Req, Request, States
<1>1. /\ reqs' \in Seq(Request)
      /\ \A op, u : Queued(op, u)' <=> Queued(op, u) \/ ("CALL" = op /\ t = u)
      /\ \A u : Pending(u)' <=> Pending(u) \/ t = u
  BY <1>0, SendQueues
<1>2. InOrder'
  <2>1. Reg(t) /\ ~Queued("EXIT", t)
    BY <1>0 DEF Clean, Initialised, ExitLast, Own
  <2> QED
    BY <1>0, <2>1, SendInOrder DEF Clean
<1> HIDE DEF r
<1>3. TypeOK'
  BY <1>0, <1>1 DEF TypeOK
<1>4. Initialised'
  <2>1. \A u \in Tid : (Reg(u)' <=> Reg(u)) /\ (Mapped(u)' <=> Mapped(u)) /\ (Own(u)' => Own(u))
    BY <1>0, <1>1 DEF Reg, Mapped, Own, Pre, Live
  <2> QED
    BY <1>0, <2>1 DEF TypeOK, Clean, Initialised
<1>5. Waits'
  BY <1>0 DEF TypeOK, Clean, Waits, Pre
<1>6. FreeClean'
  BY <1>0, <1>1 DEF Clean, FreeClean, Live
<1>7. ExitLast'
  BY <1>0, <1>1 DEF Clean, ExitLast
<1>8. Tables'
  BY <1>0 DEF Clean, Tables, Live
<1> QED
  BY <1>0, <1>2, <1>3, <1>4, <1>5, <1>6, <1>7, <1>8 DEF Clean

-----------------------------------------------------------------------------
(* Each request the server takes keeps it, and the server stays up.        *)

\* What the three handlers leave alone.
LEMMA ServerWaits ==
  ASSUME Clean, UNCHANGED <<clientVars>>
  PROVE  Waits' /\ \A u \in Tid : /\ (Live(u)' <=> Live(u)) /\ (Own(u)' <=> Own(u))
                                  /\ st'[u] = st[u] /\ app'[u] = app[u] /\ subject'[u] = subject[u]
                                  /\ leader'[u] = leader[u] /\ tids'[leader'[u]] = tids[leader[u]]
  BY DEF clientVars, Clean, Waits, Live, Own, Pre

\* handshake_handler: register_new_client attaches to the queue the client has.
LEMMA HandshakeHandlerKeeps ==
  ASSUME TypeOK, Clean, handshake_handler
  PROVE  TypeOK' /\ Clean'
<1> DEFINE h == Head(reqs).tid
           a == Head(reqs).app
<1>0. Next1("HANDSHAKE") /\ register_new_client(h, a) /\ UNCHANGED <<server, clientVars, cmap>>
  BY DEF handshake_handler
<1>1. /\ reqs' \in Seq(Request) /\ h \in Tid
      /\ \A o, u : Queued(o, u) <=> Queued(o, u)' \/ ("HANDSHAKE" = o /\ h = u)
      /\ \A u : Pending(u)' => Pending(u)
  BY <1>0, TakeQueues DEF Request
<1>2. a \in App /\ Pending(h)
  <2>1. 1 \in DOMAIN reqs /\ Head(reqs) = reqs[1] /\ reqs[1].op = "HANDSHAKE"
    BY <1>0, TakeQueues DEF Next1
  <2> QED
    BY <2>1 DEF Clean, InOrder, Pending
<1>3. /\ name' \in [Tid -> Nat] /\ smap' \in [Tid -> Nat] /\ objects' \in Nat
      /\ smap'[h] # 0 /\ smap'[h] = name'[h] /\ (name[h] # 0 => name'[h] = name[h])
      /\ \A u \in Tid : u # h => name'[u] = name[u] /\ smap'[u] = smap[u]
  <2>1. /\ name \in [Tid -> Nat] /\ smap \in [Tid -> Nat] /\ objects \in Nat /\ h \in Tid
        /\ smap[h] # 0 => smap[h] = name[h]
    BY <1>1 DEF TypeOK, Clean, Tables
  <2>2. IF smap[h] # 0 THEN UNCHANGED <<smap, objects, name>>
        ELSE IF name[h] # 0 THEN smap' = [smap EXCEPT ![h] = name[h]] /\ UNCHANGED <<objects, name>>
        ELSE /\ objects' = objects + 1 /\ name' = [name EXCEPT ![h] = objects + 1]
             /\ smap' = [smap EXCEPT ![h] = objects + 1]
    BY <1>0 DEF register_new_client, Attach
  <2> HIDE DEF h
  <2>3. CASE smap[h] # 0
    BY <2>1, <2>2, <2>3
  <2>4. CASE smap[h] = 0 /\ name[h] # 0
    BY <2>1, <2>2, <2>4
  <2>5. CASE smap[h] = 0 /\ name[h] = 0
    BY <2>1, <2>2, <2>5
  <2> QED
    BY <2>3, <2>4, <2>5
<1>4. /\ appNames' \in [Tid -> App \cup {NoApp}] /\ appNames'[h] # NoApp
      /\ \A u \in Tid : u # h => appNames'[u] = appNames[u]
  BY <1>0, <1>1, <1>2, RegistryAssumption DEF TypeOK, register_new_client
<1>5. TypeOK'
  BY <1>0, <1>1, <1>3, <1>4 DEF TypeOK, clientVars
<1>6. InOrder'
  BY <1>0, <1>3, TakeInOrder DEF Clean
<1> HIDE DEF h, a
<1>7. /\ Waits'
      /\ \A u \in Tid : /\ (Live(u)' <=> Live(u)) /\ (Own(u)' <=> Own(u))
                        /\ st'[u] = st[u] /\ app'[u] = app[u] /\ subject'[u] = subject[u]
                        /\ leader'[u] = leader[u] /\ tids'[leader'[u]] = tids[leader[u]]
  BY <1>0, ServerWaits
<1>8. Initialised'
  <2>1. \A u \in Tid : (Reg(u) => Reg(u)') /\ (Mapped(u) => Mapped(u)')
    BY <1>0, <1>1, <1>3 DEF Reg, Mapped
  <2> QED
    BY <1>7, <2>1 DEF TypeOK, Clean, Initialised
<1>9. FreeClean'
  <2>1. ASSUME NEW u \in Tid, st'[u] = "free" PROVE ~Pending(u)' /\ smap'[u] = 0
    <3>1. ~Pending(u) /\ smap[u] = 0 /\ st[u] = "free"
      BY <1>7, <2>1 DEF Clean, FreeClean
    <3>2. u # h
      BY <1>2, <3>1
    <3> QED
      BY <1>1, <1>3, <3>1, <3>2
  <2>2. ASSUME NEW u \in Tid, st'[u] = "free", NEW v \in Tid, Live(v)'
        PROVE  u \notin tids'[leader'[v]] /\ leader'[v] # u
    BY <1>7, <2>2 DEF Clean, FreeClean
  <2> QED
    BY <2>1, <2>2 DEF FreeClean
<1>10. ExitLast' /\ Tables'
  BY <1>1, <1>3, <1>4, <1>7 DEF Clean, ExitLast, Tables
<1> QED
  BY <1>0, <1>5, <1>6, <1>7, <1>8, <1>9, <1>10 DEF Clean

\* The server's exit handler knows the thread, and nobody needs it any more.
LEMMA ExitHandlerKeeps ==
  ASSUME TypeOK, Clean, server_exit_handler
  PROVE  TypeOK' /\ Clean'
<1> DEFINE h == Head(reqs).tid
<1>0. Next1("EXIT")
  BY DEF server_exit_handler
<1>1. /\ reqs' \in Seq(Request) /\ h \in Tid
      /\ \A o, u : Queued(o, u) <=> Queued(o, u)' \/ ("EXIT" = o /\ h = u)
      /\ \A u : Pending(u)' => Pending(u)
  BY <1>0, TakeQueues DEF Request
<1>2. smap[h] # 0 /\ st[h] = "gone"
  <2>1. 1 \in DOMAIN reqs /\ Head(reqs) = reqs[1] /\ reqs[1].op = "EXIT" /\ 1 .. 1 - 1 = {}
    BY <1>0, TakeQueues DEF Next1
  <2> QED
    BY <1>1, <2>1 DEF Clean, InOrder, ExitLast
<1>3. /\ smap' = [smap EXCEPT ![h] = 0] /\ name' = [name EXCEPT ![h] = 0]
      /\ UNCHANGED <<appNames, server, clientVars, objects, cmap>>
  BY <1>2 DEF server_exit_handler, remove_client
<1>4. /\ smap'[h] = 0 /\ smap' \in [Tid -> Nat] /\ name' \in [Tid -> Nat]
      /\ \A u \in Tid : u # h => name'[u] = name[u] /\ smap'[u] = smap[u]
  BY <1>1, <1>3 DEF TypeOK
<1>5. TypeOK'
  BY <1>1, <1>3, <1>4 DEF TypeOK, clientVars
<1>6. InOrder'
  BY <1>0, <1>4, TakeInOrder DEF Clean
<1> HIDE DEF h
<1>7. /\ Waits'
      /\ \A u \in Tid : /\ (Live(u)' <=> Live(u)) /\ (Own(u)' <=> Own(u))
                        /\ st'[u] = st[u] /\ app'[u] = app[u] /\ subject'[u] = subject[u]
                        /\ leader'[u] = leader[u] /\ tids'[leader'[u]] = tids[leader[u]]
  BY <1>3, ServerWaits
<1>8. Initialised'
  <2>1. \A u \in Tid : u # h => (Reg(u) => Reg(u)') /\ (Mapped(u) => Mapped(u)')
    BY <1>1, <1>3, <1>4 DEF Reg, Mapped
  <2>2. \A u \in Tid : Own(u) => u # h
    BY <1>2 DEF Own, Live, Pre
  <2>3. \A u \in Tid : Pre(u) => subject[u] # h
    BY <1>2 DEF Clean, Waits, Pre
  <2> QED
    BY <1>7, <2>1, <2>2, <2>3 DEF TypeOK, Clean, Initialised, Pre
<1>9. FreeClean'
  <2>1. ASSUME NEW u \in Tid, st'[u] = "free" PROVE ~Pending(u)' /\ smap'[u] = 0
    <3>1. ~Pending(u) /\ smap[u] = 0 /\ st[u] = "free"
      BY <1>7, <2>1 DEF Clean, FreeClean
    <3>2. u # h
      BY <1>2, <3>1
    <3> QED
      BY <1>1, <1>4, <3>1, <3>2
  <2>2. ASSUME NEW u \in Tid, st'[u] = "free", NEW v \in Tid, Live(v)'
        PROVE  u \notin tids'[leader'[v]] /\ leader'[v] # u
    BY <1>7, <2>2 DEF Clean, FreeClean
  <2> QED
    BY <2>1, <2>2 DEF FreeClean
<1>10. ExitLast' /\ Tables'
  BY <1>1, <1>3, <1>4, <1>7 DEF Clean, ExitLast, Tables
<1> QED
  BY <1>3, <1>5, <1>6, <1>7, <1>8, <1>9, <1>10 DEF Clean

\* A request that is answered is of a thread the server knows.
LEMMA ReplyKeeps ==
  ASSUME TypeOK, Clean, reply_to_client
  PROVE  TypeOK' /\ Clean'
<1> DEFINE h == Head(reqs).tid
<1>0. Next1("CALL")
  BY DEF reply_to_client
<1>1. /\ reqs' \in Seq(Request) /\ h \in Tid
      /\ \A o, u : Queued(o, u) <=> Queued(o, u)' \/ ("CALL" = o /\ h = u)
      /\ \A u : Pending(u)' => Pending(u)
  BY <1>0, TakeQueues DEF Request
<1>2. smap[h] # 0 /\ appNames[h] # NoApp
  <2>1. 1 \in DOMAIN reqs /\ Head(reqs) = reqs[1] /\ reqs[1].op = "CALL" /\ 1 .. 1 - 1 = {}
    BY <1>0, TakeQueues DEF Next1
  <2> QED
    BY <1>1, <2>1 DEF Clean, InOrder, Tables
<1>3. UNCHANGED <<smap, appNames, server, clientVars, objects, name, cmap>>
  BY <1>2 DEF reply_to_client, serverVars
<1>4. TypeOK'
  BY <1>1, <1>3 DEF TypeOK, clientVars
<1>5. InOrder'
  BY <1>0, <1>3, TakeInOrder DEF Clean
<1> HIDE DEF h
<1>6. /\ Waits'
      /\ \A u \in Tid : /\ (Live(u)' <=> Live(u)) /\ (Own(u)' <=> Own(u))
                        /\ st'[u] = st[u] /\ app'[u] = app[u] /\ subject'[u] = subject[u]
                        /\ leader'[u] = leader[u] /\ tids'[leader'[u]] = tids[leader[u]]
  BY <1>3, ServerWaits
<1>7. Initialised'
  <2>1. \A u \in Tid : (Reg(u) => Reg(u)') /\ (Mapped(u) => Mapped(u)')
    BY <1>1, <1>3 DEF Reg, Mapped
  <2> QED
    BY <1>6, <2>1 DEF TypeOK, Clean, Initialised
<1>8. FreeClean' /\ ExitLast' /\ Tables'
  BY <1>1, <1>3, <1>6 DEF Clean, FreeClean, ExitLast, Tables
<1> QED
  BY <1>3, <1>4, <1>5, <1>6, <1>7, <1>8 DEF Clean

-----------------------------------------------------------------------------

\* The invariant holds in every reachable state.
THEOREM RegistryInvariant == Spec => []RegistryInv
<1>1. Init => RegistryInv
  <2> SUFFICES ASSUME Init PROVE TypeOK /\ Clean
    BY DEF RegistryInv
  <2>1. TypeOK
    BY DEF Init, TypeOK, States
  <2>2. DOMAIN reqs = {}
    BY DEF Init
  <2>3. \A t \in Tid : ~Live(t) /\ ~Own(t) /\ ~Pre(t) /\ st[t] = "free" /\ smap[t] = 0
    BY DEF Init, Own, Live, Pre
  <2> QED
    BY <2>1, <2>2, <2>3 DEF Init, Clean, Initialised, Waits, FreeClean, InOrder, ExitLast, Tables,
                            Queued, Pending
<1>2. RegistryInv /\ [Next]_vars => RegistryInv'
  <2> SUFFICES ASSUME RegistryInv, [Next]_vars, ~early' PROVE TypeOK' /\ Clean'
    BY DEF RegistryInv
  <2>1. ~early
    BY DEF Next, Proceed, Serve, vars, clientVars, register_listener, handshake_request,
           register_capio_tid, hook_clone_parent_Notify, hook_clone_child, Answered, Kill, Reuse,
           Call, init, execve, clone, fork_handler, exit_handler, handshake_handler,
           server_exit_handler, reply_to_client, out_of_range
  <2>2. TypeOK /\ Clean
    BY <2>1 DEF RegistryInv
  <2>3. CASE UNCHANGED vars
    BY <2>2, <2>3 DEF vars, clientVars, shmVars, serverVars, TypeOK, Clean, Initialised, Waits,
           FreeClean, InOrder, ExitLast, Tables, Own, Pre, Live, Mapped, Reg, Queued, Pending
  <2>4. ASSUME NEW t \in Tid, Proceed(t) PROVE TypeOK' /\ Clean'
    BY <2>2, <2>4, ListenKeeps, HandshakeKeeps, RegisterKeeps, NotifyKeeps, ChildKeeps, AnsweredKeeps
       DEF Proceed
  <2>5. ASSUME NEW t \in Tid, Kill(t) \/ Reuse(t) \/ Call(t) PROVE TypeOK' /\ Clean'
    BY <2>2, <2>5, KillKeeps, ReuseKeeps, CallKeeps
  <2>6. ASSUME NEW t \in Tid, NEW a \in App, init(t, a) \/ execve(t, a) PROVE TypeOK' /\ Clean'
    BY <2>2, <2>6, InitKeeps, ExecKeeps
  <2>7. ASSUME NEW t \in Tid, NEW c \in Tid, clone(t, c) \/ fork_handler(t, c)
        PROVE  TypeOK' /\ Clean'
    BY <2>2, <2>7, CloneKeeps, ForkKeeps
  <2>8. ASSUME NEW t \in Tid, NEW S \in {{t}, GroupOf(t)}, exit_handler(t, S)
        PROVE  TypeOK' /\ Clean'
    BY <2>2, <2>8, ExitKeeps
  <2>9. CASE Serve
    BY <2>2, <2>9, HandshakeHandlerKeeps, ExitHandlerKeeps, ReplyKeeps DEF Serve
  <2> QED
    BY <2>3, <2>4, <2>5, <2>6, <2>7, <2>8, <2>9 DEF Next
<1> QED
  BY <1>1, <1>2, PTL DEF Spec

\* No request of a thread comes to the server before its handshake or after its
\* exit: the .at(tid) of client_manager.hpp does not throw, unless an id was given
\* out again early: while the server still had a queue or a request of the thread
\* that had it, or a living process still had it in tids.
THEOREM RegistryNoUnknownTid == Spec => []NoUnknownTid
<1>1. RegistryInv => NoUnknownTid
  BY DEF RegistryInv, Clean, NoUnknownTid
<1> QED
  BY <1>1, RegistryInvariant, PTL

\* The server answers in the queue that the thread reads, although each side
\* makes it when it finds none: as long as no id is given out again early, for
\* else the two may hold different queues.
THEOREM RegistrySameQueue == Spec => []SameQueue
<1>1. RegistryInv => SameQueue
  BY DEF RegistryInv, Clean, SameQueue, Initialised, Tables, Own, Mapped
<1> QED
  BY <1>1, RegistryInvariant, PTL

-----------------------------------------------------------------------------
(* Normal.  A fact about the path after each component that failed would   *)
(* fail at a first one.                                                    *)

Paths == Seq(Name)

\* A nonempty set of numbers has a least one.
LEMMA Least ==
  ASSUME NEW T \in SUBSET Nat, T # {}
  PROVE  \E x \in T : \A y \in T : x <= y
<1> DEFINE R == {ss \in Nat \X Nat : ss[1] < ss[2]}
<1>1. IsWellFoundedOn(R, Nat)
  BY NatLessThanWellFounded DEF OpToRel
<1> HIDE DEF R
<1>2. PICK x \in T : \A y \in T : ~(<<y, x>> \in R)
  BY <1>1, WFMin
<1>3. ASSUME NEW y \in T PROVE x <= y
  <2>1. x \in Nat /\ y \in Nat /\ (y < x => <<y, x>> \in R)
    BY DEF R
  <2> QED
    BY <1>2, <2>1
<1> QED
  BY <1>3

\* What fails at some component fails at a first one, and not before it.
LEMMA FirstFailure ==
  ASSUME NEW N \in Nat, NEW T \in SUBSET (0 .. N), T # {}
  PROVE  \E n \in T : n # 0 => n - 1 \in 0 .. N /\ n - 1 \notin T
<1>1. T \in SUBSET Nat
  OBVIOUS
<1>2. PICK n \in T : \A y \in T : n <= y
  BY <1>1, Least
<1>3. n \in Nat /\ n <= N /\ ~(n <= n - 1)
  OBVIOUS
<1> QED
  BY <1>2, <1>3

\* The paths after each of the first n components of p.
Steps(p, n, h) ==
  h = [i \in 0 .. n |-> IF i = 0 THEN <<>> ELSE Push(h[i - 1], p[i])]

LEMMA StepsExist ==
  ASSUME NEW p, Len(p) \in Nat
  PROVE  \E h : Steps(p, Len(p), h)
<1> DEFINE T == {n \in 0 .. Len(p) : ~\E h : Steps(p, n, h)}
<1> SUFFICES ASSUME T # {} PROVE FALSE
  OBVIOUS
<1>1. PICK n \in T : n # 0 => n - 1 \in 0 .. Len(p) /\ n - 1 \notin T
  <2>1. T \in SUBSET (0 .. Len(p))
    OBVIOUS
  <2> HIDE DEF T
  <2> QED
    BY <2>1, FirstFailure
<1>2. CASE n = 0
  <2> DEFINE h == [i \in 0 .. 0 |-> <<>>]
  <2>1. h = [i \in 0 .. 0 |-> IF i = 0 THEN <<>> ELSE Push(h[i - 1], p[i])]
    OBVIOUS
  <2> QED
    BY <1>2, <2>1 DEF Steps
<1>3. CASE n # 0
  <2>1. n \in Nat /\ n - 1 \in Nat /\ 0 \in 0 .. n - 1
    BY <1>3
  <2>2. PICK g : Steps(p, n - 1, g)
    BY <1>1, <1>3
  <2> DEFINE h == [i \in 0 .. n |-> IF i = n THEN Push(g[n - 1], p[n]) ELSE g[i]]
  <2>3. \A i \in 0 .. n - 1 : g[i] = IF i = 0 THEN <<>> ELSE Push(g[i - 1], p[i])
    BY <2>2 DEF Steps
  <2>4. ASSUME NEW i \in 0 .. n PROVE h[i] = IF i = 0 THEN <<>> ELSE Push(h[i - 1], p[i])
    <3>1. CASE i = n
      <4>1. h[i] = Push(g[n - 1], p[n]) /\ h[i - 1] = g[n - 1] /\ i # 0
        BY <1>3, <2>1, <3>1
      <4> QED
        BY <3>1, <4>1
    <3>2. CASE i # n
      <4>1. i \in 0 .. n - 1 /\ (i # 0 => i - 1 \in 0 .. n /\ i - 1 # n)
        BY <2>1, <3>2
      <4>2. h[i] = g[i] /\ (i # 0 => h[i - 1] = g[i - 1])
        BY <2>1, <3>2, <4>1
      <4> QED
        BY <2>3, <4>1, <4>2
    <3> QED
      BY <3>1, <3>2
  <2>5. h = [i \in 0 .. n |-> h[i]]
    OBVIOUS
  <2> HIDE DEF h
  <2>6. Steps(p, n, h)
    BY <2>4, <2>5 DEF Steps
  <2> QED
    BY <2>6
<1> QED
  BY <1>2, <1>3

\* Normal takes one component after the other.
LEMMA NormalSteps ==
  ASSUME NEW p, Len(p) \in Nat
  PROVE  \E h : Steps(p, Len(p), h) /\ Normal(p) = h[Len(p)]
<1> DEFINE H == CHOOSE h : h = [n \in 0 .. Len(p) |-> IF n = 0 THEN <<>> ELSE Push(h[n - 1], p[n])]
<1>1. H = [n \in 0 .. Len(p) |-> IF n = 0 THEN <<>> ELSE Push(H[n - 1], p[n])]
  BY StepsExist DEF Steps
<1>2. Normal(p) = H[Len(p)]
  BY DEF Normal
<1> HIDE DEF H
<1> QED
  BY <1>1, <1>2 DEF Steps

\* One component keeps a path a path.
LEMMA PushTyped ==
  ASSUME NEW q \in Paths, NEW c \in Name \cup {Up}
  PROVE  Push(q, c) \in Paths
<1>1. CASE c = Up /\ q # <<>>
  <2>1. Len(q) \in Nat /\ Len(q) # 0
    BY <1>1, EmptySeq DEF Paths
  <2>2. Front(q) \in Paths
    BY <2>1, SubSeqProperties DEF Paths, Front
  <2> QED
    BY <1>1, <2>2 DEF Push
<1>2. CASE c # Up
  BY <1>2, AppendProperties DEF Push, Paths
<1>3. CASE c = Up /\ q = <<>>
  BY <1>3 DEF Push
<1> QED
  BY <1>1, <1>2, <1>3

\* lexically_normal leaves no "..".
LEMMA NormalTyped ==
  ASSUME NEW p \in Seq(Name \cup {Up})
  PROVE  Normal(p) \in Paths
<1>1. Len(p) \in Nat /\ \A i \in 1 .. Len(p) : p[i] \in Name \cup {Up}
  BY LenProperties, ElementOfSeq
<1>2. PICK h : Steps(p, Len(p), h) /\ Normal(p) = h[Len(p)]
  BY <1>1, NormalSteps
<1> DEFINE T == {n \in 0 .. Len(p) : h[n] \notin Paths}
<1>3. ASSUME T # {} PROVE FALSE
  <2>1. PICK n \in T : n # 0 => n - 1 \in 0 .. Len(p) /\ n - 1 \notin T
    <3>1. T \in SUBSET (0 .. Len(p))
      OBVIOUS
    <3> HIDE DEF T
    <3> QED
      BY <1>1, <1>3, <3>1, FirstFailure
  <2>2. n \in 0 .. Len(p) /\ h[n] \notin Paths /\ (n # 0 => h[n - 1] \in Paths)
    BY <2>1
  <2>3. h[n] = IF n = 0 THEN <<>> ELSE Push(h[n - 1], p[n])
    BY <1>2, <2>2 DEF Steps
  <2>4. n # 0 => n \in 1 .. Len(p)
    BY <1>1, <2>2
  <2> QED
    BY <1>1, <2>2, <2>3, <2>4, PushTyped, EmptySeq DEF Paths
<1>4. Len(p) \in 0 .. Len(p)
  BY <1>1
<1> QED
  BY <1>2, <1>3, <1>4

\* It leaves a path without ".." as it is.
LEMMA NormalKeeps ==
  ASSUME NEW p \in Paths
  PROVE  Normal(p) = p
<1>1. Len(p) \in Nat /\ \A i \in 1 .. Len(p) : p[i] \in Name /\ p[i] # Up
  BY LenProperties, ElementOfSeq, PathAssumption DEF Paths
<1>2. PICK h : Steps(p, Len(p), h) /\ Normal(p) = h[Len(p)]
  BY <1>1, NormalSteps
<1> DEFINE T == {n \in 0 .. Len(p) : h[n] # SubSeq(p, 1, n)}
<1>3. ASSUME T # {} PROVE FALSE
  <2>1. PICK n \in T : n # 0 => n - 1 \in 0 .. Len(p) /\ n - 1 \notin T
    <3>1. T \in SUBSET (0 .. Len(p))
      OBVIOUS
    <3> HIDE DEF T
    <3> QED
      BY <1>1, <1>3, <3>1, FirstFailure
  <2>2. n \in 0 .. Len(p) /\ h[n] # SubSeq(p, 1, n) /\ (n # 0 => h[n - 1] = SubSeq(p, 1, n - 1))
    BY <2>1
  <2>3. h[n] = IF n = 0 THEN <<>> ELSE Push(h[n - 1], p[n])
    BY <1>2, <2>2 DEF Steps
  <2>4. CASE n = 0
    BY <2>2, <2>3, <2>4, SubSeqEmpty
  <2>5. CASE n # 0
    <3>1. n \in 1 .. Len(p) /\ n - 1 \in Nat /\ n - 1 <= Len(p) /\ (n - 1) + 1 = n
      BY <1>1, <2>2, <2>5
    <3>2. h[n] = Append(SubSeq(p, 1, n - 1), p[n])
      BY <1>1, <2>2, <2>3, <2>5, <3>1 DEF Push
    <3>3. SubSeq(p, 1, n) = Append(SubSeq(p, 1, n - 1), p[n])
      BY <1>1, <3>1 DEF Paths
    <3> QED
      BY <2>2, <3>2, <3>3
  <2> QED
    BY <2>4, <2>5
<1>4. Len(p) \in 0 .. Len(p)
  BY <1>1
<1>5. SubSeq(p, 1, Len(p)) = p
  BY <1>1, SubSeqFull DEF Paths
<1> QED
  BY <1>2, <1>3, <1>4, <1>5

-----------------------------------------------------------------------------
(* What the handlers compute.                                              *)

\* The names a program may use: an absolute one has no "..", because the
\* handlers pass it on as it is; none begins with two dots; and CAPIO_DIR is
\* not below a directory the library leaves alone.
PlainNames ==
  /\ AbsPath \subseteq Paths /\ Dotted = {}
  /\ CapioDir # <<>> /\ Head(CapioDir) \notin Forbidden

\* Types of the tree, and of what kernel and library have for a descriptor.
PathTypes ==
  /\ dirs \subseteq Paths /\ regs \subseteq Paths
  /\ cwd \in Paths /\ cur \in Paths
  /\ kdir \in [DirFd -> Paths \cup {None}] /\ ldir \in [DirFd -> Paths \cup {None}]
  /\ careful \in BOOLEAN

\* What the library recorded for a descriptor is the directory it is on.
Recorded == careful => \A fd \in DirFd : ldir[fd] # None => ldir[fd] = kdir[fd]

PathInv == PathTypes /\ Recorded

\* A path told to the server is the target; or there is none, and the target
\* is not a file of CAPIO_DIR.
Tells(sent, target) == sent = target \/ (sent = None /\ ~InCapioDir(target))

LEMMA TellsRight ==
  ASSUME NEW sent, NEW target, Tells(sent, target)
  PROVE  Right(sent, target)
BY DEF Tells, Right, InCapioDir

\* is_prefix and the prefix relation agree on paths without dotted names.
LEMMA CapioPaths ==
  ASSUME PlainNames, NEW p \in Paths
  PROVE  is_capio_path(p) <=> InCapioDir(p)
<1>1. p # None /\ CapioDir # None /\ CapioDir \in Paths
  BY PathAssumption DEF Paths
<1>2. Len(p) > Len(CapioDir) => p[Len(CapioDir) + 1] \in Name
  BY <1>1, LenProperties, ElementOfSeq DEF Paths
<1>3. Up \notin Name /\ Dotted = {}
  BY PathAssumption DEF PlainNames
<1> QED
  BY <1>1, <1>2, <1>3 DEF is_capio_path, is_prefix, InCapioDir, Below

LEMMA IfCapioTells ==
  ASSUME PlainNames, NEW target \in Paths, NEW sent, Tells(sent, target)
  PROVE  Tells(IfCapio(sent), target)
<1>1. ~is_capio_path(None)
  BY DEF is_capio_path, is_prefix
<1> QED
  BY <1>1, CapioPaths DEF Tells, IfCapio

\* No file of CAPIO_DIR is below a forbidden directory.
LEMMA ForbiddenOutside ==
  ASSUME PlainNames, NEW p \in Paths, p # <<>>, Head(p) \in Forbidden
  PROVE  ~InCapioDir(p)
<1> SUFFICES ASSUME IsPrefix(CapioDir, p) PROVE FALSE
  BY DEF InCapioDir, Below
<1>1. /\ CapioDir \in Seq(Name) /\ p \in Seq(Name) /\ Len(CapioDir) \in Nat \ {0}
      /\ Len(p) \in Nat /\ Len(CapioDir) <= Len(p)
      /\ SubSeq(CapioDir, 1, Len(CapioDir)) = SubSeq(p, 1, Len(CapioDir))
  BY PathAssumption, EmptySeq, LenProperties DEF PlainNames, Paths, IsPrefix
<1>2. SubSeq(CapioDir, 1, Len(CapioDir))[1] = CapioDir[1] /\ SubSeq(p, 1, Len(CapioDir))[1] = p[1]
  BY <1>1
<1>3. Head(CapioDir) = CapioDir[1] /\ Head(p) = p[1]
  OBVIOUS
<1> QED
  BY <1>1, <1>2, <1>3 DEF PlainNames

\* An argument is an absolute path without "..", or a relative one.
LEMMA Arguments ==
  ASSUME PlainNames, NEW arg \in Argument
  PROVE  /\ arg.abs \in BOOLEAN
         /\ arg.abs => arg.comps \in Paths /\ Normal(arg.comps) = arg.comps
         /\ ~arg.abs => arg.comps \in Seq(Name \cup {Up})
<1>1. \/ \E p \in AbsPath : arg = Absolute(p)
      \/ \E p \in RelPath : arg = Relative(p)
  BY DEF Argument
<1>2. ASSUME NEW p \in AbsPath, arg = Absolute(p)
      PROVE  arg.abs = TRUE /\ arg.comps = p /\ p \in Paths
  BY <1>2 DEF Absolute, PlainNames
<1>3. ASSUME NEW p \in RelPath, arg = Relative(p)
      PROVE  arg.abs = FALSE /\ arg.comps = p /\ p \in Seq(Name \cup {Up})
  BY <1>3, PathAssumption DEF Relative
<1> QED
  BY <1>1, <1>2, <1>3, NormalKeeps

\* A name below a path is a path.
LEMMA JoinTyped ==
  ASSUME NEW p \in Paths, NEW q \in Seq(Name \cup {Up})
  PROVE  Normal(p \o q) \in Paths
<1>1. p \in Seq(Name \cup {Up})
  BY SeqMonotonic DEF Paths
<1>2. p \o q \in Seq(Name \cup {Up})
  BY <1>1, ConcatProperties
<1> QED
  BY <1>2, NormalTyped

LEMMA TargetTyped ==
  ASSUME PlainNames, PathTypes, NEW arg \in Argument, NEW d \in DirFd \cup {Cwd}, At(d)
  PROVE  Target(d, arg) \in Paths /\ (arg.abs => Target(d, arg) = arg.comps)
<1>1. CASE arg.abs
  BY <1>1, Arguments DEF Target
<1>2. CASE ~arg.abs
  <2>1. (IF d = Cwd THEN cwd ELSE kdir[d]) \in Paths
    BY DEF At, PathTypes
  <2> QED
    BY <1>2, <2>1, Arguments, JoinTyped DEF Target
<1> QED
  BY <1>1, <1>2

\* realpath is right where the kernel finds the file, and everywhere while
\* current_dir is the working directory.
LEMMA RealpathTells ==
  ASSUME PlainNames, PathTypes, NEW arg \in Argument, cur = cwd \/ Target(Cwd, arg) \in tree
  PROVE  Tells(capio_posix_realpath(arg), Target(Cwd, arg))
<1>1. Target(Cwd, arg) \in Paths /\ (arg.abs => Target(Cwd, arg) = arg.comps)
  BY TargetTyped DEF At
<1>2. CASE Target(Cwd, arg) \in tree \/ arg.abs
  BY <1>1, <1>2 DEF capio_posix_realpath, Tells
<1>3. CASE ~(Target(Cwd, arg) \in tree) /\ ~arg.abs
  <2>1. Target(Cwd, arg) = Normal(cur \o arg.comps)
    BY <1>3 DEF Target
  <2> QED
    BY <1>1, <1>3, <2>1, CapioPaths DEF capio_posix_realpath, Tells
<1> QED
  BY <1>2, <1>3

\* compute_abs_path, from a working directory or a descriptor.
LEMMA ComputedTells ==
  ASSUME PlainNames, PathInv, careful, NEW arg \in Argument, NEW d \in DirFd \cup {Cwd}, At(d),
         cur = cwd \/ d # Cwd \/ Target(d, arg) \in tree
  PROVE  Tells(compute_abs_path(arg, d), Target(d, arg))
<1>1. Target(d, arg) \in Paths /\ (arg.abs => Target(d, arg) = arg.comps)
  BY TargetTyped DEF PathInv
<1>2. CASE arg.abs
  BY <1>1, <1>2 DEF compute_abs_path, Tells
<1>3. CASE ~arg.abs /\ d = Cwd
  BY <1>3, RealpathTells DEF compute_abs_path, PathInv
<1>4. CASE ~arg.abs /\ d # Cwd
  <2>1. d \in DirFd /\ d # None /\ kdir[d] # None
    BY <1>4, PathAssumption DEF At
  <2>2. get_dir_path(d) = kdir[d]
    BY <2>1 DEF get_dir_path, PathInv, Recorded
  <2>3. compute_abs_path(arg, d) = Normal(kdir[d] \o arg.comps)
    BY <1>4, <2>1, <2>2 DEF compute_abs_path
  <2> QED
    BY <1>4, <2>3 DEF Target, Tells
<1> QED
  BY <1>2, <1>3, <1>4

\* The path computed is one in any case.
LEMMA ComputedTyped ==
  ASSUME PlainNames, PathTypes, NEW arg \in Argument, NEW d \in DirFd \cup {Cwd}, At(d)
  PROVE  compute_abs_path(arg, d) \in Paths \cup {None}
<1>1. CASE arg.abs
  BY <1>1, Arguments DEF compute_abs_path
<1>2. CASE ~arg.abs /\ d = Cwd
  <2>1. Target(Cwd, arg) \in Paths
    BY TargetTyped DEF At
  <2>2. Normal(cur \o arg.comps) \in Paths
    BY <1>2, Arguments, JoinTyped DEF PathTypes
  <2> QED
    BY <1>2, <2>1, <2>2 DEF compute_abs_path, capio_posix_realpath
<1>3. CASE ~arg.abs /\ d # Cwd
  <2>1. get_dir_path(d) \in Paths \cup {None}
    BY <1>3 DEF get_dir_path, PathTypes
  <2> QED
    BY <1>3, <2>1, Arguments, JoinTyped DEF compute_abs_path
<1> QED
  BY <1>1, <1>2, <1>3

\* What the handlers make of it: those that look at no directory, and those
\* that do.
LEMMA NamesTell ==
  ASSUME PlainNames, PathTypes, cur = cwd, NEW arg \in Argument
  PROVE  /\ Right(access_path(arg), Target(Cwd, arg)) /\ Right(chdir_path(arg), Target(Cwd, arg))
         /\ Right(capio_lstat_wrapper(arg), Target(Cwd, arg))
         /\ Right(capio_absolute(arg), Target(Cwd, arg))
<1> DEFINE target == Target(Cwd, arg)
<1>1. target \in Paths /\ (arg.abs => target = arg.comps)
  BY TargetTyped DEF At
<1>2. is_forbidden_path(arg) => Tells(None, target)
  BY <1>1, ForbiddenOutside DEF is_forbidden_path, Tells
<1>3. Tells(capio_posix_realpath(arg), target)
  BY RealpathTells
<1>4. Tells(capio_absolute(arg), target)
  BY <1>1, <1>3 DEF capio_absolute, Tells
<1>5. Tells(IfCapio(capio_posix_realpath(arg)), target)
  BY <1>1, <1>3, IfCapioTells
<1> HIDE DEF target
<1>6. Tells(access_path(arg), target) /\ Tells(chdir_path(arg), target)
  BY <1>2, <1>4 DEF access_path, chdir_path
<1>7. Tells(capio_lstat_wrapper(arg), target)
  BY <1>2, <1>5 DEF capio_lstat_wrapper, capio_lstat
<1> QED
  BY <1>4, <1>6, <1>7, TellsRight DEF target

LEMMA DirectoriesTell ==
  ASSUME PlainNames, PathInv, careful, NEW arg \in Argument, NEW d \in DirFd \cup {Cwd}, At(d),
         cur = cwd \/ d # Cwd \/ Target(d, arg) \in tree
  PROVE  /\ Tells(faccessat_path(d, arg), Target(d, arg))
         /\ Tells(capio_fstatat(d, arg), Target(d, arg))
         /\ Tells(openat_path(d, arg), Target(d, arg))
         /\ Tells(capio_mkdirat(d, arg), Target(d, arg))
<1> DEFINE target == Target(d, arg)
<1>1. target \in Paths /\ (arg.abs => target = arg.comps)
  BY TargetTyped DEF PathInv
<1>2. is_forbidden_path(arg) => Tells(None, target)
  BY <1>1, ForbiddenOutside DEF is_forbidden_path, Tells
<1>3. Tells(compute_abs_path(arg, d), target)
  BY ComputedTells
<1>4. Tells(IfCapio(compute_abs_path(arg, d)), target)
  BY <1>1, <1>3, IfCapioTells
<1>5. arg.abs => Tells(IfCapio(arg.comps), target)
  BY <1>1, IfCapioTells DEF Tells
<1>6. ~arg.abs /\ d = Cwd => Tells(capio_lstat_wrapper(arg), target)
  <2>1. ~arg.abs /\ d = Cwd => capio_lstat_wrapper(arg) = IfCapio(compute_abs_path(arg, d))
    BY DEF capio_lstat_wrapper, is_forbidden_path, capio_lstat, compute_abs_path
  <2> QED
    BY <1>4, <2>1
<1> HIDE DEF target
<1>7. Tells(capio_fstatat(d, arg), target)
  <2>1. CASE is_forbidden_path(arg)
    BY <1>2, <2>1 DEF capio_fstatat
  <2>2. CASE ~is_forbidden_path(arg) /\ arg.abs
    BY <1>5, <2>2 DEF capio_fstatat, capio_lstat
  <2>3. CASE ~arg.abs
    <3>1. ~is_forbidden_path(arg)
      BY <2>3 DEF is_forbidden_path
    <3> QED
      BY <1>4, <1>6, <2>3, <3>1 DEF capio_fstatat, capio_lstat
  <2> QED
    BY <2>1, <2>2, <2>3
<1> QED
  BY <1>2, <1>3, <1>4, <1>7 DEF faccessat_path, openat_path, capio_mkdirat, target

-----------------------------------------------------------------------------
(* The record of the descriptors.                                          *)

LEMMA PathStart == PathInit => PathInv
<1> SUFFICES ASSUME PathInit PROVE PathInv
  OBVIOUS
<1>1. \A p \in Paths : Prefixes(p) \subseteq Paths
  <2> SUFFICES ASSUME NEW p \in Paths, NEW n \in 0 .. Len(p) PROVE SubSeq(p, 1, n) \in Paths
    BY DEF Prefixes
  <2>1. Len(p) \in Nat
    BY DEF Paths
  <2> QED
    BY <2>1, SubSeqProperties DEF Paths
<1>2. StartDir \cup {CapioDir} \subseteq Paths
  BY PathAssumption DEF Paths
<1> QED
  BY <1>1, <1>2 DEF PathInit, PathInv, PathTypes, Recorded

LEMMA OpenedDirKept ==
  ASSUME PlainNames, PathInv, NEW fd \in DirFd, NEW d \in DirFd \cup {Cwd}, NEW arg \in Argument,
         openat_handler_Dir(fd, d, arg)
  PROVE  PathInv'
<1>1. /\ At(d) /\ Target(d, arg) \in tree
      /\ kdir' = [kdir EXCEPT ![fd] = Target(d, arg)]
      /\ ldir' = [ldir EXCEPT ![fd] = openat_path(d, arg)]
      /\ UNCHANGED <<dirs, regs, cwd, cur, careful>>
  BY DEF openat_handler_Dir, tree
<1>2. Target(d, arg) \in Paths
  BY <1>1, TargetTyped DEF PathInv
<1>3. openat_path(d, arg) \in Paths \cup {None}
  BY <1>1, ComputedTyped DEF openat_path, IfCapio, PathInv
<1>4. PathTypes'
  BY <1>1, <1>2, <1>3 DEF PathInv, PathTypes
<1>5. careful => openat_path(d, arg) \in {Target(d, arg), None}
  BY <1>1, DirectoriesTell DEF Tells
<1>6. Recorded'
  BY <1>1, <1>5 DEF PathInv, PathTypes, Recorded
<1> QED
  BY <1>4, <1>6 DEF PathInv

\* Where a path is after from has been moved to to.
MovedTo(p, from, to) ==
  IF p # None /\ Below(p, from) THEN to \o SubSeq(p, Len(from) + 1, Len(p)) ELSE p

LEMMA MovedTyped ==
  ASSUME NEW p \in Paths \cup {None}, NEW from \in Paths, NEW to \in Paths
  PROVE  /\ MovedTo(p, from, to) \in Paths \cup {None}
         /\ p # None => MovedTo(p, from, to) \in Paths
         /\ MovedTo(from, from, to) = to
         /\ MovedTo(None, from, to) = None
<1>1. ASSUME p # None, Below(p, from) PROVE to \o SubSeq(p, Len(from) + 1, Len(p)) \in Paths
  <2>1. p \in Seq(Name) /\ Len(p) \in Nat /\ Len(from) \in Nat /\ Len(from) <= Len(p)
    BY <1>1 DEF Paths, Below, IsPrefix
  <2>2. SubSeq(p, Len(from) + 1, Len(p)) \in Seq(Name)
    BY <2>1, SubSeqProperties
  <2> QED
    BY <2>2, ConcatProperties DEF Paths
<1>2. MovedTo(from, from, to) = to
  <2>1. from # None /\ from \in Seq(Name) /\ Len(from) \in Nat
    BY PathAssumption DEF Paths
  <2>2. Below(from, from)
    BY <2>1 DEF Below, IsPrefix
  <2>3. SubSeq(from, Len(from) + 1, Len(from)) = <<>>
    BY <2>1, SubSeqEmpty
  <2>4. to \o <<>> = to
    BY ConcatEmptySeq DEF Paths
  <2> QED
    BY <2>1, <2>2, <2>3, <2>4 DEF MovedTo
<1> QED
  BY <1>1, <1>2 DEF MovedTo

\* rename: the descriptors of the directory that moves go with it.
LEMMA RenamedKept ==
  ASSUME PlainNames, PathInv, NEW arg1 \in Argument, NEW arg2 \in Argument,
         rename_handler(arg1, arg2)
  PROVE  PathInv'
<1> DEFINE old == capio_absolute(arg1)
           new == capio_absolute(arg2)
           from == Target(Cwd, arg1)
           to == Target(Cwd, arg2)
<1>1. /\ from \in tree /\ to \notin tree /\ careful' = (careful /\ Careful(from, arg2))
      /\ IF is_capio_path(old)
           THEN ldir' = [fd \in DirFd |-> IF ldir[fd] = old THEN new ELSE ldir[fd]]
           ELSE UNCHANGED ldir
      /\ dirs' = {MovedTo(p, from, to) : p \in dirs} /\ regs' = {MovedTo(p, from, to) : p \in regs}
      /\ cwd' = MovedTo(cwd, from, to) /\ kdir' = [fd \in DirFd |-> MovedTo(kdir[fd], from, to)]
      /\ cur' = cur
  BY DEF rename_handler, rename_capio_path, MovedTo, CanMake
<1>2. from \in Paths /\ to \in Paths /\ from # None /\ to # None
  BY TargetTyped, PathAssumption DEF PathInv, At, Paths
<1>3. old = from
  BY <1>1, TargetTyped DEF capio_absolute, capio_posix_realpath, PathInv, At
<1>4. new \in Paths \cup {None} /\ (arg2.abs \/ cur = cwd => new \in {to, None})
  <2>1. CASE arg2.abs
    BY <1>2, <2>1, TargetTyped DEF capio_absolute, PathInv, At
  <2>2. CASE ~arg2.abs
    <3>1. new = IF is_capio_path(Normal(cur \o arg2.comps)) THEN Normal(cur \o arg2.comps) ELSE None
      BY <1>1, <2>2 DEF capio_absolute, capio_posix_realpath
    <3>2. Normal(cur \o arg2.comps) \in Paths
      BY <2>2, Arguments, JoinTyped DEF PathInv, PathTypes
    <3>3. cur = cwd => to = Normal(cur \o arg2.comps)
      BY <2>2 DEF Target
    <3> QED
      BY <2>2, <3>1, <3>2, <3>3
  <2> QED
    BY <2>1, <2>2
<1> HIDE DEF old, new, from, to
<1>5. PathTypes'
  <2>1. \A p \in Paths \cup {None} : /\ MovedTo(p, from, to) \in Paths \cup {None}
                                     /\ p # None => MovedTo(p, from, to) \in Paths
    BY <1>2, MovedTyped
  <2>2. /\ dirs \subseteq Paths /\ regs \subseteq Paths /\ cwd \in Paths /\ cur \in Paths
        /\ kdir \in [DirFd -> Paths \cup {None}] /\ ldir \in [DirFd -> Paths \cup {None}]
        /\ careful \in BOOLEAN /\ None \notin Paths
    BY PathAssumption DEF PathInv, PathTypes, Paths
  <2>3. dirs' \subseteq Paths /\ regs' \subseteq Paths /\ cwd' \in Paths /\ cur' \in Paths
    BY <1>1, <2>1, <2>2
  <2>4. kdir' \in [DirFd -> Paths \cup {None}] /\ ldir' \in [DirFd -> Paths \cup {None}]
    BY <1>1, <1>4, <2>1, <2>2
  <2>5. careful' \in BOOLEAN
    BY <1>1, <2>2 DEF Careful
  <2> QED
    BY <2>3, <2>4, <2>5 DEF PathTypes
<1>6. ASSUME careful', NEW fd \in DirFd, ldir'[fd] # None PROVE ldir'[fd] = kdir'[fd]
  <2>1. careful /\ Careful(from, arg2)
    BY <1>1, <1>6
  <2>2. /\ kdir'[fd] = MovedTo(kdir[fd], from, to)
        /\ ldir'[fd] \in {ldir[fd], new} /\ (ldir'[fd] # ldir[fd] => ldir[fd] = from)
        /\ ldir[fd] = from /\ is_capio_path(from) => ldir'[fd] = new
    BY <1>1, <1>3 DEF PathInv, PathTypes
  <2>3. ldir[fd] # None /\ ldir[fd] = kdir[fd] /\ kdir[fd] \in Paths
    <3>1. ldir[fd] # None
      BY <1>2, <1>6, <2>2
    <3> QED
      BY <2>1, <3>1 DEF PathInv, PathTypes, Recorded
  <2>4. CASE Below(kdir[fd], from)
    <3>1. /\ kdir[fd] = from /\ is_capio_path(from)
          /\ arg2.abs \/ cur = cwd
      BY <2>1, <2>3, <2>4 DEF Careful
    <3>2. kdir'[fd] = to
      BY <1>2, <2>2, <3>1, MovedTyped
    <3> QED
      BY <1>4, <1>6, <2>2, <2>3, <3>1, <3>2
  <2>5. CASE ~Below(kdir[fd], from)
    <3>1. Below(from, from)
      BY <1>2 DEF Paths, Below, IsPrefix
    <3> QED
      BY <2>2, <2>3, <2>5, <3>1 DEF MovedTo
  <2> QED
    BY <2>4, <2>5
<1> QED
  BY <1>5, <1>6 DEF PathInv, Recorded

LEMMA PathStep == ASSUME PlainNames PROVE PathInv /\ [PathNext]_pathVars => PathInv'
<1> SUFFICES ASSUME PathInv, [PathNext]_pathVars PROVE PathInv'
  OBVIOUS
<1>1. CASE UNCHANGED pathVars
  BY <1>1 DEF pathVars, PathInv, PathTypes, Recorded
<1>2. ASSUME NEW fd \in DirFd, CloseDir(fd) PROVE PathInv'
  BY <1>2 DEF CloseDir, PathInv, PathTypes, Recorded
<1>3. ASSUME NEW arg \in Argument, rmdir_handler(arg) \/ chdir_handler(arg) PROVE PathInv'
  BY <1>3 DEF rmdir_handler, chdir_handler, PathInv, PathTypes, Recorded
<1>4. ASSUME NEW arg \in Argument, NEW d \in DirFd \cup {Cwd},
             openat_handler(d, arg) \/ mkdirat_handler(d, arg) \/ unlinkat_handler(d, arg)
      PROVE  PathInv'
  <2>1. At(d)
    BY <1>4 DEF openat_handler, mkdirat_handler, unlinkat_handler
  <2>2. Target(d, arg) \in Paths
    BY <2>1, TargetTyped DEF PathInv
  <2> QED
    BY <1>4, <2>2 DEF openat_handler, mkdirat_handler, unlinkat_handler, PathInv, PathTypes, Recorded
<1> QED
  BY <1>1, <1>2, <1>3, <1>4, OpenedDirKept, RenamedKept DEF PathNext

-----------------------------------------------------------------------------
(* Theorems about paths.                                                   *)

\* What the library records for the descriptor of a directory is where the
\* kernel has it, through every rename of a careful program.
THEOREM DirectoriesRecorded == ASSUME PlainNames PROVE PathSpec => []PathInv
BY PathStart, PathStep, PTL DEF PathSpec

\* For every tree, every CAPIO_DIR and all names, the handlers tell the server
\* the file the kernel goes to while the working directory is the one the
\* program started in (capio_posix_realpath, compute_abs_path, get_dir_path).
THEOREM PathsTracked == ASSUME PlainNames PROVE PathSpec => []TracksRight
<1>1. PathInv => TracksRight
  <2> SUFFICES ASSUME PathInv PROVE TracksRight
    OBVIOUS
  <2>1. \A arg \in Argument, d \in DirFd \cup {Cwd} : careful /\ cur = cwd /\ At(d) =>
          /\ Right(faccessat_path(d, arg), Target(d, arg))
          /\ Right(capio_fstatat(d, arg), Target(d, arg))
          /\ Right(openat_path(d, arg), Target(d, arg))
          /\ Right(capio_mkdirat(d, arg), Target(d, arg))
    BY DirectoriesTell, TellsRight
  <2>2. PathTypes
    BY DEF PathInv
  <2> QED
    BY <2>1, <2>2, NamesTell DEF TracksRight
<1> QED
  BY <1>1, DirectoriesRecorded, PTL

\* Files that exist, and names relative to a descriptor, are told rightly
\* wherever the program has gone (realpath, get_dir_path).
THEOREM ExistingTracked == ASSUME PlainNames PROVE PathSpec => []TracksExisting
<1>1. PathInv => TracksExisting
  <2> SUFFICES ASSUME PathInv, careful, NEW arg \in Argument, NEW d \in DirFd \cup {Cwd}, At(d),
                      d # Cwd \/ Target(d, arg) \in tree
               PROVE  /\ Right(openat_path(d, arg), Target(d, arg))
                      /\ Right(capio_fstatat(d, arg), Target(d, arg))
                      /\ Right(faccessat_path(d, arg), Target(d, arg))
    BY DEF TracksExisting
  <2> QED
    BY DirectoriesTell, TellsRight
<1> QED
  BY <1>1, DirectoriesRecorded, PTL

\* With AT_FDCWD, and while the working directory is the first one, statx, unlink,
\* open and unlinkat never name another file of CAPIO_DIR than the one the call is
\* on.  (unlinkat with the descriptor of a directory does.)
THEOREM NamesNotMistaken == ASSUME PlainNames PROVE PathSpec => []NeverMisnamed
<1>1. PathInv => NeverMisnamed
  <2> SUFFICES ASSUME PathInv, cur = cwd, NEW arg \in Argument,
                      NEW sent \in {capio_statx(arg), unlink_path(arg), open_path(arg), unlinkat_path(arg)},
                      InCapioDir(sent)
               PROVE  sent = Target(Cwd, arg)
    BY DEF NeverMisnamed
  <2>1. Target(Cwd, arg) \in Paths /\ (arg.abs => Target(Cwd, arg) = arg.comps)
    BY TargetTyped DEF PathInv, At
  <2>2. sent # None
    BY DEF InCapioDir
  <2>3. IfCapio(None) = None
    BY DEF IfCapio
  <2>4. CASE sent \in {capio_statx(arg), unlink_path(arg)}
    BY <2>1, <2>2, <2>4 DEF capio_statx, unlink_path, IfCapio
  <2>5. CASE sent = open_path(arg)
    <3>1. CASE arg.abs
      BY <2>1, <2>2, <2>5, <3>1 DEF open_path, compute_abs_path, IfCapio
    <3>2. CASE ~arg.abs
      BY <2>2, <2>3, <2>5, <3>2, PathAssumption DEF open_path, compute_abs_path, get_dir_path
    <3> QED
      BY <3>1, <3>2
  <2>6. CASE sent = unlinkat_path(arg)
    <3>1. Tells(capio_posix_realpath(arg), Target(Cwd, arg))
      BY RealpathTells DEF PathInv
    <3> QED
      BY <2>2, <2>3, <2>6, <3>1 DEF unlinkat_path, IfCapio, Tells
  <2> QED
    BY <2>4, <2>5, <2>6
<1> QED
  BY <1>1, DirectoriesRecorded, PTL

=============================================================================
