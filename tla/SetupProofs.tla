---------------------------- MODULE SetupProofs ----------------------------
(***************************************************************************)
(* Processes that construct the queue after the server has disturb nobody, *)
(* for any number of processes and any capacity.                           *)
(***************************************************************************)
EXTENDS QueueSetup, SequenceTheorems, TLAPS

Message == Proc \X Nat

Places == {"start", "first", "last", "look", "stat", "reset_first", "reset_last", "create",
           "truncate", "ready", "failed"}

\* Types of what the constructor does not make.
Typed ==
  /\ buf \in [0 .. Capacity - 1 -> Message \cup {None}]
  /\ pc \in [Proc -> Places] /\ writes \in [Proc -> Nat]
  /\ sent \in Seq(Message) /\ rcvd \in Seq(Message)

\* Until the server has its queue it is alone, and each object is there, empty,
\* as soon as the server has passed the step that makes it.
Building ==
  /\ \A p \in Proc \ {Reader} : pc[p] = "start"
  /\ pc[Reader] \notin {"stat", "failed"}
  /\ sent = <<>> /\ rcvd = <<>>
  /\ semElems = IF pc[Reader] = "start" THEN None ELSE 0
  /\ semEmpty = IF pc[Reader] = "start" THEN None ELSE Capacity
  /\ first = IF pc[Reader] \in {"start", "first"} THEN None ELSE 0
  /\ last = IF pc[Reader] \in {"start", "first", "last"} THEN None ELSE 0
  /\ size = IF pc[Reader] = "truncate" THEN 0 ELSE None

\* The i-th slot after the one that is read next.
Slot(i) == IF first + i < Capacity THEN first + i ELSE first + i - Capacity

\* The messages written and not yet read.
Unread == Len(sent) - Len(rcvd)

\* Afterwards the others find the buffer and only attach to it, and indices,
\* semaphores and slots say what was written and not yet read.
Working ==
  /\ size = Capacity
  /\ \A p \in Proc : pc[p] \in {"start", "first", "last", "look", "stat", "ready"}
  /\ first \in 0 .. Capacity - 1 /\ last \in 0 .. Capacity - 1
  /\ Unread \in 0 .. Capacity /\ semElems = Unread /\ semEmpty = Capacity - Unread
  /\ last = Slot(Unread)
  /\ \A i \in 0 .. Unread - 1 : buf[Slot(i)] = sent[Len(rcvd) + 1 + i]
  /\ \A i \in 1 .. Len(rcvd) : rcvd[i] = sent[i]

\* The inductive invariant.
SetupInv == Typed /\ (IF pc[Reader] = "ready" THEN Working ELSE Building)

-----------------------------------------------------------------------------

\* An index that leaves the last slot comes back to the first.
LEMMA NextSlot ==
  ASSUME NEW i \in 0 .. Capacity - 1
  PROVE  (i + 1) % Capacity = IF i + 1 = Capacity THEN 0 ELSE i + 1
<1>1. CASE i + 1 = Capacity
  BY <1>1, SetupAssumption
<1>2. CASE i + 1 < Capacity
  BY <1>2, SetupAssumption
<1> QED
  BY <1>1, <1>2, SetupAssumption

\* Before the first process starts.
LEMMA InitSetupInv == Init => SetupInv
<1> SUFFICES ASSUME Init PROVE SetupInv
  OBVIOUS
<1>1. Typed
  BY SetupAssumption DEF Init, Typed, Places
<1>2. Building /\ pc[Reader] # "ready"
  BY SetupAssumption DEF Init, Building
<1> QED
  BY <1>1, <1>2 DEF SetupInv

\* The constructor touches neither the slots nor what was written and read.
LEMMA ConstructTyped ==
  ASSUME Typed, NEW p \in Proc, Construct(p)
  PROVE  Typed' /\ UNCHANGED <<buf, writes, sent, rcvd>> /\ \E l \in Places : Goto(p, l)
<1>1. UNCHANGED <<buf, writes, sent, rcvd>> /\ \E l \in Places : Goto(p, l)
  BY DEF Construct, Places, NamedSemaphore, create_shm_first, create_shm_last,
         get_shm_if_exist_Open, get_shm_if_exist_Map, Queue_ResetFirst, Queue_ResetLast,
         create_shm_Open, create_shm_Truncate
<1>2. pc' \in [Proc -> Places]
  BY <1>1 DEF Typed, Goto
<1> QED
  BY <1>1, <1>2 DEF Typed

\* While the server constructs the queue nobody else can start, and it ends
\* with an empty queue.
LEMMA ServerBuilds ==
  ASSUME ServerFirst, Typed, Building, pc[Reader] # "ready", NEW p \in Proc, Construct(p)
  PROVE  IF pc'[Reader] = "ready" THEN Working' ELSE Building'
<1>1. p = Reader
  BY DEF Building, Construct, NamedSemaphore, create_shm_first, create_shm_last,
         get_shm_if_exist_Open, get_shm_if_exist_Map, Queue_ResetFirst, Queue_ResetLast,
         create_shm_Open, create_shm_Truncate
<1>2. UNCHANGED <<buf, writes, sent, rcvd>>
  BY ConstructTyped
<1>3. ASSUME NEW l, Goto(Reader, l)
      PROVE  pc'[Reader] = l /\ \A o \in Proc \ {Reader} : pc'[o] = "start"
  BY <1>3, SetupAssumption DEF Typed, Goto, Building
<1> USE SetupAssumption
<1>4. CASE NamedSemaphore(Reader)
  BY <1>2, <1>3, <1>4 DEF NamedSemaphore, Building
<1>5. CASE create_shm_first(Reader)
  BY <1>2, <1>3, <1>5 DEF create_shm_first, Building
<1>6. CASE create_shm_last(Reader)
  BY <1>2, <1>3, <1>6 DEF create_shm_last, Building
<1>7. CASE get_shm_if_exist_Open(Reader)
  BY <1>2, <1>3, <1>7 DEF get_shm_if_exist_Open, Building
<1>8. CASE get_shm_if_exist_Map(Reader)
  BY <1>8 DEF get_shm_if_exist_Map, Building
<1>9. CASE Queue_ResetFirst(Reader)
  BY <1>2, <1>3, <1>9 DEF Queue_ResetFirst, Building
<1>10. CASE Queue_ResetLast(Reader)
  BY <1>2, <1>3, <1>10 DEF Queue_ResetLast, Building
<1>11. CASE create_shm_Open(Reader)
  <2>1. size' = 0 /\ pc'[Reader] = "truncate" /\ \A o \in Proc \ {Reader} : pc'[o] = "start"
    BY <1>3, <1>11 DEF create_shm_Open, Building
  <2> QED
    BY <1>2, <1>11, <2>1 DEF create_shm_Open, Building
<1>12. CASE create_shm_Truncate(Reader)
  <2>1. /\ pc'[Reader] = "ready" /\ \A o \in Proc \ {Reader} : pc'[o] = "start"
        /\ size' = Capacity /\ first' = 0 /\ last' = 0
        /\ semElems' = 0 /\ semEmpty' = Capacity
    BY <1>3, <1>12 DEF create_shm_Truncate, Building
  <2>2. Len(sent') = 0 /\ Len(rcvd') = 0
    BY <1>2 DEF Building
  <2> QED
    BY <2>1, <2>2 DEF Working, Unread, Slot
<1> QED
  BY <1>1, <1>4, <1>5, <1>6, <1>7, <1>8, <1>9, <1>10, <1>11, <1>12 DEF Construct

\* Whoever constructs it later finds every object there, and changes none.
LEMMA OthersAttach ==
  ASSUME Typed, Working, pc[Reader] = "ready", NEW p \in Proc, Construct(p)
  PROVE  Working' /\ pc'[Reader] = "ready"
<1>1. p # Reader
  BY DEF Construct, NamedSemaphore, create_shm_first, create_shm_last,
         get_shm_if_exist_Open, get_shm_if_exist_Map, Queue_ResetFirst, Queue_ResetLast,
         create_shm_Open, create_shm_Truncate
<1>2. /\ UNCHANGED <<semElems, semEmpty, first, last, size>>
      /\ \E l \in {"first", "last", "look", "stat", "ready"} : Goto(p, l)
  <2>1. /\ semElems # None /\ semEmpty # None /\ first # None /\ last # None
        /\ size # None /\ size # 0
        /\ pc[p] \notin {"reset_first", "reset_last", "create", "truncate"}
    BY SetupAssumption DEF Working
  <2> QED
    BY <2>1 DEF Construct, NamedSemaphore, create_shm_first, create_shm_last,
           get_shm_if_exist_Open, get_shm_if_exist_Map, Queue_ResetFirst, Queue_ResetLast,
           create_shm_Open, create_shm_Truncate
<1>3. UNCHANGED <<buf, writes, sent, rcvd>>
  BY ConstructTyped
<1>4. /\ pc'[Reader] = "ready"
      /\ \A o \in Proc : pc'[o] \in {"start", "first", "last", "look", "stat", "ready"}
  BY <1>1, <1>2, SetupAssumption DEF Working, Goto, Typed
<1> QED
  BY <1>2, <1>3, <1>4 DEF Working, Unread, Slot

\* write puts its message behind the others, in a slot none of them is in.
LEMMA WriteKeeps ==
  ASSUME Typed, Working, NEW p \in Proc, write(p)
  PROVE  Typed' /\ Working'
<1> DEFINE m == <<p, writes[p]>>
           n == Len(sent) - Len(rcvd)
<1>1. m \in Message /\ writes' \in [Proc -> Nat]
  BY DEF Typed, write, Message
<1>2. /\ sent' \in Seq(Message) /\ Len(sent') = Len(sent) + 1 /\ sent'[Len(sent) + 1] = m
      /\ \A i \in 1 .. Len(sent) : sent'[i] = sent[i]
  BY <1>1 DEF Typed, write
<1>3. /\ n \in 0 .. Capacity - 1 /\ semElems = n /\ semEmpty = Capacity - n
      /\ Len(sent) \in Nat /\ Len(rcvd) \in Nat /\ Capacity \in Nat \ {0}
      /\ first \in 0 .. Capacity - 1 /\ last = Slot(n) /\ last \in 0 .. Capacity - 1
  BY SetupAssumption DEF Typed, Working, Unread, write
<1>4. /\ buf' = [buf EXCEPT ![last] = m] /\ last' = (last + 1) % Capacity /\ rcvd' = rcvd
      /\ semEmpty' = semEmpty - 1 /\ semElems' = semElems + 1 /\ UNCHANGED <<first, size, pc>>
  BY DEF write
<1> HIDE DEF m
<1>5. Typed'
  BY <1>1, <1>2, <1>3, <1>4 DEF Typed, write
<1>6. Unread' = n + 1
  BY <1>2, <1>3, <1>4 DEF Unread
<1> HIDE DEF n
<1>7. last' = IF last + 1 = Capacity THEN 0 ELSE last + 1
  BY <1>3, <1>4, NextSlot
<1>8. last' = Slot(n + 1) /\ last' \in 0 .. Capacity - 1
  BY <1>3, <1>7 DEF Slot
<1>9. ASSUME NEW i \in 0 .. n PROVE buf'[Slot(i)] = sent'[Len(rcvd) + 1 + i]
  <2>1. CASE i = n
    <3>1. Len(rcvd) + 1 + i = Len(sent) + 1
      BY <1>3, <2>1 DEF n
    <3>2. buf'[Slot(i)] = m
      BY <1>3, <1>4, <2>1 DEF Typed
    <3> QED
      BY <1>2, <3>1, <3>2
  <2>2. CASE i # n
    <3>1. i \in 0 .. n - 1 /\ Len(rcvd) + 1 + i \in 1 .. Len(sent)
      BY <1>3, <2>2 DEF n
    <3>2. Slot(i) # last /\ Slot(i) \in 0 .. Capacity - 1
      BY <1>3, <3>1 DEF Slot
    <3>3. buf[Slot(i)] = sent[Len(rcvd) + 1 + i]
      BY <3>1 DEF Working, Unread, n
    <3> QED
      BY <1>2, <1>4, <3>1, <3>2, <3>3 DEF Typed
  <2> QED
    BY <2>1, <2>2
<1>10. \A i \in 1 .. Len(rcvd) : rcvd[i] = sent'[i]
  <2>1. \A i \in 1 .. Len(rcvd) : i \in 1 .. Len(sent) /\ rcvd[i] = sent[i]
    BY <1>3 DEF Working, n
  <2> QED
    BY <1>2, <2>1
<1>11. /\ (n + 1) \in 0 .. Capacity /\ semElems' = n + 1 /\ semEmpty' = Capacity - (n + 1)
       /\ 0 .. (n + 1) - 1 = 0 .. n
  BY <1>3, <1>4
<1>12. \A i : Slot(i)' = Slot(i)
  BY <1>4 DEF Slot
<1> QED
  BY <1>3, <1>4, <1>5, <1>6, <1>8, <1>9, <1>10, <1>11, <1>12 DEF Working

\* read takes the oldest message.
LEMMA ReadKeeps ==
  ASSUME Typed, Working, read
  PROVE  Typed' /\ Working'
<1> DEFINE n == Len(sent) - Len(rcvd)
<1>1. /\ n \in 1 .. Capacity /\ semElems = n /\ semEmpty = Capacity - n
      /\ Len(sent) \in Nat /\ Len(rcvd) \in Nat /\ Capacity \in Nat \ {0}
      /\ first \in 0 .. Capacity - 1 /\ last = Slot(n) /\ last \in 0 .. Capacity - 1
  BY SetupAssumption DEF Typed, Working, Unread, read
<1>2. /\ rcvd' = Append(rcvd, buf[first]) /\ first' = (first + 1) % Capacity
      /\ semElems' = semElems - 1 /\ semEmpty' = semEmpty + 1
      /\ UNCHANGED <<last, size, buf, pc, writes, sent>>
  BY DEF read
<1>3. buf[first] = sent[Len(rcvd) + 1] /\ sent[Len(rcvd) + 1] \in Message
  <2>1. 0 \in 0 .. Unread - 1 /\ Slot(0) = first /\ Len(rcvd) + 1 + 0 = Len(rcvd) + 1
        /\ Len(rcvd) + 1 \in 1 .. Len(sent)
    BY <1>1 DEF Unread, Slot
  <2> QED
    BY <2>1, ElementOfSeq DEF Working, Typed
<1>4. /\ rcvd' \in Seq(Message) /\ Len(rcvd') = Len(rcvd) + 1 /\ rcvd'[Len(rcvd) + 1] = buf[first]
      /\ \A i \in 1 .. Len(rcvd) : rcvd'[i] = rcvd[i]
  BY <1>2, <1>3 DEF Typed
<1>5. Typed'
  BY <1>2, <1>4 DEF Typed
<1>6. Unread' = n - 1
  BY <1>1, <1>2, <1>4 DEF Unread
<1> HIDE DEF n
<1>7. first' = IF first + 1 = Capacity THEN 0 ELSE first + 1
  BY <1>1, <1>2, NextSlot
<1>8. \A i \in 0 .. Capacity - 1 : Slot(i)' = Slot(i + 1)
  BY <1>1, <1>7 DEF Slot
<1>9. ASSUME NEW i \in 0 .. (n - 1) - 1 PROVE buf'[Slot(i)'] = sent'[Len(rcvd') + 1 + i]
  <2>1. i + 1 \in 0 .. Unread - 1 /\ i \in 0 .. Capacity - 1
        /\ Len(rcvd) + 1 + (i + 1) = Len(rcvd') + 1 + i
    BY <1>1, <1>4 DEF n, Unread
  <2> QED
    BY <1>2, <1>8, <2>1 DEF Working
<1>10. ASSUME NEW i \in 1 .. Len(rcvd') PROVE rcvd'[i] = sent'[i]
  <2>1. CASE i = Len(rcvd) + 1
    BY <1>2, <1>3, <1>4, <2>1
  <2>2. CASE i # Len(rcvd) + 1
    <3>1. i \in 1 .. Len(rcvd)
      BY <1>1, <1>4, <2>2
    <3> QED
      BY <1>2, <1>4, <3>1 DEF Working
  <2> QED
    BY <2>1, <2>2
<1>11. /\ n - 1 \in 0 .. Capacity /\ semElems' = n - 1 /\ semEmpty' = Capacity - (n - 1)
       /\ n - 1 \in 0 .. Capacity - 1 /\ (n - 1) + 1 = n /\ first' \in 0 .. Capacity - 1
  BY <1>1, <1>2, <1>7
<1>12. last' = IF first' + (n - 1) < Capacity THEN first' + (n - 1)
               ELSE first' + (n - 1) - Capacity
  <2>1. last' = IF first + n < Capacity THEN first + n ELSE first + n - Capacity
    BY <1>1, <1>2 DEF Slot
  <2>2. CASE first + 1 = Capacity
    BY <1>1, <1>7, <2>1, <2>2
  <2>3. CASE first + 1 # Capacity
    BY <1>1, <1>7, <2>1, <2>3
  <2> QED
    BY <2>2, <2>3
<1>13. /\ size' = Capacity
       /\ \A p \in Proc : pc'[p] \in {"start", "first", "last", "look", "stat", "ready"}
  BY <1>2 DEF Working
<1>14. Working'
  <2>1. /\ Unread' \in 0 .. Capacity /\ semElems' = Unread' /\ semEmpty' = Capacity - Unread'
        /\ last' = Slot(Unread)' /\ last' \in 0 .. Capacity - 1
    BY <1>1, <1>2, <1>6, <1>11, <1>12 DEF Slot
  <2>2. \A i \in 0 .. Unread' - 1 : buf'[Slot(i)'] = sent'[Len(rcvd') + 1 + i]
    BY <1>6, <1>9
  <2> QED
    BY <1>10, <1>11, <1>13, <2>1, <2>2 DEF Working
<1> QED
  BY <1>5, <1>14

\* What the invariant says of the messages.
LEMMA InvNothingLost == SetupInv => NothingLost
<1> SUFFICES ASSUME SetupInv PROVE NothingLost
  OBVIOUS
<1>1. rcvd \in Seq(Message) /\ sent \in Seq(Message)
  BY DEF SetupInv, Typed
<1>2. CASE pc[Reader] # "ready"
  BY <1>2 DEF SetupInv, Building, NothingLost, IsPrefix
<1>3. CASE pc[Reader] = "ready"
  <2>1. /\ Len(rcvd) <= Len(sent) /\ semElems = Len(sent) - Len(rcvd)
        /\ \A i \in 1 .. Len(rcvd) : rcvd[i] = sent[i]
        /\ Len(rcvd) \in Nat /\ Len(sent) \in Nat
    BY <1>1, <1>3, SetupAssumption DEF SetupInv, Working, Unread
  <2>2. SubSeq(rcvd, 1, Len(rcvd)) = SubSeq(sent, 1, Len(rcvd))
    BY <1>1, <2>1
  <2>3. ASSUME semElems = 0 PROVE rcvd = sent
    <3>1. Len(rcvd) = Len(sent)
      BY <2>1, <2>3
    <3> QED
      BY <1>1, <2>1, <3>1, SeqEqual
  <2> QED
    BY <2>1, <2>2, <2>3 DEF NothingLost, IsPrefix
<1> QED
  BY <1>2, <1>3

\* When the server has constructed the queue before the others start, as it does
\* in capio_server.cpp, no message is lost, doubled or out of order, whoever
\* constructs the queue while others write and read it.
THEOREM SetupNothingLost ==
  ASSUME ServerFirst
  PROVE  Spec => []NothingLost
<1>1. Init => SetupInv
  BY InitSetupInv
<1>2. SetupInv /\ [Next]_vars => SetupInv'
  <2> SUFFICES ASSUME SetupInv, [Next]_vars PROVE SetupInv'
    OBVIOUS
  <2>1. CASE UNCHANGED vars
    BY <2>1 DEF vars, SetupInv, Typed, Working, Building, Unread, Slot
  <2>2. ASSUME NEW p \in Proc, Construct(p) PROVE SetupInv'
    BY <2>2, ServerBuilds, OthersAttach, ConstructTyped DEF SetupInv
  <2>3. ASSUME NEW p \in Proc, write(p) PROVE SetupInv'
    <3>1. pc[Reader] = "ready" /\ pc' = pc
      BY <2>3 DEF write, SetupInv, Building
    <3> QED
      BY <2>3, <3>1, WriteKeeps DEF SetupInv
  <2>4. CASE read
    <3>1. pc[Reader] = "ready" /\ pc' = pc
      BY <2>4 DEF read
    <3> QED
      BY <2>4, <3>1, ReadKeeps DEF SetupInv
  <2> QED
    BY <2>1, <2>2, <2>3, <2>4 DEF Next
<1> QED
  BY <1>1, <1>2, InvNothingLost, PTL DEF Spec

=============================================================================
