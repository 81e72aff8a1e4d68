---------------------------- MODULE CapioCLProofs ----------------------------
(***************************************************************************)
(* Proofs about the table of CapioCLEngine, for every document and every   *)
(* sequence of files created at run time.                                  *)
(***************************************************************************)
EXTENDS CapioCL, SequenceTheorems, WellFoundedInduction, TLAPS

\* An entry of the table.
Row ==
  [producers : SUBSET {Trimmed[a] : a \in App}, consumers : SUBSET {Trimmed[a] : a \in App},
   commit : Rules, fire : {"update", "no_update"},
   permanent : BOOLEAN, exclude : BOOLEAN, file : BOOLEAN,
   number : Int \cup {setCommitedNumber(e.number) : e \in Entry},
   files : Int, deps : SUBSET Text]

\* The table maps keys to entries; an application is being read in its sections.
TableOK ==
  /\ DOMAIN loc \subseteq Text
  /\ loc \in [DOMAIN loc -> Row]
  /\ rule \in [Text -> Entry \cup {None}]
  /\ sec \in {"input", "output"} => app \in App
  /\ streams \subseteq App \X Text

\* What a streaming entry e has made of the entry for its name.
Follows(r, e) ==
  /\ r.commit = e.rule /\ r.fire = ModeOf(e) /\ r.number = NumberOf(e)
  /\ r.deps = DepsOf(e) /\ r.file = ~e.dir

\* The last streaming entry for each key is in force, as the setters store it;
\* it was well formed, and its number is one.
Ruled ==
  \A k \in Text : rule[k] # None =>
    /\ k \in DOMAIN loc /\ Follows(loc[k], rule[k])
    /\ rule[k].number \in Int \cup {None}

\* Every output stream and every created file has its producer.
Produced == \A s \in streams : s[2] \in DOMAIN loc /\ Trimmed[s[1]] \in loc[s[2]].producers

\* What a stream section names has an entry.
NamedKnown == named \subseteq DOMAIN loc

TableInv == TableOK /\ Ruled /\ Produced /\ NamedKnown

\* No close count changes when it becomes an int.
CountsFit == \A e \in Entry : e.number \in Int => setCommitedNumber(e.number) = e.number

-----------------------------------------------------------------------------
(* What the operations of the engine change.                               *)

\* The keys that occur are keys.
LEMMA Keys ==
  /\ \A i \in Item : i.text \in Text /\ i.file \in Text /\ i.path \in Text
  /\ Created \subseteq Text /\ CapioDir \in Text
  /\ \A e \in Entry : ~Malformed(e) => DepsOf(e) \subseteq Text
<1>1. \A i \in Item : i.text \in Text /\ i.file \in Text /\ i.path \in Text
  BY DEF Text
<1>2. Created \subseteq Text /\ CapioDir \in Text
  BY DEF Text
<1>3. \A e \in Entry : ~Malformed(e) => DepsOf(e) \subseteq Text
  BY <1>1, ConfigurationAssumption DEF DepsOf, Malformed
<1> QED
  BY <1>1, <1>2, <1>3

\* A table another is an extension of: it has its entries, with the same
\* rules and at least the same producers; what is new are files.
Extends(M, L) ==
  /\ DOMAIN L \subseteq DOMAIN M
  /\ \A k \in DOMAIN L :
       /\ M[k].commit = L[k].commit /\ M[k].fire = L[k].fire /\ M[k].number = L[k].number
       /\ M[k].deps = L[k].deps /\ M[k].file = L[k].file
       /\ L[k].producers \subseteq M[k].producers
  /\ \A k \in DOMAIN M \ DOMAIN L : M[k].file

IsTable(L) == DOMAIN L \subseteq Text /\ L \in [DOMAIN L -> Row]

\* The directory entry a new one inherits from is in the table.
LEMMA InheritsFrom ==
  ASSUME NEW L, NEW k, NEW d \in Inherits(L, k)
  PROVE  d = None \/ d \in DOMAIN L
BY DEF Inherits, Lpm

\* newFile makes one entry more, if any.
LEMMA NewFile ==
  ASSUME NEW L, IsTable(L), NEW k \in Text, NEW d \in Inherits(L, k)
  PROVE  /\ IsTable(newFile(L, k, d)) /\ Extends(newFile(L, k, d), L)
         /\ DOMAIN newFile(L, k, d) = DOMAIN L \cup {k}
<1>1. Inheriting(L, d) \in Row /\ Inheriting(L, d).file
  BY InheritsFrom DEF Inheriting, NewEntry, Row, Rules, IsTable
<1>2. DOMAIN newFile(L, k, d) = DOMAIN L \cup {k}
  BY DEF newFile
<1>3. \A x \in DOMAIN newFile(L, k, d) :
        newFile(L, k, d)[x] = IF x \in DOMAIN L THEN L[x] ELSE Inheriting(L, d)
  BY DEF newFile
<1>4. newFile(L, k, d) \in [DOMAIN newFile(L, k, d) -> Row]
  BY <1>1, <1>2 DEF newFile, IsTable
<1> QED
  BY <1>1, <1>2, <1>3, <1>4 DEF IsTable, Extends

\* addProducer makes the entry and adds to it.
LEMMA AddProducer ==
  ASSUME NEW L, IsTable(L), NEW k \in Text, NEW d \in Inherits(L, k), NEW a \in App
  PROVE  /\ IsTable(addProducer(L, k, a, d)) /\ Extends(addProducer(L, k, a, d), L)
         /\ DOMAIN addProducer(L, k, a, d) = DOMAIN L \cup {k}
         /\ Trimmed[a] \in addProducer(L, k, a, d)[k].producers
<1> DEFINE M == newFile(L, k, d)
           P == addProducer(L, k, a, d)
<1>1. IsTable(M) /\ Extends(M, L) /\ DOMAIN M = DOMAIN L \cup {k}
  BY NewFile
<1>2. P = [M EXCEPT ![k].producers = @ \cup {Trimmed[a]}]
  BY DEF addProducer
<1> HIDE DEF M, P
<1>3. DOMAIN P = DOMAIN M /\ M[k] \in Row
  BY <1>1, <1>2 DEF IsTable
<1>4. P[k] = [M[k] EXCEPT !.producers = @ \cup {Trimmed[a]}]
  BY <1>1, <1>2 DEF IsTable
<1>5. /\ P[k] \in Row /\ P[k].producers = M[k].producers \cup {Trimmed[a]}
      /\ P[k].commit = M[k].commit /\ P[k].fire = M[k].fire /\ P[k].number = M[k].number
      /\ P[k].deps = M[k].deps /\ P[k].file = M[k].file
  BY <1>3, <1>4 DEF Row
<1>6. \A x \in DOMAIN M \ {k} : P[x] = M[x]
  BY <1>1, <1>2 DEF IsTable
<1>7. IsTable(P)
  <2>1. \A x \in DOMAIN P : P[x] \in Row
    BY <1>1, <1>3, <1>5, <1>6 DEF IsTable
  <2>2. P = [x \in DOMAIN P |-> P[x]]
    BY <1>1, <1>2 DEF IsTable
  <2> QED
    BY <1>1, <1>3, <2>1, <2>2 DEF IsTable
<1>8. Extends(P, L)
  BY <1>1, <1>3, <1>5, <1>6 DEF Extends
<1> QED
  BY <1>1, <1>3, <1>5, <1>7, <1>8 DEF P

\* addConsumer changes nothing but the consumers.
LEMMA AddConsumer ==
  ASSUME NEW L, IsTable(L), NEW k \in Text, NEW a \in App
  PROVE  /\ IsTable(addConsumer(L, k, a)) /\ Extends(addConsumer(L, k, a), L)
         /\ DOMAIN addConsumer(L, k, a) = DOMAIN L
<1> DEFINE P == addConsumer(L, k, a)
<1>1. CASE k \notin DOMAIN L
  BY <1>1 DEF addConsumer, Extends
<1>2. CASE k \in DOMAIN L
  <2>1. P = [L EXCEPT ![k].consumers = @ \cup {Trimmed[a]}]
    BY <1>2 DEF addConsumer
  <2> HIDE DEF P
  <2>2. DOMAIN P = DOMAIN L /\ L[k] \in Row
    BY <1>2, <2>1 DEF IsTable
  <2>3. P[k] = [L[k] EXCEPT !.consumers = @ \cup {Trimmed[a]}]
    BY <1>2, <2>1 DEF IsTable
  <2>4. /\ P[k] \in Row /\ P[k].producers = L[k].producers
        /\ P[k].commit = L[k].commit /\ P[k].fire = L[k].fire /\ P[k].number = L[k].number
        /\ P[k].deps = L[k].deps /\ P[k].file = L[k].file
    BY <2>2, <2>3 DEF Row
  <2>5. \A x \in DOMAIN L \ {k} : P[x] = L[x]
    BY <2>1 DEF IsTable
  <2>6. P \in [DOMAIN L -> Row]
    BY <2>1, <2>2, <2>4, <2>5 DEF IsTable
  <2>7. IsTable(P)
    BY <2>2, <2>6 DEF IsTable
  <2>8. Extends(P, L)
    BY <2>2, <2>4, <2>5 DEF Extends
  <2> QED
    BY <2>2, <2>7, <2>8 DEF P
<1> QED
  BY <1>1, <1>2

\* Extensions of extensions.
LEMMA ExtendsTwice ==
  ASSUME NEW L, NEW M, NEW N, Extends(M, L), Extends(N, M)
  PROVE  Extends(N, L)
BY DEF Extends

\* The setters change the one entry the streaming entry names.
LEMMA StreamedRow ==
  ASSUME IsTable(loc), NEW e \in Entry, ~Malformed(e), e.number # Huge, e.name.path \in DOMAIN loc
  PROVE  /\ IsTable(Streamed(e)) /\ DOMAIN Streamed(e) = DOMAIN loc
         /\ \A x \in DOMAIN loc \ {e.name.path} : Streamed(e)[x] = loc[x]
         /\ Follows(Streamed(e)[e.name.path], e)
         /\ Streamed(e)[e.name.path].producers = loc[e.name.path].producers
<1> DEFINE k == e.name.path
           N == NumberOf(e)
           D == DepsOf(e)
           M == ModeOf(e)
           F == IF e.files = None THEN loc[k].files ELSE e.files
           S == Streamed(e)
<1>1. /\ e.rule \in Rules /\ e.dir \in BOOLEAN /\ D \subseteq Text /\ M \in {"update", "no_update"}
      /\ N \in Int \cup {setCommitedNumber(g.number) : g \in Entry}
  BY Keys, ConfigurationAssumption DEF Malformed, ModeOf, NumberOf
<1>2. loc[k] \in Row /\ loc \in [DOMAIN loc -> Row]
  BY DEF IsTable
<1>3. F \in Int
  BY <1>2, ConfigurationAssumption DEF Row
<1> DEFINE R == [loc[k] EXCEPT !.files = F, !.file = ~e.dir, !.commit = e.rule,
                               !.fire = M, !.number = N, !.deps = D]
<1>4. S = [loc EXCEPT ![k] = R]
  BY <1>2 DEF Streamed, Row
<1> HIDE DEF S, N, D, M, F, k
<1>5. /\ R \in Row /\ R.commit = e.rule /\ R.fire = M /\ R.number = N /\ R.deps = D
      /\ R.file = ~e.dir /\ R.producers = loc[k].producers
  BY <1>1, <1>2, <1>3 DEF Row
<1> HIDE DEF R
<1>6. S \in [DOMAIN loc -> Row] /\ DOMAIN S = DOMAIN loc /\ S[k] = R
  BY <1>2, <1>4, <1>5 DEF k
<1>7. \A x \in DOMAIN loc \ {k} : S[x] = loc[x]
  BY <1>2, <1>4
<1> QED
  BY <1>5, <1>6, <1>7 DEF S, N, D, M, k, Follows, IsTable

-----------------------------------------------------------------------------
(* The invariant.                                                          *)

\* A step that extends the table, and leaves the streaming rules alone.
LEMMA ExtendingKeeps ==
  ASSUME TableInv, IsTable(loc'), Extends(loc', loc), rule' = rule,
         sec' \in {"input", "output"} => app' \in App,
         streams' \subseteq App \X Text, Produced', NamedKnown'
  PROVE  TableInv'
<1>1. TableOK'
  BY DEF TableInv, TableOK, IsTable
<1>2. ASSUME NEW k \in Text, rule'[k] # None
      PROVE  k \in DOMAIN loc' /\ Follows(loc'[k], rule'[k]) /\ rule'[k].number \in Int \cup {None}
  <2>1. k \in DOMAIN loc /\ Follows(loc[k], rule[k]) /\ rule[k].number \in Int \cup {None}
    BY <1>2 DEF TableInv, Ruled
  <2>2. k \in DOMAIN loc' /\ Follows(loc'[k], rule[k])
    BY <2>1 DEF Extends, Follows
  <2> QED
    BY <2>1, <2>2
<1> QED
  BY <1>1, <1>2 DEF TableInv, Ruled

\* What was produced is produced in an extension.
LEMMA ProducedStill ==
  ASSUME Produced, NEW M, Extends(M, loc)
  PROVE  \A s \in streams : s[2] \in DOMAIN M /\ Trimmed[s[1]] \in M[s[2]].producers
BY DEF Produced, Extends

LEMMA InitTable == Init => TableInv
<1> SUFFICES ASSUME Init PROVE TableInv
  OBVIOUS
<1>1. NewEntry("on_termination", "update") \in Row
  BY DEF NewEntry, Row, Rules
<1>2. DOMAIN loc = {CapioDir} /\ loc \in [DOMAIN loc -> Row]
  BY <1>1 DEF Init
<1>3. TableOK
  BY <1>2, Keys DEF Init, TableOK
<1> QED
  BY <1>2, <1>3 DEF Init, TableInv, Ruled, Produced, NamedKnown

\* Steps that change no part the invariant speaks of.
LEMMA StillKeeps ==
  ASSUME TableInv, UNCHANGED <<loc, rule, streams, named>>,
         sec' \in {"input", "output"} => app' \in App
  PROVE  TableInv'
BY DEF TableInv, TableOK, Ruled, Follows, ModeOf, NumberOf, DepsOf, Produced, NamedKnown

LEMMA EndKeeps ==
  ASSUME TableInv, NEW how \in {"exited", "threw", "serving"}, End(how)
  PROVE  TableInv'
BY StillKeeps DEF End

LEMMA InputKeeps ==
  ASSUME TableInv, NEW i \in Item, parse_InputStream(i)
  PROVE  TableInv'
<1>1. CASE Accepted(i) /\ newFileThrows(loc, i.file)
  BY <1>1, EndKeeps DEF parse_InputStream
<1>2. CASE ~Accepted(i)
  BY <1>2, StillKeeps DEF parse_InputStream, Named, TableInv, TableOK
<1>3. CASE Accepted(i) /\ ~newFileThrows(loc, i.file)
  <2>1. PICK d \in Inherits(loc, i.file) : loc' = addConsumer(newFile(loc, i.file, d), i.file, app)
    BY <1>3 DEF parse_InputStream
  <2>2. /\ i.file \in Text /\ app \in App /\ IsTable(loc)
        /\ UNCHANGED <<sec, app, rule, streams>> /\ named' = named \cup {i.file}
    BY <1>3, Keys DEF parse_InputStream, Named, TableInv, TableOK, IsTable
  <2> DEFINE M == newFile(loc, i.file, d)
  <2>3. IsTable(M) /\ Extends(M, loc) /\ DOMAIN M = DOMAIN loc \cup {i.file}
    BY <2>2, NewFile
  <2> HIDE DEF M
  <2>4. IsTable(loc') /\ Extends(loc', M) /\ DOMAIN loc' = DOMAIN M
    BY <2>1, <2>2, <2>3, AddConsumer DEF M
  <2>5. Extends(loc', loc)
    BY <2>3, <2>4, ExtendsTwice
  <2>6. Produced'
    BY <2>2, <2>5, ProducedStill DEF Produced, TableInv
  <2>7. NamedKnown'
    BY <2>2, <2>3, <2>4 DEF NamedKnown, TableInv
  <2> QED
    BY <2>2, <2>4, <2>5, <2>6, <2>7, ExtendingKeeps DEF TableInv, TableOK
<1> QED
  BY <1>1, <1>2, <1>3

\* One more producer, and the application and key it is recorded for.
LEMMA ProducerKeeps ==
  ASSUME TableInv, NEW k \in Text, NEW a \in App, NEW d \in Inherits(loc, k),
         loc' = addProducer(loc, k, a, d), streams' = streams \cup {<<a, k>>},
         named' \subseteq named \cup {k}, rule' = rule,
         sec' \in {"input", "output"} => app' \in App
  PROVE  TableInv'
<1>1. /\ IsTable(loc') /\ Extends(loc', loc) /\ DOMAIN loc' = DOMAIN loc \cup {k}
      /\ Trimmed[a] \in loc'[k].producers
  <2>1. IsTable(loc)
    BY DEF TableInv, TableOK, IsTable
  <2> QED
    BY <2>1, AddProducer
<1>2. Produced'
  <2>1. \A s \in streams : s[2] \in DOMAIN loc' /\ Trimmed[s[1]] \in loc'[s[2]].producers
    BY <1>1, ProducedStill DEF TableInv
  <2>2. \A s \in streams' : s[2] \in DOMAIN loc' /\ Trimmed[s[1]] \in loc'[s[2]].producers
    BY <1>1, <2>1
  <2> QED
    BY <2>2 DEF Produced
<1>3. NamedKnown'
  BY <1>1 DEF NamedKnown, TableInv
<1>4. streams' \subseteq App \X Text
  BY DEF TableInv, TableOK
<1> QED
  BY <1>1, <1>2, <1>3, <1>4, ExtendingKeeps

LEMMA OutputKeeps ==
  ASSUME TableInv, NEW i \in Item, parse_OutputStream(i)
  PROVE  TableInv'
<1>1. CASE Accepted(i) /\ newFileThrows(loc, i.file)
  BY <1>1, EndKeeps DEF parse_OutputStream
<1>2. CASE ~Accepted(i)
  BY <1>2, StillKeeps DEF parse_OutputStream, Named, TableInv, TableOK
<1>3. CASE Accepted(i) /\ ~newFileThrows(loc, i.file)
  <2>1. PICK d \in Inherits(loc, i.file) : loc' = addProducer(loc, i.file, app, d)
    BY <1>3 DEF parse_OutputStream
  <2>2. /\ i.file \in Text /\ app \in App /\ streams' = streams \cup {<<app, i.file>>}
        /\ UNCHANGED <<sec, app, rule>> /\ named' = named \cup {i.file}
    BY <1>3, Keys DEF parse_OutputStream, Named, TableInv, TableOK
  <2> QED
    BY <2>1, <2>2, ProducerKeeps
<1> QED
  BY <1>1, <1>2, <1>3

LEMMA CreateKeeps ==
  ASSUME TableInv, NEW k \in Created, NEW a \in App, create_handler(k, a)
  PROVE  TableInv'
<1>1. CASE newFileThrows(loc, k)
  BY <1>1, EndKeeps DEF create_handler
<1>2. CASE ~newFileThrows(loc, k)
  <2>1. PICK d \in Inherits(loc, k) : loc' = addProducer(loc, k, a, d)
    BY <1>2 DEF create_handler
  <2>2. /\ k \in Text /\ streams' = streams \cup {<<a, k>>} /\ named' = named
        /\ rule' = rule /\ sec' = "serving"
    BY <1>2, Keys DEF create_handler
  <2> QED
    BY <2>1, <2>2, ProducerKeeps
<1> QED
  BY <1>1, <1>2

\* Permanent and exclude are marks on an entry and no more.
LEMMA MarkKeeps ==
  ASSUME TableInv, NEW k \in DOMAIN loc, NEW f \in {"permanent", "exclude"},
         loc' = [loc EXCEPT ![k] = [loc[k] EXCEPT ![f] = TRUE]],
         UNCHANGED <<sec, app, rule, streams, named>>
  PROVE  TableInv'
<1>1. loc \in [DOMAIN loc -> Row] /\ DOMAIN loc \subseteq Text /\ loc[k] \in Row
  BY DEF TableInv, TableOK
<1> DEFINE R == [loc[k] EXCEPT ![f] = TRUE]
<1>2. /\ R \in Row /\ R.producers = loc[k].producers
      /\ R.commit = loc[k].commit /\ R.fire = loc[k].fire /\ R.number = loc[k].number
      /\ R.deps = loc[k].deps /\ R.file = loc[k].file
  BY <1>1 DEF Row
<1> HIDE DEF R
<1>3. IsTable(loc') /\ DOMAIN loc' = DOMAIN loc
  BY <1>1, <1>2 DEF IsTable, R
<1>4. \A x \in DOMAIN loc : loc'[x] = IF x = k THEN R ELSE loc[x]
  BY <1>1 DEF R
<1>5. Extends(loc', loc)
  BY <1>2, <1>3, <1>4 DEF Extends
<1>6. Produced' /\ NamedKnown'
  BY <1>3, <1>5, ProducedStill DEF Produced, NamedKnown, TableInv
<1> QED
  BY <1>3, <1>5, <1>6, ExtendingKeeps DEF TableInv, TableOK

\* A streaming entry: the rule it records is the one it has put in force, on
\* an entry no other rule is about.
LEMMA StreamingKeeps ==
  ASSUME TableInv, NEW e \in Entry, parse_Streaming(e)
  PROVE  TableInv'
<1>1. CASE Malformed(e)
  BY <1>1, EndKeeps DEF parse_Streaming
<1>2. CASE ~Malformed(e) /\ StreamedThrows(e)
  BY <1>2, EndKeeps DEF parse_Streaming
<1>3. CASE ~Malformed(e) /\ ~StreamedThrows(e) /\ ~Accepted(e.name)
  BY <1>3, StillKeeps DEF parse_Streaming, TableInv, TableOK
<1>4. CASE ~Malformed(e) /\ ~StreamedThrows(e) /\ Accepted(e.name)
  <2> DEFINE k == e.name.path
             S == Streamed(e)
  <2>1. /\ k \in DOMAIN loc /\ e.number # Huge /\ e.number \in Int \cup {None}
        /\ UNCHANGED <<sec, app, streams, named>> /\ rule' = [rule EXCEPT ![k] = e]
    BY <1>4, ConfigurationAssumption DEF parse_Streaming, StreamedThrows, Malformed
  <2>2. /\ IsTable(loc) /\ TableOK /\ Ruled /\ Produced /\ NamedKnown
    BY DEF TableInv, TableOK, IsTable
  <2>3. /\ IsTable(S) /\ DOMAIN S = DOMAIN loc /\ \A x \in DOMAIN loc \ {k} : S[x] = loc[x]
        /\ Follows(S[k], e) /\ S[k].producers = loc[k].producers
    BY <1>4, <2>1, <2>2, StreamedRow
  <2>4. IsTable(loc') /\ Extends(loc', S)
    <3>1. CASE DepsOf(e) = {}
      BY <1>4, <2>3, <3>1 DEF parse_Streaming, Extends
    <3>2. CASE DepsOf(e) # {}
      <4>1. PICK dep \in DepsOf(e) : \E d \in Inherits(S, dep) : loc' = newFile(S, dep, d)
        BY <1>4, <3>2 DEF parse_Streaming
      <4>2. PICK d \in Inherits(S, dep) : loc' = newFile(S, dep, d)
        BY <4>1
      <4>3. dep \in Text
        BY <1>4, Keys
      <4> QED
        BY <2>3, <4>2, <4>3, NewFile
    <3> QED
      BY <3>1, <3>2
  <2> HIDE DEF k, S
  <2>5. TableOK'
    BY <2>1, <2>2, <2>4 DEF TableOK, IsTable
  <2>6. ASSUME NEW x \in Text, rule'[x] # None
        PROVE  x \in DOMAIN loc' /\ Follows(loc'[x], rule'[x]) /\ rule'[x].number \in Int \cup {None}
    <3>1. k \in Text /\ rule \in [Text -> Entry \cup {None}]
      BY <2>1, <2>2 DEF TableOK
    <3>2. x \in DOMAIN S /\ Follows(S[x], rule'[x]) /\ rule'[x].number \in Int \cup {None}
      <4>1. CASE x = k
        BY <2>1, <2>3, <3>1, <4>1
      <4>2. CASE x # k
        BY <2>1, <2>2, <2>3, <2>6, <3>1, <4>2 DEF Ruled
      <4> QED
        BY <4>1, <4>2
    <3>3. x \in DOMAIN loc' /\ Follows(loc'[x], rule'[x])
      BY <2>4, <3>2 DEF Extends, Follows
    <3> QED
      BY <3>2, <3>3
  <2>7. Produced' /\ NamedKnown'
    BY <2>1, <2>2, <2>3, <2>4 DEF Produced, NamedKnown, Extends
  <2> QED
    BY <2>5, <2>6, <2>7 DEF TableInv, Ruled
<1> QED
  BY <1>1, <1>2, <1>3, <1>4

LEMMA StepTable == TableInv /\ [Next]_vars => TableInv'
<1> SUFFICES ASSUME TableInv, [Next]_vars PROVE TableInv'
  OBVIOUS
<1>1. CASE UNCHANGED vars
  BY <1>1, StillKeeps DEF vars, TableInv, TableOK
<1>2. CASE \E e \in Entry : parse_Streaming(e)
  BY <1>2, StreamingKeeps
<1>3. CASE parse_Missing \/ parse_IllTyped \/ parse_NoSource
  BY <1>3, EndKeeps DEF parse_Missing, parse_IllTyped, parse_NoSource
<1>4. CASE parse_NextSection
  BY <1>4, StillKeeps DEF parse_NextSection, FollowedBy, TableInv, TableOK
<1>5. ASSUME NEW a \in App, parse_App(a) PROVE TableInv'
  BY <1>5, StillKeeps DEF parse_App
<1>6. ASSUME NEW a \in App, NEW k \in Created, create_handler(k, a) PROVE TableInv'
  BY <1>6, CreateKeeps
<1>7. ASSUME NEW i \in Item, parse_InputStream(i) \/ parse_OutputStream(i) PROVE TableInv'
  BY <1>7, InputKeeps, OutputKeeps
<1>8. ASSUME NEW i \in Item, parse_Permanent(i) \/ parse_Exclude(i) PROVE TableInv'
  <2>1. CASE UNCHANGED loc
    BY <1>8, <2>1, StillKeeps DEF parse_Permanent, parse_Exclude, TableInv, TableOK
  <2>2. CASE loc' # loc
    <3>1. /\ i.text \in DOMAIN loc /\ UNCHANGED <<sec, app, rule, streams, named>>
          /\ \E f \in {"permanent", "exclude"} :
               loc' = [loc EXCEPT ![i.text] = [loc[i.text] EXCEPT ![f] = TRUE]]
      BY <1>8, <2>2 DEF parse_Permanent, parse_Exclude
    <3> QED
      BY <3>1, MarkKeeps
  <2> QED
    BY <2>1, <2>2
<1> QED
  BY <1>1, <1>2, <1>3, <1>4, <1>5, <1>6, <1>7, <1>8 DEF Next, Other

-----------------------------------------------------------------------------
(* Theorems.                                                               *)

\* The table keeps its types, every streaming entry stays in force, and every
\* producer stays recorded, for every document and every sequence of creations.
THEOREM TableInvariant == Spec => []TableInv
BY InitTable, StepTable, PTL DEF Spec

\* If close counts fit an int, the rules, the count and the dependencies of the
\* last streaming entry for a path are the ones in its entry, whatever streams,
\* dependencies and creations name it as well (newFile, setCommitRule).
THEOREM DocLastRuleWins == ASSUME CountsFit PROVE Spec => []LastRuleWins
<1>1. TableInv => LastRuleWins
  <2> SUFFICES ASSUME TableInv, NEW k \in Text, rule[k] # None
               PROVE  /\ k \in DOMAIN loc
                      /\ loc[k].commit = rule[k].rule
                      /\ loc[k].fire = IF rule[k].mode = None THEN "update" ELSE rule[k].mode
                      /\ loc[k].number = IF rule[k].number = None THEN -1 ELSE rule[k].number
                      /\ loc[k].deps = DepsOf(rule[k])
                      /\ loc[k].file = ~rule[k].dir
    BY DEF LastRuleWins
  <2>1. /\ k \in DOMAIN loc /\ Follows(loc[k], rule[k]) /\ rule[k] \in Entry
        /\ rule[k].number \in Int \cup {None}
    BY DEF TableInv, TableOK, Ruled
  <2>2. NumberOf(rule[k]) = IF rule[k].number = None THEN -1 ELSE rule[k].number
    BY <2>1, CountsFit DEF CountsFit, NumberOf
  <2> QED
    BY <2>1, <2>2 DEF Follows, ModeOf
<1> QED
  BY <1>1, TableInvariant, PTL

\* The applications a document names for an output stream, and those that
\* create a file, are its producers whenever isProducer is asked, if their
\* names have no white space: addProducer trims a name, isProducer does not.
THEOREM DocProducersKnown == Spec => []ProducersKnown
<1>1. TableInv => ProducersKnown
  <2> SUFFICES ASSUME TableInv, NEW s \in streams, Trimmed[s[1]] = s[1]
               PROVE  isProducer(loc, s[2], s[1]) = {TRUE}
    BY DEF ProducersKnown
  <2>1. s[2] \in DOMAIN loc /\ s[1] \in loc[s[2]].producers
    BY DEF TableInv, Produced
  <2>2. (s[1] \in loc[s[2]].producers) = TRUE
    BY <2>1
  <2>3. isProducer(loc, s[2], s[1]) = {(s[1] \in loc[s[2]].producers)}
    BY <2>1 DEF isProducer
  <2> QED
    BY <2>2, <2>3
<1> QED
  BY <1>1, TableInvariant, PTL

\* With stars last, no entry makes match_globs throw on a name: it never comes
\* to compare().
LEMMA GlobsSafe ==
  ASSUME StarsLast, NEW k PROVE ~newFileThrows(loc, k)
BY DEF newFileThrows, match_globs_throws, Reached, StarsLast

\* An exception leaves the table as it was, so it is judged by the names that
\* were in it before.
LEMMA ThrowKeepsTable == [Next]_vars /\ sec # "threw" /\ sec' = "threw" => loc' = loc
<1> SUFFICES ASSUME Next, sec # "threw", sec' = "threw" PROVE loc' = loc
  BY DEF vars
<1>1. CASE parse_IllTyped \/ \E e \in Entry : parse_Streaming(e)
  BY <1>1 DEF parse_IllTyped, parse_Streaming, End
<1>2. CASE Other
  BY <1>2 DEF Other, parse_Missing, parse_NoSource, parse_NextSection, parse_App, create_handler,
     parse_InputStream, parse_OutputStream, parse_Permanent, parse_Exclude, End
<1> QED
  BY <1>1, <1>2 DEF Next

\* Of a well-typed document whose streaming entries are for names of stream
\* sections, and whose names have a star only at the end, neither reading nor
\* the creation of files afterwards ends in an exception (the at() of
\* setFileDeps, compare() of match_globs).
THEOREM DocNoThrow == Spec => []NoThrow
<1>1. Init => NoThrow
  BY DEF Init, NoThrow
<1>2. TableInv /\ NoThrow /\ [Next]_vars => NoThrow'
  <2> SUFFICES ASSUME TableInv, NoThrow, [Next]_vars, orderly', StarsLast', sec' = "threw"
               PROVE  FALSE
    BY DEF NoThrow
  <2>1. CASE sec = "threw"
    <3>1. UNCHANGED vars
      BY <2>1 DEF Next, Other, parse_IllTyped, parse_Missing, parse_NoSource, parse_NextSection,
         FollowedBy, parse_App, create_handler, parse_InputStream, parse_OutputStream,
         parse_Streaming, parse_Permanent, parse_Exclude
    <3> QED
      BY <2>1, <3>1 DEF vars, NoThrow, StarsLast
  <2>2. CASE sec # "threw"
    <3>1. StarsLast
      BY <2>2, ThrowKeepsTable DEF StarsLast
    <3>2. \A k : ~newFileThrows(loc, k)
      BY <3>1, GlobsSafe
    <3>3. ASSUME NEW e \in Entry, parse_Streaming(e) PROVE FALSE
      <4>1. Orderly(e)
        BY <3>3 DEF parse_Streaming
      <4>2. ~Malformed(e) => ~StreamedThrows(e)
        BY <3>2, <4>1 DEF Orderly, StreamedThrows, Malformed, TableInv, NamedKnown
      <4> QED
        BY <2>2, <3>3, <4>2 DEF parse_Streaming, End
    <3>4. ~(parse_Missing \/ parse_NoSource \/ parse_NextSection)
      BY <2>2 DEF parse_Missing, parse_NoSource, parse_NextSection, FollowedBy, End
    <3>5. ASSUME NEW a \in App, parse_App(a) \/ \E k \in Created : create_handler(k, a)
          PROVE  FALSE
      BY <2>2, <3>2, <3>5 DEF parse_App, create_handler
    <3>6. ASSUME NEW i \in Item, \/ parse_InputStream(i) \/ parse_OutputStream(i)
                                 \/ parse_Permanent(i) \/ parse_Exclude(i)
          PROVE  FALSE
      BY <2>2, <3>2, <3>6 DEF parse_InputStream, parse_OutputStream, parse_Permanent, parse_Exclude
    <3>7. ~Other
      BY <3>4, <3>5, <3>6 DEF Other
    <3> QED
      BY <2>2, <3>3, <3>7 DEF Next, parse_IllTyped, vars
  <2> QED
    BY <2>1, <2>2
<1> QED
  BY <1>1, <1>2, TableInvariant, PTL DEF Spec

\* Whom a path inherits from does not change when the table is extended by
\* files: only directories are inherited from.
LEMMA LpmKept ==
  ASSUME NEW L, NEW M, Extends(M, L), \A f \in DOMAIN L : L[f].file \in BOOLEAN, NEW k
  PROVE  Lpm(M, k) = Lpm(L, k)
<1>1. {f \in DOMAIN M : match_globs(f, k) /\ ~M[f].file} = {f \in DOMAIN L : match_globs(f, k) /\ ~L[f].file}
  BY DEF Extends
<1> QED
  BY <1>1 DEF Lpm

\* Once the server serves, no creation, in whatever order, changes the rules a
\* path has or would have: what CapioState rests on when it takes the rules as
\* constants.
THEOREM DocRulesSettled == Spec => RulesSettled
<1> DEFINE Settled == sec = "serving" => \A k \in Text : RulesOf(k)' \subseteq RulesOf(k)
<1>1. TableInv /\ [Next]_vars => [Settled]_vars
  <2> SUFFICES ASSUME TableInv, Next, sec = "serving", NEW x \in Text
               PROVE  RulesOf(x)' \subseteq RulesOf(x)
    BY DEF vars
  <2>1. \/ loc' = loc
        \/ \E k \in Created, a \in App : \E d \in Inherits(loc, k) : loc' = addProducer(loc, k, a, d)
    BY DEF Next, Other, parse_Streaming, parse_Missing, parse_IllTyped, parse_NoSource,
       parse_NextSection, FollowedBy, parse_App, create_handler, parse_InputStream, parse_OutputStream, parse_Permanent,
       parse_Exclude, End
  <2>2. CASE loc' = loc
    BY <2>2 DEF RulesOf, Inherits, Lpm, newFile, Inheriting, NewEntry
  <2>3. ASSUME NEW k \in Created, NEW a \in App, NEW d \in Inherits(loc, k),
               loc' = addProducer(loc, k, a, d)
        PROVE  RulesOf(x)' \subseteq RulesOf(x)
    <3>1. IsTable(loc) /\ k \in Text
      BY Keys DEF TableInv, TableOK, IsTable
    <3>2. IsTable(loc') /\ Extends(loc', loc) /\ DOMAIN loc' = DOMAIN loc \cup {k}
      BY <2>3, <3>1, AddProducer
    <3>3. CASE x \in DOMAIN loc
      BY <3>2, <3>3 DEF RulesOf, Extends
    <3>4. CASE x \notin DOMAIN loc /\ x = k
      <4>1. RulesOf(x)' = {<<loc'[k].commit, loc'[k].fire>>}
        BY <3>2, <3>4 DEF RulesOf
      <4>2. <<newFile(loc, k, d)[k].commit, newFile(loc, k, d)[k].fire>> \in RulesOf(x)
        BY <2>3, <3>4 DEF RulesOf
      <4>3. /\ loc'[k].commit = newFile(loc, k, d)[k].commit
            /\ loc'[k].fire = newFile(loc, k, d)[k].fire
        <5> DEFINE M == newFile(loc, k, d)
        <5>1. IsTable(M) /\ DOMAIN M = DOMAIN loc \cup {k}
          BY <3>1, NewFile
        <5>2. loc' = [M EXCEPT ![k].producers = @ \cup {Trimmed[a]}]
          BY <2>3 DEF addProducer
        <5> HIDE DEF M
        <5>3. M[k] \in Row /\ k \in DOMAIN M
          BY <5>1 DEF IsTable
        <5> QED
          BY <5>2, <5>3 DEF M, Row
      <4> QED
        BY <4>1, <4>2, <4>3
    <3>5. CASE x \notin DOMAIN loc /\ x # k
      <4>1. Lpm(loc', x) = Lpm(loc, x)
        BY <3>1, <3>2, LpmKept DEF IsTable, Row
      <4>2. Inherits(loc', x) = Inherits(loc, x)
        BY <3>2, <3>5, <4>1 DEF Inherits
      <4>3. \A f \in Inherits(loc, x) : f # None => f \in DOMAIN loc
        BY InheritsFrom
      <4>4. \A f \in Inherits(loc, x) :
              /\ newFile(loc', x, f)[x].commit = newFile(loc, x, f)[x].commit
              /\ newFile(loc', x, f)[x].fire = newFile(loc, x, f)[x].fire
        BY <3>2, <3>5, <4>3 DEF newFile, Inheriting, NewEntry, Extends
      <4>5. RulesOf(x)' = {<<newFile(loc', x, f)[x].commit, newFile(loc', x, f)[x].fire>> : f \in Inherits(loc', x)}
        BY <3>2, <3>5 DEF RulesOf
      <4> QED
        BY <3>5, <4>2, <4>4, <4>5 DEF RulesOf
    <3> QED
      BY <3>3, <3>4, <3>5
  <2> QED
    BY <2>1, <2>2, <2>3
<1> QED
  BY <1>1, TableInvariant, PTL DEF Spec, RulesSettled

-----------------------------------------------------------------------------
(* match_globs against the meaning of a pattern.  For a pattern whose only *)
(* star comes last both say that the string agrees with the characters     *)
(* before the star, one by one.                                            *)

\* A nonempty set of numbers has a least one.
LEMMA Least ==
  ASSUME NEW T \in SUBSET Nat, T # {}
  PROVE  \E x \in T : \A y \in T : x <= y
<1> DEFINE R == {ss \in Nat \X Nat : ss[1] < ss[2]}
<1>1. IsWellFoundedOn(R, Nat)
  BY NatLessThanWellFounded DEF OpToRel
<1> HIDE DEF R
<1>2. PICK x \in T : \A y \in T : ~(<<y, x>> \in R)
  BY <1>1, WFMin
<1>3. ASSUME NEW y \in T PROVE x <= y
  <2>1. x \in Nat /\ y \in Nat /\ (y < x => <<y, x>> \in R)
    BY DEF R
  <2> QED
    BY <1>2, <2>1
<1> QED
  BY <1>3

\* Star finds a star where there is one.
LEMMA StarFound ==
  ASSUME NEW glob
  PROVE  /\ Star(glob) = 0 => \A i \in 1 .. Len(glob) : glob[i] # "*"
         /\ Star(glob) # 0 => /\ Star(glob) \in 1 .. Len(glob) /\ glob[Star(glob)] = "*"
                              /\ \A i \in 1 .. Len(glob) : i < Star(glob) => glob[i] # "*"
<1> DEFINE I == {i \in 1 .. Len(glob) : glob[i] = "*"}
<1>1. Star(glob) = IF I # {} THEN Min(I) ELSE 0
  BY DEF Star, SelectInSeq
<1>2. ASSUME I # {} PROVE Min(I) \in I /\ \A y \in I : Min(I) <= y
  <2>1. I \in SUBSET Nat
    OBVIOUS
  <2>2. \E x \in I : \A y \in I : x <= y
    BY <1>2, <2>1, Least
  <2> QED
    BY <2>2 DEF Min
<1>3. CASE I = {}
  BY <1>1, <1>3
<1>4. CASE I # {}
  <2>1. Star(glob) \in I /\ \A y \in I : Star(glob) <= y
    BY <1>1, <1>2, <1>4
  <2>2. Star(glob) \in 1 .. Len(glob) /\ glob[Star(glob)] = "*"
    BY <2>1
  <2>3. ASSUME NEW i \in 1 .. Len(glob), i < Star(glob) PROVE glob[i] # "*"
    BY <2>1, <2>2, <2>3
  <2> QED
    BY <2>2, <2>3
<1> QED
  BY <1>3, <1>4

\* How a pattern is that has m characters and then a star.
IsPrefixPattern(pattern, m) ==
  /\ m \in Nat /\ Len(pattern) = m + 1
  /\ pattern[m + 1] = "*" /\ \A i \in 1 .. m : pattern[i] # "*"

\* Such a pattern gives each of its m characters the one at its place.
LEMMA PlacesFixed ==
  ASSUME NEW pattern, NEW s, Len(s) \in Nat, NEW m, IsPrefixPattern(pattern, m),
         NEW at \in [1 .. Len(pattern) + 1 -> 1 .. Len(s) + 1], at[1] = 1,
         \A i \in 1 .. m : at[i + 1] = at[i] + 1
  PROVE  \A i \in 1 .. m + 1 : at[i] = i
<1> SUFFICES ASSUME NEW k \in 1 .. m + 1, at[k] # k PROVE FALSE
  OBVIOUS
<1> DEFINE T == {i \in 1 .. m + 1 : at[i] # i}
<1>1. T \in SUBSET Nat /\ T # {}
  <2>1. m \in Nat
    BY DEF IsPrefixPattern
  <2>2. k \in T
    OBVIOUS
  <2>3. T \in SUBSET Nat
    <3>1. 1 .. m + 1 \in SUBSET Nat
      BY <2>1
    <3> QED
      BY <3>1
  <2> QED
    BY <2>2, <2>3
<1>2. PICK x \in T : \A y \in T : x <= y
  BY <1>1, Least
<1>3. x \in 1 .. m + 1 /\ at[x] # x /\ x # 1 /\ m \in Nat
  BY <1>2 DEF IsPrefixPattern
<1>4. x - 1 \in 1 .. m /\ x - 1 \in 1 .. m + 1 /\ ~(x <= x - 1)
  BY <1>3
<1>5. at[x - 1] = x - 1
  BY <1>2, <1>4
<1>6. at[(x - 1) + 1] = (x - 1) + 1
  BY <1>4, <1>5
<1> QED
  BY <1>3, <1>6

LEMMA MeaningOfPrefix ==
  ASSUME NEW pattern, NEW s, Len(s) \in Nat, NEW m, IsPrefixPattern(pattern, m), m <= Len(s)
  PROVE  Matches(pattern, s) <=> Agree(pattern, s, m)
<1>p. /\ m \in Nat /\ Len(pattern) = m + 1
      /\ pattern[m + 1] = "*" /\ \A i \in 1 .. m : pattern[i] # "*"
  BY DEF IsPrefixPattern
<1>1. ASSUME Matches(pattern, s) PROVE Agree(pattern, s, m)
  <2>1. PICK at \in [1 .. Len(pattern) + 1 -> 1 .. Len(s) + 1] :
          /\ at[1] = 1 /\ at[Len(pattern) + 1] = Len(s) + 1
          /\ \A i \in 1 .. Len(pattern) :
               IF pattern[i] = "*" THEN at[i] <= at[i + 1]
               ELSE at[i + 1] = at[i] + 1 /\ pattern[i] \in {"?", s[at[i]]}
    BY <1>1 DEF Matches
  <2>2. \A i \in 1 .. m : at[i + 1] = at[i] + 1 /\ pattern[i] \in {"?", s[at[i]]}
    BY <1>p, <2>1
  <2>3. \A i \in 1 .. m + 1 : at[i] = i
    <3>1. \A i \in 1 .. m : at[i + 1] = at[i] + 1
      BY <2>2
    <3> QED
      BY <2>1, <3>1, PlacesFixed
  <2>4. ASSUME NEW i \in 1 .. m PROVE pattern[i] \in {"?", s[i]}
    <3>1. i \in 1 .. m + 1
      BY <1>p
    <3>2. at[i] = i
      BY <2>3, <3>1
    <3> QED
      BY <2>2, <3>2
  <2> QED
    BY <2>4 DEF Agree
<1>2. ASSUME Agree(pattern, s, m) PROVE Matches(pattern, s)
  <2> DEFINE at == [i \in 1 .. Len(pattern) + 1 |-> IF i <= m + 1 THEN i ELSE Len(s) + 1]
  <2>1. at \in [1 .. Len(pattern) + 1 -> 1 .. Len(s) + 1]
    BY <1>p
  <2>2. at[1] = 1 /\ at[Len(pattern) + 1] = Len(s) + 1
    BY <1>p
  <2>3. ASSUME NEW i \in 1 .. m
        PROVE  at[i + 1] = at[i] + 1 /\ at[i] = i /\ pattern[i] # "*"
    BY <1>p, <2>3
  <2>4. \A i \in 1 .. m : pattern[i] \in {"?", s[i]}
    BY <1>2 DEF Agree
  <2>5. at[m + 1] <= at[m + 2] /\ pattern[m + 1] = "*" /\ (m + 1) + 1 = m + 2
    BY <1>p
  <2> HIDE DEF at
  <2>6. ASSUME NEW i \in 1 .. Len(pattern)
        PROVE  IF pattern[i] = "*" THEN at[i] <= at[i + 1]
               ELSE at[i + 1] = at[i] + 1 /\ pattern[i] \in {"?", s[at[i]]}
    <3>1. i \in 1 .. m \/ i = m + 1
      BY <1>p
    <3> QED
      BY <1>p, <2>3, <2>4, <2>5, <3>1
  <2> QED
    BY <1>p, <2>1, <2>2, <2>6 DEF Matches
<1> QED
  BY <1>1, <1>2

LEMMA StringFacts ==
  ASSUME NEW S, NEW g \in StringsOf(S)
  PROVE  g \in Seq(S) /\ Len(g) \in Nat /\ \A i \in 1 .. Len(g) : g[i] \in S
<1>1. PICK m \in 0 .. MaxLen : g \in [1 .. m -> S]
  BY DEF StringsOf
<1>2. m \in Nat
  BY <1>1, ConfigurationAssumption
<1> QED
  BY <1>1, <1>2, SeqDef, LenProperties

\* For a pattern whose only star comes last, and strings that reach its end,
\* match_globs answers what the pattern means, over every alphabet and up to
\* every length MaxLen.  A pattern without star is compared as if it ended in
\* one; with strings shorter than the pattern, which match_globs also accepts
\* when they are a beginning of it, nothing is compared.
THEOREM DocGlobsExact == Spec => []ExactOnPrefixes
<1>1. ExactOnPrefixes
  <2> SUFFICES ASSUME NEW glob \in PrefixGlob, NEW s \in StringsOf(Char), Len(s) >= Len(glob)
               PROVE  match_globs(glob, s)
                      <=> Matches(IF Star(glob) = 0 THEN Append(glob, "*") ELSE glob, s)
    BY DEF ExactOnPrefixes
  <2> DEFINE pattern == IF Star(glob) = 0 THEN Append(glob, "*") ELSE glob
             n == Len(glob)
             m == IF Star(glob) = 0 THEN n ELSE n - 1
             A == Char \cup {"?", "*"}
  <2>1. /\ glob \in Seq(A) /\ glob # <<>> /\ n \in Nat \ {0} /\ Star(glob) \in {0, n}
        /\ s \in Seq(Char) /\ Len(s) \in Nat /\ n <= Len(s)
        /\ \A i \in 1 .. Len(s) : s[i] \in Char /\ s[i] # "*"
    <3>1. glob \in StringsOf(A) /\ glob # <<>> /\ Star(glob) \in {0, Len(glob)}
      BY DEF PrefixGlob
    <3>2. glob \in Seq(A) /\ n \in Nat
      BY <3>1, StringFacts
    <3>3. n # 0
      BY <3>1, <3>2, EmptySeq
    <3>4. "*" \notin Char
      BY ConfigurationAssumption
    <3> QED
      BY <3>1, <3>2, <3>3, <3>4, StringFacts
  <2>2. /\ m \in Nat /\ m <= Len(s)
        /\ pattern \in Seq(A) /\ Len(pattern) = m + 1 /\ pattern[m + 1] = "*"
        /\ \A i \in 1 .. m : pattern[i] = glob[i] /\ glob[i] # "*"
    <3>1. CASE Star(glob) = 0
      <4>1. /\ Append(glob, "*") \in Seq(A) /\ Len(Append(glob, "*")) = n + 1
            /\ Append(glob, "*")[n + 1] = "*"
            /\ \A i \in 1 .. n : Append(glob, "*")[i] = glob[i]
        BY <2>1, AppendProperties
      <4> QED
        BY <2>1, <3>1, <4>1, StarFound
    <3>2. CASE Star(glob) # 0
      <4>1. /\ Star(glob) = n /\ m = n - 1 /\ pattern = glob /\ glob[n] = "*"
            /\ \A i \in 1 .. n : i < n => glob[i] # "*"
        BY <2>1, <3>2, StarFound
      <4> QED
        BY <2>1, <4>1
    <3> QED
      BY <3>1, <3>2
  <2>3. Matches(pattern, s) <=> Agree(glob, s, m)
    <3>1. IsPrefixPattern(pattern, m)
      BY <2>2 DEF IsPrefixPattern
    <3>2. Agree(pattern, s, m) <=> Agree(glob, s, m)
      BY <2>2 DEF Agree
    <3> HIDE DEF pattern, m
    <3> QED
      BY <2>1, <2>2, <3>1, <3>2, MeaningOfPrefix
  <2>4. match_globs(glob, s) <=> Agree(glob, s, m)
    <3>1. Shorter(glob, s) = n
      BY <2>1 DEF Shorter
    <3>2. CASE Star(glob) = 0
      BY <2>1, <3>1, <3>2 DEF match_globs, Reached
    <3>3. CASE Star(glob) # 0
      <4>1. Star(glob) = n /\ m = n - 1 /\ glob[n] = "*" /\ Last(glob) = "*"
        BY <2>1, <3>3, StarFound DEF Last
      <4>2. Reached(glob, s) <=> Agree(glob, s, m)
        BY <2>1, <4>1 DEF Reached
      <4>3. ~Agree(glob, s, n)
        BY <2>1, <4>1 DEF Agree
      <4> QED
        BY <2>1, <3>1, <4>1, <4>2, <4>3 DEF match_globs
    <3> QED
      BY <3>2, <3>3
  <2> QED
    BY <2>3, <2>4
<1> QED
  BY <1>1, PTL

=============================================================================
