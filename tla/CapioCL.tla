------------------------------- MODULE CapioCL -------------------------------
(***************************************************************************)
(* The CAPIO-CL configuration: JsonParser::parse, which reads the document *)
(* section by section into the table of CapioCLEngine, and the server that *)
(* looks it up and adds to it afterwards.  The document is not fixed: each *)
(* step reads one of the things that may come next.  A name is the text in *)
(* the document with the keys the parser makes of it; a key is a sequence  *)
(* of characters, because match_globs compares characters.                 *)
(***************************************************************************)
EXTENDS Globs, FiniteSets

CONSTANTS
  App,       \* names of applications, as the document and CAPIO_APP_NAME have them
  Trimmed,   \* the name without its white space, for each application
  CapioDir,  \* get_capio_dir(), a key
  Item,      \* the names that occur: records made by Rel and Abs
  Entry,     \* the entries of streaming sections that occur
  Created,   \* the keys applications create at run time
  IntBits,   \* width of the int that holds a close count
  MaxRead,   \* bound: applications, names and entries in the document
  None,      \* nothing, or not given
  NaN, Huge, \* a close count that is no number, or no long
  Char,      \* the characters of the strings that patterns are tried on
  MaxLen     \* bound: characters of a pattern, and of a string

\* A relative name: its text below CAPIO_DIR, and the same normalised.
Rel(text, normal) ==
  [rel |-> TRUE, text |-> text,
   file |-> CapioDir \o <<"/">> \o text, path |-> CapioDir \o <<"/">> \o normal]

Abs(text) == [rel |-> FALSE, text |-> text, file |-> text, path |-> text]

Rules == {"on_close", "on_file", "on_termination"}

ASSUME ConfigurationAssumption ==
  /\ DOMAIN Trimmed = App
  /\ \A i \in Item : i.rel \in BOOLEAN /\ i.path # <<>> /\ i.file # <<>>
  /\ \A e \in Entry : /\ e.name \in Item \cup {None} /\ e.dir \in BOOLEAN
                      /\ e.rule \in Rules \cup {None}
                      /\ e.number \in Int \cup {None, NaN, Huge}
                      /\ e.mode \in {"update", "no_update", None}
                      /\ e.files \in Nat \cup {None}
                      /\ e.deps = None \/ (e.deps \subseteq Item /\ Cardinality(e.deps) <= 1)
  /\ IntBits \in Nat \ {0} /\ MaxRead \in Nat
  /\ Char \cap {"?", "*"} = {} /\ MaxLen \in Nat

VARIABLES
  loc,    \* _locations: a function on the keys that have an entry
  sec,    \* the part of the document being read, "serving", "exited" or "threw"
  app,    \* the application whose section is read
  read,   \* how much has been read
  rule,   \* history: the last streaming entry for each key
  streams,\* history: <<application, key>> of output streams and of created files
  named,  \* history: the keys of the names in stream sections
  orderly \* history: whether the document so far was well typed, and its streaming
          \* entries Orderly

vars == <<loc, sec, app, read, rule, streams, named, orderly>>

Text == {CapioDir} \cup Created \cup UNION {{i.text, i.file, i.path} : i \in Item}

-----------------------------------------------------------------------------
(* CapioCLEngine.  Each operation is a function on the table.              *)

\* The directory entries a new path may inherit from: the longest that match;
\* among equals, the one the hash table comes to first.
Lpm(L, k) ==
  LET dirs == {f \in DOMAIN L : match_globs(f, k) /\ ~L[f].file}
  IN  {f \in dirs : \A g \in dirs : Len(g) <= Len(f)}

Inherits(L, k) == IF k \in DOMAIN L \/ Lpm(L, k) = {} THEN {None} ELSE Lpm(L, k)

NewEntry(commit, fire) ==
  [producers |-> {}, consumers |-> {}, commit |-> commit, fire |-> fire,
   permanent |-> FALSE, exclude |-> FALSE, file |-> TRUE,
   number |-> -1, files |-> -1, deps |-> {}]

\* The entry newFile makes, with the rules of the directory entry d.
Inheriting(L, d) ==
  IF d = None THEN NewEntry("on_termination", "update") ELSE NewEntry(L[d].commit, L[d].fire)

\* Mutants: an entry that is there already is replaced, or new ones are
\* directories.
newFile_Replaces(L, k, d) ==
  [x \in DOMAIN L \cup {k} |-> IF x # k THEN L[x] ELSE Inheriting(L, d)]

newFile_Directory(L, k, d) ==
  [x \in DOMAIN L \cup {k} |->
     IF x \in DOMAIN L THEN L[x] ELSE [Inheriting(L, d) EXCEPT !.file = FALSE]]

\* An entry that is there already stays.
newFile(L, k, d) ==
  [x \in DOMAIN L \cup {k} |-> IF x \in DOMAIN L THEN L[x] ELSE Inheriting(L, d)]

newFileThrows(L, k) == k \notin DOMAIN L /\ \E f \in DOMAIN L : match_globs_throws(f, k)

\* Mutant: the entry is not made.
addProducer_NoEntry(L, k, a, d) ==
  IF k \in DOMAIN L THEN [L EXCEPT ![k].producers = @ \cup {Trimmed[a]}] ELSE L

addProducer(L, k, a, d) == [newFile(L, k, d) EXCEPT ![k].producers = @ \cup {Trimmed[a]}]

addConsumer(L, k, a) ==
  IF k \in DOMAIN L THEN [L EXCEPT ![k].consumers = @ \cup {Trimmed[a]}] ELSE L

\* What isProducer may answer: it looks at the path's own entry, or at the
\* first that matches it.
isProducer(L, k, a) ==
  IF k \in DOMAIN L THEN {(a \in L[k].producers)}
  ELSE LET matching == {g \in DOMAIN L : match_globs(g, k)}
       IN  IF matching = {} THEN {FALSE} ELSE {(a \in L[g].producers) : g \in matching}

\* The long that was parsed becomes an int.
setCommitedNumber(n) == ((n + 2 ^ (IntBits - 1)) % 2 ^ IntBits) - 2 ^ (IntBits - 1)

-----------------------------------------------------------------------------
(* JsonParser::parse.                                                      *)

first_is_subpath_of_second(k, base) ==
  IsPrefix(base, k) /\ (Len(k) > Len(base) => k[Len(base) + 1] = "/")

Accepted(i) == i.rel \/ first_is_subpath_of_second(i.file, CapioDir)

\* ERR_EXIT, and an exception nobody catches.
End(how) == sec' = how /\ UNCHANGED <<loc, app, read, rule, streams, named>>

\* What the parser checks for and does not find: the file, a string that names
\* the workflow or an application, an array for a stream section, a string in
\* permanent or exclude.
parse_Missing == sec \in {"start", "apps", "input", "output", "permanent", "exclude"} /\ End("exited")

\* What it does not check for: value() and take_value() of simdjson throw on text
\* that is no JSON, and on an element of a stream section, of a streaming name
\* or of file_deps that is no string.
parse_IllTyped ==
  sec \in {"start", "input", "output", "streaming"} /\ orderly' = FALSE /\ End("threw")

\* No document at all.
parse_NoSource == sec = "start" /\ End("serving")

\* The sections follow one another; those of an application are read before
\* the next application.
FollowedBy ==
  [start |-> "apps", input |-> "output", output |-> "streaming", streaming |-> "apps",
   apps |-> "permanent", permanent |-> "exclude", exclude |-> "serving"]

parse_NextSection ==
  /\ sec \in DOMAIN FollowedBy
  /\ sec' = FollowedBy[sec]
  /\ app' = IF sec' \in {"output", "streaming"} THEN app ELSE None
  /\ UNCHANGED <<loc, read, rule, streams, named>>

More == read < MaxRead /\ read' = read + 1

parse_App(a) ==
  /\ sec = "apps" /\ More
  /\ sec' = "input" /\ app' = a
  /\ UNCHANGED <<loc, rule, streams, named>>

Named(i) == named' = IF Accepted(i) THEN named \cup {i.file} ELSE named

\* Mutant: a consumer is added, but the file is not.
parse_InputStream_NoEntry(i) ==
  /\ sec = "input" /\ More
  /\ loc' = IF Accepted(i) THEN addConsumer(loc, i.file, app) ELSE loc
  /\ Named(i)
  /\ UNCHANGED <<sec, app, rule, streams>>

parse_InputStream(i) ==
  /\ sec = "input"
  /\ IF Accepted(i) /\ newFileThrows(loc, i.file) THEN End("threw")
     ELSE /\ More
          /\ \E d \in Inherits(loc, i.file) :
               loc' = IF Accepted(i) THEN addConsumer(newFile(loc, i.file, d), i.file, app) ELSE loc
          /\ Named(i)
          /\ UNCHANGED <<sec, app, rule, streams>>

parse_OutputStream(i) ==
  /\ sec = "output"
  /\ IF Accepted(i) /\ newFileThrows(loc, i.file) THEN End("threw")
     ELSE /\ More
          /\ IF Accepted(i)
               THEN /\ \E d \in Inherits(loc, i.file) : loc' = addProducer(loc, i.file, app, d)
                    /\ streams' = streams \cup {<<app, i.file>>}
               ELSE UNCHANGED <<loc, streams>>
          /\ Named(i)
          /\ UNCHANGED <<sec, app, rule>>

\* Neither name nor dirname, no rule, a number with another rule than on_close
\* or that is none (is_int), on_file without file_deps.
Malformed(e) ==
  \/ e.name = None
  \/ e.rule = None
  \/ e.number # None /\ e.rule # "on_close"
  \/ e.number = NaN
  \/ e.rule = "on_file" /\ e.deps = None

DepsOf(e) == IF e.rule = "on_file" THEN {i.file : i \in e.deps} ELSE {}

ModeOf(e) == IF e.mode = None THEN "update" ELSE e.mode

NumberOf(e) == IF e.number = None THEN -1 ELSE setCommitedNumber(e.number)

\* The setters for one name of a streaming entry.
Streamed(e) ==
  [loc EXCEPT ![e.name.path].files = IF e.files = None THEN @ ELSE e.files,
              ![e.name.path].file = ~e.dir, ![e.name.path].commit = e.rule,
              ![e.name.path].fire = ModeOf(e), ![e.name.path].number = NumberOf(e),
              ![e.name.path].deps = DepsOf(e)]

\* stol, the .at(path) of setFileDeps, and match_globs in newFile may throw.
StreamedThrows(e) ==
  \/ e.number = Huge
  \/ Accepted(e.name) /\ e.name.path \notin DOMAIN loc
  \/ Accepted(e.name) /\ \E dep \in DepsOf(e) : newFileThrows(loc, dep)

\* An entry as the documentation writes them: for a name that a stream section
\* has named, with a close count that can be one.
Orderly(e) ==
  /\ e.name # None /\ Accepted(e.name) => e.name.path \in named
  /\ e.number # Huge

\* An entry of a streaming section; one with several names is as many entries.
\* setFileDeps ends with an entry for the dependency.
parse_Streaming(e) ==
  /\ sec = "streaming"
  /\ orderly' = (orderly /\ Orderly(e))
  /\ IF Malformed(e) THEN End("exited")
     ELSE IF StreamedThrows(e) THEN End("threw")
     ELSE /\ More
          /\ IF Accepted(e.name)
               THEN /\ IF DepsOf(e) = {} THEN loc' = Streamed(e)
                       ELSE \E dep \in DepsOf(e) : \E d \in Inherits(Streamed(e), dep) :
                              loc' = newFile(Streamed(e), dep, d)
                    /\ rule' = [rule EXCEPT ![e.name.path] = e]
               ELSE UNCHANGED <<loc, rule>>
          /\ UNCHANGED <<sec, app, streams, named>>

\* The text is passed on where the path was meant; data() of a string_view may
\* also be followed by the rest of the document.
parse_Permanent(i) ==
  /\ sec = "permanent" /\ More
  /\ \/ i.text \in DOMAIN loc /\ first_is_subpath_of_second(i.path, CapioDir)
        /\ loc' = [loc EXCEPT ![i.text].permanent = TRUE]
     \/ UNCHANGED loc
  /\ UNCHANGED <<sec, app, rule, streams, named>>

parse_Exclude(i) ==
  /\ sec = "exclude" /\ More
  /\ \/ i.text \in DOMAIN loc /\ first_is_subpath_of_second(i.path, CapioDir)
        /\ loc' = [loc EXCEPT ![i.text].exclude = TRUE]
     \/ UNCHANGED loc
  /\ UNCHANGED <<sec, app, rule, streams, named>>

\* create_handler of the server, for the table.
create_handler(k, a) ==
  /\ sec = "serving"
  /\ IF newFileThrows(loc, k) THEN End("threw")
     ELSE /\ \E d \in Inherits(loc, k) : loc' = addProducer(loc, k, a, d)
          /\ streams' = streams \cup {<<a, k>>}
          /\ UNCHANGED <<sec, app, read, rule, named>>

-----------------------------------------------------------------------------

Init ==
  /\ loc = [k \in {CapioDir} |-> NewEntry("on_termination", "update")]
  /\ sec = "start" /\ app = None /\ read = 0
  /\ rule = [k \in Text |-> None] /\ streams = {} /\ named = {} /\ orderly = TRUE

Other ==
  \/ parse_Missing
  \/ parse_NoSource
  \/ parse_NextSection
  \/ \E a \in App : parse_App(a) \/ \E k \in Created : create_handler(k, a)
  \/ \E i \in Item :
       parse_InputStream(i) \/ parse_OutputStream(i) \/ parse_Permanent(i) \/ parse_Exclude(i)

Next ==
  \/ parse_IllTyped
  \/ \E e \in Entry : parse_Streaming(e)
  \/ Other /\ UNCHANGED orderly

Spec == Init /\ [][Next]_vars

-----------------------------------------------------------------------------
(* Properties.                                                             *)

\* Whatever else names a path, before or after (streams, dependencies of other
\* entries, files created at run time), its entry has the rules, the count and
\* the dependencies of the last streaming entry for it.
LastRuleWins ==
  \A k \in Text : rule[k] # None =>
    /\ k \in DOMAIN loc
    /\ loc[k].commit = rule[k].rule
    /\ loc[k].fire = IF rule[k].mode = None THEN "update" ELSE rule[k].mode
    /\ loc[k].number = IF rule[k].number = None THEN -1 ELSE rule[k].number
    /\ loc[k].deps = DepsOf(rule[k])
    /\ loc[k].file = ~rule[k].dir

\* An application that the document names for an output stream, or that
\* created a file, is a producer of it whenever isProducer is asked, if its
\* name has no white space (addProducer trims it, isProducer does not).
ProducersKnown ==
  sec = "serving" =>
    \A s \in streams : Trimmed[s[1]] = s[1] => isProducer(loc, s[2], s[1]) = {TRUE}

\* A name in the table that has a star ends in one.
StarsLast == \A k \in DOMAIN loc : Star(k) # 0 => Last(k) = "*"

\* Of a well-typed document whose streaming entries are for names of stream
\* sections, and whose names have a star only at the end, neither reading nor
\* creating files afterwards ends in an exception: not the at() of setFileDeps,
\* for which streams and entries must agree on the key of a name, nor compare()
\* in match_globs, whatever the entries that dependencies and creations add.
NoThrow == orderly /\ StarsLast => sec # "threw"

\* The rules a path has, or would have once it is created.
RulesOf(k) ==
  IF k \in DOMAIN loc THEN {<<loc[k].commit, loc[k].fire>>}
  ELSE {<<newFile(loc, k, d)[k].commit, newFile(loc, k, d)[k].fire>> : d \in Inherits(loc, k)}

\* Once the server serves, the rules of a path are settled, whichever files are
\* created and in whichever order.
RulesSettled == [][sec = "serving" => \A k \in Text : RulesOf(k)' \subseteq RulesOf(k)]_vars

StringsOf(S) == UNION {[1 .. m -> S] : m \in 0 .. MaxLen}

\* The only star, if any, is the last character.
PrefixGlob == {g \in StringsOf(Char \cup {"?", "*"}) : g # <<>> /\ Star(g) \in {0, Len(g)}}

\* For those patterns match_globs is exact on the strings that reach the
\* pattern's end: what it accepts beyond the meaning are strings that stop
\* short of the pattern, and strings that go on after a pattern without star.
\* It does not depend on the state and is looked at once.
ExactOnPrefixes ==
  sec = "start" => \A glob \in PrefixGlob, s \in StringsOf(Char) :
    Len(s) >= Len(glob) =>
      LET pattern == IF Star(glob) = 0 THEN Append(glob, "*") ELSE glob
      IN  match_globs(glob, s) <=> Matches(pattern, s)

=============================================================================
