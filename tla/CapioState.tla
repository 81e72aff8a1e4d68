----------------------------- MODULE CapioState -----------------------------
(***************************************************************************)
(* The state shared by the modules that model one CAPIO node: the         *)
(* application threads that run under libcapio_posix, the capio_server     *)
(* with its request-handler thread and its file-system monitor thread, the *)
(* shared-memory queues between them and the file system below.  Also the  *)
(* questions every part asks of that state: does a path exist, how large   *)
(* is it, is it committed, is a thread a producer of it.                   *)
(***************************************************************************)
EXTENDS Integers, Sequences, FiniteSets

CONSTANTS
  Tid,          \* thread ids: numbers, because the server compares one with a size
  App,          \* names of the workflow's applications
  AppOf,        \* CAPIO_APP_NAME of the process a thread belongs to
  NoApp,        \* no entry in ClientManager::app_names
  Path,         \* absolute paths
  NoPath,
  CapioPath,    \* paths below CAPIO_DIR, and CAPIO_DIR
  Handled,      \* paths below CAPIO_DIR, without it
  Present,      \* paths that exist before the workflow starts
  Dir,          \* paths that are directories once they exist
  Parent,       \* the directory a path is an entry of
  Declared,     \* paths with an entry in the CAPIO-CL configuration
  CommitRule,   \* the commit rule of an entry (inherited, for a path not Declared)
  FireRule,     \* the fire rule of an entry
  CloseCount,   \* the N of on_close:N, -1 for plain on_close
  FileCount,    \* n_files of a directory entry, -1 when it has none
  Deps,         \* file_deps of an on_file entry
  Producers,    \* applications the configuration names as producers
  Globs,        \* <<k, p>>: match_globs(k, p) holds
  MaxSize,      \* bound: largest size a file grows to
  Inode         \* bound: the inodes of the file system, naturals above 0

ASSUME ThreadAssumption ==
  /\ Tid \subseteq Nat \ {0}
  /\ AppOf \in [Tid -> App]
  /\ NoApp \notin App

ASSUME PathAssumption ==
  /\ NoPath \notin Path
  /\ CapioPath \subseteq Path
  /\ Handled \subseteq CapioPath
  /\ Present \subseteq Path
  /\ Dir \subseteq Path
  /\ Parent \in [Path -> Path \cup {NoPath}]
  /\ IsFiniteSet(Path)

ASSUME ConfigAssumption ==
  /\ Declared \subseteq Path
  /\ CommitRule \in [Path -> {"on_close", "on_file", "on_termination"}]
  /\ FireRule \in [Path -> {"update", "no_update"}]
  /\ CloseCount \in [Path -> Int]
  /\ FileCount \in [Path -> Int]
  /\ Deps \in [Path -> SUBSET Path]
  /\ Producers \in [Path -> SUBSET App]
  /\ Globs \subseteq Path \X Path

ASSUME BoundAssumption ==
  /\ MaxSize \in Nat
  /\ Inode \subseteq Nat \ {0}

VARIABLES
  link,       \* file system: the inode a path names, 0 when the path does not exist
  isize,      \* file system: the size of an inode
  token,      \* the close count in a path's .capio metadata file, -1: no such file
  locations,  \* CapioCLEngine::_locations: its keys
  producers,  \* ... and the producers of each entry
  reqs,       \* the queue of requests, shared by all threads of the node
  resp,       \* the response queue of each thread
  bufs,       \* keys of ClientManager::bufs_response and files_to_be_committed_by_tid
  appNames,   \* ClientManager::app_names
  server,     \* "up", or the C++ exception that terminated the process
  waitC,      \* thread_awaiting_file_creation: the threads in each path's vector
  waitD,      \* thread_awaiting_data: each path's map from thread to expected size, -1: absent
  pc, call, out, wcache, rcache, fds, left,   \* the application threads
  hpc, hreq, hflag, htodo, htid, hcount,      \* the request-handler thread
  mpc, mfiles, mpath, mflag, mtodo, mtid      \* the monitor thread

fsVars      == <<link, isize>>
clVars      == <<locations, producers>>
cmVars      == <<bufs, appNames>>
clientVars  == <<pc, call, out, wcache, rcache, fds, left>>
handlerVars == <<hpc, hreq, hflag, htodo, htid, hcount>>
monitorVars == <<mpc, mfiles, mpath, mflag, mtodo, mtid>>

vars == <<fsVars, token, clVars, reqs, resp, cmVars, server, waitC, waitD,
          clientVars, handlerVars, monitorVars>>

-----------------------------------------------------------------------------
(* Requests.  The text a request is formatted to and parsed from carries   *)
(* these fields; n is the end_of_read of a READ.                           *)

RequestCodes == {"HANDSHAKE", "CREATE", "OPEN", "READ", "WRITE", "CLOSE",
                 "CONSENT", "RENAME", "EXIT"}

Request == [op : {"HANDSHAKE", "EXIT"}, tid : Tid, path : {NoPath}, n : Nat]
             \cup [op : RequestCodes \ {"HANDSHAKE", "EXIT"}, tid : Tid, path : Path, n : Nat]

Req(op, t, p, n) == [op |-> op, tid |-> t, path |-> p, n |-> n]

\* The requests whose sender waits on its response queue.
Blocking == {"OPEN", "READ", "CONSENT"}

\* The offset the server answers with to say "no further request is needed".
ULLONG_MAX == -1

-----------------------------------------------------------------------------
(* The file system, as the server sees it.                                 *)

Exists(p) == link[p] # 0

is_directory(p) == Exists(p) /\ p \in Dir

get_file_size_if_exists(p) == IF Exists(p) THEN isize[link[p]] ELSE 0

-----------------------------------------------------------------------------
(* The CAPIO-CL engine: an entry's rules, and the defaults without one.    *)

fileToBeHandled(p) == p \in Handled

getCommitRule(p) == IF p \in locations THEN CommitRule[p] ELSE "on_termination"

getFireRule(p) == IF p \in locations THEN FireRule[p] ELSE "update"

\* A new entry (newFile) has the count -1, a path without an entry the count 0.
getCommitCloseCount(p) ==
  IF p \notin locations THEN 0 ELSE IF p \in Declared THEN CloseCount[p] ELSE -1

getDirectoryFileCount(p) ==
  IF p \notin locations THEN 0 ELSE IF p \in Declared THEN FileCount[p] ELSE -1

get_file_deps(p) == IF p \in locations /\ p \in Declared THEN Deps[p] ELSE {}

\* Without an entry of its own, a path is looked up through the first entry
\* the iteration of the hash table finds that matches it.
isProducer(p, t) ==
  LET matching == {k \in locations : <<k, p>> \in Globs}
  IN  IF p \in locations THEN appNames[t] \in producers[p]
      ELSE matching # {} /\ appNames[t] \in producers[CHOOSE k \in matching : TRUE]

-----------------------------------------------------------------------------
(* CapioFileManager::isCommitted.  The code recurses through file_deps;    *)
(* CommittedWithin[n] are the paths it finds committed in at most n nested *)
(* calls, and on acyclic dependencies |Path| of them are always enough.    *)

FilesIn(d) == {p \in Path : Exists(p) /\ Parent[p] = d}

\* Mutant: the count must be met exactly.
CloseCommitted_Exactly(p) ==
  /\ token[p] # -1
  /\ getCommitCloseCount(p) = -1 \/ token[p] = getCommitCloseCount(p)

CloseCommitted(p) ==
  /\ token[p] # -1
  /\ getCommitCloseCount(p) = -1 \/ token[p] >= getCommitCloseCount(p)

\* The paths it finds committed when the nested calls find those in S.
CommittedGiven(S) ==
  {p \in Path :
     IF is_directory(p)
       THEN Cardinality(FilesIn(p)) >= getDirectoryFileCount(p)
       ELSE CASE getCommitRule(p) = "on_file"  -> get_file_deps(p) \subseteq S
              [] getCommitRule(p) = "on_close" -> CloseCommitted(p)
              [] OTHER                         -> token[p] # -1}

CommittedWithin[n \in Nat] == CommittedGiven(IF n = 0 THEN {} ELSE CommittedWithin[n - 1])

isCommitted(p) == p \in CommittedWithin[Cardinality(Path)]

-----------------------------------------------------------------------------
(* ClientManager::reply_to_client, and the exceptions that end the server. *)

Throw(exception) ==
  /\ server' = exception
  /\ UNCHANGED <<fsVars, token, clVars, reqs, resp, cmVars, waitC, waitD,
                 clientVars, handlerVars, monitorVars>>

\* The .at(tid) of a thread the server does not know throws out_of_range.
Unknown(t) == t \notin bufs

Unnamed(t) == appNames[t] = NoApp

reply_to_clients(S, v) ==
  resp' = [t \in Tid |-> IF t \in S THEN Append(resp[t], v) ELSE resp[t]]

=============================================================================
