---------------------------- MODULE Descriptors ----------------------------
(***************************************************************************)
(* The tables in which the POSIX library of one process keeps what it      *)
(* knows of the descriptors the program holds on files of CAPIO_DIR        *)
(* (capio_files_paths, capio_files_descriptors, files), next to the tables *)
(* of the kernel they should agree with.  A handler changes the library's  *)
(* tables and the system call the kernel's; the program makes one call at  *)
(* a time.  execve hands the library's tables on in shared memory.         *)
(***************************************************************************)
EXTENDS Integers, FiniteSetsExt

CONSTANTS
  Path,        \* files of CAPIO_DIR
  Outside,     \* stands for every file that is not in CAPIO_DIR
  Gone,        \* the name of an open file that was unlinked or replaced
  Garbage,     \* what is read as a path from memory that was unmapped
  Free,        \* an unused descriptor, description or cell; no request
  MaxFd,       \* bound: descriptors are 0 .. MaxFd
  MaxPos,      \* bound: the kernel's file position, and the library's offset (InReach)
  OffMod,      \* 2^64: the library's offsets are unsigned and wrap
  IovecSize,   \* sizeof(iovec)
  OpenModes,   \* of "r", "w" and "rw", how the program opens files
  Programs     \* programs, each by what it does beyond the plain calls: sets of Habit

Habit == {"dup2_onto_open", "dup2_from_outside", "dup_fails", "fcntl_dup",
          "rename_onto_known", "seek_end", "seek_fails", "readv", "cloexec",
          "exec", "exec_fails", "exec_shared"}

ASSUME DescriptorsAssumption ==
  /\ {Outside, Gone, Garbage, Free} \cap Path = {}
  /\ Outside # Gone
  /\ MaxFd \in Nat /\ MaxPos \in Nat
  /\ OffMod \in Nat /\ OffMod > 2 * MaxPos + IovecSize
  /\ IovecSize \in Nat \ {0}
  /\ OpenModes \subseteq {"r", "w", "rw"}
  /\ Programs \subseteq SUBSET Habit

Fd == 0 .. MaxFd
Errno == -24   \* a kernel call that fails returns the negated error: -EMFILE
AnyFd == Fd \cup {Errno}     \* what the library may take for a descriptor
Cell == AnyFd \cup {MaxFd + 1}   \* names for offset cells, one more than descriptors
Slot == 0 .. MaxFd + 1     \* names for open file descriptions, likewise
Offset == 0 .. OffMod - 1

\* An open file description, and a descriptor in the snapshot.
Description == [name : Path \cup {Outside, Gone}, mode : {"r", "w", "rw"}, pos : 0 .. MaxPos]
Saved == [offset : Offset, cloexec : BOOLEAN]

\* Free is nothing else.
ASSUME FreeAssumption ==
  /\ Free \notin Int /\ Free \notin Description
  /\ \A fds \in SUBSET AnyFd : Free \notin [fds -> Saved]

VARIABLES
  kfd,      \* kernel: the open file description of each descriptor
  kclo,     \* kernel: the descriptors with FD_CLOEXEC
  ofd,      \* kernel: name, mode and position of each open file description
  dir,      \* kernel: the files of CAPIO_DIR that exist
  tab,      \* the library's tables
  snap,     \* the snapshot in shared memory, or Free
  habits,   \* which of the programs this is
  told,     \* the path of the CLOSE the last step sent to the server, or Free
  status    \* "running", "threw" (an at() without entry), "killed" (SIGSEGV)

vars == <<kfd, kclo, ofd, dir, tab, snap, habits, told, status>>

-----------------------------------------------------------------------------
(* The library's tables, as a record that the helpers of filesystem.hpp    *)
(* map to a new one.  files keeps a pointer to an offset shared by the     *)
(* descriptors that were duplicated from one another: a cell.              *)

Empty == <<>>

NewTables ==
  [paths |-> Empty, descr |-> Empty, files |-> Empty,
   cell |-> [c \in Cell |-> Free], threw |-> FALSE]

\* emplace and insert of a map: an entry that is there stays.
Insert(f, k, v) == [x \in DOMAIN f \cup {k} |-> IF x \in DOMAIN f THEN f[x] ELSE v]

Erase(f, keys) == [x \in DOMAIN f \ keys |-> f[x]]

\* shared_ptr: a cell that no entry of files points to any more is freed.
FreeCells(t) ==
  [t EXCEPT !.cell = [c \in Cell |->
     IF \E fd \in DOMAIN t.files : t.files[fd].cell = c THEN t.cell[c] ELSE Free]]

Threw(t) == [t EXCEPT !.threw = TRUE]

exists_capio_fd(t, fd) == fd \in DOMAIN t.files

get_capio_fd_path(t, fd) == t.descr[fd]

get_capio_fd_offset(t, fd) == t.cell[t.files[fd].cell]

get_capio_fds(t) == DOMAIN t.files

set_capio_fd_offset(t, fd, offset) ==
  [t EXCEPT !.cell[t.files[fd].cell] = offset % OffMod]

set_capio_fd_cloexec(t, fd, cloexec) == [t EXCEPT !.files[fd].cloexec = cloexec]

add_capio_path(t, path) == [t EXCEPT !.paths = Insert(@, path, {})]

add_capio_fd(t, path, fd, offset, cloexec) ==
  LET c == CHOOSE c \in Cell : t.cell[c] = Free
      u == add_capio_path(t, path)
  IN  FreeCells([u EXCEPT
        !.paths[path] = @ \cup {fd},
        !.descr = Insert(@, fd, path),
        !.files = Insert(@, fd, [cell |-> c, cloexec |-> cloexec]),
        !.cell[c] = offset])

\* An at() for one of these descriptors misses its entry.
Missing(t, fds) == \E fd \in fds : fd \notin DOMAIN t.descr \/ t.descr[fd] \notin DOMAIN t.paths

\* The sets of descriptors without fds, each taken out where descr has it.
Forget(t, fds) == [p \in DOMAIN t.paths |-> {fd \in t.paths[p] : fd \in fds => t.descr[fd] # p}]

\* Mutant: the descriptors stay in the set of their path.
delete_capio_fds_KeepsPath(t, fds) ==
  IF Missing(t, fds) THEN Threw(t)
  ELSE FreeCells([t EXCEPT !.descr = Erase(@, fds), !.files = Erase(@, fds)])

\* Mutant: files keeps the descriptors.
delete_capio_fds_KeepsFile(t, fds) ==
  IF Missing(t, fds) THEN Threw(t)
  ELSE [t EXCEPT !.paths = Forget(t, fds), !.descr = Erase(@, fds)]

\* delete_capio_fd for each of fds; none of them looks at the entries of another.
delete_capio_fds(t, fds) ==
  IF Missing(t, fds) THEN Threw(t)
  ELSE FreeCells([t EXCEPT !.paths = Forget(t, fds),
                           !.descr = Erase(@, fds), !.files = Erase(@, fds)])

delete_capio_fd(t, fd) == delete_capio_fds(t, {fd})

delete_capio_path(t, path) ==
  IF path \notin DOMAIN t.paths THEN t
  ELSE LET u == delete_capio_fds(t, t.paths[path])
       IN  IF u.threw THEN u ELSE [u EXCEPT !.paths = Erase(@, {path})]

dup_capio_fd(t, oldfd, newfd, cloexec) ==
  IF t.descr[oldfd] \notin DOMAIN t.paths THEN Threw(t)
  ELSE set_capio_fd_cloexec(
         [t EXCEPT !.paths[t.descr[oldfd]] = @ \cup {newfd},
                   !.files = Insert(@, newfd, t.files[oldfd]),
                   !.descr = Insert(@, newfd, t.descr[oldfd])],
         newfd, cloexec)

\* Mutant: the descriptors keep the old path.
rename_capio_path_KeepsDescr(t, oldpath, newpath) ==
  IF oldpath \notin DOMAIN t.paths THEN t
  ELSE [t EXCEPT !.paths = Insert(Erase(@, {oldpath}), newpath, t.paths[oldpath])]

rename_capio_path(t, oldpath, newpath) ==
  IF oldpath \notin DOMAIN t.paths THEN t
  ELSE LET paths == Insert(Erase(t.paths, {oldpath}), newpath, t.paths[oldpath])
       IN  IF ~(paths[newpath] \subseteq DOMAIN t.descr) THEN Threw(t)
           ELSE [t EXCEPT !.paths = paths,
                          !.descr = [fd \in DOMAIN @ |->
                             IF fd \in paths[newpath] THEN newpath ELSE @[fd]]]

-----------------------------------------------------------------------------
(* The kernel's side of the calls.                                         *)

Lowest == Min({fd \in Fd : kfd[fd] = Free})

FdLeft == \E fd \in Fd : kfd[fd] = Free

\* The descriptor table becomes k; descriptions nobody refers to are freed.
KernelFds(k) ==
  /\ kfd' = k
  /\ ofd' = [o \in Slot |-> IF \E fd \in Fd : k[fd] = o THEN ofd[o] ELSE Free]

KernelOpen(name, mode, cloexec) ==
  LET o == CHOOSE s \in Slot : ofd[s] = Free
  IN  /\ kfd' = [kfd EXCEPT ![Lowest] = o]
      /\ ofd' = [ofd EXCEPT ![o] = [name |-> name, mode |-> mode, pos |-> 0]]
      /\ kclo' = IF cloexec THEN kclo \cup {Lowest} ELSE kclo \ {Lowest}

KernelDup(fd, fd2, cloexec) ==
  /\ KernelFds([kfd EXCEPT ![fd2] = kfd[fd]])
  /\ kclo' = IF cloexec THEN kclo \cup {fd2} ELSE kclo \ {fd2}

\* Every open file named path gets another name.
Renamed(path, name) ==
  [o \in Slot |-> IF ofd[o] # Free /\ ofd[o].name = path
                  THEN [ofd[o] EXCEPT !.name = name] ELSE ofd[o]]

Seek(fd, pos) ==
  /\ pos <= MaxPos
  /\ ofd' = [ofd EXCEPT ![kfd[fd]].pos = pos]

\* The description behind a descriptor the program has open.
Of(fd) == ofd[kfd[fd]]

Readable(fd) == Of(fd).mode \in {"r", "rw"}

-----------------------------------------------------------------------------
(* The handlers.  One that throws ends the process; what the kernel's      *)
(* tables hold then does not matter.                                       *)

Tables(t) == tab' = t /\ status' = IF t.threw THEN "threw" ELSE status

Open(fd) == status = "running" /\ kfd[fd] # Free

Recorded(fd) == Open(fd) /\ exists_capio_fd(tab, fd)

\* creat, open and openat of a file of CAPIO_DIR.
open_handler(path, mode, cloexec) ==
  /\ status = "running" /\ FdLeft
  /\ (path \in dir \/ mode # "r")
  /\ KernelOpen(path, mode, cloexec)
  /\ dir' = dir \cup {path}
  /\ Tables(add_capio_fd(tab, path, Lowest, 0, cloexec))
  /\ told' = Free /\ UNCHANGED snap

OpenOutside ==
  /\ status = "running" /\ FdLeft
  /\ KernelOpen(Outside, "r", FALSE)
  /\ told' = Free /\ UNCHANGED <<dir, tab, snap, status>>

\* Mutant: CLOSE is sent for the last descriptor of a path only.
close_handler_LastOnly(fd) ==
  /\ Open(fd)
  /\ IF Recorded(fd)
     THEN /\ told' = IF tab.paths[tab.descr[fd]] = {fd} THEN tab.descr[fd] ELSE Free
          /\ Tables(delete_capio_fd(tab, fd))
     ELSE told' = Free /\ UNCHANGED <<tab, status>>
  /\ KernelFds([kfd EXCEPT ![fd] = Free])
  /\ kclo' = kclo \ {fd}
  /\ UNCHANGED <<dir, snap>>

close_handler(fd) ==
  /\ Open(fd)
  /\ IF Recorded(fd)
     THEN told' = get_capio_fd_path(tab, fd) /\ Tables(delete_capio_fd(tab, fd))
     ELSE told' = Free /\ UNCHANGED <<tab, status>>
  /\ KernelFds([kfd EXCEPT ![fd] = Free])
  /\ kclo' = kclo \ {fd}
  /\ UNCHANGED <<dir, snap>>

dup_handler(fd) ==
  /\ Recorded(fd) /\ FdLeft
  /\ KernelDup(fd, Lowest, FALSE)
  /\ Tables(dup_capio_fd(tab, fd, Lowest, FALSE))
  /\ told' = Free /\ UNCHANGED <<dir, snap>>

\* Kernel errors come back negated: only -EPERM is the -1 the handler tests for.
dup_handler_Fails(fd) ==
  /\ "dup_fails" \in habits
  /\ Recorded(fd)
  /\ Tables(dup_capio_fd(tab, fd, Errno, FALSE))
  /\ told' = Free /\ UNCHANGED <<kfd, kclo, ofd, dir, snap>>

MayReplace(fd2) == "dup2_onto_open" \notin habits => kfd[fd2] = Free

dup2_handler(fd, fd2) ==
  /\ Recorded(fd) /\ fd2 # fd /\ MayReplace(fd2)
  /\ KernelDup(fd, fd2, FALSE)
  /\ Tables(dup_capio_fd(tab, fd, fd2, FALSE))
  /\ told' = Free /\ UNCHANGED <<dir, snap>>

dup3_handler(fd, fd2, cloexec) ==
  /\ Recorded(fd) /\ fd2 # fd /\ MayReplace(fd2)
  /\ KernelDup(fd, fd2, cloexec)
  /\ Tables(dup_capio_fd(tab, fd, fd2, cloexec))
  /\ told' = Free /\ UNCHANGED <<dir, snap>>

\* dup2 of a descriptor the library does not know: left to the kernel.
dup2_handler_Outside(fd, fd2) ==
  /\ Open(fd) /\ ~exists_capio_fd(tab, fd) /\ fd2 # fd
  /\ "dup2_from_outside" \notin habits => kfd[fd2] = Free
  /\ KernelDup(fd, fd2, FALSE)
  /\ told' = Free /\ UNCHANGED <<tab, status, dir, snap>>

\* fcntl asks for consent; that F_DUPFD makes a descriptor goes unrecorded.
fcntl_handler(fd, duplicate) ==
  /\ Recorded(fd)
  /\ IF duplicate
     THEN /\ "fcntl_dup" \in habits /\ FdLeft
          /\ KernelDup(fd, Lowest, FALSE)
     ELSE UNCHANGED <<kfd, kclo, ofd>>
  /\ told' = Free /\ UNCHANGED <<dir, tab, snap, status>>

\* Bound: an offset is followed up to MaxPos, and when it wraps below zero as
\* far down; from there on it is counted up again.
InReach(offset) == offset % OffMod <= MaxPos \/ offset % OffMod >= OffMod - MaxPos

\* What lseek makes of the library's offset: SEEK_END is taken for SEEK_SET.
SeekOffset(fd, offset, whence) ==
  IF whence = "CUR" THEN get_capio_fd_offset(tab, fd) + offset ELSE offset

\* Where the kernel's lseek ends up; a file's size is any within the bound.
SeekTargets(fd, offset, whence) ==
  CASE whence = "SET" -> {offset}
    [] whence = "CUR" -> {Of(fd).pos + offset}
    [] whence = "END" -> 0 .. MaxPos

lseek_handler(fd, offset, whence) ==
  /\ Recorded(fd)
  /\ whence = "END" => offset = 0 /\ (~Readable(fd) \/ "seek_end" \in habits)
  /\ \E pos \in SeekTargets(fd, offset, whence) :
       IF pos >= 0 THEN Seek(fd, pos)
       ELSE "seek_fails" \in habits /\ UNCHANGED ofd
  /\ InReach(SeekOffset(fd, offset, whence))
  /\ Tables(set_capio_fd_offset(tab, fd, SeekOffset(fd, offset, whence)))
  /\ told' = Free /\ UNCHANGED <<kfd, kclo, dir, snap>>

\* Mutant: the offset stays where it was.
ReadUpTo_Stays(fd, bytes) == tab

\* The offset after a read of so many bytes, whatever the kernel delivers.
ReadUpTo(fd, bytes) ==
  set_capio_fd_offset(tab, fd, get_capio_fd_offset(tab, fd) + bytes)

read_handler(fd) ==
  /\ Recorded(fd) /\ Readable(fd)
  /\ InReach(get_capio_fd_offset(tab, fd) + 1)
  /\ Tables(ReadUpTo(fd, 1))
  /\ \E got \in 0 .. 1 : Seek(fd, Of(fd).pos + got)
  /\ told' = Free /\ UNCHANGED <<kfd, kclo, dir, snap>>

\* readv counts the size of the iovec array, not of the buffers it describes.
readv_handler(fd, iovcnt) ==
  /\ Recorded(fd) /\ Readable(fd)
  /\ InReach(get_capio_fd_offset(tab, fd) + iovcnt * IovecSize)
  /\ Tables(ReadUpTo(fd, iovcnt * IovecSize))
  /\ \E got \in 0 .. (IF "readv" \in habits THEN MaxPos ELSE iovcnt * IovecSize) :
       Seek(fd, Of(fd).pos + got)
  /\ told' = Free /\ UNCHANGED <<kfd, kclo, dir, snap>>

\* write moves the kernel's position and leaves the library's offset alone.
write_handler(fd) ==
  /\ Recorded(fd) /\ Of(fd).mode # "r"
  /\ Seek(fd, Of(fd).pos + 1)
  /\ told' = Free /\ UNCHANGED <<kfd, kclo, dir, tab, snap, status>>

unlink_handler(path) ==
  /\ status = "running" /\ path \in dir
  /\ Tables(delete_capio_path(tab, path))
  /\ dir' = dir \ {path}
  /\ ofd' = Renamed(path, Gone)
  /\ told' = Free /\ UNCHANGED <<kfd, kclo, snap>>

\* A path that was opened before is known, closed again or not.
MayRename(oldpath, newpath) ==
  "rename_onto_known" \notin habits =>
    ({oldpath, newpath} \subseteq DOMAIN tab.paths =>
       tab.paths[oldpath] \cup tab.paths[newpath] = {})

rename_handler(oldpath, newpath) ==
  /\ status = "running" /\ oldpath \in dir /\ oldpath # newpath
  /\ MayRename(oldpath, newpath)
  /\ Tables(rename_capio_path(tab, oldpath, newpath))
  /\ dir' = (dir \ {oldpath}) \cup {newpath}
  /\ ofd' = [o \in Slot |->
       IF ofd[o] # Free /\ ofd[o].name = newpath THEN [ofd[o] EXCEPT !.name = Gone]
       ELSE Renamed(oldpath, newpath)[o]]
  /\ told' = Free /\ UNCHANGED <<kfd, kclo, snap>>

-----------------------------------------------------------------------------
(* execve: create_snapshot before the kernel's call, init of the library   *)
(* in the new program after it.                                            *)

\* The parts of shared memory create_snapshot fills; none for no descriptor.
create_snapshot(t) ==
  IF get_capio_fds(t) = {} THEN snap
  ELSE [fd \in get_capio_fds(t) |->
          [offset |-> get_capio_fd_offset(t, fd), cloexec |-> t.files[fd].cloexec]]

\* The path is read after its memory was unmapped, so it is never the one saved.
\* add_capio_fd for each descriptor, with an offset of its own.
initialize_from_snapshot(s) ==
  [paths |-> [p \in {Garbage} |-> DOMAIN s],
   descr |-> [fd \in DOMAIN s |-> Garbage],
   files |-> [fd \in DOMAIN s |-> [cell |-> fd, cloexec |-> s[fd].cloexec]],
   cell |-> [c \in Cell |-> IF c \in DOMAIN s THEN s[c].offset ELSE Free],
   threw |-> FALSE]

Shared(t) == \E f, g \in DOMAIN t.files : f # g /\ t.files[f].cell = t.files[g].cell

MayExec ==
  /\ "exec" \in habits
  /\ "exec_shared" \notin habits => ~Shared(tab)

\* Mutant: the snapshot stays in shared memory once it was read.
execve_handler_Keeps ==
  /\ status = "running" /\ MayExec
  /\ LET s == create_snapshot(tab) IN
       /\ \/ tab' = (IF s = Free THEN NewTables ELSE initialize_from_snapshot(s))
             /\ UNCHANGED status
          \/ s # Free /\ status' = "killed" /\ tab' = NewTables
       /\ snap' = s
  /\ KernelFds([fd \in Fd |-> IF fd \in kclo THEN Free ELSE kfd[fd]])
  /\ kclo' = {}
  /\ told' = Free /\ UNCHANGED dir

execve_handler ==
  /\ status = "running" /\ MayExec
  /\ LET s == create_snapshot(tab) IN
       \/ tab' = (IF s = Free THEN NewTables ELSE initialize_from_snapshot(s))
          /\ UNCHANGED status
       \/ s # Free /\ status' = "killed" /\ tab' = NewTables
  /\ snap' = Free
  /\ KernelFds([fd \in Fd |-> IF fd \in kclo THEN Free ELSE kfd[fd]])
  /\ kclo' = {}
  /\ told' = Free /\ UNCHANGED dir

\* The kernel finds no such program: the snapshot stays.
execve_handler_Fails ==
  /\ status = "running" /\ "exec_fails" \in habits
  /\ snap' = create_snapshot(tab)
  /\ told' = Free /\ UNCHANGED <<kfd, kclo, ofd, dir, tab, status>>

-----------------------------------------------------------------------------

Init ==
  /\ kfd = [fd \in Fd |-> Free] /\ kclo = {}
  /\ ofd = [o \in Slot |-> Free]
  /\ dir = {}
  /\ tab = NewTables /\ snap = Free
  /\ habits \in Programs
  /\ told = Free
  /\ status = "running"

\* Whether a descriptor is opened with O_CLOEXEC.
Cloexec == IF "cloexec" \in habits THEN BOOLEAN ELSE {FALSE}

Call ==
  \/ \E path \in Path, mode \in OpenModes, cloexec \in Cloexec :
       open_handler(path, mode, cloexec)
  \/ OpenOutside
  \/ \E fd \in Fd :
       \/ close_handler(fd)
       \/ dup_handler(fd)
       \/ dup_handler_Fails(fd)
       \/ \E fd2 \in Fd :
            \/ dup2_handler(fd, fd2)
            \/ \E cloexec \in Cloexec : dup3_handler(fd, fd2, cloexec)
            \/ dup2_handler_Outside(fd, fd2)
       \/ \E duplicate \in BOOLEAN : fcntl_handler(fd, duplicate)
       \/ \E offset \in -1 .. 1, whence \in {"SET", "CUR", "END"} :
            lseek_handler(fd, offset, whence)
       \/ read_handler(fd)
       \/ readv_handler(fd, 1)
       \/ write_handler(fd)
  \/ \E path \in Path : unlink_handler(path)
  \/ \E oldpath, newpath \in Path : rename_handler(oldpath, newpath)
  \/ execve_handler
  \/ execve_handler_Fails

Next == Call /\ UNCHANGED habits

Spec == Init /\ [][Next]_vars
-----------------------------------------------------------------------------
(* Properties.                                                             *)

FileRec == [cell : Cell, cloexec : BOOLEAN]

\* Every variable holds a value of its type; the tables are keyed by
\* descriptor numbers and by paths (capio_files_paths, files, filesystem.hpp).
TypeOK ==
  /\ kfd \in [Fd -> Slot \cup {Free}] /\ kclo \subseteq Fd
  /\ \A o \in Slot : ofd[o] # Free => ofd[o] \in Description
  /\ dir \subseteq Path
  /\ DOMAIN tab.paths \subseteq Path \cup {Garbage}
  /\ \A p \in DOMAIN tab.paths : tab.paths[p] \subseteq AnyFd
  /\ DOMAIN tab.descr \subseteq AnyFd
  /\ \A fd \in DOMAIN tab.files : tab.files[fd] \in FileRec
  /\ \A c \in Cell : tab.cell[c] # Free => tab.cell[c] \in Offset
  /\ status \in {"running", "threw", "killed"}

\* exists_capio_fd looks into files, and every handler then calls at() on
\* capio_files_descriptors and dereferences the offset: whatever the program
\* does, the maps hold what they should, the two have the same keys and each
\* entry has its offset.
MapsAgree ==
  /\ TypeOK
  /\ DOMAIN tab.files = DOMAIN tab.descr
  /\ \A fd \in DOMAIN tab.files : tab.cell[tab.files[fd].cell] # Free

\* What follows holds for programs without certain combinations of habits;
\* with any of these it does not.
Without(combinations) == \A c \in combinations : ~(c \subseteq habits)

\* The handlers send get_capio_fd_path(fd) to the server: every descriptor
\* open on a file of CAPIO_DIR is recorded under the name the file has now.
NamesTrue ==
  /\ status = "running"
  /\ Without({{"dup2_onto_open"}, {"fcntl_dup"}, {"rename_onto_known"}, {"exec"}})
  => \A fd \in Fd : kfd[fd] # Free /\ Of(fd).name \in Path =>
       fd \in DOMAIN tab.descr /\ tab.descr[fd] = Of(fd).name

\* exists_capio_fd is taken to mean "a file of CAPIO": a recorded descriptor
\* is open, and not on a file outside CAPIO_DIR that got the number later;
\* the snapshot across execve brings none that the new program does not have.
RecordedOpen ==
  /\ status = "running"
  /\ Without({{"dup2_from_outside"}, {"dup_fails"}, {"exec", "cloexec"}, {"exec", "exec_fails"}})
  => \A fd \in DOMAIN tab.files : fd \in Fd /\ kfd[fd] # Free /\ Of(fd).name # Outside

\* read_handler asks the server for the bytes up to get_capio_fd_offset plus
\* the count: for what the kernel is going to deliver to be covered, the
\* library's offset is never behind the position of a description one reads,
\* across short reads, seeks and execve.  A seek the kernel refuses moves the
\* library's offset all the same: programs that do that are left out.
OffsetCovers ==
  /\ status = "running"
  /\ Without({{"dup2_onto_open"}, {"dup2_from_outside"}, {"seek_end"}, {"seek_fails"}, {"readv"},
              {"exec", "exec_shared"}, {"exec", "cloexec"}, {"exec", "exec_fails"}})
  => \A fd \in DOMAIN tab.files \cap Fd :
       kfd[fd] # Free /\ Readable(fd) => get_capio_fd_offset(tab, fd) >= Of(fd).pos

\* No at() of the helpers misses its entry, in any sequence of calls
\* (delete_capio_fd, dup_capio_fd, rename_capio_path).
NoThrow ==
  Without({{"dup2_onto_open"}, {"dup_fails"}, {"rename_onto_known"},
           {"exec", "cloexec"}, {"exec", "exec_fails"}})
  => status # "threw"

\* The server counts closes (on_close:N): a step by which a descriptor stops
\* referring to a file of CAPIO_DIR sends CLOSE with the name of that file.
ClosesTold ==
  [][Without({{"dup2_onto_open"}, {"dup2_from_outside"}, {"fcntl_dup"},
              {"rename_onto_known"}, {"exec"}})
     => \A fd \in Fd :
          (kfd[fd] # Free /\ Of(fd).name \in Path /\ kfd'[fd] # kfd[fd])
            => told' = Of(fd).name]_vars

=============================================================================
