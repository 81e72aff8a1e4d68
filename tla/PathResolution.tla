--------------------------- MODULE PathResolution ---------------------------
(***************************************************************************)
(* Which file a system call is about.  The handlers of the POSIX library   *)
(* compute an absolute path before the kernel resolves the same arguments, *)
(* and what they tell the server is about the path they computed.  A path  *)
(* is the sequence of its components; a directory descriptor stands for    *)
(* the path the kernel, and the one the library, has for it.               *)
(***************************************************************************)
EXTENDS Integers, FiniteSets, SequencesExt

CONSTANTS
  Name,        \* names of files and directories
  Dotted,      \* the names that begin with two dots
  CapioDir,    \* get_capio_dir(), a path
  Forbidden,   \* the top directories of CAPIO_DIR_FORBIDDEN_PATHS
  RelPath,     \* the relative paths the program uses: sequences of names and ".."
  AbsPath,     \* the absolute ones
  Depth,       \* bound: components of a path that exists
  MaxEntries,  \* bound: files and directories that exist
  DirFd,       \* descriptors of directories
  StartDir,    \* the working directories the program may be started in
  Cwd,         \* AT_FDCWD
  None         \* no path; an unused descriptor

Up == ".."

ASSUME PathAssumption ==
  /\ Dotted \subseteq Name /\ Up \notin Name
  /\ CapioDir \in Seq(Name) /\ Forbidden \subseteq Name
  /\ RelPath \cup AbsPath \subseteq Seq(Name \cup {Up}) /\ StartDir \subseteq Seq(Name)
  /\ Depth \in Nat /\ MaxEntries \in Nat
  /\ {Cwd, None} \cap DirFd = {} /\ Cwd # None /\ None \notin Seq(Name)

VARIABLES
  dirs, regs,  \* kernel: the directories and the regular files that exist
  cwd,      \* kernel: the working directory
  kdir,     \* kernel: the directory of each descriptor, or None
  cur,      \* current_dir of the library
  ldir,     \* the path the library recorded for a directory descriptor, or None
  careful   \* history: whether all its renames so far were Careful

pathVars == <<dirs, regs, cwd, kdir, cur, ldir, careful>>

tree == dirs \cup regs

-----------------------------------------------------------------------------
(* Paths.                                                                  *)

\* The path q, then a component; above the root is the root.
Push(q, c) ==
  CASE c # Up -> Append(q, c)
    [] c = Up /\ q # <<>> -> Front(q)
    [] OTHER -> q

\* lexically_normal of an absolute path, which is also what the kernel
\* resolves it to where there are no symbolic links.
Normal(p) ==
  LET Upto[n \in 0 .. Len(p)] == IF n = 0 THEN <<>> ELSE Push(Upto[n - 1], p[n])
  IN  Upto[Len(p)]

Absolute(p) == [abs |-> TRUE, comps |-> p]
Relative(p) == [abs |-> FALSE, comps |-> p]
Argument == {Absolute(p) : p \in AbsPath} \cup {Relative(p) : p \in RelPath}

\* What the kernel resolves an argument to.
Target(d, arg) ==
  Normal(IF arg.abs THEN arg.comps ELSE (IF d = Cwd THEN cwd ELSE kdir[d]) \o arg.comps)

Below(p, d) == IsPrefix(d, p)

\* lexically_relative compares components; the result must not begin with "..".
is_prefix(p1, p2) ==
  /\ None \notin {p1, p2} /\ IsPrefix(p1, p2)
  /\ Len(p2) > Len(p1) => p2[Len(p1) + 1] \notin Dotted \cup {Up}

is_capio_path(p) == is_prefix(CapioDir, p)

is_forbidden_path(arg) == arg.abs /\ arg.comps # <<>> /\ Head(arg.comps) \in Forbidden

\* Mutant: names are put below current_dir without asking the kernel.
capio_posix_realpath_Lexical(arg) ==
  IF arg.abs THEN arg.comps
  ELSE LET p == Normal(cur \o arg.comps) IN IF is_capio_path(p) THEN p ELSE None

\* realpath for what exists, else the path as it is, or below current_dir.
capio_posix_realpath(arg) ==
  IF Target(Cwd, arg) \in tree THEN Target(Cwd, arg)
  ELSE IF arg.abs THEN arg.comps
  ELSE LET p == Normal(cur \o arg.comps) IN IF is_capio_path(p) THEN p ELSE None

capio_absolute(arg) == IF arg.abs THEN arg.comps ELSE capio_posix_realpath(arg)

\* The recorded path, or the one /proc/self/fd shows; nothing for no descriptor.
get_dir_path(d) ==
  CASE d = None -> None
    [] d # None /\ ldir[d] # None -> ldir[d]
    [] OTHER -> kdir[d]

compute_abs_path(arg, d) ==
  CASE arg.abs -> arg.comps
    [] ~arg.abs /\ d = Cwd -> capio_posix_realpath(arg)
    [] OTHER -> LET dir == get_dir_path(d)
                IN  IF dir = None THEN None ELSE Normal(dir \o arg.comps)

-----------------------------------------------------------------------------
(* What each handler tells the server, for its arguments.                  *)

IfCapio(p) == IF is_capio_path(p) THEN p ELSE None

\* creat and open pass -1 for the directory, which is none.
open_path(arg) == IfCapio(compute_abs_path(arg, IF arg.abs THEN Cwd ELSE None))

openat_path(d, arg) == IfCapio(compute_abs_path(arg, d))

capio_mkdirat(d, arg) ==
  IF is_forbidden_path(arg) THEN None ELSE IfCapio(compute_abs_path(arg, d))

\* access and chdir send any path, in CAPIO_DIR or not.
access_path(arg) == IF is_forbidden_path(arg) THEN None ELSE capio_absolute(arg)

chdir_path(arg) == IF is_forbidden_path(arg) THEN None ELSE capio_absolute(arg)

faccessat_path(d, arg) ==
  IF is_forbidden_path(arg) THEN None ELSE compute_abs_path(arg, d)

capio_lstat(p) == IfCapio(p)

capio_lstat_wrapper(arg) ==
  IF is_forbidden_path(arg) THEN None ELSE capio_lstat(capio_posix_realpath(arg))

capio_fstatat(d, arg) ==
  CASE is_forbidden_path(arg) -> None
    [] ~is_forbidden_path(arg) /\ arg.abs -> capio_lstat(arg.comps)
    [] ~is_forbidden_path(arg) /\ ~arg.abs /\ d = Cwd -> capio_lstat_wrapper(arg)
    [] OTHER -> capio_lstat(compute_abs_path(arg, d))

\* statx and unlink look at the name as it is given.
capio_statx(arg) ==
  IF is_forbidden_path(arg) \/ ~arg.abs THEN None ELSE IfCapio(arg.comps)

unlink_path(arg) == IF arg.abs THEN IfCapio(arg.comps) ELSE None

\* Mutant: names are taken below CAPIO_DIR.
unlinkat_path_CapioDir(arg) ==
  IfCapio(IF arg.abs THEN arg.comps ELSE Normal(CapioDir \o arg.comps))

\* unlinkat does not look at its directory.
unlinkat_path(arg) == IfCapio(capio_posix_realpath(arg))

-----------------------------------------------------------------------------
(* The calls that change something.                                        *)

\* A directory descriptor the program has, or AT_FDCWD.
At(d) == d # Cwd => kdir[d] # None

\* The kernel makes a new entry where the directory above it exists.
CanMake(p) ==
  /\ p # <<>> /\ Len(p) <= Depth /\ p \notin tree
  /\ Front(p) \in dirs /\ Head(p) \notin Forbidden

\* creat, open and openat of a file that is not there yet.
openat_handler(d, arg) ==
  /\ At(d) /\ CanMake(Target(d, arg)) /\ Cardinality(tree) < MaxEntries
  /\ regs' = regs \cup {Target(d, arg)}
  /\ UNCHANGED <<dirs, cwd, kdir, cur, ldir, careful>>

\* A directory is opened; the library records it if it is in CAPIO_DIR.
openat_handler_Dir(fd, d, arg) ==
  /\ At(d) /\ kdir[fd] = None /\ Target(d, arg) \in dirs
  /\ kdir' = [kdir EXCEPT ![fd] = Target(d, arg)]
  /\ ldir' = [ldir EXCEPT ![fd] = openat_path(d, arg)]
  /\ UNCHANGED <<dirs, regs, cwd, cur, careful>>

CloseDir(fd) ==
  /\ kdir[fd] # None
  /\ kdir' = [kdir EXCEPT ![fd] = None] /\ ldir' = [ldir EXCEPT ![fd] = None]
  /\ UNCHANGED <<dirs, regs, cwd, cur, careful>>

mkdirat_handler(d, arg) ==
  /\ At(d) /\ CanMake(Target(d, arg)) /\ Cardinality(tree) < MaxEntries
  /\ dirs' = dirs \cup {Target(d, arg)}
  /\ UNCHANGED <<regs, cwd, kdir, cur, ldir, careful>>

\* rmdir is left to the kernel.
rmdir_handler(arg) ==
  LET p == Target(Cwd, arg) IN
  /\ p \in dirs \ {CapioDir, cwd} /\ p \notin {kdir[fd] : fd \in DirFd}
  /\ \A q \in tree : Below(q, p) => q = p
  /\ dirs' = dirs \ {p}
  /\ UNCHANGED <<regs, cwd, kdir, cur, ldir, careful>>

unlinkat_handler(d, arg) ==
  /\ At(d) /\ Target(d, arg) \in regs
  /\ regs' = regs \ {Target(d, arg)}
  /\ UNCHANGED <<dirs, cwd, kdir, cur, ldir, careful>>

\* The kernel's working directory changes, current_dir does not.
chdir_handler(arg) ==
  /\ Target(Cwd, arg) \in dirs
  /\ cwd' = Target(Cwd, arg)
  /\ UNCHANGED <<dirs, regs, kdir, cur, ldir, careful>>

\* Mutant: the descriptors keep the old path.
rename_capio_path_Keeps(old, new) == UNCHANGED ldir

\* rename_capio_path: the descriptors of exactly that path get the new one.
rename_capio_path(old, new) ==
  ldir' = [fd \in DirFd |-> IF ldir[fd] = old THEN new ELSE ldir[fd]]

\* A careful program does not move a directory it stands in or has a
\* descriptor below, nor moves one it has open back into CAPIO_DIR, nor, after
\* a chdir, moves one it has open to a relative name.
Careful(from, arg2) ==
  /\ ~Below(cwd, from)
  /\ \A fd \in DirFd : kdir[fd] # None /\ Below(kdir[fd], from) =>
       /\ kdir[fd] = from /\ (ldir[fd] = None \/ is_capio_path(from))
       /\ arg2.abs \/ cur = cwd

\* rename between names the kernel accepts; it too refuses to move a directory
\* below itself.
rename_handler(arg1, arg2) ==
  LET old == capio_absolute(arg1)
      new == capio_absolute(arg2)
      from == Target(Cwd, arg1)
      to == Target(Cwd, arg2)
      Moved(p) == IF p # None /\ Below(p, from)
                  THEN to \o SubSeq(p, Len(from) + 1, Len(p)) ELSE p
  IN
  /\ from \in tree /\ ~Below(CapioDir, from) /\ CanMake(to)
  /\ ~Below(to, from) /\ ~is_prefix(old, new)
  /\ \A p \in tree : Len(Moved(p)) <= Depth
  /\ careful' = (careful /\ Careful(from, arg2))
  /\ IF is_capio_path(old) THEN rename_capio_path(old, new) ELSE UNCHANGED ldir
  /\ dirs' = {Moved(p) : p \in dirs} /\ regs' = {Moved(p) : p \in regs}
  /\ cwd' = Moved(cwd) /\ kdir' = [fd \in DirFd |-> Moved(kdir[fd])]
  /\ UNCHANGED cur

-----------------------------------------------------------------------------

\* init_filesystem: current_dir is what getcwd says.
PathInit ==
  /\ dirs = UNION {Prefixes(p) : p \in StartDir \cup {CapioDir}}
  /\ regs = {}
  /\ cwd \in StartDir /\ cur = cwd
  /\ kdir = [fd \in DirFd |-> None] /\ ldir = kdir /\ careful = TRUE

PathNext ==
  \/ \E fd \in DirFd : CloseDir(fd)
  \/ \E arg \in Argument :
       \/ rmdir_handler(arg)
       \/ chdir_handler(arg)
       \/ \E d \in DirFd \cup {Cwd} :
            \/ openat_handler(d, arg)
            \/ \E fd \in DirFd : openat_handler_Dir(fd, d, arg)
            \/ mkdirat_handler(d, arg)
            \/ unlinkat_handler(d, arg)
       \/ \E arg2 \in Argument : rename_handler(arg, arg2)

PathSpec == PathInit /\ [][PathNext]_pathVars

-----------------------------------------------------------------------------
(* Properties.                                                             *)

InCapioDir(p) == p # None /\ Below(p, CapioDir)

\* A handler that tells the server of sent is right about a call on target.
Right(sent, target) ==
  IF InCapioDir(target) THEN sent = target ELSE ~InCapioDir(sent)

\* The handlers that compute a path from a directory and a name
\* (capio_posix_realpath, compute_abs_path, get_dir_path) tell the server the
\* very file of CAPIO_DIR the kernel goes to, and no file of CAPIO_DIR when it
\* goes elsewhere: from whatever directory, before or after the file exists,
\* after any sequence of calls of a careful program that move files and
\* directories, whenever the working directory is the one it started in.
TracksRight ==
  careful /\ cur = cwd => \A arg \in Argument :
    /\ Right(access_path(arg), Target(Cwd, arg))
    /\ Right(chdir_path(arg), Target(Cwd, arg))
    /\ Right(capio_lstat_wrapper(arg), Target(Cwd, arg))
    /\ Right(capio_absolute(arg), Target(Cwd, arg))
    /\ \A d \in DirFd \cup {Cwd} : At(d) =>
         /\ Right(faccessat_path(d, arg), Target(d, arg))
         /\ Right(capio_fstatat(d, arg), Target(d, arg))
         /\ Right(openat_path(d, arg), Target(d, arg))
         /\ Right(capio_mkdirat(d, arg), Target(d, arg))

\* capio_posix_realpath asks the kernel first: for files that exist, and for
\* names relative to a directory descriptor, the path a careful program has
\* told to the server is right even while the working directory is another.
TracksExisting ==
  careful => \A arg \in Argument, d \in DirFd \cup {Cwd} :
    At(d) /\ (d # Cwd \/ Target(d, arg) \in tree) =>
      /\ Right(openat_path(d, arg), Target(d, arg))
      /\ Right(capio_fstatat(d, arg), Target(d, arg))
      /\ Right(faccessat_path(d, arg), Target(d, arg))

\* statx, unlink and open leave calls with a relative name alone, and
\* unlinkat takes every name from the working directory: with AT_FDCWD, and
\* while the working directory is the one the program started in, none of them
\* takes a call for one on another file of CAPIO_DIR.
NeverMisnamed ==
  cur = cwd => \A arg \in Argument :
    \A sent \in {capio_statx(arg), unlink_path(arg), open_path(arg), unlinkat_path(arg)} :
      InCapioDir(sent) => sent = Target(Cwd, arg)

=============================================================================
