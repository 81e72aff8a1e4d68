-------------------------- MODULE DescriptorProofs --------------------------
(***************************************************************************)
(* Proofs about the tables of the POSIX library, for any number of files   *)
(* and descriptors and every program.                                      *)
(***************************************************************************)
EXTENDS Descriptors, FiniteSetTheorems, WellFoundedInduction, TLAPS

-----------------------------------------------------------------------------
(* The kernel's tables and the library's, whatever the program does.       *)

Key == Path \cup {Garbage}
Fields == {"paths", "descr", "files", "cell", "threw"}

PathsOK(paths) == DOMAIN paths \subseteq Key /\ paths \in [DOMAIN paths -> SUBSET AnyFd]

\* The maps have their types; files and descr have the same keys, and the
\* offsets in use are those that some entry of files points to.
MapsOK(descr, files, cell) ==
  /\ DOMAIN descr \subseteq AnyFd /\ descr \in [DOMAIN descr -> Key]
  /\ DOMAIN files = DOMAIN descr /\ files \in [DOMAIN files -> FileRec]
  /\ cell \in [Cell -> Offset \cup {Free}]
  /\ \A fd \in DOMAIN files : cell[files[fd].cell] # Free
  /\ \A c \in Cell : cell[c] # Free => \E fd \in DOMAIN files : files[fd].cell = c

TabOK(t) ==
  /\ DOMAIN t = Fields /\ t.threw \in BOOLEAN
  /\ PathsOK(t.paths) /\ MapsOK(t.descr, t.files, t.cell)

\* A description is in use exactly when some descriptor refers to it.
KernelTab(k, o) ==
  /\ k \in [Fd -> Slot \cup {Free}]
  /\ o \in [Slot -> Description \cup {Free}]
  /\ \A fd \in Fd : k[fd] # Free => o[k[fd]] # Free
  /\ \A s \in Slot : o[s] # Free => \E fd \in Fd : k[fd] = s

KernelOK == KernelTab(kfd, ofd) /\ kclo \subseteq Fd /\ dir \subseteq Path

SnapOK == snap = Free \/ \E fds \in SUBSET AnyFd : snap \in [fds -> Saved]

MapsInv ==
  /\ KernelOK /\ TabOK(tab) /\ SnapOK
  /\ habits \in Programs /\ status \in {"running", "threw", "killed"}
  /\ status = "running" => ~tab.threw

-----------------------------------------------------------------------------
(* There is always a name left.                                            *)

LEMMA Constants ==
  /\ MaxFd \in Nat /\ Fd \subseteq Int /\ AnyFd \subseteq Int /\ Cell \subseteq Int /\ Slot \subseteq Int
  /\ AnyFd \subseteq Cell /\ Free \notin Slot /\ Free \notin Cell /\ Free \notin Offset /\ Free \notin Fd
  /\ 0 \in Offset /\ OffMod \in Nat \ {0} /\ Offset \subseteq Int /\ Errno \notin Fd
BY DescriptorsAssumption, FreeAssumption DEF Fd, AnyFd, Cell, Slot, Offset, Errno

\* The lowest free descriptor is one.
LEMMA LowestFree ==
  ASSUME FdLeft PROVE Lowest \in Fd /\ kfd[Lowest] = Free
<1> DEFINE S == {fd \in Fd : kfd[fd] = Free}
<1>1. S # {} /\ S \subseteq Nat
  BY DescriptorsAssumption DEF FdLeft, Fd
<1> DEFINE R == {ss \in Nat \X Nat : ss[1] < ss[2]}
<1>2. IsWellFoundedOn(R, Nat)
  BY NatLessThanWellFounded DEF OpToRel
<1> HIDE DEF R
<1>3. PICK m \in S : \A y \in S : ~(<<y, m>> \in R)
  BY <1>1, <1>2, WFMin
<1>4. ASSUME NEW y \in S PROVE m =< y
  <2>1. y \in Nat /\ m \in Nat /\ <<y, m>> \in Nat \X Nat
    BY <1>1
  <2>2. ~(y < m)
    BY <1>3, <2>1 DEF R
  <2> QED
    BY <2>1, <2>2
<1>5. Min(S) \in S
  BY <1>4 DEF Min
<1> QED
  BY <1>5 DEF Lowest

\* More names than users: one is left.
LEMMA Pigeonhole ==
  ASSUME NEW S, IsFiniteSet(S), NEW T, IsFiniteSet(T), NEW f \in [S -> T],
         Cardinality(S) < Cardinality(T)
  PROVE  \E x \in T : \A s \in S : f[s] # x
<1> SUFFICES ASSUME \A x \in T : \E s \in S : f[s] = x PROVE FALSE
  OBVIOUS
<1>1. f \in Surjection(S, T)
  BY DEF Surjection
<1>2. Cardinality(T) <= Cardinality(S) /\ Cardinality(S) \in Nat /\ Cardinality(T) \in Nat
  BY <1>1, FS_Surjection, FS_CardinalityType
<1> QED
  BY <1>2

LEMMA CellLeft ==
  ASSUME NEW t, TabOK(t)
  PROVE  \E c \in Cell : t.cell[c] = Free
<1> DEFINE f == [fd \in DOMAIN t.files |-> t.files[fd].cell]
<1>1. f \in [DOMAIN t.files -> Cell]
  BY DEF TabOK, PathsOK, MapsOK, FileRec
<1>2. IsFiniteSet(Fd) /\ Cardinality(Fd) = MaxFd + 1
  BY Constants, FS_Interval DEF Fd
<1>3. IsFiniteSet(AnyFd) /\ Cardinality(AnyFd) = MaxFd + 2
  BY <1>2, Constants, FS_AddElement DEF AnyFd
<1>4. MaxFd + 1 \notin AnyFd
  BY Constants DEF AnyFd, Fd, Errno
<1>5. IsFiniteSet(Cell) /\ Cardinality(Cell) = MaxFd + 3
  BY <1>3, <1>4, Constants, FS_AddElement DEF Cell
<1>6. DOMAIN t.files \subseteq AnyFd
  BY DEF TabOK, PathsOK, MapsOK
<1>7. IsFiniteSet(DOMAIN t.files) /\ Cardinality(DOMAIN t.files) <= MaxFd + 2
  BY <1>3, <1>6, FS_Subset
<1>8. Cardinality(DOMAIN t.files) < Cardinality(Cell)
  BY <1>5, <1>7, Constants, FS_CardinalityType
<1> HIDE DEF f
<1>9. PICK c \in Cell : \A fd \in DOMAIN t.files : f[fd] # c
  BY <1>1, <1>5, <1>7, <1>8, Pigeonhole
<1>10. \A fd \in DOMAIN t.files : t.files[fd].cell # c
  BY <1>9 DEF f
<1> QED
  BY <1>10 DEF TabOK, PathsOK, MapsOK

LEMMA SlotLeft ==
  ASSUME KernelTab(kfd, ofd)
  PROVE  \E o \in Slot : ofd[o] = Free
<1> DEFINE U == {fd \in Fd : kfd[fd] # Free}
           f == [fd \in U |-> kfd[fd]]
<1>1. f \in [U -> Slot]
  BY DEF KernelTab
<1>2. IsFiniteSet(Fd) /\ Cardinality(Fd) = MaxFd + 1
  BY Constants, FS_Interval DEF Fd
<1>3. IsFiniteSet(Slot) /\ Cardinality(Slot) = MaxFd + 2
  BY Constants, FS_Interval DEF Slot
<1>4. IsFiniteSet(U) /\ Cardinality(U) <= MaxFd + 1
  <2>1. U \subseteq Fd
    OBVIOUS
  <2> QED
    BY <1>2, <2>1, FS_Subset
<1>5. Cardinality(U) < Cardinality(Slot)
  BY <1>3, <1>4, Constants, FS_CardinalityType
<1> HIDE DEF f
<1>6. PICK o \in Slot : \A fd \in U : f[fd] # o
  BY <1>1, <1>3, <1>4, <1>5, Pigeonhole
<1>7. \A fd \in U : kfd[fd] # o
  BY <1>6 DEF f
<1>8. o # Free
  BY Constants
<1> QED
  BY <1>7, <1>8 DEF KernelTab

-----------------------------------------------------------------------------
(* What the helpers of filesystem.hpp make of the tables.                  *)

\* Offset cells that no entry of files points to are free.
Used(files, cell) ==
  [c \in Cell |-> IF \E fd \in DOMAIN files : files[fd].cell = c THEN cell[c] ELSE Free]

\* Descriptors keep the offset they have, and share it with those they did.
SameCells(u, t, fds) ==
  \A fd \in fds :
    /\ u.files[fd].cell = t.files[fd].cell
    /\ u.cell[t.files[fd].cell] = t.cell[t.files[fd].cell]

\* A path and a descriptor more.
WithFd(paths, path, fd) ==
  [p \in DOMAIN paths \cup {path} |->
     IF p # path THEN paths[p] ELSE (IF p \in DOMAIN paths THEN paths[p] ELSE {}) \cup {fd}]

LEMMA FreeCellsIs ==
  ASSUME NEW t, DOMAIN t = Fields, NEW u, u = FreeCells(t)
  PROVE  /\ DOMAIN u = Fields /\ u.cell = Used(t.files, t.cell)
         /\ u.paths = t.paths /\ u.descr = t.descr /\ u.files = t.files /\ u.threw = t.threw
BY DEF FreeCells, Fields, Used

\* The tables are well formed again once the offsets not in use are freed.
LEMMA FreeCellsOK ==
  ASSUME NEW t, DOMAIN t = Fields, t.threw \in BOOLEAN,
         DOMAIN t.paths \subseteq Key, t.paths \in [DOMAIN t.paths -> SUBSET AnyFd],
         DOMAIN t.descr \subseteq AnyFd, t.descr \in [DOMAIN t.descr -> Key],
         DOMAIN t.files = DOMAIN t.descr, t.files \in [DOMAIN t.files -> FileRec],
         \A c \in Cell : t.cell[c] \in Offset \cup {Free},
         \A fd \in DOMAIN t.files : t.cell[t.files[fd].cell] # Free,
         NEW u, u = FreeCells(t)
  PROVE  /\ TabOK(u) /\ SameCells(u, t, DOMAIN t.files)
         /\ u.paths = t.paths /\ u.descr = t.descr /\ u.files = t.files /\ u.threw = t.threw
<1>1. /\ DOMAIN u = Fields /\ u.cell = Used(t.files, t.cell)
      /\ u.paths = t.paths /\ u.descr = t.descr /\ u.files = t.files /\ u.threw = t.threw
  BY FreeCellsIs
<1>2. u.cell \in [Cell -> Offset \cup {Free}]
  BY <1>1 DEF Used
<1>3. \A fd \in DOMAIN t.files : t.files[fd].cell \in Cell
  BY DEF FileRec
<1>4. \A fd \in DOMAIN t.files : u.cell[t.files[fd].cell] = t.cell[t.files[fd].cell]
  BY <1>1, <1>3 DEF Used
<1>5. \A c \in Cell : u.cell[c] # Free => \E fd \in DOMAIN t.files : t.files[fd].cell = c
  BY <1>1 DEF Used
<1> QED
  BY <1>1, <1>2, <1>4, <1>5 DEF TabOK, PathsOK, MapsOK, SameCells

LEMMA AddFd ==
  ASSUME NEW t, TabOK(t), NEW path \in Key, NEW fd \in AnyFd, NEW offset \in Offset, NEW cloexec \in BOOLEAN,
         NEW u, u = add_capio_fd(t, path, fd, offset, cloexec)
  PROVE  /\ TabOK(u) /\ u.threw = t.threw
         /\ u.paths = WithFd(t.paths, path, fd) /\ u.descr = Insert(t.descr, fd, path)
         /\ DOMAIN u.files = DOMAIN t.files \cup {fd} /\ SameCells(u, t, DOMAIN t.files)
         /\ fd \notin DOMAIN t.files => /\ u.cell[u.files[fd].cell] = offset
                                       /\ \A x \in DOMAIN t.files : u.files[x].cell # u.files[fd].cell
<1> DEFINE c == CHOOSE d \in Cell : t.cell[d] = Free
           w == add_capio_path(t, path)
           v == [w EXCEPT !.paths[path] = @ \cup {fd}, !.descr = Insert(@, fd, path),
                          !.files = Insert(@, fd, [cell |-> c, cloexec |-> cloexec]),
                          !.cell[c] = offset]
<1>1. c \in Cell /\ t.cell[c] = Free
  BY CellLeft
<1>2. /\ DOMAIN v = Fields /\ u = FreeCells(v)
      /\ v.paths = WithFd(t.paths, path, fd) /\ v.descr = Insert(t.descr, fd, path)
      /\ v.files = Insert(t.files, fd, [cell |-> c, cloexec |-> cloexec])
      /\ v.cell = [t.cell EXCEPT ![c] = offset] /\ v.threw = t.threw
  <2>1. u = FreeCells(v)
    BY DEF add_capio_fd
  <2>2. /\ DOMAIN w = Fields /\ w.paths = Insert(t.paths, path, {}) /\ w.descr = t.descr
        /\ w.files = t.files /\ w.cell = t.cell /\ w.threw = t.threw
    BY DEF add_capio_path, Fields, TabOK, PathsOK, MapsOK
  <2>3. [Insert(t.paths, path, {}) EXCEPT ![path] = @ \cup {fd}] = WithFd(t.paths, path, fd)
    BY DEF Insert, WithFd
  <2> HIDE DEF w, c
  <2>4. /\ DOMAIN v = Fields /\ v.paths = [w.paths EXCEPT ![path] = @ \cup {fd}]
        /\ v.descr = Insert(w.descr, fd, path)
        /\ v.files = Insert(w.files, fd, [cell |-> c, cloexec |-> cloexec])
        /\ v.cell = [w.cell EXCEPT ![c] = offset] /\ v.threw = w.threw
    BY <2>2 DEF Fields
  <2> HIDE DEF v
  <2> QED
    BY <2>1, <2>2, <2>3, <2>4
<1> HIDE DEF c, v
<1>3. DOMAIN v.files = DOMAIN t.files \cup {fd} /\ DOMAIN v.descr = DOMAIN t.descr \cup {fd}
  BY <1>2 DEF Insert
<1>4. \A x \in DOMAIN v.files :
        v.files[x] = IF x \in DOMAIN t.files THEN t.files[x] ELSE [cell |-> c, cloexec |-> cloexec]
  BY <1>2 DEF Insert
<1>5. v.files \in [DOMAIN v.files -> FileRec]
  BY <1>1, <1>2, <1>3 DEF Insert, TabOK, PathsOK, MapsOK, FileRec
<1>6. v.descr \in [DOMAIN v.descr -> Key] /\ DOMAIN v.descr \subseteq AnyFd
  BY <1>2, <1>3 DEF Insert, TabOK, PathsOK, MapsOK
<1>7. v.paths \in [DOMAIN v.paths -> SUBSET AnyFd] /\ DOMAIN v.paths \subseteq Key
  BY <1>2 DEF WithFd, TabOK, PathsOK, MapsOK
<1>8. \A x \in Cell : v.cell[x] = IF x = c THEN offset ELSE t.cell[x]
  BY <1>2 DEF TabOK, PathsOK, MapsOK
<1>9. \A x \in DOMAIN t.files : t.files[x].cell \in Cell /\ t.files[x].cell # c
  BY <1>1 DEF TabOK, PathsOK, MapsOK, FileRec
<1>10. \A x \in Cell : v.cell[x] \in Offset \cup {Free}
  BY <1>8 DEF TabOK, PathsOK, MapsOK
<1>11. ASSUME NEW x \in DOMAIN v.files PROVE v.cell[v.files[x].cell] # Free
  <2>1. CASE x \in DOMAIN t.files
    BY <1>4, <1>8, <1>9, <2>1 DEF TabOK, PathsOK, MapsOK
  <2>2. CASE x \notin DOMAIN t.files
    BY <1>1, <1>4, <1>8, <2>2, Constants
  <2> QED
    BY <2>1, <2>2
<1>12. v.threw \in BOOLEAN /\ DOMAIN v.files = DOMAIN v.descr
  BY <1>2, <1>3 DEF TabOK, PathsOK, MapsOK
<1>13. /\ TabOK(u) /\ SameCells(u, v, DOMAIN v.files)
       /\ u.paths = v.paths /\ u.descr = v.descr /\ u.files = v.files /\ u.threw = v.threw
  BY <1>2, <1>5, <1>6, <1>7, <1>10, <1>11, <1>12, FreeCellsOK
<1>14. SameCells(u, t, DOMAIN t.files)
  BY <1>3, <1>4, <1>8, <1>9, <1>13 DEF SameCells
<1>15. fd \notin DOMAIN t.files => v.files[fd].cell = c
  BY <1>3, <1>4
<1>16. fd \notin DOMAIN t.files => u.cell[u.files[fd].cell] = offset
  BY <1>1, <1>3, <1>8, <1>13, <1>15 DEF SameCells
<1>17. fd \notin DOMAIN t.files => \A x \in DOMAIN t.files : u.files[x].cell # u.files[fd].cell
  BY <1>3, <1>4, <1>9, <1>13, <1>15
<1> QED
  BY <1>2, <1>3, <1>13, <1>14, <1>16, <1>17

LEMMA ThrewIs ==
  ASSUME NEW t, TabOK(t), NEW u, u = Threw(t)
  PROVE  /\ TabOK(u) /\ u.threw /\ u.paths = t.paths /\ u.descr = t.descr
         /\ u.files = t.files /\ u.cell = t.cell
<1>1. /\ DOMAIN u = Fields /\ u.threw = TRUE /\ u.paths = t.paths /\ u.descr = t.descr
      /\ u.files = t.files /\ u.cell = t.cell
  BY DEF Threw, TabOK, Fields
<1> QED
  BY <1>1 DEF TabOK

\* Entries are taken out, and the others left as they are.
LEMMA DeleteFds ==
  ASSUME NEW t, TabOK(t), NEW fds, NEW u, u = delete_capio_fds(t, fds), ~Missing(t, fds)
  PROVE  /\ TabOK(u) /\ u.threw = t.threw /\ u.paths = Forget(t, fds)
         /\ u.descr = Erase(t.descr, fds) /\ u.files = Erase(t.files, fds)
         /\ SameCells(u, t, DOMAIN t.files \ fds)
<1> DEFINE v == [t EXCEPT !.paths = Forget(t, fds),
                          !.descr = Erase(@, fds), !.files = Erase(@, fds)]
<1>1. u = FreeCells(v)
  BY DEF delete_capio_fds
<1>2. /\ DOMAIN v = Fields /\ v.paths = Forget(t, fds) /\ v.descr = Erase(t.descr, fds)
      /\ v.files = Erase(t.files, fds) /\ v.cell = t.cell /\ v.threw = t.threw
  BY DEF TabOK, PathsOK, MapsOK, Fields
<1> HIDE DEF v
<1>3. /\ DOMAIN v.files = DOMAIN t.files \ fds /\ DOMAIN v.descr = DOMAIN t.descr \ fds
      /\ \A x \in DOMAIN v.files : v.files[x] = t.files[x]
  BY <1>2 DEF Erase
<1>4. v.files \in [DOMAIN v.files -> FileRec] /\ v.descr \in [DOMAIN v.descr -> Key]
  BY <1>2, <1>3 DEF Erase, TabOK, PathsOK, MapsOK
<1>5. v.paths \in [DOMAIN v.paths -> SUBSET AnyFd] /\ DOMAIN v.paths = DOMAIN t.paths
  BY <1>2 DEF Forget, TabOK, PathsOK, MapsOK
<1>6. \A c \in Cell : v.cell[c] \in Offset \cup {Free}
  BY <1>2 DEF TabOK, PathsOK, MapsOK
<1>7. /\ v.threw \in BOOLEAN /\ DOMAIN v.files = DOMAIN v.descr /\ DOMAIN v.paths \subseteq Key
      /\ DOMAIN v.descr \subseteq AnyFd /\ \A x \in DOMAIN v.files : v.cell[v.files[x].cell] # Free
  BY <1>2, <1>3, <1>5 DEF TabOK, PathsOK, MapsOK
<1>8. /\ TabOK(u) /\ SameCells(u, v, DOMAIN v.files)
      /\ u.paths = v.paths /\ u.descr = v.descr /\ u.files = v.files /\ u.threw = v.threw
  BY <1>1, <1>2, <1>4, <1>5, <1>6, <1>7, FreeCellsOK
<1> QED
  BY <1>2, <1>3, <1>8 DEF SameCells

LEMMA DeleteFdsThrows ==
  ASSUME NEW t, TabOK(t), NEW fds, NEW u, u = delete_capio_fds(t, fds), Missing(t, fds)
  PROVE  TabOK(u) /\ u.threw
BY ThrewIs DEF delete_capio_fds

LEMMA DeletePath ==
  ASSUME NEW t, TabOK(t), ~t.threw, NEW path \in DOMAIN t.paths, NEW u, u = delete_capio_path(t, path),
         ~Missing(t, t.paths[path])
  PROVE  /\ TabOK(u) /\ ~u.threw /\ u.paths = Erase(Forget(t, t.paths[path]), {path})
         /\ u.descr = Erase(t.descr, t.paths[path]) /\ u.files = Erase(t.files, t.paths[path])
         /\ SameCells(u, t, DOMAIN t.files \ t.paths[path])
<1> DEFINE v == delete_capio_fds(t, t.paths[path])
<1>1. /\ TabOK(v) /\ v.threw = t.threw /\ v.paths = Forget(t, t.paths[path])
      /\ v.descr = Erase(t.descr, t.paths[path]) /\ v.files = Erase(t.files, t.paths[path])
      /\ SameCells(v, t, DOMAIN t.files \ t.paths[path])
  BY DeleteFds
<1>2. u = [v EXCEPT !.paths = Erase(@, {path})]
  BY <1>1 DEF delete_capio_path
<1> HIDE DEF v
<1>3. /\ DOMAIN u = Fields /\ u.paths = Erase(v.paths, {path}) /\ u.descr = v.descr
      /\ u.files = v.files /\ u.cell = v.cell /\ u.threw = v.threw
  BY <1>1, <1>2 DEF TabOK, PathsOK, MapsOK, Fields
<1>4. PathsOK(u.paths)
  BY <1>1, <1>3 DEF Erase, TabOK, PathsOK
<1>5. TabOK(u)
  BY <1>1, <1>3, <1>4 DEF TabOK
<1> QED
  BY <1>1, <1>3, <1>5 DEF SameCells

\* A path the library does not know is left alone; a missing entry throws.
LEMMA DeletePathElse ==
  ASSUME NEW t, TabOK(t), NEW path, NEW u, u = delete_capio_path(t, path)
  PROVE  /\ path \notin DOMAIN t.paths => u = t
         /\ path \in DOMAIN t.paths /\ Missing(t, t.paths[path]) => TabOK(u) /\ u.threw
<1>1. path \notin DOMAIN t.paths => u = t
  BY DEF delete_capio_path
<1>2. ASSUME path \in DOMAIN t.paths, Missing(t, t.paths[path]) PROVE TabOK(u) /\ u.threw
  <2> DEFINE v == delete_capio_fds(t, t.paths[path])
  <2>1. TabOK(v) /\ v.threw
    BY <1>2, DeleteFdsThrows
  <2>2. u = v
    BY <1>2, <2>1 DEF delete_capio_path
  <2> QED
    BY <2>1, <2>2
<1> QED
  BY <1>1, <1>2

LEMMA DupFd ==
  ASSUME NEW t, TabOK(t), NEW old \in DOMAIN t.files, NEW new \in AnyFd, NEW cloexec \in BOOLEAN,
         NEW u, u = dup_capio_fd(t, old, new, cloexec), t.descr[old] \in DOMAIN t.paths
  PROVE  /\ TabOK(u) /\ u.threw = t.threw /\ u.paths = WithFd(t.paths, t.descr[old], new)
         /\ u.descr = Insert(t.descr, new, t.descr[old])
         /\ DOMAIN u.files = DOMAIN t.files \cup {new} /\ SameCells(u, t, DOMAIN t.files)
         /\ new \notin DOMAIN t.files => u.files[new].cell = t.files[old].cell
<1> DEFINE v == [t EXCEPT !.paths[t.descr[old]] = @ \cup {new},
                          !.files = Insert(@, new, t.files[old]),
                          !.descr = Insert(@, new, t.descr[old])]
<1>1. u = [v EXCEPT !.files[new].cloexec = cloexec]
  BY DEF dup_capio_fd, set_capio_fd_cloexec
<1>2. /\ DOMAIN v = Fields /\ v.paths = [t.paths EXCEPT ![t.descr[old]] = @ \cup {new}]
      /\ v.descr = Insert(t.descr, new, t.descr[old]) /\ v.files = Insert(t.files, new, t.files[old])
      /\ v.cell = t.cell /\ v.threw = t.threw
  BY DEF TabOK, PathsOK, MapsOK, Fields
<1> HIDE DEF v
<1>3. /\ DOMAIN u = Fields /\ u.paths = v.paths /\ u.descr = v.descr /\ u.cell = v.cell
      /\ u.threw = v.threw /\ u.files = [v.files EXCEPT ![new].cloexec = cloexec]
  BY <1>1, <1>2 DEF Fields
<1>4. [t.paths EXCEPT ![t.descr[old]] = @ \cup {new}] = WithFd(t.paths, t.descr[old], new)
  BY DEF WithFd, TabOK, PathsOK, MapsOK
<1>5. /\ DOMAIN v.files = DOMAIN t.files \cup {new}
      /\ \A x \in DOMAIN v.files : v.files[x] = IF x \in DOMAIN t.files THEN t.files[x] ELSE t.files[old]
  BY <1>2 DEF Insert
<1>6. v.files \in [DOMAIN v.files -> FileRec]
  BY <1>2, <1>5 DEF Insert, TabOK, PathsOK, MapsOK
<1>7. /\ DOMAIN u.files = DOMAIN v.files /\ u.files \in [DOMAIN u.files -> FileRec]
      /\ \A x \in DOMAIN v.files : u.files[x].cell = v.files[x].cell
  <2>1. new \in DOMAIN v.files /\ v.files[new] \in FileRec
    BY <1>5, <1>6
  <2> DEFINE r == [v.files[new] EXCEPT !.cloexec = cloexec]
  <2>2. r \in FileRec /\ r.cell = v.files[new].cell
    BY <2>1 DEF FileRec
  <2>3. u.files = [v.files EXCEPT ![new] = r]
    BY <1>3
  <2> HIDE DEF r
  <2> QED
    BY <1>6, <2>1, <2>2, <2>3
<1>8. u.descr \in [DOMAIN u.descr -> Key] /\ DOMAIN u.descr = DOMAIN t.descr \cup {new}
  BY <1>2, <1>3 DEF Insert, TabOK, PathsOK, MapsOK
<1>9. u.paths \in [DOMAIN u.paths -> SUBSET AnyFd] /\ DOMAIN u.paths = DOMAIN t.paths
  BY <1>2, <1>3 DEF TabOK, PathsOK, MapsOK
<1>10. \A x \in DOMAIN u.files :
         u.files[x].cell = IF x \in DOMAIN t.files THEN t.files[x].cell ELSE t.files[old].cell
  BY <1>5, <1>7
<1>11. \A c \in Cell : u.cell[c] # Free => \E fd \in DOMAIN u.files : u.files[fd].cell = c
  BY <1>2, <1>3, <1>5, <1>7, <1>10 DEF TabOK, PathsOK, MapsOK
<1>12. \A fd \in DOMAIN u.files : u.cell[u.files[fd].cell] # Free
  BY <1>2, <1>3, <1>10 DEF TabOK, PathsOK, MapsOK
<1>13. DOMAIN u.files = DOMAIN u.descr /\ DOMAIN u.descr \subseteq AnyFd /\ u.threw = t.threw /\ u.cell = t.cell
  BY <1>2, <1>3, <1>5, <1>7, <1>8 DEF TabOK, PathsOK, MapsOK
<1>14. TabOK(u)
  BY <1>3, <1>7, <1>8, <1>9, <1>11, <1>12, <1>13 DEF TabOK, PathsOK, MapsOK
<1> QED
  BY <1>2, <1>3, <1>4, <1>5, <1>7, <1>10, <1>13, <1>14 DEF SameCells

LEMMA DupFdThrows ==
  ASSUME NEW t, TabOK(t), NEW old, NEW new, NEW cloexec, NEW u, u = dup_capio_fd(t, old, new, cloexec),
         t.descr[old] \notin DOMAIN t.paths
  PROVE  TabOK(u) /\ u.threw
BY ThrewIs DEF dup_capio_fd

\* The set of descriptors under the new path, where that path had no entry, and
\* else the set that was there.
Moved(paths, old, new) == Insert(Erase(paths, {old}), new, paths[old])

LEMMA RenamePath ==
  ASSUME NEW t, TabOK(t), NEW old \in DOMAIN t.paths, NEW new \in Key,
         NEW u, u = rename_capio_path(t, old, new), Moved(t.paths, old, new)[new] \subseteq DOMAIN t.descr
  PROVE  /\ TabOK(u) /\ u.threw = t.threw /\ u.files = t.files /\ u.cell = t.cell
         /\ u.paths = Moved(t.paths, old, new) /\ DOMAIN u.descr = DOMAIN t.descr
         /\ \A fd \in DOMAIN t.descr :
              u.descr[fd] = IF fd \in Moved(t.paths, old, new)[new] THEN new ELSE t.descr[fd]
<1> DEFINE P == Moved(t.paths, old, new)
           D == [fd \in DOMAIN t.descr |-> IF fd \in P[new] THEN new ELSE t.descr[fd]]
<1>1. u = [t EXCEPT !.paths = P, !.descr = D]
  BY DEF rename_capio_path, Moved
<1> HIDE DEF P
<1>2. /\ DOMAIN u = Fields /\ u.paths = P /\ u.descr = D /\ u.files = t.files
      /\ u.cell = t.cell /\ u.threw = t.threw
  BY <1>1 DEF TabOK, Fields
<1>3. PathsOK(P)
  BY DEF P, Moved, Insert, Erase, TabOK, PathsOK
<1>4. MapsOK(D, t.files, t.cell)
  BY DEF TabOK, MapsOK
<1>5. TabOK(u)
  BY <1>2, <1>3, <1>4 DEF TabOK
<1> QED
  BY <1>2, <1>5 DEF P

LEMMA RenamePathElse ==
  ASSUME NEW t, TabOK(t), NEW old, NEW new, NEW u, u = rename_capio_path(t, old, new)
  PROVE  /\ old \notin DOMAIN t.paths => u = t
         /\ old \in DOMAIN t.paths /\ ~(Moved(t.paths, old, new)[new] \subseteq DOMAIN t.descr)
              => TabOK(u) /\ u.threw
BY ThrewIs DEF rename_capio_path, Moved

\* A new offset, which the descriptors that share it all see.
LEMMA SetOffset ==
  ASSUME NEW t, TabOK(t), NEW fd \in DOMAIN t.files, NEW offset \in Int,
         NEW u, u = set_capio_fd_offset(t, fd, offset)
  PROVE  /\ TabOK(u) /\ u.threw = t.threw /\ u.paths = t.paths /\ u.descr = t.descr /\ u.files = t.files
         /\ offset % OffMod \in Offset
         /\ \A x \in DOMAIN t.files : u.cell[t.files[x].cell] =
              IF t.files[x].cell = t.files[fd].cell THEN offset % OffMod ELSE t.cell[t.files[x].cell]
<1> DEFINE c == t.files[fd].cell
           o == offset % OffMod
<1>1. c \in Cell
  BY DEF TabOK, MapsOK, FileRec
<1>2. o \in Offset
  BY Constants DEF Offset
<1>3. u = [t EXCEPT !.cell[c] = o]
  BY DEF set_capio_fd_offset
<1>4. t.cell[c] # Free /\ o # Free
  BY <1>2, Constants DEF TabOK, MapsOK
<1> HIDE DEF c, o
<1>5. /\ DOMAIN u = Fields /\ u.paths = t.paths /\ u.descr = t.descr /\ u.files = t.files
      /\ u.threw = t.threw /\ u.cell = [t.cell EXCEPT ![c] = o]
  BY <1>3 DEF TabOK, Fields
<1>6. \A x \in Cell : u.cell[x] = IF x = c THEN o ELSE t.cell[x]
  BY <1>5 DEF TabOK, MapsOK
<1>7. \A x \in DOMAIN t.files : t.files[x].cell \in Cell
  BY DEF TabOK, MapsOK, FileRec
<1>8. u.cell \in [Cell -> Offset \cup {Free}]
  BY <1>2, <1>5 DEF TabOK, MapsOK
<1>9. \A x \in DOMAIN t.files : u.cell[t.files[x].cell] # Free
  BY <1>4, <1>6, <1>7 DEF TabOK, MapsOK
<1>10. \A x \in Cell : u.cell[x] # Free => \E g \in DOMAIN t.files : t.files[g].cell = x
  BY <1>6 DEF TabOK, MapsOK, c
<1>11. MapsOK(u.descr, u.files, u.cell)
  BY <1>5, <1>8, <1>9, <1>10 DEF TabOK, MapsOK
<1>12. TabOK(u)
  BY <1>5, <1>11 DEF TabOK
<1> QED
  BY <1>2, <1>5, <1>6, <1>7, <1>12 DEF c, o

\* The tables of a program that begins.
LEMMA NewTablesOK == TabOK(NewTables) /\ ~NewTables.threw /\ DOMAIN NewTables.files = {}
                     /\ DOMAIN NewTables.paths = {} /\ DOMAIN NewTables.descr = {}
BY DEF NewTables, Empty, TabOK, PathsOK, MapsOK, Fields

\* What the snapshot holds, and what is made of it.
LEMMA SnapshotOf ==
  ASSUME NEW t, TabOK(t), SnapOK, NEW s, s = create_snapshot(t)
  PROVE  /\ DOMAIN t.files = {} => s = snap
         /\ DOMAIN t.files # {} =>
              /\ s # Free /\ s \in [DOMAIN t.files -> Saved] /\ DOMAIN t.files \in SUBSET AnyFd
              /\ \A fd \in DOMAIN t.files : s[fd].offset = t.cell[t.files[fd].cell]
<1>1. DOMAIN t.files = {} => s = snap
  BY DEF create_snapshot, get_capio_fds
<1>2. ASSUME DOMAIN t.files # {}
      PROVE  /\ s # Free /\ s \in [DOMAIN t.files -> Saved] /\ DOMAIN t.files \in SUBSET AnyFd
             /\ \A fd \in DOMAIN t.files : s[fd].offset = t.cell[t.files[fd].cell]
  <2>1. s = [fd \in DOMAIN t.files |->
               [offset |-> t.cell[t.files[fd].cell], cloexec |-> t.files[fd].cloexec]]
    BY <1>2 DEF create_snapshot, get_capio_fds, get_capio_fd_offset
  <2>2. \A fd \in DOMAIN t.files : t.cell[t.files[fd].cell] \in Offset /\ t.files[fd].cloexec \in BOOLEAN
    BY DEF TabOK, MapsOK, FileRec
  <2>3. s \in [DOMAIN t.files -> Saved] /\ DOMAIN t.files \in SUBSET AnyFd
    BY <2>1, <2>2 DEF Saved, TabOK, MapsOK
  <2>4. s # Free
    BY <2>3, FreeAssumption
  <2> QED
    BY <2>1, <2>3, <2>4
<1> QED
  BY <1>1, <1>2

LEMMA FromSnapshot ==
  ASSUME NEW fds \in SUBSET AnyFd, NEW s \in [fds -> Saved], NEW u, u = initialize_from_snapshot(s)
  PROVE  TabOK(u) /\ ~u.threw
<1>1. /\ DOMAIN u = Fields /\ u.threw = FALSE
      /\ u.paths = [p \in {Garbage} |-> fds] /\ u.descr = [fd \in fds |-> Garbage]
      /\ u.files = [fd \in fds |-> [cell |-> fd, cloexec |-> s[fd].cloexec]]
      /\ u.cell = [c \in Cell |-> IF c \in fds THEN s[c].offset ELSE Free]
  BY DEF initialize_from_snapshot, Fields
<1>2. fds \subseteq Cell /\ \A fd \in fds : s[fd].offset \in Offset /\ s[fd].cloexec \in BOOLEAN
  BY Constants DEF Saved
<1>3. PathsOK(u.paths)
  BY <1>1 DEF PathsOK, Key
<1>4. u.files \in [fds -> FileRec] /\ \A fd \in fds : u.files[fd].cell = fd
  BY <1>1, <1>2 DEF FileRec
<1>5. u.cell \in [Cell -> Offset \cup {Free}] /\ \A fd \in fds : u.cell[fd] = s[fd].offset
  BY <1>1, <1>2
<1>6. \A fd \in fds : u.cell[fd] # Free
  BY <1>2, <1>5, Constants
<1>7. \A c \in Cell : u.cell[c] # Free => c \in fds
  BY <1>1
<1>8. MapsOK(u.descr, u.files, u.cell)
  BY <1>1, <1>4, <1>5, <1>6, <1>7 DEF MapsOK, Key
<1> QED
  BY <1>1, <1>3, <1>4, <1>5, <1>8 DEF TabOK

-----------------------------------------------------------------------------
(* The kernel's side.                                                      *)

\* Descriptors are closed or duplicated: what they refer to is as it was.
LEMMA FdsKept ==
  ASSUME KernelTab(kfd, ofd), NEW k \in [Fd -> Slot \cup {Free}], KernelFds(k),
         \A fd \in Fd : k[fd] # Free => \E g \in Fd : kfd[g] = k[fd]
  PROVE  /\ KernelTab(kfd', ofd') /\ kfd' = k
         /\ \A fd \in Fd : k[fd] # Free => ofd'[k[fd]] = ofd[k[fd]]
<1>1. kfd' = k /\ ofd' = [o \in Slot |-> IF \E fd \in Fd : k[fd] = o THEN ofd[o] ELSE Free]
  BY DEF KernelFds
<1>2. \A fd \in Fd : k[fd] # Free => k[fd] \in Slot /\ ofd[k[fd]] # Free
  BY DEF KernelTab
<1>3. \A fd \in Fd : k[fd] # Free => ofd'[k[fd]] = ofd[k[fd]]
  BY <1>1, <1>2
<1>4. ofd' \in [Slot -> Description \cup {Free}]
  BY <1>1 DEF KernelTab
<1>5. \A o \in Slot : ofd'[o] # Free => \E fd \in Fd : k[fd] = o
  BY <1>1
<1> QED
  BY <1>1, <1>2, <1>3, <1>4, <1>5 DEF KernelTab

\* A file is opened: a description of its own.
LEMMA OpenKept ==
  ASSUME KernelTab(kfd, ofd), FdLeft, NEW name \in Path \cup {Outside}, NEW mode \in {"r", "w", "rw"},
         NEW cloexec, KernelOpen(name, mode, cloexec)
  PROVE  /\ KernelTab(kfd', ofd') /\ Lowest \in Fd /\ kfd[Lowest] = Free
         /\ kfd'[Lowest] # Free /\ ofd'[kfd'[Lowest]] = [name |-> name, mode |-> mode, pos |-> 0]
         /\ \A fd \in Fd \ {Lowest} : /\ kfd'[fd] = kfd[fd] /\ kfd[fd] # kfd'[Lowest]
                                      /\ kfd[fd] # Free => ofd'[kfd[fd]] = ofd[kfd[fd]]
         /\ kclo' = IF cloexec THEN kclo \cup {Lowest} ELSE kclo \ {Lowest}
<1> DEFINE o == CHOOSE s \in Slot : ofd[s] = Free
           d == [name |-> name, mode |-> mode, pos |-> 0]
           l == Lowest
<1>1. o \in Slot /\ ofd[o] = Free
  <2>1. \E s \in Slot : ofd[s] = Free
    BY SlotLeft
  <2> QED
    BY <2>1
<1>2. l \in Fd /\ kfd[l] = Free
  BY LowestFree
<1>3. kfd' = [kfd EXCEPT ![l] = o] /\ ofd' = [ofd EXCEPT ![o] = d]
      /\ kclo' = IF cloexec THEN kclo \cup {l} ELSE kclo \ {l}
  BY DEF KernelOpen
<1>4. d \in Description /\ d # Free
  BY DescriptorsAssumption, FreeAssumption DEF Description
<1> HIDE DEF o, d, l
<1>5. o # Free
  BY <1>1, Constants
<1>6. /\ kfd'[l] = o /\ \A fd \in Fd \ {l} : kfd'[fd] = kfd[fd]
      /\ ofd'[o] = d /\ \A s \in Slot \ {o} : ofd'[s] = ofd[s]
  BY <1>1, <1>2, <1>3 DEF KernelTab
<1>7. \A fd \in Fd \ {l} : kfd[fd] # o /\ (kfd[fd] # Free => kfd[fd] \in Slot)
  BY <1>1, <1>5 DEF KernelTab
<1>8. kfd' \in [Fd -> Slot \cup {Free}] /\ ofd' \in [Slot -> Description \cup {Free}]
  BY <1>1, <1>2, <1>3, <1>4 DEF KernelTab
<1>9. \A fd \in Fd : kfd'[fd] # Free => ofd'[kfd'[fd]] # Free
  BY <1>4, <1>6, <1>7 DEF KernelTab
<1>10. ASSUME NEW s \in Slot, ofd'[s] # Free PROVE \E fd \in Fd : kfd'[fd] = s
  <2>1. CASE s = o
    BY <1>2, <1>6, <2>1
  <2>2. CASE s # o
    <3>1. PICK fd \in Fd : kfd[fd] = s
      BY <1>6, <1>10, <2>2 DEF KernelTab
    <3>2. fd # l
      BY <1>2, <3>1, Constants
    <3> QED
      BY <1>6, <3>1, <3>2
  <2> QED
    BY <2>1, <2>2
<1>11. KernelTab(kfd', ofd')
  BY <1>8, <1>9, <1>10 DEF KernelTab
<1> QED
  BY <1>2, <1>3, <1>5, <1>6, <1>7, <1>11 DEF l, d

\* Descriptions change in place.
LEMMA InPlace ==
  ASSUME KernelTab(kfd, ofd), kfd' = kfd, ofd' \in [Slot -> Description \cup {Free}],
         \A o \in Slot : ofd'[o] = Free <=> ofd[o] = Free
  PROVE  KernelTab(kfd', ofd')
BY DEF KernelTab

-----------------------------------------------------------------------------
(* What each handler does to the two sides, as far as the invariants tell. *)

\* l refers to a new description, at the beginning of its file.
Opened(l, name, mode) ==
  /\ l \in Fd /\ kfd[l] = Free
  /\ kfd'[l] # Free /\ ofd'[kfd'[l]] = [name |-> name, mode |-> mode, pos |-> 0]
  /\ \A fd \in Fd \ {l} : /\ kfd'[fd] = kfd[fd] /\ kfd[fd] # kfd'[l]
                          /\ kfd[fd] # Free => ofd'[kfd[fd]] = ofd[kfd[fd]]

\* The descriptors refer to what they did, but for those in fds.
FdsStay(fds) ==
  /\ \A fd \in Fd \ fds : kfd'[fd] = kfd[fd]
  /\ \A fd \in Fd : kfd'[fd] # Free => ofd'[kfd'[fd]] = ofd[kfd'[fd]]

\* No description comes or goes, and they keep their modes.
ModesStay ==
  /\ kfd' = kfd
  /\ \A o \in Slot : /\ ofd'[o] = Free <=> ofd[o] = Free
                     /\ ofd[o] # Free => ofd'[o].mode = ofd[o].mode

LEMMA OpenEffect ==
  ASSUME MapsInv, habits' = habits, NEW path \in Path, NEW mode \in OpenModes, NEW cloexec \in BOOLEAN,
         open_handler(path, mode, cloexec)
  PROVE  /\ MapsInv' /\ Opened(Lowest, path, mode) /\ status' = status /\ snap' = snap
         /\ kclo' = IF cloexec THEN kclo \cup {Lowest} ELSE kclo \ {Lowest}
         /\ tab'.paths = WithFd(tab.paths, path, Lowest) /\ tab'.descr = Insert(tab.descr, Lowest, path)
         /\ DOMAIN tab'.files = DOMAIN tab.files \cup {Lowest} /\ SameCells(tab', tab, DOMAIN tab.files)
         /\ Lowest \notin DOMAIN tab.files =>
              /\ tab'.cell[tab'.files[Lowest].cell] = 0
              /\ \A x \in DOMAIN tab.files : tab'.files[x].cell # tab'.files[Lowest].cell
<1> DEFINE l == Lowest
           t == add_capio_fd(tab, path, l, 0, cloexec)
<1>1. /\ status = "running" /\ FdLeft /\ KernelOpen(path, mode, cloexec) /\ dir' = dir \cup {path}
      /\ tab' = t /\ status' = IF t.threw THEN "threw" ELSE status
      /\ snap' = snap
  BY DEF open_handler, Tables
<1>2. KernelTab(kfd, ofd) /\ TabOK(tab) /\ ~tab.threw
  BY <1>1 DEF MapsInv, KernelOK
<1>3. mode \in {"r", "w", "rw"}
  BY DescriptorsAssumption
<1>4. /\ KernelTab(kfd', ofd') /\ l \in Fd /\ Opened(l, path, mode)
      /\ kclo' = IF cloexec THEN kclo \cup {l} ELSE kclo \ {l}
  BY <1>1, <1>2, <1>3, OpenKept DEF Opened
<1>5. l \in AnyFd /\ 0 \in Offset /\ path \in Key
  BY <1>4, Constants DEF AnyFd, Key
<1> HIDE DEF l
<1>6. /\ TabOK(tab') /\ tab'.threw = tab.threw
      /\ tab'.paths = WithFd(tab.paths, path, l) /\ tab'.descr = Insert(tab.descr, l, path)
      /\ DOMAIN tab'.files = DOMAIN tab.files \cup {l} /\ SameCells(tab', tab, DOMAIN tab.files)
      /\ l \notin DOMAIN tab.files =>
           /\ tab'.cell[tab'.files[l].cell] = 0
           /\ \A x \in DOMAIN tab.files : tab'.files[x].cell # tab'.files[l].cell
  BY <1>1, <1>2, <1>5, AddFd
<1> HIDE DEF t
<1>7. status' = status
  BY <1>1, <1>2, <1>6
<1>8. KernelOK' /\ SnapOK'
  BY <1>1, <1>4 DEF MapsInv, KernelOK, SnapOK
<1>9. MapsInv'
  BY <1>1, <1>2, <1>6, <1>7, <1>8 DEF MapsInv
<1> QED
  BY <1>1, <1>4, <1>6, <1>7, <1>9 DEF l

LEMMA OutsideEffect ==
  ASSUME MapsInv, habits' = habits, OpenOutside
  PROVE  /\ MapsInv' /\ Opened(Lowest, Outside, "r") /\ kclo' = kclo \ {Lowest}
         /\ UNCHANGED <<tab, snap, status>>
<1>1. /\ KernelOpen(Outside, "r", FALSE) /\ FdLeft /\ KernelTab(kfd, ofd)
      /\ UNCHANGED <<dir, tab, snap, status>>
  BY DEF OpenOutside, MapsInv, KernelOK
<1>2. /\ KernelTab(kfd', ofd') /\ Lowest \in Fd /\ Opened(Lowest, Outside, "r")
      /\ kclo' = kclo \ {Lowest}
  BY <1>1, OpenKept DEF Opened
<1>3. KernelOK' /\ SnapOK'
  BY <1>1, <1>2 DEF MapsInv, KernelOK, SnapOK
<1> QED
  BY <1>1, <1>2, <1>3 DEF MapsInv

\* Descriptors that the kernel takes away.
LEMMA ClosedFds ==
  ASSUME KernelTab(kfd, ofd), NEW fds, KernelFds([fd \in Fd |-> IF fd \in fds THEN Free ELSE kfd[fd]])
  PROVE  /\ KernelTab(kfd', ofd') /\ FdsStay(fds)
         /\ \A fd \in Fd \cap fds : kfd'[fd] = Free
<1> DEFINE k == [fd \in Fd |-> IF fd \in fds THEN Free ELSE kfd[fd]]
<1>1. k \in [Fd -> Slot \cup {Free}] /\ \A fd \in Fd : k[fd] # Free => k[fd] = kfd[fd]
  BY DEF KernelTab
<1>2. /\ KernelTab(kfd', ofd') /\ kfd' = k
      /\ \A fd \in Fd : k[fd] # Free => ofd'[k[fd]] = ofd[k[fd]]
  <2> HIDE DEF k
  <2>1. KernelFds(k)
    BY DEF k
  <2> QED
    BY <1>1, <2>1, FdsKept
<1> QED
  BY <1>2 DEF FdsStay

LEMMA DuplicatedFds ==
  ASSUME KernelTab(kfd, ofd), NEW fd \in Fd, NEW fd2 \in Fd, NEW cloexec, KernelDup(fd, fd2, cloexec)
  PROVE  /\ KernelTab(kfd', ofd') /\ FdsStay({fd2}) /\ kfd'[fd2] = kfd[fd]
         /\ kclo' = IF cloexec THEN kclo \cup {fd2} ELSE kclo \ {fd2}
<1> DEFINE k == [kfd EXCEPT ![fd2] = kfd[fd]]
<1>1. /\ k \in [Fd -> Slot \cup {Free}] /\ k[fd2] = kfd[fd]
      /\ \A g \in Fd \ {fd2} : k[g] = kfd[g]
  BY DEF KernelTab
<1> HIDE DEF k
<1>2. \A g \in Fd : k[g] # Free => \E h \in Fd : kfd[h] = k[g]
  BY <1>1
<1>3. KernelFds(k)
  BY DEF KernelDup, k
<1>4. /\ KernelTab(kfd', ofd') /\ kfd' = k
      /\ \A g \in Fd : k[g] # Free => ofd'[k[g]] = ofd[k[g]]
  BY <1>1, <1>2, <1>3, FdsKept
<1> QED
  BY <1>1, <1>4 DEF FdsStay, KernelDup

LEMMA CloseEffect ==
  ASSUME MapsInv, habits' = habits, NEW fd \in Fd, close_handler(fd)
  PROVE  /\ MapsInv' /\ FdsStay({fd}) /\ kfd'[fd] = Free /\ kclo' = kclo \ {fd} /\ snap' = snap
         /\ fd \notin DOMAIN tab.files => UNCHANGED <<tab, status>>
         /\ fd \in DOMAIN tab.files =>
              /\ told' = tab.descr[fd] /\ (status' = "running" <=> ~Missing(tab, {fd}))
              /\ status' = "running" =>
                   /\ tab'.paths = Forget(tab, {fd}) /\ tab'.descr = Erase(tab.descr, {fd})
                   /\ tab'.files = Erase(tab.files, {fd}) /\ SameCells(tab', tab, DOMAIN tab.files \ {fd})
<1> DEFINE t == delete_capio_fds(tab, {fd})
<1>1. /\ status = "running" /\ kfd[fd] # Free /\ KernelFds([kfd EXCEPT ![fd] = Free])
      /\ kclo' = kclo \ {fd} /\ UNCHANGED <<dir, snap>>
      /\ fd \notin DOMAIN tab.files => UNCHANGED <<tab, status>>
      /\ fd \in DOMAIN tab.files =>
           told' = tab.descr[fd] /\ tab' = t /\ status' = IF t.threw THEN "threw" ELSE status
  BY DEF close_handler, Tables, Recorded, Open, exists_capio_fd, get_capio_fd_path, delete_capio_fd
<1>2. KernelTab(kfd, ofd) /\ TabOK(tab) /\ ~tab.threw
  BY <1>1 DEF MapsInv, KernelOK
<1>3. [kfd EXCEPT ![fd] = Free] = [g \in Fd |-> IF g \in {fd} THEN Free ELSE kfd[g]]
  BY <1>2 DEF KernelTab
<1>4. KernelTab(kfd', ofd') /\ FdsStay({fd}) /\ kfd'[fd] = Free
  BY <1>1, <1>2, <1>3, ClosedFds
<1>5. KernelOK' /\ SnapOK'
  BY <1>1, <1>4 DEF MapsInv, KernelOK, SnapOK
<1> HIDE DEF t
<1>6. ASSUME fd \in DOMAIN tab.files, Missing(tab, {fd})
      PROVE  TabOK(tab') /\ status' = "threw"
  <2>1. TabOK(t) /\ t.threw
    BY <1>2, <1>6, DeleteFdsThrows DEF t
  <2> QED
    BY <1>1, <1>6, <2>1
<1>7. ASSUME fd \in DOMAIN tab.files, ~Missing(tab, {fd})
      PROVE  /\ TabOK(tab') /\ status' = "running" /\ ~tab'.threw
             /\ tab'.paths = Forget(tab, {fd}) /\ tab'.descr = Erase(tab.descr, {fd})
             /\ tab'.files = Erase(tab.files, {fd}) /\ SameCells(tab', tab, DOMAIN tab.files \ {fd})
  <2>1. tab' = t /\ t = delete_capio_fds(tab, {fd})
    BY <1>1, <1>7 DEF t
  <2>2. /\ TabOK(t) /\ t.threw = tab.threw /\ t.paths = Forget(tab, {fd})
        /\ t.descr = Erase(tab.descr, {fd}) /\ t.files = Erase(tab.files, {fd})
        /\ SameCells(t, tab, DOMAIN tab.files \ {fd})
    BY <1>2, <1>7, <2>1, DeleteFds
  <2> QED
    BY <1>1, <1>2, <1>7, <2>1, <2>2
<1>8. MapsInv'
  BY <1>1, <1>2, <1>5, <1>6, <1>7 DEF MapsInv
<1> QED
  BY <1>1, <1>4, <1>6, <1>7, <1>8

\* new is recorded next to old.
DupRecorded(old, new) ==
  /\ tab'.paths = WithFd(tab.paths, tab.descr[old], new)
  /\ tab'.descr = Insert(tab.descr, new, tab.descr[old])
  /\ DOMAIN tab'.files = DOMAIN tab.files \cup {new} /\ SameCells(tab', tab, DOMAIN tab.files)
  /\ new \notin DOMAIN tab.files => tab'.files[new].cell = tab.files[old].cell

LEMMA DupTables ==
  ASSUME TabOK(tab), ~tab.threw, status = "running", NEW old \in DOMAIN tab.files, NEW new \in AnyFd,
         NEW cloexec \in BOOLEAN, Tables(dup_capio_fd(tab, old, new, cloexec))
  PROVE  /\ TabOK(tab') /\ status' \in {"running", "threw"}
         /\ status' = "running" <=> tab.descr[old] \in DOMAIN tab.paths
         /\ status' = "running" => ~tab'.threw /\ DupRecorded(old, new)
<1> DEFINE t == dup_capio_fd(tab, old, new, cloexec)
<1>1. tab' = t /\ status' = IF t.threw THEN "threw" ELSE status
  BY DEF Tables
<1> HIDE DEF t
<1>2. tab.descr[old] \notin DOMAIN tab.paths => TabOK(t) /\ t.threw
  BY DupFdThrows DEF t
<1>3. ASSUME tab.descr[old] \in DOMAIN tab.paths
      PROVE  TabOK(t) /\ t.threw = tab.threw /\ DupRecorded(old, new)
  <2>1. t = dup_capio_fd(tab, old, new, cloexec)
    BY DEF t
  <2>2. /\ TabOK(t) /\ t.threw = tab.threw /\ t.paths = WithFd(tab.paths, tab.descr[old], new)
        /\ t.descr = Insert(tab.descr, new, tab.descr[old])
        /\ DOMAIN t.files = DOMAIN tab.files \cup {new} /\ SameCells(t, tab, DOMAIN tab.files)
        /\ new \notin DOMAIN tab.files => t.files[new].cell = tab.files[old].cell
    BY <1>3, <2>1, DupFd
  <2> QED
    BY <1>1, <2>2 DEF DupRecorded
<1> QED
  BY <1>1, <1>2, <1>3

LEMMA DupEffect ==
  ASSUME MapsInv, habits' = habits, NEW fd \in Fd, NEW fd2 \in Fd, NEW cloexec \in BOOLEAN,
         Recorded(fd), KernelDup(fd, fd2, cloexec), Tables(dup_capio_fd(tab, fd, fd2, cloexec)),
         UNCHANGED <<dir, snap>>
  PROVE  /\ MapsInv' /\ FdsStay({fd2}) /\ kfd'[fd2] = kfd[fd] /\ fd \in DOMAIN tab.files /\ kfd[fd] # Free
         /\ kclo' = IF cloexec THEN kclo \cup {fd2} ELSE kclo \ {fd2}
         /\ status' = "running" <=> tab.descr[fd] \in DOMAIN tab.paths
         /\ status' = "running" => DupRecorded(fd, fd2)
<1>1. status = "running" /\ kfd[fd] # Free /\ fd \in DOMAIN tab.files
  BY DEF Recorded, Open, exists_capio_fd
<1>2. KernelTab(kfd, ofd) /\ TabOK(tab) /\ ~tab.threw /\ fd2 \in AnyFd
  BY <1>1 DEF MapsInv, KernelOK, AnyFd
<1>3. /\ KernelTab(kfd', ofd') /\ FdsStay({fd2}) /\ kfd'[fd2] = kfd[fd]
      /\ kclo' = IF cloexec THEN kclo \cup {fd2} ELSE kclo \ {fd2}
  BY <1>2, DuplicatedFds
<1>4. /\ TabOK(tab') /\ status' \in {"running", "threw"}
      /\ status' = "running" <=> tab.descr[fd] \in DOMAIN tab.paths
      /\ status' = "running" => ~tab'.threw /\ DupRecorded(fd, fd2)
  BY <1>1, <1>2, DupTables
<1>5. KernelOK' /\ SnapOK'
  BY <1>3 DEF MapsInv, KernelOK, SnapOK
<1> QED
  BY <1>1, <1>3, <1>4, <1>5 DEF MapsInv

LEMMA DupFailsEffect ==
  ASSUME MapsInv, habits' = habits, NEW fd \in Fd, dup_handler_Fails(fd)
  PROVE  /\ MapsInv' /\ UNCHANGED <<kfd, kclo, ofd, snap>> /\ fd \in DOMAIN tab.files
         /\ "dup_fails" \in habits
         /\ status' = "running" => DupRecorded(fd, Errno)
<1>1. /\ status = "running" /\ kfd[fd] # Free /\ fd \in DOMAIN tab.files
      /\ Tables(dup_capio_fd(tab, fd, Errno, FALSE)) /\ UNCHANGED <<kfd, kclo, ofd, dir, snap>>
      /\ "dup_fails" \in habits
  BY DEF Recorded, Open, exists_capio_fd, dup_handler_Fails
<1>2. KernelOK /\ TabOK(tab) /\ ~tab.threw /\ Errno \in AnyFd
  BY <1>1 DEF MapsInv, AnyFd
<1>3. /\ TabOK(tab') /\ status' \in {"running", "threw"}
      /\ status' = "running" => ~tab'.threw /\ DupRecorded(fd, Errno)
  BY <1>1, <1>2, DupTables
<1>4. KernelOK' /\ SnapOK'
  BY <1>1, <1>2 DEF MapsInv, KernelOK, SnapOK
<1> QED
  BY <1>1, <1>3, <1>4 DEF MapsInv

\* A descriptor the library is not told of.
LEMMA UntoldEffect ==
  ASSUME MapsInv, habits' = habits, NEW fd \in Fd, NEW fd2 \in Fd, KernelDup(fd, fd2, FALSE),
         UNCHANGED <<dir, tab, snap, status>>
  PROVE  MapsInv' /\ FdsStay({fd2}) /\ kfd'[fd2] = kfd[fd] /\ kclo' = kclo \ {fd2}
<1>1. KernelTab(kfd, ofd)
  BY DEF MapsInv, KernelOK
<1>2. /\ KernelTab(kfd', ofd') /\ FdsStay({fd2}) /\ kfd'[fd2] = kfd[fd] /\ kclo' = kclo \ {fd2}
  BY <1>1, DuplicatedFds
<1>3. KernelOK' /\ SnapOK'
  BY <1>2 DEF MapsInv, KernelOK, SnapOK
<1> QED
  BY <1>2, <1>3 DEF MapsInv

\* The position of one description changes.
PosAt(o, pos) ==
  /\ kfd' = kfd /\ pos \in 0 .. MaxPos
  /\ \A s \in Slot \ {o} : ofd'[s] = ofd[s]
  /\ ofd'[o] # Free /\ ofd'[o].name = ofd[o].name /\ ofd'[o].mode = ofd[o].mode /\ ofd'[o].pos = pos

LEMMA SeekEffect ==
  ASSUME KernelTab(kfd, ofd), NEW fd \in Fd, kfd[fd] # Free, NEW pos \in Nat, Seek(fd, pos), kfd' = kfd
  PROVE  KernelTab(kfd', ofd') /\ PosAt(kfd[fd], pos) /\ ModesStay
<1> DEFINE o == kfd[fd]
           d == [ofd[o] EXCEPT !.pos = pos]
<1>1. o \in Slot /\ ofd[o] \in Description /\ ofd[o] # Free
  BY DEF KernelTab
<1>2. pos \in 0 .. MaxPos /\ ofd' = [ofd EXCEPT ![o] = d]
  BY DescriptorsAssumption DEF Seek
<1>3. d \in Description /\ d.name = ofd[o].name /\ d.mode = ofd[o].mode /\ d.pos = pos
  BY <1>1, <1>2 DEF Description
<1>4. d # Free
  BY <1>3, FreeAssumption
<1> HIDE DEF d, o
<1>5. /\ ofd' \in [Slot -> Description \cup {Free}] /\ ofd'[o] = d
      /\ \A s \in Slot \ {o} : ofd'[s] = ofd[s]
  BY <1>1, <1>2, <1>3 DEF KernelTab
<1>6. \A s \in Slot : ofd'[s] = Free <=> ofd[s] = Free
  BY <1>1, <1>4, <1>5
<1>7. KernelTab(kfd', ofd')
  BY <1>5, <1>6, InPlace
<1>8. ModesStay
  BY <1>3, <1>5, <1>6 DEF ModesStay
<1> QED
  BY <1>2, <1>3, <1>4, <1>5, <1>7, <1>8 DEF PosAt, o

\* An offset that covers a position, and has not gone round.
Covers(offset, pos) == pos <= offset /\ offset <= MaxPos

\* Programs that ask for no seek to the end or before the beginning of a file
\* they read, and read with read.
Steady == habits \cap {"seek_end", "seek_fails", "readv"} = {}

\* Read and write calls change the position of one description and the offset
\* of its descriptors, and nothing else.  Where the program reads, the offset
\* is not left behind.
Travels(fd) ==
  LET o == kfd[fd]
      c == tab.files[fd].cell
  IN  /\ fd \in DOMAIN tab.files /\ o # Free
      /\ ModesStay /\ UNCHANGED <<kclo, snap, status>>
      /\ \A s \in Slot : s # o => ofd'[s] = ofd[s]
      /\ ofd'[o].name = ofd[o].name
      /\ tab'.paths = tab.paths /\ tab'.descr = tab.descr /\ tab'.files = tab.files
      /\ \A x \in DOMAIN tab.files : tab.files[x].cell # c =>
           tab'.cell[tab.files[x].cell] = tab.cell[tab.files[x].cell]
      /\ (Steady /\ ofd[o].mode = "r" /\ Covers(tab.cell[c], ofd[o].pos))
           => Covers(tab'.cell[c], ofd'[o].pos)

LEMMA RecordedIs ==
  ASSUME MapsInv, NEW fd \in Fd, Recorded(fd)
  PROVE  /\ status = "running" /\ KernelTab(kfd, ofd) /\ TabOK(tab) /\ ~tab.threw
         /\ fd \in DOMAIN tab.files /\ tab.files[fd].cell \in Cell
         /\ tab.cell[tab.files[fd].cell] \in Offset /\ kfd[fd] \in Slot /\ kfd[fd] # Free
         /\ ofd[kfd[fd]] \in Description /\ ofd[kfd[fd]] # Free
         /\ ofd[kfd[fd]].pos \in 0 .. MaxPos /\ ofd[kfd[fd]].mode \in {"r", "w", "rw"}
<1>1. status = "running" /\ kfd[fd] # Free /\ fd \in DOMAIN tab.files
  BY DEF Recorded, Open, exists_capio_fd
<1>2. KernelTab(kfd, ofd) /\ TabOK(tab) /\ ~tab.threw
  BY <1>1 DEF MapsInv, KernelOK
<1>3. /\ fd \in DOMAIN tab.files /\ tab.files[fd].cell \in Cell
      /\ tab.cell[tab.files[fd].cell] \in Offset
  BY <1>1, <1>2 DEF TabOK, MapsOK, FileRec
<1>4. kfd[fd] \in Slot /\ ofd[kfd[fd]] \in Description /\ ofd[kfd[fd]] # Free
  BY <1>1, <1>2 DEF KernelTab
<1>5. ofd[kfd[fd]].pos \in 0 .. MaxPos /\ ofd[kfd[fd]].mode \in {"r", "w", "rw"}
  BY <1>4 DEF Description
<1> QED
  BY <1>1, <1>2, <1>3, <1>4, <1>5

\* One description moves to pos, or none, and the offset of fd becomes offset.
LEMMA TravelEffect ==
  ASSUME MapsInv, habits' = habits, NEW fd \in Fd, Recorded(fd), UNCHANGED <<kfd, kclo, dir, snap>>,
         NEW pos \in Nat, Seek(fd, pos) \/ (pos = ofd[kfd[fd]].pos /\ UNCHANGED ofd),
         NEW offset \in Int, Tables(set_capio_fd_offset(tab, fd, offset)),
         (Steady /\ ofd[kfd[fd]].mode = "r"
          /\ Covers(tab.cell[tab.files[fd].cell], ofd[kfd[fd]].pos))
           => Covers(offset % OffMod, pos)
  PROVE  MapsInv' /\ Travels(fd)
<1> DEFINE o == kfd[fd]
           c == tab.files[fd].cell
           u == set_capio_fd_offset(tab, fd, offset)
<1>1. /\ status = "running" /\ KernelTab(kfd, ofd) /\ TabOK(tab) /\ ~tab.threw
      /\ fd \in DOMAIN tab.files /\ c \in Cell /\ o \in Slot /\ o # Free
      /\ ofd[o] \in Description /\ ofd[o] # Free
  BY RecordedIs
<1>2. tab' = u /\ status' = IF u.threw THEN "threw" ELSE status
  BY DEF Tables
<1>3. /\ TabOK(u) /\ u.threw = tab.threw /\ u.paths = tab.paths /\ u.descr = tab.descr /\ u.files = tab.files
      /\ \A x \in DOMAIN tab.files : u.cell[tab.files[x].cell] =
           IF tab.files[x].cell = tab.files[fd].cell THEN offset % OffMod ELSE tab.cell[tab.files[x].cell]
  BY <1>1, SetOffset
<1>4. status' = status
  BY <1>1, <1>2, <1>3
<1>5. /\ KernelTab(kfd', ofd') /\ ModesStay /\ ofd'[o].pos = pos /\ ofd'[o].name = ofd[o].name
      /\ \A s \in Slot : s # o => ofd'[s] = ofd[s]
  <2>1. CASE Seek(fd, pos)
    <3>1. KernelTab(kfd', ofd') /\ PosAt(kfd[fd], pos) /\ ModesStay
      BY <1>1, <2>1, SeekEffect
    <3> QED
      BY <3>1 DEF PosAt
  <2>2. CASE pos = ofd[kfd[fd]].pos /\ UNCHANGED ofd
    BY <1>1, <2>2 DEF ModesStay
  <2> QED
    BY <2>1, <2>2
<1>6. KernelOK' /\ SnapOK'
  BY <1>5 DEF MapsInv, KernelOK, SnapOK
<1> HIDE DEF u
<1>7. MapsInv'
  BY <1>1, <1>2, <1>3, <1>4, <1>6 DEF MapsInv
<1>8. tab'.cell[c] = offset % OffMod
  BY <1>1, <1>2, <1>3
<1> HIDE DEF o, c
<1>9. (Steady /\ ofd[o].mode = "r" /\ Covers(tab.cell[c], ofd[o].pos))
        => Covers(tab'.cell[c], ofd'[o].pos)
  BY <1>5, <1>8 DEF o, c
<1>10. \A x \in DOMAIN tab.files : tab.files[x].cell # c =>
         tab'.cell[tab.files[x].cell] = tab.cell[tab.files[x].cell]
  BY <1>2, <1>3 DEF c
<1>11. tab'.paths = tab.paths /\ tab'.descr = tab.descr /\ tab'.files = tab.files
  BY <1>2, <1>3
<1>12. Travels(fd)
  BY <1>1, <1>4, <1>5, <1>9, <1>10, <1>11 DEF Travels, o, c
<1> QED
  BY <1>7, <1>12

\* % leaves an offset within the bounds alone, and is in reach up to MaxPos.
LEMMA Wraps == \A n \in 0 .. MaxPos + IovecSize : n % OffMod = n /\ (InReach(n) => n <= MaxPos)
<1>1. OffMod \in Nat /\ OffMod > 2 * MaxPos + IovecSize /\ MaxPos \in Nat /\ IovecSize \in Nat /\ IovecSize > 0
  BY DescriptorsAssumption
<1> QED
  BY <1>1 DEF InReach

LEMMA LseekEffect ==
  ASSUME MapsInv, habits' = habits, NEW fd \in Fd, NEW offset \in -1 .. 1, NEW whence \in {"SET", "CUR", "END"},
         lseek_handler(fd, offset, whence)
  PROVE  MapsInv' /\ Travels(fd)
<1> DEFINE o == kfd[fd]
           c == tab.files[fd].cell
           n == SeekOffset(fd, offset, whence)
<1>1. /\ Recorded(fd) /\ InReach(n) /\ Tables(set_capio_fd_offset(tab, fd, n))
      /\ UNCHANGED <<kfd, kclo, dir, snap>>
      /\ whence = "END" => offset = 0 /\ (~Readable(fd) \/ "seek_end" \in habits)
  BY DEF lseek_handler
<1>2. PICK p \in SeekTargets(fd, offset, whence) :
        IF p >= 0 THEN Seek(fd, p) ELSE "seek_fails" \in habits /\ UNCHANGED ofd
  BY DEF lseek_handler
<1>3. /\ tab.cell[c] \in Nat /\ ofd[o].pos \in Nat /\ ofd[o].pos <= MaxPos /\ MaxPos \in Nat
  BY <1>1, RecordedIs, DescriptorsAssumption DEF Offset
<1>4. n \in Int /\ n = IF whence = "CUR" THEN tab.cell[c] + offset ELSE offset
  BY <1>3 DEF SeekOffset, get_capio_fd_offset
<1>5. /\ p \in Int
      /\ whence = "SET" => p = offset
      /\ whence = "CUR" => p = ofd[o].pos + offset
  BY <1>2, <1>3 DEF SeekTargets, Of
<1> DEFINE q == IF p >= 0 THEN p ELSE ofd[o].pos
<1>6. q \in Nat /\ (Seek(fd, q) \/ (q = ofd[o].pos /\ UNCHANGED ofd))
  BY <1>2, <1>3, <1>5
<1>7. p >= 0 => p <= MaxPos
  BY <1>2 DEF Seek
<1> HIDE DEF c, o, n, q
<1>8. ASSUME Steady, ofd[o].mode = "r", Covers(tab.cell[c], ofd[o].pos)
      PROVE  Covers(n % OffMod, q)
  <2>1. whence # "END" /\ p >= 0
    BY <1>1, <1>2, <1>8 DEF Readable, Of, o, Steady
  <2>2. n >= p /\ n \in 0 .. MaxPos + IovecSize
    BY <1>3, <1>4, <1>5, <1>8, <2>1, DescriptorsAssumption DEF Covers
  <2>3. n % OffMod = n /\ n <= MaxPos
    BY <1>1, <2>2, Wraps
  <2> QED
    BY <2>1, <2>2, <2>3 DEF q, Covers
<1> QED
  BY <1>1, <1>4, <1>6, <1>8, TravelEffect DEF o, c, n

\* A read of up to so many bytes.
LEMMA ReadEffect ==
  ASSUME MapsInv, habits' = habits, NEW fd \in Fd, NEW bytes \in 1 .. IovecSize, Recorded(fd),
         InReach(get_capio_fd_offset(tab, fd) + bytes), Tables(ReadUpTo(fd, bytes)),
         NEW got \in Nat, "readv" \notin habits => got <= bytes, Seek(fd, Of(fd).pos + got),
         UNCHANGED <<kfd, kclo, dir, snap>>
  PROVE  MapsInv' /\ Travels(fd)
<1> DEFINE o == kfd[fd]
           c == tab.files[fd].cell
           n == tab.cell[c] + bytes
           q == ofd[o].pos + got
<1>1. /\ tab.cell[c] \in Nat /\ ofd[o].pos \in Nat /\ ofd[o].pos <= MaxPos /\ MaxPos \in Nat
  BY RecordedIs, DescriptorsAssumption DEF Offset
<1>2. InReach(n) /\ Tables(set_capio_fd_offset(tab, fd, n)) /\ Seek(fd, q)
  BY DEF get_capio_fd_offset, ReadUpTo, Of
<1>3. n \in Int /\ q \in Nat /\ IovecSize \in Nat
  BY <1>1, DescriptorsAssumption
<1>4. ASSUME tab.cell[c] <= MaxPos PROVE n % OffMod = n /\ n <= MaxPos
  <2>1. n \in 0 .. MaxPos + IovecSize
    BY <1>1, <1>3, <1>4
  <2> HIDE DEF n
  <2> QED
    BY <1>2, <2>1, Wraps
<1>5. ASSUME Steady, Covers(tab.cell[c], ofd[o].pos) PROVE Covers(n % OffMod, q)
  <2>1. got <= bytes
    BY <1>5 DEF Steady
  <2>2. n % OffMod = n /\ n <= MaxPos
    BY <1>4, <1>5 DEF Covers
  <2> QED
    BY <1>1, <1>3, <1>5, <2>1, <2>2 DEF Covers
<1> HIDE DEF n, q
<1> QED
  BY <1>2, <1>3, <1>5, TravelEffect

LEMMA ReadHandlerEffect ==
  ASSUME MapsInv, habits' = habits, NEW fd \in Fd, read_handler(fd) \/ readv_handler(fd, 1)
  PROVE  MapsInv' /\ Travels(fd)
<1>1. IovecSize \in Nat /\ IovecSize > 0 /\ MaxPos \in Nat /\ 1 \in 1 .. IovecSize /\ 1 * IovecSize = IovecSize
  BY DescriptorsAssumption
<1>2. CASE read_handler(fd)
  <2>1. /\ Recorded(fd) /\ InReach(get_capio_fd_offset(tab, fd) + 1) /\ Tables(ReadUpTo(fd, 1))
        /\ UNCHANGED <<kfd, kclo, dir, snap>>
    BY <1>2 DEF read_handler
  <2>2. PICK got \in 0 .. 1 : Seek(fd, Of(fd).pos + got)
    BY <1>2 DEF read_handler
  <2>3. got \in Nat /\ got <= 1
    OBVIOUS
  <2> QED
    BY <1>1, <2>1, <2>2, <2>3, ReadEffect
<1>3. CASE readv_handler(fd, 1)
  <2>1. /\ Recorded(fd) /\ InReach(get_capio_fd_offset(tab, fd) + IovecSize)
        /\ Tables(ReadUpTo(fd, IovecSize))
        /\ UNCHANGED <<kfd, kclo, dir, snap>>
    BY <1>1, <1>3 DEF readv_handler
  <2>2. PICK got \in 0 .. (IF "readv" \in habits THEN MaxPos ELSE IovecSize) :
          Seek(fd, Of(fd).pos + got)
    BY <1>1, <1>3 DEF readv_handler
  <2>3. got \in Nat /\ ("readv" \notin habits => got <= IovecSize) /\ IovecSize \in 1 .. IovecSize
    BY <1>1
  <2> QED
    BY <2>1, <2>2, <2>3, ReadEffect
<1> QED
  BY <1>2, <1>3

LEMMA WriteEffect ==
  ASSUME MapsInv, habits' = habits, NEW fd \in Fd, write_handler(fd)
  PROVE  MapsInv' /\ Travels(fd)
<1> DEFINE o == kfd[fd]
<1>1. /\ Recorded(fd) /\ ofd[o].mode # "r" /\ Seek(fd, ofd[o].pos + 1)
      /\ UNCHANGED <<kfd, kclo, dir, tab, snap, status>>
  BY DEF write_handler, Of
<1>2. /\ KernelTab(kfd, ofd) /\ fd \in DOMAIN tab.files /\ o \in Slot /\ o # Free
      /\ ofd[o].pos + 1 \in Nat
  BY <1>1, RecordedIs, DescriptorsAssumption
<1>3. KernelTab(kfd', ofd') /\ PosAt(o, ofd[o].pos + 1) /\ ModesStay
  BY <1>1, <1>2, SeekEffect
<1>4. KernelOK' /\ SnapOK'
  BY <1>1, <1>3 DEF MapsInv, KernelOK, SnapOK
<1>5. MapsInv'
  BY <1>1, <1>4 DEF MapsInv
<1>6. Travels(fd)
  BY <1>1, <1>2, <1>3 DEF Travels, PosAt
<1> QED
  BY <1>5, <1>6

\* Open files get other names, by f.
Relabelled(f) ==
  /\ ModesStay
  /\ \A o \in Slot : ofd[o] # Free => /\ ofd'[o].name = f[ofd[o].name]
                                      /\ ofd'[o].pos = ofd[o].pos

Names == Path \cup {Outside, Gone}

LEMMA RelabelEffect ==
  ASSUME KernelTab(kfd, ofd), kfd' = kfd, NEW f \in [Names -> Names],
         ofd' = [o \in Slot |-> IF ofd[o] # Free
                                THEN [ofd[o] EXCEPT !.name = f[ofd[o].name]] ELSE ofd[o]]
  PROVE  KernelTab(kfd', ofd') /\ Relabelled(f)
<1>1. ASSUME NEW o \in Slot, ofd[o] # Free
      PROVE  /\ ofd'[o] \in Description /\ ofd'[o] # Free /\ ofd'[o].mode = ofd[o].mode
             /\ ofd'[o].name = f[ofd[o].name] /\ ofd'[o].pos = ofd[o].pos
  <2>1. ofd[o] \in Description
    BY <1>1 DEF KernelTab
  <2> DEFINE d == [ofd[o] EXCEPT !.name = f[ofd[o].name]]
  <2>2. /\ d \in Description /\ d.mode = ofd[o].mode
        /\ d.name = f[ofd[o].name] /\ d.pos = ofd[o].pos
    BY <2>1 DEF Description, Names
  <2>3. ofd'[o] = d
    BY <1>1
  <2> QED
    BY <2>2, <2>3, FreeAssumption
<1>2. ASSUME NEW o \in Slot, ofd[o] = Free PROVE ofd'[o] = Free
  BY <1>2
<1>3. DOMAIN ofd' = Slot /\ ofd' = [o \in Slot |-> ofd'[o]]
  OBVIOUS
<1>4. ofd' \in [Slot -> Description \cup {Free}] /\ \A o \in Slot : ofd'[o] = Free <=> ofd[o] = Free
  BY <1>1, <1>2, <1>3
<1>5. KernelTab(kfd', ofd')
  BY <1>4, InPlace
<1> QED
  BY <1>1, <1>4, <1>5 DEF Relabelled, ModesStay

\* What unlink and rename make of the names of open files.
UnlinkName(path) == [n \in Names |-> IF n = path THEN Gone ELSE n]

RenameName(old, new) ==
  [n \in Names |-> IF n = old THEN new ELSE IF n = new THEN Gone ELSE n]

LEMMA UnlinkEffect ==
  ASSUME MapsInv, habits' = habits, NEW path \in Path, unlink_handler(path)
  PROVE  /\ MapsInv' /\ Relabelled(UnlinkName(path)) /\ UNCHANGED <<kclo, snap>>
         /\ path \notin DOMAIN tab.paths => UNCHANGED <<tab, status>>
         /\ path \in DOMAIN tab.paths =>
              /\ status' = "running" <=> ~Missing(tab, tab.paths[path])
              /\ status' = "running" =>
                   /\ tab'.paths = Erase(Forget(tab, tab.paths[path]), {path})
                   /\ tab'.descr = Erase(tab.descr, tab.paths[path])
                   /\ tab'.files = Erase(tab.files, tab.paths[path])
                   /\ SameCells(tab', tab, DOMAIN tab.files \ tab.paths[path])
<1> DEFINE t == delete_capio_path(tab, path)
           P == tab.paths[path]
<1>1. /\ status = "running" /\ tab' = t /\ status' = (IF t.threw THEN "threw" ELSE status)
      /\ dir' = dir \ {path} /\ ofd' = Renamed(path, Gone) /\ UNCHANGED <<kfd, kclo, snap>>
  BY DEF unlink_handler, Tables
<1>2. KernelTab(kfd, ofd) /\ TabOK(tab) /\ ~tab.threw
  BY <1>1 DEF MapsInv, KernelOK
<1>3. UnlinkName(path) \in [Names -> Names]
  BY DEF UnlinkName, Names
<1>4. ASSUME NEW o \in Slot
      PROVE  (IF ofd[o] # Free /\ ofd[o].name = path THEN [ofd[o] EXCEPT !.name = Gone] ELSE ofd[o])
           = (IF ofd[o] # Free THEN [ofd[o] EXCEPT !.name = UnlinkName(path)[ofd[o].name]] ELSE ofd[o])
  <2>1. ofd[o] # Free => ofd[o] \in Description /\ ofd[o].name \in Names
    BY <1>2 DEF KernelTab, Description, Names
  <2>2. ofd[o] # Free /\ ofd[o].name # path => [ofd[o] EXCEPT !.name = ofd[o].name] = ofd[o]
    BY <2>1 DEF Description
  <2>3. ofd[o] # Free => UnlinkName(path)[ofd[o].name] = IF ofd[o].name = path THEN Gone ELSE ofd[o].name
    BY <2>1 DEF UnlinkName
  <2> QED
    BY <2>2, <2>3
<1>5. ofd' = [o \in Slot |-> IF ofd[o] # Free
                             THEN [ofd[o] EXCEPT !.name = UnlinkName(path)[ofd[o].name]] ELSE ofd[o]]
  BY <1>1, <1>4 DEF Renamed
<1>6. KernelTab(kfd', ofd') /\ Relabelled(UnlinkName(path))
  BY <1>1, <1>2, <1>3, <1>5, RelabelEffect
<1>7. KernelOK' /\ SnapOK'
  BY <1>1, <1>6 DEF MapsInv, KernelOK, SnapOK
<1>8. (path \notin DOMAIN tab.paths => t = tab)
      /\ (path \in DOMAIN tab.paths /\ Missing(tab, P) => TabOK(t) /\ t.threw)
  BY <1>2, DeletePathElse
<1>9. ASSUME path \in DOMAIN tab.paths, ~Missing(tab, P)
      PROVE  /\ TabOK(t) /\ ~t.threw /\ t.paths = Erase(Forget(tab, P), {path})
             /\ t.descr = Erase(tab.descr, P) /\ t.files = Erase(tab.files, P)
             /\ SameCells(t, tab, DOMAIN tab.files \ P)
  BY <1>2, <1>9, DeletePath
<1> HIDE DEF t
<1>10. MapsInv'
  BY <1>1, <1>2, <1>7, <1>8, <1>9 DEF MapsInv
<1> QED
  BY <1>1, <1>2, <1>6, <1>8, <1>9, <1>10

LEMMA RenameEffect ==
  ASSUME MapsInv, habits' = habits, NEW old \in Path, NEW new \in Path, rename_handler(old, new)
  PROVE  /\ MapsInv' /\ Relabelled(RenameName(old, new)) /\ UNCHANGED <<kclo, snap>>
         /\ old # new /\ MayRename(old, new)
         /\ old \notin DOMAIN tab.paths => UNCHANGED <<tab, status>>
         /\ old \in DOMAIN tab.paths =>
              /\ status' = "running" <=> Moved(tab.paths, old, new)[new] \subseteq DOMAIN tab.descr
              /\ status' = "running" =>
                   /\ tab'.paths = Moved(tab.paths, old, new)
                   /\ tab'.files = tab.files /\ tab'.cell = tab.cell /\ DOMAIN tab'.descr = DOMAIN tab.descr
                   /\ \A fd \in DOMAIN tab.descr : tab'.descr[fd] =
                        IF fd \in Moved(tab.paths, old, new)[new] THEN new ELSE tab.descr[fd]
<1> DEFINE t == rename_capio_path(tab, old, new)
           P == Moved(tab.paths, old, new)
<1>1. /\ status = "running" /\ tab' = t /\ status' = (IF t.threw THEN "threw" ELSE status)
      /\ dir' = (dir \ {old}) \cup {new} /\ UNCHANGED <<kfd, kclo, snap>>
      /\ ofd' = [o \in Slot |->
           IF ofd[o] # Free /\ ofd[o].name = new THEN [ofd[o] EXCEPT !.name = Gone]
           ELSE Renamed(old, new)[o]]
      /\ old # new /\ MayRename(old, new)
  BY DEF rename_handler, Tables
<1>2. KernelTab(kfd, ofd) /\ TabOK(tab) /\ ~tab.threw /\ new \in Key
  BY <1>1 DEF MapsInv, KernelOK, Key
<1>3. RenameName(old, new) \in [Names -> Names]
  BY DEF RenameName, Names
<1>4. ASSUME NEW o \in Slot
      PROVE  (IF ofd[o] # Free /\ ofd[o].name = new THEN [ofd[o] EXCEPT !.name = Gone]
              ELSE Renamed(old, new)[o])
           = (IF ofd[o] # Free THEN [ofd[o] EXCEPT !.name = RenameName(old, new)[ofd[o].name]] ELSE ofd[o])
  <2>1. ofd[o] # Free => ofd[o] \in Description /\ ofd[o].name \in Names
    BY <1>2 DEF KernelTab, Description, Names
  <2>2. ofd[o] # Free => [ofd[o] EXCEPT !.name = ofd[o].name] = ofd[o]
    BY <2>1 DEF Description
  <2>3. ofd[o] # Free => RenameName(old, new)[ofd[o].name] =
          IF ofd[o].name = old THEN new ELSE IF ofd[o].name = new THEN Gone ELSE ofd[o].name
    BY <2>1 DEF RenameName
  <2>4. Renamed(old, new)[o] = IF ofd[o] # Free /\ ofd[o].name = old
                               THEN [ofd[o] EXCEPT !.name = new] ELSE ofd[o]
    BY DEF Renamed
  <2> QED
    BY <1>1, <2>2, <2>3, <2>4
<1>5. ofd' = [o \in Slot |-> IF ofd[o] # Free
                             THEN [ofd[o] EXCEPT !.name = RenameName(old, new)[ofd[o].name]] ELSE ofd[o]]
  BY <1>1, <1>4
<1>6. KernelTab(kfd', ofd') /\ Relabelled(RenameName(old, new))
  BY <1>1, <1>2, <1>3, <1>5, RelabelEffect
<1>7. KernelOK' /\ SnapOK'
  BY <1>1, <1>6 DEF MapsInv, KernelOK, SnapOK
<1>8. (old \notin DOMAIN tab.paths => t = tab)
      /\ (old \in DOMAIN tab.paths /\ ~(P[new] \subseteq DOMAIN tab.descr) => TabOK(t) /\ t.threw)
  BY <1>2, RenamePathElse
<1>9. ASSUME old \in DOMAIN tab.paths, P[new] \subseteq DOMAIN tab.descr
      PROVE  /\ TabOK(t) /\ ~t.threw /\ t.files = tab.files /\ t.cell = tab.cell
             /\ t.paths = P /\ DOMAIN t.descr = DOMAIN tab.descr
             /\ \A fd \in DOMAIN tab.descr : t.descr[fd] = IF fd \in P[new] THEN new ELSE tab.descr[fd]
  BY <1>2, <1>9, RenamePath
<1> HIDE DEF t, P
<1>10. MapsInv'
  BY <1>1, <1>2, <1>7, <1>8, <1>9 DEF MapsInv
<1> QED
  BY <1>1, <1>2, <1>6, <1>8, <1>9, <1>10 DEF P

\* The tables of the new program, where one descriptor was saved at least.
Restored(t) ==
  /\ DOMAIN tab'.paths = {Garbage} /\ tab'.paths[Garbage] = DOMAIN t.files
  /\ DOMAIN tab'.files = DOMAIN t.files /\ DOMAIN tab'.descr = DOMAIN t.files
  /\ \A fd \in DOMAIN t.files : /\ tab'.descr[fd] = Garbage /\ tab'.files[fd].cell = fd
                                /\ tab'.cell[fd] = t.cell[t.files[fd].cell]

LEMMA ExecEffect ==
  ASSUME MapsInv, habits' = habits, execve_handler
  PROVE  /\ MapsInv' /\ FdsStay(kclo) /\ (\A fd \in Fd \cap kclo : kfd'[fd] = Free)
         /\ kclo' = {} /\ snap' = Free /\ MayExec /\ status' # "threw"
         /\ status' = "running" =>
              /\ DOMAIN tab.files = {} /\ snap = Free => tab' = NewTables
              /\ DOMAIN tab.files # {} => Restored(tab)
<1> DEFINE s == create_snapshot(tab)
<1>1. /\ status = "running" /\ MayExec /\ snap' = Free /\ kclo' = {} /\ dir' = dir
      /\ KernelFds([fd \in Fd |-> IF fd \in kclo THEN Free ELSE kfd[fd]])
      /\ \/ tab' = (IF s = Free THEN NewTables ELSE initialize_from_snapshot(s)) /\ status' = status
         \/ s # Free /\ status' = "killed" /\ tab' = NewTables
  BY DEF execve_handler
<1>2. KernelTab(kfd, ofd) /\ TabOK(tab) /\ ~tab.threw /\ SnapOK
  BY <1>1 DEF MapsInv, KernelOK
<1>3. KernelTab(kfd', ofd') /\ FdsStay(kclo) /\ \A fd \in Fd \cap kclo : kfd'[fd] = Free
  BY <1>1, <1>2, ClosedFds
<1>4. KernelOK' /\ SnapOK'
  BY <1>1, <1>3 DEF MapsInv, KernelOK, SnapOK
<1>5. /\ DOMAIN tab.files = {} => s = snap
      /\ DOMAIN tab.files # {} =>
           /\ s # Free /\ s \in [DOMAIN tab.files -> Saved] /\ DOMAIN tab.files \in SUBSET AnyFd
           /\ \A fd \in DOMAIN tab.files : s[fd].offset = tab.cell[tab.files[fd].cell]
  BY <1>2, SnapshotOf
<1> HIDE DEF s
<1>6. ASSUME DOMAIN tab.files # {}, tab' = initialize_from_snapshot(s)
      PROVE  TabOK(tab') /\ ~tab'.threw /\ Restored(tab)
  <2>1. DOMAIN tab.files \in SUBSET AnyFd /\ s \in [DOMAIN tab.files -> Saved]
    BY <1>5, <1>6
  <2>2. TabOK(tab') /\ ~tab'.threw
    BY <1>6, <2>1, FromSnapshot
  <2>3. DOMAIN s = DOMAIN tab.files /\ DOMAIN tab.files \subseteq Cell
    BY <2>1, Constants
  <2>4. Restored(tab)
    BY <1>5, <1>6, <2>3 DEF Restored, initialize_from_snapshot
  <2> QED
    BY <2>2, <2>4
<1>7. ASSUME DOMAIN tab.files = {}, s # Free, tab' = initialize_from_snapshot(s)
      PROVE  TabOK(tab') /\ ~tab'.threw
  <2>1. PICK fds \in SUBSET AnyFd : s \in [fds -> Saved]
    BY <1>2, <1>5, <1>7 DEF SnapOK
  <2> QED
    BY <1>7, <2>1, FromSnapshot
<1>8. TabOK(tab') /\ ~tab'.threw
  <2>1. CASE tab' = NewTables
    BY <2>1, NewTablesOK
  <2>2. CASE s # Free /\ tab' = initialize_from_snapshot(s)
    BY <1>6, <1>7, <2>2
  <2> QED
    BY <1>1, <2>1, <2>2
<1>9. MapsInv'
  BY <1>1, <1>2, <1>4, <1>8 DEF MapsInv
<1> QED
  BY <1>1, <1>3, <1>5, <1>6, <1>9

LEMMA ExecFailsEffect ==
  ASSUME MapsInv, habits' = habits, execve_handler_Fails
  PROVE  MapsInv' /\ UNCHANGED <<kfd, kclo, ofd, tab, status>> /\ "exec_fails" \in habits
<1>1. /\ status = "running" /\ "exec_fails" \in habits /\ snap' = create_snapshot(tab)
      /\ UNCHANGED <<kfd, kclo, ofd, dir, tab, status>>
  BY DEF execve_handler_Fails
<1>2. TabOK(tab) /\ SnapOK /\ KernelOK
  BY <1>1 DEF MapsInv
<1>3. SnapOK'
  <2> DEFINE s == create_snapshot(tab)
  <2>1. /\ DOMAIN tab.files = {} => s = snap
        /\ DOMAIN tab.files # {} => s \in [DOMAIN tab.files -> Saved] /\ DOMAIN tab.files \in SUBSET AnyFd
    BY <1>2, SnapshotOf
  <2> HIDE DEF s
  <2>2. snap' = s
    BY <1>1 DEF s
  <2> QED
    BY <1>2, <2>1, <2>2 DEF SnapOK
<1>4. KernelOK'
  BY <1>1, <1>2 DEF KernelOK
<1> QED
  BY <1>1, <1>3, <1>4 DEF MapsInv

-----------------------------------------------------------------------------
(* Every call is one of these steps.                                       *)

DupStep ==
  \E fd, fd2 \in Fd, cloexec \in Cloexec :
    /\ Recorded(fd) /\ (kfd[fd2] = Free \/ "dup2_onto_open" \in habits)
    /\ KernelDup(fd, fd2, cloexec) /\ Tables(dup_capio_fd(tab, fd, fd2, cloexec))
    /\ UNCHANGED <<dir, snap>>

\* dup2 of a descriptor that is not recorded, and F_DUPFD of one that is.
UntoldStep ==
  \E fd, fd2 \in Fd :
    /\ Open(fd) /\ KernelDup(fd, fd2, FALSE) /\ UNCHANGED <<dir, tab, snap, status>>
    /\ "fcntl_dup" \in habits \/ ~exists_capio_fd(tab, fd)
    /\ kfd[fd2] = Free \/ ("dup2_from_outside" \in habits /\ ~exists_capio_fd(tab, fd))

CallStep ==
  \/ \E path \in Path, mode \in OpenModes, cloexec \in Cloexec : open_handler(path, mode, cloexec)
  \/ OpenOutside
  \/ \E fd \in Fd : close_handler(fd)
  \/ DupStep
  \/ \E fd \in Fd : dup_handler_Fails(fd)
  \/ UntoldStep
  \/ \E fd \in Fd : MapsInv' /\ Travels(fd)
  \/ UNCHANGED <<kfd, kclo, ofd, dir, tab, snap, status>>
  \/ \E path \in Path : unlink_handler(path)
  \/ \E oldpath, newpath \in Path : rename_handler(oldpath, newpath)
  \/ execve_handler
  \/ execve_handler_Fails

LEMMA CallIsStep ==
  ASSUME MapsInv, habits' = habits, Call
  PROVE  CallStep /\ status = "running"
<1>1. \A b \in Cloexec : b \in BOOLEAN
  BY DEF Cloexec
<1>2. FALSE \in Cloexec
  BY DEF Cloexec
<1>3. FdLeft => Lowest \in Fd /\ kfd[Lowest] = Free
  BY LowestFree
<1>4. CASE \E path \in Path, mode \in OpenModes, cloexec \in Cloexec :
             open_handler(path, mode, cloexec)
  BY <1>4 DEF CallStep, open_handler
<1>5. CASE OpenOutside
  BY <1>5 DEF CallStep, OpenOutside
<1>6. ASSUME NEW fd \in Fd, close_handler(fd) PROVE CallStep /\ status = "running"
  BY <1>6 DEF CallStep, close_handler, Open
<1>7. ASSUME NEW fd \in Fd, dup_handler(fd) PROVE CallStep /\ status = "running"
  <2>1. DupStep
    BY <1>2, <1>3, <1>7 DEF DupStep, dup_handler
  <2> QED
    BY <1>7, <2>1 DEF CallStep, dup_handler, Recorded, Open
<1>8. ASSUME NEW fd \in Fd, dup_handler_Fails(fd) PROVE CallStep /\ status = "running"
  BY <1>8 DEF CallStep, dup_handler_Fails, Recorded, Open
<1>9. ASSUME NEW fd \in Fd, NEW fd2 \in Fd, NEW cloexec \in Cloexec,
             dup2_handler(fd, fd2) \/ dup3_handler(fd, fd2, cloexec)
      PROVE  CallStep /\ status = "running"
  <2>1. PICK b \in Cloexec :
          /\ Recorded(fd) /\ MayReplace(fd2) /\ KernelDup(fd, fd2, b)
          /\ Tables(dup_capio_fd(tab, fd, fd2, b)) /\ UNCHANGED <<dir, snap>>
    BY <1>2, <1>9 DEF dup2_handler, dup3_handler
  <2>2. DupStep
    BY <2>1 DEF DupStep, MayReplace
  <2> QED
    BY <2>1, <2>2 DEF CallStep, Recorded, Open
<1>10. ASSUME NEW fd \in Fd, NEW fd2 \in Fd, dup2_handler_Outside(fd, fd2)
       PROVE  CallStep /\ status = "running"
  <2>1. UntoldStep
    BY <1>10 DEF UntoldStep, dup2_handler_Outside
  <2> QED
    BY <1>10, <2>1 DEF CallStep, dup2_handler_Outside, Open
<1>11. ASSUME NEW fd \in Fd, NEW duplicate \in BOOLEAN, fcntl_handler(fd, duplicate)
       PROVE  CallStep /\ status = "running"
  <2>1. Open(fd)
    BY <1>11 DEF fcntl_handler, Recorded
  <2>2. CASE duplicate
    <3>1. UntoldStep
      BY <1>3, <1>11, <2>1, <2>2 DEF UntoldStep, fcntl_handler
    <3> QED
      BY <2>1, <3>1 DEF CallStep, Open
  <2>3. CASE ~duplicate
    BY <1>11, <2>1, <2>3 DEF CallStep, Open, fcntl_handler
  <2> QED
    BY <2>2, <2>3
<1>12. ASSUME NEW fd \in Fd, NEW offset \in -1 .. 1, NEW whence \in {"SET", "CUR", "END"},
              lseek_handler(fd, offset, whence)
       PROVE  CallStep /\ status = "running"
  <2>1. MapsInv' /\ Travels(fd)
    BY <1>12, LseekEffect
  <2> QED
    BY <1>12, <2>1 DEF CallStep, lseek_handler, Recorded, Open
<1>13. ASSUME NEW fd \in Fd, read_handler(fd) \/ readv_handler(fd, 1) PROVE CallStep /\ status = "running"
  <2>1. MapsInv' /\ Travels(fd)
    BY <1>13, ReadHandlerEffect
  <2> QED
    BY <1>13, <2>1 DEF CallStep, read_handler, readv_handler, Recorded, Open
<1>14. ASSUME NEW fd \in Fd, write_handler(fd) PROVE CallStep /\ status = "running"
  <2>1. MapsInv' /\ Travels(fd)
    BY <1>14, WriteEffect
  <2> QED
    BY <1>14, <2>1 DEF CallStep, write_handler, Recorded, Open
<1>15. CASE \E path \in Path : unlink_handler(path)
  BY <1>15 DEF CallStep, unlink_handler
<1>16. CASE \E oldpath, newpath \in Path : rename_handler(oldpath, newpath)
  BY <1>16 DEF CallStep, rename_handler
<1>17. CASE execve_handler
  BY <1>17 DEF CallStep, execve_handler
<1>18. CASE execve_handler_Fails
  BY <1>18 DEF CallStep, execve_handler_Fails
<1>19. ASSUME NEW fd \in Fd,
              \/ close_handler(fd) \/ dup_handler(fd) \/ dup_handler_Fails(fd)
              \/ \E fd2 \in Fd : \/ dup2_handler(fd, fd2)
                                 \/ \E cloexec \in Cloexec : dup3_handler(fd, fd2, cloexec)
                                 \/ dup2_handler_Outside(fd, fd2)
              \/ \E duplicate \in BOOLEAN : fcntl_handler(fd, duplicate)
              \/ \E offset \in -1 .. 1, whence \in {"SET", "CUR", "END"} :
                   lseek_handler(fd, offset, whence)
              \/ read_handler(fd) \/ readv_handler(fd, 1) \/ write_handler(fd)
       PROVE  CallStep /\ status = "running"
  BY <1>2, <1>6, <1>7, <1>8, <1>9, <1>10, <1>11, <1>12, <1>13, <1>14, <1>19
<1> QED
  BY <1>4, <1>5, <1>15, <1>16, <1>17, <1>18, <1>19 DEF Call

-----------------------------------------------------------------------------
(* MapsAgree.                                                              *)

LEMMA InitMaps == Init => MapsInv
<1> SUFFICES ASSUME Init PROVE MapsInv
  OBVIOUS
<1>1. KernelOK
  BY Constants DEF Init, KernelOK, KernelTab
<1>2. TabOK(tab) /\ ~tab.threw
  BY NewTablesOK DEF Init
<1> QED
  BY <1>1, <1>2 DEF Init, MapsInv, SnapOK

LEMMA DupStepEffect ==
  ASSUME MapsInv, habits' = habits, DupStep
  PROVE  \E fd, fd2 \in Fd, cloexec \in Cloexec :
           /\ MapsInv' /\ FdsStay({fd2}) /\ kfd'[fd2] = kfd[fd] /\ fd \in DOMAIN tab.files /\ kfd[fd] # Free
           /\ kfd[fd2] = Free \/ "dup2_onto_open" \in habits
           /\ kclo' = (IF cloexec THEN kclo \cup {fd2} ELSE kclo \ {fd2}) /\ snap' = snap
           /\ status' = "running" <=> tab.descr[fd] \in DOMAIN tab.paths
           /\ status' = "running" => DupRecorded(fd, fd2)
<1>1. PICK fd \in Fd, fd2 \in Fd, cloexec \in Cloexec :
        /\ Recorded(fd) /\ (kfd[fd2] = Free \/ "dup2_onto_open" \in habits)
        /\ KernelDup(fd, fd2, cloexec) /\ Tables(dup_capio_fd(tab, fd, fd2, cloexec))
        /\ UNCHANGED <<dir, snap>>
  BY DEF DupStep
<1>2. cloexec \in BOOLEAN
  BY DEF Cloexec
<1>3. /\ MapsInv' /\ FdsStay({fd2}) /\ kfd'[fd2] = kfd[fd] /\ fd \in DOMAIN tab.files /\ kfd[fd] # Free
      /\ kclo' = IF cloexec THEN kclo \cup {fd2} ELSE kclo \ {fd2}
      /\ status' = "running" <=> tab.descr[fd] \in DOMAIN tab.paths
      /\ status' = "running" => DupRecorded(fd, fd2)
  BY <1>1, <1>2, DupEffect
<1> QED
  BY <1>1, <1>3

LEMMA UntoldStepEffect ==
  ASSUME MapsInv, habits' = habits, UntoldStep
  PROVE  \E fd, fd2 \in Fd :
           /\ MapsInv' /\ FdsStay({fd2}) /\ kfd'[fd2] = kfd[fd] /\ kclo' = kclo \ {fd2} /\ kfd[fd] # Free
           /\ UNCHANGED <<tab, snap, status>>
           /\ "fcntl_dup" \in habits \/ fd \notin DOMAIN tab.files
           /\ kfd[fd2] = Free \/ ("dup2_from_outside" \in habits /\ fd \notin DOMAIN tab.files)
<1>1. PICK fd \in Fd, fd2 \in Fd :
        /\ Open(fd) /\ KernelDup(fd, fd2, FALSE) /\ UNCHANGED <<dir, tab, snap, status>>
        /\ "fcntl_dup" \in habits \/ ~exists_capio_fd(tab, fd)
        /\ kfd[fd2] = Free \/ ("dup2_from_outside" \in habits /\ ~exists_capio_fd(tab, fd))
  BY DEF UntoldStep
<1>2. MapsInv' /\ FdsStay({fd2}) /\ kfd'[fd2] = kfd[fd] /\ kclo' = kclo \ {fd2}
  BY <1>1, UntoldEffect
<1> QED
  BY <1>1, <1>2 DEF exists_capio_fd, Open

LEMMA StepMaps ==
  ASSUME MapsInv, habits' = habits, CallStep
  PROVE  MapsInv'
<1>1. ASSUME NEW path \in Path, NEW mode \in OpenModes, NEW cloexec \in Cloexec,
             open_handler(path, mode, cloexec)
      PROVE  MapsInv'
  <2>1. cloexec \in BOOLEAN
    BY DEF Cloexec
  <2> QED
    BY <1>1, <2>1, OpenEffect
<1>2. CASE OpenOutside
  BY <1>2, OutsideEffect
<1>3. ASSUME NEW fd \in Fd, close_handler(fd) PROVE MapsInv'
  BY <1>3, CloseEffect
<1>4. CASE DupStep
  BY <1>4, DupStepEffect
<1>5. ASSUME NEW fd \in Fd, dup_handler_Fails(fd) PROVE MapsInv'
  BY <1>5, DupFailsEffect
<1>6. CASE UntoldStep
  BY <1>6, UntoldStepEffect
<1>7. CASE UNCHANGED <<kfd, kclo, ofd, dir, tab, snap, status>>
  BY <1>7 DEF MapsInv, KernelOK, SnapOK
<1>8. ASSUME NEW path \in Path, unlink_handler(path) PROVE MapsInv'
  BY <1>8, UnlinkEffect
<1>9. ASSUME NEW oldpath \in Path, NEW newpath \in Path, rename_handler(oldpath, newpath) PROVE MapsInv'
  BY <1>9, RenameEffect
<1>10. CASE execve_handler
  BY <1>10, ExecEffect
<1>11. CASE execve_handler_Fails
  BY <1>11, ExecFailsEffect
<1> QED
  BY <1>1, <1>2, <1>3, <1>4, <1>5, <1>6, <1>7, <1>8, <1>9, <1>10, <1>11 DEF CallStep

LEMMA NextMaps == MapsInv /\ [Next]_vars => MapsInv'
<1> SUFFICES ASSUME MapsInv, [Next]_vars PROVE MapsInv'
  OBVIOUS
<1>1. CASE Next
  BY <1>1, CallIsStep, StepMaps DEF Next
<1>2. CASE UNCHANGED vars
  BY <1>2 DEF vars, MapsInv, KernelOK, SnapOK
<1> QED
  BY <1>1, <1>2

\* Whatever the program does, files and descr keep the same keys, every entry
\* has its offset and every value its type.
THEOREM FdsMapsAgree == Spec => []MapsAgree
<1>1. MapsInv => MapsAgree
  BY DEF MapsInv, KernelOK, KernelTab, TabOK, PathsOK, MapsOK, MapsAgree, TypeOK, Key
<1> QED
  BY <1>1, InitMaps, NextMaps, PTL DEF Spec

-----------------------------------------------------------------------------
(* RecordedOpen: what survives execve is open in the new program.          *)

\* A program that is replaced with its descriptors, and by a snapshot of its own.
ExecExact == "exec" \in habits => "cloexec" \notin habits /\ "exec_fails" \notin habits

Leftovers ==
  /\ "exec_fails" \notin habits => snap = Free
  /\ "cloexec" \notin habits => kclo = {}

StillOpen == ExecExact => \A fd \in DOMAIN tab.files \cap Fd : kfd[fd] # Free

StillInside ==
  (ExecExact /\ "dup2_from_outside" \notin habits) =>
    \A fd \in DOMAIN tab.files \cap Fd : ofd[kfd[fd]].name # Outside

OnlyFds ==
  (ExecExact /\ "dup_fails" \notin habits) =>
    /\ DOMAIN tab.files \subseteq Fd
    /\ \A p \in DOMAIN tab.paths : tab.paths[p] \subseteq Fd

LEMMA LeftoversKept ==
  ASSUME MapsInv, habits' = habits, CallStep, Leftovers
  PROVE  Leftovers'
<1>1. ASSUME NEW path \in Path, NEW mode \in OpenModes, NEW cloexec \in Cloexec,
             open_handler(path, mode, cloexec)
      PROVE  Leftovers'
  <2>1. cloexec \in BOOLEAN /\ ("cloexec" \notin habits => ~cloexec)
    BY DEF Cloexec
  <2>2. snap' = snap /\ kclo' = IF cloexec THEN kclo \cup {Lowest} ELSE kclo \ {Lowest}
    BY <1>1, <2>1, OpenEffect
  <2> QED
    BY <2>1, <2>2 DEF Leftovers
<1>2. CASE OpenOutside
  BY <1>2, OutsideEffect DEF Leftovers
<1>3. ASSUME NEW fd \in Fd, close_handler(fd) PROVE Leftovers'
  BY <1>3, CloseEffect DEF Leftovers
<1>4. CASE DupStep
  <2>1. PICK fd2 \in Fd, cloexec \in Cloexec :
          snap' = snap /\ kclo' = IF cloexec THEN kclo \cup {fd2} ELSE kclo \ {fd2}
    BY <1>4, DupStepEffect
  <2>2. "cloexec" \notin habits => ~cloexec
    BY DEF Cloexec
  <2> QED
    BY <2>1, <2>2 DEF Leftovers
<1>5. ASSUME NEW fd \in Fd, dup_handler_Fails(fd) PROVE Leftovers'
  BY <1>5, DupFailsEffect DEF Leftovers
<1>6. CASE UntoldStep
  BY <1>6, UntoldStepEffect DEF Leftovers
<1>7. ASSUME NEW fd \in Fd, Travels(fd) PROVE Leftovers'
  BY <1>7 DEF Leftovers, Travels
<1>8. CASE UNCHANGED <<kfd, kclo, ofd, dir, tab, snap, status>>
  BY <1>8 DEF Leftovers
<1>9. ASSUME NEW path \in Path, unlink_handler(path) PROVE Leftovers'
  BY <1>9, UnlinkEffect DEF Leftovers
<1>10. ASSUME NEW oldpath \in Path, NEW newpath \in Path, rename_handler(oldpath, newpath) PROVE Leftovers'
  BY <1>10, RenameEffect DEF Leftovers
<1>11. CASE execve_handler
  BY <1>11, ExecEffect DEF Leftovers
<1>12. CASE execve_handler_Fails
  BY <1>12, ExecFailsEffect DEF Leftovers
<1> QED
  BY <1>1, <1>2, <1>3, <1>4, <1>5, <1>6, <1>7, <1>8, <1>9, <1>10, <1>11, <1>12 DEF CallStep

\* A program that is replaced without a descriptor recorded has none after.
LEMMA NothingRestored ==
  ASSUME MapsInv, habits' = habits, execve_handler, status' = "running", ExecExact, Leftovers
  PROVE  /\ kfd' = kfd /\ \A fd \in Fd : kfd[fd] # Free => ofd'[kfd[fd]] = ofd[kfd[fd]]
         /\ DOMAIN tab'.files = DOMAIN tab.files
         /\ DOMAIN tab.files = {} => DOMAIN tab'.paths = {} /\ DOMAIN tab'.descr = {}
         /\ DOMAIN tab.files # {} => Restored(tab)
<1>1. "exec" \in habits
  BY ExecEffect DEF MayExec
<1>2. snap = Free /\ kclo = {}
  BY <1>1 DEF ExecExact, Leftovers
<1>3. MapsInv' /\ (DOMAIN tab.files # {} => Restored(tab))
  BY ExecEffect
<1>4. \A fd \in Fd : kfd'[fd] = kfd[fd] /\ (kfd[fd] # Free => ofd'[kfd[fd]] = ofd[kfd[fd]])
  BY <1>2, ExecEffect DEF FdsStay
<1>5. kfd' = kfd
  BY <1>3, <1>4 DEF MapsInv, KernelOK, KernelTab
<1>6. DOMAIN tab.files = {} => tab' = NewTables
  BY <1>2, ExecEffect
<1> QED
  BY <1>3, <1>4, <1>5, <1>6, NewTablesOK DEF Restored

LEMMA StillOpenKept ==
  ASSUME MapsInv, habits' = habits, CallStep, status = "running", status' = "running", Leftovers, StillOpen
  PROVE  StillOpen'
<1> SUFFICES ASSUME ExecExact, NEW x \in Fd, x \in DOMAIN tab'.files PROVE kfd'[x] # Free
  BY DEF StillOpen, ExecExact
<1>0. x \in DOMAIN tab.files => kfd[x] # Free
  BY DEF StillOpen
<1>1. ASSUME NEW path \in Path, NEW mode \in OpenModes, NEW cloexec \in Cloexec,
             open_handler(path, mode, cloexec)
      PROVE  kfd'[x] # Free
  <2>1. cloexec \in BOOLEAN
    BY DEF Cloexec
  <2>2. Opened(Lowest, path, mode) /\ DOMAIN tab'.files = DOMAIN tab.files \cup {Lowest}
    BY <1>1, <2>1, OpenEffect
  <2> QED
    BY <1>0, <2>2 DEF Opened
<1>2. CASE OpenOutside
  <2>1. Opened(Lowest, Outside, "r") /\ tab' = tab
    BY <1>2, OutsideEffect
  <2> QED
    BY <1>0, <2>1 DEF Opened
<1>3. ASSUME NEW fd \in Fd, close_handler(fd) PROVE kfd'[x] # Free
  <2>1. (tab' = tab /\ fd \notin DOMAIN tab.files) \/ tab'.files = Erase(tab.files, {fd})
    BY <1>3, CloseEffect
  <2>2. FdsStay({fd})
    BY <1>3, CloseEffect
  <2>3. x \in DOMAIN tab.files /\ x # fd
    BY <2>1 DEF Erase
  <2> QED
    BY <1>0, <2>2, <2>3 DEF FdsStay
<1>4. CASE DupStep
  <2>1. PICK fd \in Fd, fd2 \in Fd :
          /\ FdsStay({fd2}) /\ kfd'[fd2] = kfd[fd] /\ kfd[fd] # Free /\ DupRecorded(fd, fd2)
    BY <1>4, DupStepEffect
  <2> QED
    BY <1>0, <2>1 DEF FdsStay, DupRecorded
<1>5. ASSUME NEW fd \in Fd, dup_handler_Fails(fd) PROVE kfd'[x] # Free
  <2>1. DupRecorded(fd, Errno) /\ kfd' = kfd
    BY <1>5, DupFailsEffect
  <2> QED
    BY <1>0, <2>1, Constants DEF DupRecorded
<1>6. CASE UntoldStep
  <2>1. PICK fd \in Fd, fd2 \in Fd :
          FdsStay({fd2}) /\ kfd'[fd2] = kfd[fd] /\ kfd[fd] # Free /\ tab' = tab
    BY <1>6, UntoldStepEffect
  <2> QED
    BY <1>0, <2>1 DEF FdsStay
<1>7. ASSUME NEW fd \in Fd, Travels(fd) PROVE kfd'[x] # Free
  BY <1>0, <1>7 DEF Travels, ModesStay
<1>8. CASE UNCHANGED <<kfd, kclo, ofd, dir, tab, snap, status>>
  BY <1>0, <1>8
<1>9. ASSUME NEW path \in Path, unlink_handler(path) PROVE kfd'[x] # Free
  <2>1. kfd' = kfd /\ (tab' = tab \/ tab'.files = Erase(tab.files, tab.paths[path]))
    BY <1>9, UnlinkEffect DEF Relabelled, ModesStay
  <2> QED
    BY <1>0, <2>1 DEF Erase
<1>10. ASSUME NEW oldpath \in Path, NEW newpath \in Path, rename_handler(oldpath, newpath)
       PROVE  kfd'[x] # Free
  <2>1. kfd' = kfd /\ (tab' = tab \/ tab'.files = tab.files)
    BY <1>10, RenameEffect DEF Relabelled, ModesStay
  <2> QED
    BY <1>0, <2>1
<1>11. CASE execve_handler
  BY <1>0, <1>11, NothingRestored
<1>12. CASE execve_handler_Fails
  BY <1>0, <1>12, ExecFailsEffect
<1> QED
  BY <1>1, <1>2, <1>3, <1>4, <1>5, <1>6, <1>7, <1>8, <1>9, <1>10, <1>11, <1>12 DEF CallStep

\* What an open descriptor refers to.
LEMMA OpenIs ==
  ASSUME MapsInv, NEW x \in Fd, kfd[x] # Free
  PROVE  /\ kfd[x] \in Slot /\ ofd[kfd[x]] # Free /\ ofd[kfd[x]].name \in Names
         /\ ofd[kfd[x]].mode \in {"r", "w", "rw"} /\ ofd[kfd[x]].pos \in 0 .. MaxPos
<1>1. kfd[x] \in Slot /\ ofd[kfd[x]] \in Description /\ ofd[kfd[x]] # Free
  BY DEF MapsInv, KernelOK, KernelTab
<1> QED
  BY <1>1 DEF Description, Names

LEMMA NamesApart == \A p \in Path : p # Outside /\ p # Gone /\ p # Garbage /\ p # Free
BY DescriptorsAssumption

LEMMA StillInsideKept ==
  ASSUME MapsInv, habits' = habits, CallStep, status = "running", status' = "running",
         Leftovers, StillOpen, StillInside
  PROVE  StillInside'
<1> SUFFICES ASSUME ExecExact, "dup2_from_outside" \notin habits, NEW x \in Fd, x \in DOMAIN tab'.files
             PROVE  ofd'[kfd'[x]].name # Outside
  BY DEF StillInside, ExecExact
<1>0. x \in DOMAIN tab.files => kfd[x] # Free /\ ofd[kfd[x]].name # Outside
  BY DEF StillOpen, StillInside
<1>1. ASSUME NEW path \in Path, NEW mode \in OpenModes, NEW cloexec \in Cloexec,
             open_handler(path, mode, cloexec)
      PROVE  ofd'[kfd'[x]].name # Outside
  <2>1. cloexec \in BOOLEAN
    BY DEF Cloexec
  <2>2. Opened(Lowest, path, mode) /\ DOMAIN tab'.files = DOMAIN tab.files \cup {Lowest}
    BY <1>1, <2>1, OpenEffect
  <2>3. x = Lowest => ofd'[kfd'[x]].name = path
    BY <2>2 DEF Opened
  <2>4. x # Lowest => ofd'[kfd'[x]] = ofd[kfd[x]]
    BY <1>0, <2>2 DEF Opened
  <2> QED
    BY <1>0, <2>2, <2>3, <2>4, NamesApart
<1>2. CASE OpenOutside
  <2>1. Opened(Lowest, Outside, "r") /\ tab' = tab
    BY <1>2, OutsideEffect
  <2>2. x # Lowest
    BY <1>0, <2>1 DEF Opened
  <2> QED
    BY <1>0, <2>1, <2>2 DEF Opened
<1>3. ASSUME NEW fd \in Fd, close_handler(fd) PROVE ofd'[kfd'[x]].name # Outside
  <2>1. (tab' = tab /\ fd \notin DOMAIN tab.files) \/ tab'.files = Erase(tab.files, {fd})
    BY <1>3, CloseEffect
  <2>2. FdsStay({fd})
    BY <1>3, CloseEffect
  <2>3. x \in DOMAIN tab.files /\ x # fd
    BY <2>1 DEF Erase
  <2> QED
    BY <1>0, <2>2, <2>3 DEF FdsStay
<1>4. CASE DupStep
  <2>1. PICK fd \in Fd, fd2 \in Fd :
          /\ FdsStay({fd2}) /\ kfd'[fd2] = kfd[fd] /\ kfd[fd] # Free /\ fd \in DOMAIN tab.files
          /\ DupRecorded(fd, fd2)
    BY <1>4, DupStepEffect
  <2>2. ofd[kfd[fd]].name # Outside
    BY <2>1 DEF StillInside
  <2> QED
    BY <1>0, <2>1, <2>2 DEF FdsStay, DupRecorded
<1>5. ASSUME NEW fd \in Fd, dup_handler_Fails(fd) PROVE ofd'[kfd'[x]].name # Outside
  <2>1. DupRecorded(fd, Errno) /\ kfd' = kfd /\ ofd' = ofd
    BY <1>5, DupFailsEffect
  <2> QED
    BY <1>0, <2>1, Constants DEF DupRecorded
<1>6. CASE UntoldStep
  <2>1. PICK fd \in Fd, fd2 \in Fd : FdsStay({fd2}) /\ kfd[fd2] = Free /\ tab' = tab
    BY <1>6, UntoldStepEffect
  <2> QED
    BY <1>0, <2>1 DEF FdsStay
<1>7. ASSUME NEW fd \in Fd, Travels(fd) PROVE ofd'[kfd'[x]].name # Outside
  <2>1. x \in DOMAIN tab.files /\ kfd' = kfd /\ kfd[x] \in Slot
    BY <1>0, <1>7, OpenIs DEF Travels, ModesStay
  <2> QED
    BY <1>0, <1>7, <2>1 DEF Travels
<1>8. CASE UNCHANGED <<kfd, kclo, ofd, dir, tab, snap, status>>
  BY <1>0, <1>8
<1>9. ASSUME NEW path \in Path, unlink_handler(path) PROVE ofd'[kfd'[x]].name # Outside
  <2>1. Relabelled(UnlinkName(path)) /\ (tab' = tab \/ tab'.files = Erase(tab.files, tab.paths[path]))
    BY <1>9, UnlinkEffect
  <2>2. x \in DOMAIN tab.files
    BY <2>1 DEF Erase
  <2>3. kfd' = kfd /\ ofd'[kfd[x]].name = UnlinkName(path)[ofd[kfd[x]].name]
    BY <1>0, <2>1, <2>2, OpenIs DEF Relabelled, ModesStay
  <2> QED
    BY <1>0, <2>2, <2>3, OpenIs, DescriptorsAssumption DEF UnlinkName
<1>10. ASSUME NEW oldpath \in Path, NEW newpath \in Path, rename_handler(oldpath, newpath)
       PROVE  ofd'[kfd'[x]].name # Outside
  <2>1. Relabelled(RenameName(oldpath, newpath)) /\ (tab' = tab \/ tab'.files = tab.files)
    BY <1>10, RenameEffect
  <2>2. kfd' = kfd /\ ofd'[kfd[x]].name = RenameName(oldpath, newpath)[ofd[kfd[x]].name]
    BY <1>0, <2>1, OpenIs DEF Relabelled, ModesStay
  <2> QED
    BY <1>0, <2>1, <2>2, OpenIs, DescriptorsAssumption, NamesApart DEF RenameName
<1>11. CASE execve_handler
  BY <1>0, <1>11, NothingRestored
<1>12. CASE execve_handler_Fails
  BY <1>0, <1>12, ExecFailsEffect
<1> QED
  BY <1>1, <1>2, <1>3, <1>4, <1>5, <1>6, <1>7, <1>8, <1>9, <1>10, <1>11, <1>12 DEF CallStep

LEMMA OnlyFdsKept ==
  ASSUME MapsInv, habits' = habits, CallStep, status = "running", status' = "running", Leftovers, OnlyFds
  PROVE  OnlyFds'
<1> DEFINE Goal == DOMAIN tab'.files \subseteq Fd /\ \A p \in DOMAIN tab'.paths : tab'.paths[p] \subseteq Fd
<1> SUFFICES ASSUME ExecExact, "dup_fails" \notin habits PROVE Goal
  BY DEF OnlyFds, ExecExact
<1>0. DOMAIN tab.files \subseteq Fd /\ \A p \in DOMAIN tab.paths : tab.paths[p] \subseteq Fd
  BY DEF OnlyFds
<1>1. ASSUME NEW path \in Path, NEW mode \in OpenModes, NEW cloexec \in Cloexec,
             open_handler(path, mode, cloexec)
      PROVE  Goal
  <2>1. cloexec \in BOOLEAN
    BY DEF Cloexec
  <2>2. /\ Lowest \in Fd /\ DOMAIN tab'.files = DOMAIN tab.files \cup {Lowest}
        /\ tab'.paths = WithFd(tab.paths, path, Lowest)
    BY <1>1, <2>1, OpenEffect DEF Opened
  <2> QED
    BY <1>0, <2>2 DEF WithFd
<1>2. CASE OpenOutside
  BY <1>0, <1>2, OutsideEffect
<1>3. ASSUME NEW fd \in Fd, close_handler(fd) PROVE Goal
  <2>1. tab' = tab \/ (tab'.files = Erase(tab.files, {fd}) /\ tab'.paths = Forget(tab, {fd}))
    BY <1>3, CloseEffect
  <2> QED
    BY <1>0, <2>1 DEF Erase, Forget
<1>4. CASE DupStep
  <2>1. PICK fd \in Fd, fd2 \in Fd : DupRecorded(fd, fd2) /\ tab.descr[fd] \in DOMAIN tab.paths
    BY <1>4, DupStepEffect
  <2> QED
    BY <1>0, <2>1 DEF DupRecorded, WithFd
<1>5. ASSUME NEW fd \in Fd, dup_handler_Fails(fd) PROVE Goal
  BY <1>5, DupFailsEffect
<1>6. CASE UntoldStep
  BY <1>0, <1>6, UntoldStepEffect
<1>7. ASSUME NEW fd \in Fd, Travels(fd) PROVE Goal
  BY <1>0, <1>7 DEF Travels
<1>8. CASE UNCHANGED <<kfd, kclo, ofd, dir, tab, snap, status>>
  BY <1>0, <1>8
<1>9. ASSUME NEW path \in Path, unlink_handler(path) PROVE Goal
  <2>1. \/ tab' = tab
        \/ /\ tab'.files = Erase(tab.files, tab.paths[path])
           /\ tab'.paths = Erase(Forget(tab, tab.paths[path]), {path})
    BY <1>9, UnlinkEffect
  <2> QED
    BY <1>0, <2>1 DEF Erase, Forget
<1>10. ASSUME NEW oldpath \in Path, NEW newpath \in Path, rename_handler(oldpath, newpath) PROVE Goal
  <2>1. \/ tab' = tab
        \/ /\ tab'.files = tab.files /\ tab'.paths = Moved(tab.paths, oldpath, newpath)
           /\ oldpath \in DOMAIN tab.paths
    BY <1>10, RenameEffect
  <2> QED
    BY <1>0, <2>1 DEF Moved, Insert, Erase
<1>11. CASE execve_handler
  BY <1>0, <1>11, NothingRestored DEF Restored
<1>12. CASE execve_handler_Fails
  BY <1>0, <1>12, ExecFailsEffect
<1> QED
  BY <1>1, <1>2, <1>3, <1>4, <1>5, <1>6, <1>7, <1>8, <1>9, <1>10, <1>11, <1>12 DEF CallStep

\* The inductive invariant of a program that still runs.
OpenInv ==
  /\ MapsInv /\ Leftovers
  /\ status = "running" => StillOpen /\ StillInside /\ OnlyFds

LEMMA InitOpen == Init => OpenInv
BY InitMaps, NewTablesOK DEF Init, OpenInv, Leftovers, StillOpen, StillInside, OnlyFds

LEMMA NextOpen == OpenInv /\ [Next]_vars => OpenInv'
<1> SUFFICES ASSUME OpenInv, [Next]_vars PROVE OpenInv'
  OBVIOUS
<1>1. MapsInv /\ MapsInv'
  BY NextMaps DEF OpenInv
<1>2. CASE Next
  <2>1. habits' = habits /\ CallStep /\ status = "running"
    BY <1>1, <1>2, CallIsStep DEF Next
  <2> QED
    BY <1>1, <2>1, LeftoversKept, StillOpenKept, StillInsideKept, OnlyFdsKept DEF OpenInv
<1>3. CASE UNCHANGED vars
  BY <1>1, <1>3 DEF vars, OpenInv, Leftovers, StillOpen, StillInside, OnlyFds, ExecExact
<1> QED
  BY <1>2, <1>3

\* Without the two slips of dup and without an exec that closes descriptors or
\* follows a failed one, a descriptor that exists_capio_fd knows is open, and
\* on a file of CAPIO_DIR.
THEOREM FdsRecordedOpen == Spec => []RecordedOpen
<1>1. ASSUME OpenInv PROVE RecordedOpen
  <2> SUFFICES ASSUME status = "running",
                      Without({{"dup2_from_outside"}, {"dup_fails"}, {"exec", "cloexec"}, {"exec", "exec_fails"}}),
                      NEW fd \in DOMAIN tab.files
               PROVE  fd \in Fd /\ kfd[fd] # Free /\ Of(fd).name # Outside
    BY DEF RecordedOpen
  <2>1. ExecExact /\ "dup2_from_outside" \notin habits /\ "dup_fails" \notin habits
    BY DEF Without, ExecExact
  <2> QED
    BY <1>1, <2>1 DEF OpenInv, StillOpen, StillInside, OnlyFds, Of
<1> QED
  BY <1>1, InitOpen, NextOpen, PTL DEF Spec

-----------------------------------------------------------------------------
(* NoThrow: capio_files_paths and capio_files_descriptors are inverses.    *)

FdListed(t, x) ==
  /\ x \in DOMAIN t.descr => t.descr[x] \in DOMAIN t.paths /\ x \in t.paths[t.descr[x]]
  /\ \A p \in DOMAIN t.paths : x \in t.paths[p] => x \in DOMAIN t.descr /\ t.descr[x] = p

Orderly == ExecExact /\ "dup2_onto_open" \notin habits /\ "rename_onto_known" \notin habits

Listed == Orderly => \A x \in Fd : FdListed(tab, x)

LEMMA AddListed ==
  ASSUME NEW t, NEW u, NEW path, NEW fd, NEW x, FdListed(t, x), x = fd => fd \notin DOMAIN t.descr,
         u.paths = WithFd(t.paths, path, fd), u.descr = Insert(t.descr, fd, path)
  PROVE  FdListed(u, x)
<1>1. DOMAIN u.paths = DOMAIN t.paths \cup {path} /\ DOMAIN u.descr = DOMAIN t.descr \cup {fd}
  BY DEF WithFd, Insert
<1>2. CASE x = fd
  <2>1. u.descr[x] = path /\ x \in u.paths[path]
    BY <1>2 DEF WithFd, Insert
  <2>2. \A p \in DOMAIN u.paths : x \in u.paths[p] => p = path
    BY <1>2 DEF WithFd, FdListed
  <2> QED
    BY <1>1, <1>2, <2>1, <2>2 DEF FdListed
<1>3. CASE x # fd
  <2>1. x \in DOMAIN t.descr => u.descr[x] = t.descr[x]
    BY <1>1 DEF Insert
  <2>2. \A p \in DOMAIN u.paths : x \in u.paths[p] <=> p \in DOMAIN t.paths /\ x \in t.paths[p]
    BY <1>3 DEF WithFd
  <2> QED
    BY <1>1, <1>3, <2>1, <2>2 DEF FdListed
<1> QED
  BY <1>2, <1>3

LEMMA DropListed ==
  ASSUME NEW t, NEW u, NEW fds, NEW x, FdListed(t, x),
         u.paths = Forget(t, fds), u.descr = Erase(t.descr, fds)
  PROVE  FdListed(u, x)
BY DEF FdListed, Forget, Erase

LEMMA UnlinkListed ==
  ASSUME NEW t, NEW u, NEW path \in DOMAIN t.paths, NEW x, FdListed(t, x),
         u.paths = Erase(Forget(t, t.paths[path]), {path}), u.descr = Erase(t.descr, t.paths[path])
  PROVE  FdListed(u, x)
<1>1. DOMAIN u.paths = DOMAIN t.paths \ {path} /\ DOMAIN u.descr = DOMAIN t.descr \ t.paths[path]
  BY DEF Erase, Forget
<1>2. \A p \in DOMAIN u.paths : x \in u.paths[p] =>
        x \in t.paths[p] /\ (x \in t.paths[path] => t.descr[x] # p)
  BY DEF Erase, Forget
<1>3. \A p \in DOMAIN u.paths : x \in t.paths[p] /\ x \notin t.paths[path] => x \in u.paths[p]
  BY DEF Erase, Forget
<1>4. x \in DOMAIN u.descr => u.descr[x] = t.descr[x]
  BY DEF Erase
<1> QED
  BY <1>1, <1>2, <1>3, <1>4 DEF FdListed

LEMMA RenameListed ==
  ASSUME NEW t, NEW u, NEW old \in DOMAIN t.paths, NEW new, old # new, NEW x, FdListed(t, x),
         new \in DOMAIN t.paths => t.paths[old] \cup t.paths[new] = {},
         u.paths = Moved(t.paths, old, new), DOMAIN u.descr = DOMAIN t.descr,
         \A fd \in DOMAIN t.descr : u.descr[fd] =
           IF fd \in Moved(t.paths, old, new)[new] THEN new ELSE t.descr[fd]
  PROVE  FdListed(u, x)
<1>1. DOMAIN u.paths = (DOMAIN t.paths \ {old}) \cup {new}
  BY DEF Moved, Insert, Erase
<1>2. \A p \in DOMAIN t.paths \ {old} : u.paths[p] = t.paths[p]
  BY DEF Moved, Insert, Erase
<1>3. new \notin DOMAIN t.paths => u.paths[new] = t.paths[old]
  BY DEF Moved, Insert, Erase
<1>4. u.paths[new] = t.paths[old]
  BY <1>2, <1>3
<1>5. \A fd \in DOMAIN t.descr : u.descr[fd] = IF fd \in t.paths[old] THEN new ELSE t.descr[fd]
  BY <1>4
<1>6. x \in t.paths[old] <=> x \in DOMAIN t.descr /\ t.descr[x] = old
  BY DEF FdListed
<1>7. CASE x \in t.paths[old]
  <2>1. x \in DOMAIN u.descr /\ u.descr[x] = new /\ x \in u.paths[new] /\ new \in DOMAIN u.paths
    BY <1>1, <1>4, <1>5, <1>6, <1>7
  <2>2. \A p \in DOMAIN u.paths : x \in u.paths[p] => p = new
    BY <1>1, <1>2, <1>6, <1>7 DEF FdListed
  <2> QED
    BY <2>1, <2>2 DEF FdListed
<1>8. CASE x \notin t.paths[old]
  <2>1. x \in DOMAIN t.descr => u.descr[x] = t.descr[x] /\ t.descr[x] # old
    BY <1>5, <1>6, <1>8
  <2>2. \A p \in DOMAIN u.paths : x \in u.paths[p] <=> p \in DOMAIN t.paths \ {old} /\ x \in t.paths[p]
    BY <1>1, <1>2, <1>4, <1>8
  <2> QED
    BY <1>1, <2>1, <2>2 DEF FdListed
<1> QED
  BY <1>7, <1>8

LEMMA ListedKept ==
  ASSUME MapsInv, habits' = habits, CallStep, status = "running", status' = "running",
         Leftovers, StillOpen, Listed
  PROVE  Listed'
<1> SUFFICES ASSUME Orderly, NEW x \in Fd PROVE FdListed(tab', x)
  BY DEF Listed, Orderly, ExecExact
<1>0. /\ FdListed(tab, x) /\ ExecExact /\ DOMAIN tab.files = DOMAIN tab.descr
      /\ x \in DOMAIN tab.descr => kfd[x] # Free
  BY DEF Listed, Orderly, StillOpen, MapsInv, TabOK, MapsOK
<1>1. ASSUME NEW path \in Path, NEW mode \in OpenModes, NEW cloexec \in Cloexec,
             open_handler(path, mode, cloexec)
      PROVE  FdListed(tab', x)
  <2>1. cloexec \in BOOLEAN
    BY DEF Cloexec
  <2>2. /\ Opened(Lowest, path, mode) /\ tab'.descr = Insert(tab.descr, Lowest, path)
        /\ tab'.paths = WithFd(tab.paths, path, Lowest)
    BY <1>1, <2>1, OpenEffect
  <2>3. x = Lowest => Lowest \notin DOMAIN tab.descr
    BY <1>0, <2>2 DEF Opened
  <2> QED
    BY <1>0, <2>2, <2>3, AddListed
<1>2. CASE OpenOutside
  BY <1>0, <1>2, OutsideEffect
<1>3. ASSUME NEW fd \in Fd, close_handler(fd) PROVE FdListed(tab', x)
  <2>1. tab' = tab \/ (tab'.paths = Forget(tab, {fd}) /\ tab'.descr = Erase(tab.descr, {fd}))
    BY <1>3, CloseEffect
  <2> QED
    BY <1>0, <2>1, DropListed
<1>4. CASE DupStep
  <2>1. PICK fd \in Fd, fd2 \in Fd : DupRecorded(fd, fd2) /\ kfd[fd2] = Free
    BY <1>4, DupStepEffect DEF Orderly
  <2>2. x = fd2 => fd2 \notin DOMAIN tab.descr
    BY <1>0, <2>1
  <2> QED
    BY <1>0, <2>1, <2>2, AddListed DEF DupRecorded
<1>5. ASSUME NEW fd \in Fd, dup_handler_Fails(fd) PROVE FdListed(tab', x)
  <2>1. DupRecorded(fd, Errno) /\ x # Errno
    BY <1>5, DupFailsEffect, Constants
  <2> QED
    BY <1>0, <2>1, AddListed DEF DupRecorded
<1>6. CASE UntoldStep
  BY <1>0, <1>6, UntoldStepEffect
<1>7. ASSUME NEW fd \in Fd, Travels(fd) PROVE FdListed(tab', x)
  BY <1>0, <1>7 DEF Travels, FdListed
<1>8. CASE UNCHANGED <<kfd, kclo, ofd, dir, tab, snap, status>>
  BY <1>0, <1>8
<1>9. ASSUME NEW path \in Path, unlink_handler(path) PROVE FdListed(tab', x)
  <2>1. \/ tab' = tab
        \/ /\ path \in DOMAIN tab.paths /\ tab'.descr = Erase(tab.descr, tab.paths[path])
           /\ tab'.paths = Erase(Forget(tab, tab.paths[path]), {path})
    BY <1>9, UnlinkEffect
  <2> QED
    BY <1>0, <2>1, UnlinkListed
<1>10. ASSUME NEW oldpath \in Path, NEW newpath \in Path, rename_handler(oldpath, newpath)
       PROVE  FdListed(tab', x)
  <2>1. CASE oldpath \notin DOMAIN tab.paths
    BY <1>0, <1>10, <2>1, RenameEffect
  <2>2. CASE oldpath \in DOMAIN tab.paths
    <3>1. /\ oldpath # newpath /\ MayRename(oldpath, newpath)
          /\ tab'.paths = Moved(tab.paths, oldpath, newpath) /\ DOMAIN tab'.descr = DOMAIN tab.descr
          /\ \A fd \in DOMAIN tab.descr : tab'.descr[fd] =
               IF fd \in Moved(tab.paths, oldpath, newpath)[newpath] THEN newpath ELSE tab.descr[fd]
      BY <1>10, <2>2, RenameEffect
    <3>2. newpath \in DOMAIN tab.paths => tab.paths[oldpath] \cup tab.paths[newpath] = {}
      BY <2>2, <3>1 DEF MayRename, Orderly
    <3> QED
      BY <1>0, <2>2, <3>1, <3>2, RenameListed
  <2> QED
    BY <2>1, <2>2
<1>11. CASE execve_handler
  <2>1. CASE DOMAIN tab.files = {}
    BY <1>0, <1>11, <2>1, NothingRestored DEF FdListed
  <2>2. CASE DOMAIN tab.files # {}
    <3>1. Restored(tab)
      BY <1>0, <1>11, <2>2, NothingRestored
    <3> QED
      BY <3>1 DEF Restored, FdListed
  <2> QED
    BY <2>1, <2>2
<1>12. CASE execve_handler_Fails
  BY <1>0, <1>12, ExecFailsEffect
<1> QED
  BY <1>1, <1>2, <1>3, <1>4, <1>5, <1>6, <1>7, <1>8, <1>9, <1>10, <1>11, <1>12 DEF CallStep

\* No call throws where the maps are inverses and the library records
\* descriptors only.
Careful == Orderly /\ "dup_fails" \notin habits

LEMMA NoCallThrows ==
  ASSUME MapsInv, habits' = habits, CallStep, status = "running", OnlyFds, Listed, Careful
  PROVE  status' # "threw"
<1>0. /\ \A x \in Fd : FdListed(tab, x)
      /\ DOMAIN tab.files \subseteq Fd /\ DOMAIN tab.files = DOMAIN tab.descr
      /\ \A p \in DOMAIN tab.paths : tab.paths[p] \subseteq Fd
  BY DEF Listed, Careful, Orderly, OnlyFds, MapsInv, TabOK, MapsOK
<1>1. ASSUME NEW path \in Path, NEW mode \in OpenModes, NEW cloexec \in Cloexec,
             open_handler(path, mode, cloexec)
      PROVE  status' # "threw"
  <2>1. cloexec \in BOOLEAN
    BY DEF Cloexec
  <2> QED
    BY <1>1, <2>1, OpenEffect
<1>2. CASE OpenOutside
  BY <1>2, OutsideEffect
<1>3. ASSUME NEW fd \in Fd, close_handler(fd) PROVE status' # "threw"
  <2>1. fd \in DOMAIN tab.files => ~Missing(tab, {fd})
    BY <1>0 DEF Missing, FdListed
  <2> QED
    BY <1>3, <2>1, CloseEffect
<1>4. CASE DupStep
  <2>1. PICK fd \in Fd :
          fd \in DOMAIN tab.files /\ (status' = "running" <=> tab.descr[fd] \in DOMAIN tab.paths)
    BY <1>4, DupStepEffect
  <2> QED
    BY <1>0, <2>1 DEF FdListed
<1>5. ASSUME NEW fd \in Fd, dup_handler_Fails(fd) PROVE status' # "threw"
  BY <1>5, DupFailsEffect DEF Careful
<1>6. CASE UntoldStep
  BY <1>6, UntoldStepEffect
<1>7. ASSUME NEW fd \in Fd, Travels(fd) PROVE status' # "threw"
  BY <1>7 DEF Travels
<1>8. CASE UNCHANGED <<kfd, kclo, ofd, dir, tab, snap, status>>
  BY <1>8
<1>9. ASSUME NEW path \in Path, unlink_handler(path) PROVE status' # "threw"
  <2>1. path \in DOMAIN tab.paths => ~Missing(tab, tab.paths[path])
    BY <1>0 DEF Missing, FdListed
  <2> QED
    BY <1>9, <2>1, UnlinkEffect
<1>10. ASSUME NEW oldpath \in Path, NEW newpath \in Path, rename_handler(oldpath, newpath)
       PROVE  status' # "threw"
  <2>1. oldpath \in DOMAIN tab.paths => Moved(tab.paths, oldpath, newpath)[newpath] \subseteq DOMAIN tab.descr
    <3>1. ASSUME oldpath \in DOMAIN tab.paths
          PROVE  \E p \in DOMAIN tab.paths : Moved(tab.paths, oldpath, newpath)[newpath] = tab.paths[p]
      BY <3>1 DEF Moved, Insert, Erase
    <3>2. \A p \in DOMAIN tab.paths : tab.paths[p] \subseteq DOMAIN tab.descr
      BY <1>0 DEF FdListed
    <3> QED
      BY <3>1, <3>2
  <2> QED
    BY <1>10, <2>1, RenameEffect
<1>11. CASE execve_handler
  BY <1>11, ExecEffect
<1>12. CASE execve_handler_Fails
  BY <1>12, ExecFailsEffect
<1> QED
  BY <1>1, <1>2, <1>3, <1>4, <1>5, <1>6, <1>7, <1>8, <1>9, <1>10, <1>11, <1>12 DEF CallStep

ListInv ==
  /\ OpenInv
  /\ status = "running" => Listed
  /\ Careful => status # "threw"

LEMMA InitList == Init => ListInv
BY InitOpen, NewTablesOK DEF Init, ListInv, Listed, FdListed

LEMMA NextList == ListInv /\ [Next]_vars => ListInv'
<1> SUFFICES ASSUME ListInv, [Next]_vars PROVE ListInv'
  OBVIOUS
<1>1. OpenInv /\ OpenInv' /\ MapsInv
  BY NextOpen DEF ListInv, OpenInv
<1>2. CASE Next
  <2>1. habits' = habits /\ CallStep /\ status = "running"
    BY <1>1, <1>2, CallIsStep DEF Next
  <2>2. Leftovers /\ StillOpen /\ OnlyFds /\ Listed
    BY <1>1, <2>1 DEF OpenInv, ListInv
  <2>3. Careful' = Careful
    BY <2>1 DEF Careful, Orderly, ExecExact
  <2> QED
    BY <1>1, <2>1, <2>2, <2>3, ListedKept, NoCallThrows DEF ListInv
<1>3. CASE UNCHANGED vars
  BY <1>1, <1>3 DEF vars, ListInv, Listed, FdListed, Careful, Orderly, ExecExact
<1> QED
  BY <1>2, <1>3

\* A program that does not duplicate onto an open descriptor, rename onto a
\* known name, fail to duplicate, or lose descriptors in execve is never ended
\* by an at() of the library.
THEOREM FdsNoThrow == Spec => []NoThrow
<1>1. ListInv => NoThrow
  BY DEF ListInv, NoThrow, Without, Careful, Orderly, ExecExact
<1> QED
  BY <1>1, InitList, NextList, PTL DEF Spec

-----------------------------------------------------------------------------
(* NamesTrue and ClosesTold.                                               *)

NamesKept ==
  /\ "dup2_onto_open" \notin habits /\ "fcntl_dup" \notin habits
  /\ "rename_onto_known" \notin habits /\ "exec" \notin habits

FdNamed(x) ==
  kfd[x] # Free /\ ofd[kfd[x]].name \in Path => x \in DOMAIN tab.descr /\ tab.descr[x] = ofd[kfd[x]].name

Named == NamesKept => \A x \in Fd : FdNamed(x)

LEMMA NamedKept ==
  ASSUME MapsInv, habits' = habits, CallStep, status = "running", status' = "running",
         Leftovers, StillOpen, Listed, Named
  PROVE  Named'
<1> SUFFICES ASSUME NamesKept, NEW x \in Fd, kfd'[x] # Free, ofd'[kfd'[x]].name \in Path
             PROVE  x \in DOMAIN tab'.descr /\ tab'.descr[x] = ofd'[kfd'[x]].name
  BY DEF Named, NamesKept, FdNamed
<1> DEFINE Goal == x \in DOMAIN tab'.descr /\ tab'.descr[x] = ofd'[kfd'[x]].name
<1>0. /\ FdNamed(x) /\ FdListed(tab, x) /\ ExecExact /\ DOMAIN tab.files = DOMAIN tab.descr
      /\ x \in DOMAIN tab.descr => kfd[x] # Free
  BY DEF Named, NamesKept, Listed, Orderly, ExecExact, StillOpen, MapsInv, TabOK, MapsOK
<1>1. ASSUME NEW path \in Path, NEW mode \in OpenModes, NEW cloexec \in Cloexec,
             open_handler(path, mode, cloexec)
      PROVE  Goal
  <2>1. cloexec \in BOOLEAN
    BY DEF Cloexec
  <2>2. Opened(Lowest, path, mode) /\ tab'.descr = Insert(tab.descr, Lowest, path)
    BY <1>1, <2>1, OpenEffect
  <2>3. CASE x = Lowest
    <3>1. x \notin DOMAIN tab.descr /\ ofd'[kfd'[x]].name = path
      BY <1>0, <2>2, <2>3 DEF Opened
    <3> QED
      BY <2>2, <2>3, <3>1 DEF Insert
  <2>4. CASE x # Lowest
    <3>1. kfd[x] # Free /\ kfd'[x] = kfd[x] /\ ofd'[kfd'[x]] = ofd[kfd[x]]
      BY <2>2, <2>4 DEF Opened
    <3> QED
      BY <1>0, <2>2, <3>1 DEF FdNamed, Insert
  <2> QED
    BY <2>3, <2>4
<1>2. CASE OpenOutside
  <2>1. Opened(Lowest, Outside, "r") /\ tab' = tab
    BY <1>2, OutsideEffect
  <2>2. x # Lowest
    BY <2>1, NamesApart DEF Opened
  <2>3. kfd[x] # Free /\ kfd'[x] = kfd[x] /\ ofd'[kfd'[x]] = ofd[kfd[x]]
    BY <2>1, <2>2 DEF Opened
  <2> QED
    BY <1>0, <2>1, <2>3 DEF FdNamed
<1>3. ASSUME NEW fd \in Fd, close_handler(fd) PROVE Goal
  <2>1. FdsStay({fd}) /\ kfd'[fd] = Free
    BY <1>3, CloseEffect
  <2>2. tab' = tab \/ tab'.descr = Erase(tab.descr, {fd})
    BY <1>3, CloseEffect
  <2>3. x # fd /\ kfd'[x] = kfd[x] /\ ofd'[kfd'[x]] = ofd[kfd[x]]
    BY <2>1 DEF FdsStay
  <2> QED
    BY <1>0, <2>2, <2>3 DEF FdNamed, Erase
<1>4. CASE DupStep
  <2>1. PICK fd \in Fd, fd2 \in Fd :
          /\ FdsStay({fd2}) /\ kfd'[fd2] = kfd[fd] /\ kfd[fd] # Free /\ fd \in DOMAIN tab.files
          /\ kfd[fd2] = Free /\ DupRecorded(fd, fd2)
    BY <1>4, DupStepEffect DEF NamesKept
  <2>2. FdNamed(fd)
    BY DEF Named
  <2>3. ofd'[kfd'[x]] = ofd[kfd'[x]]
    BY <2>1 DEF FdsStay
  <2>4. CASE x = fd2
    <3>1. x \notin DOMAIN tab.descr
      BY <1>0, <2>1, <2>4
    <3> QED
      BY <2>1, <2>2, <2>3, <2>4, <3>1 DEF DupRecorded, Insert, FdNamed
  <2>5. CASE x # fd2
    <3>1. kfd'[x] = kfd[x]
      BY <2>1, <2>5 DEF FdsStay
    <3> QED
      BY <1>0, <2>1, <2>3, <2>5, <3>1 DEF DupRecorded, Insert, FdNamed
  <2> QED
    BY <2>4, <2>5
<1>5. ASSUME NEW fd \in Fd, dup_handler_Fails(fd) PROVE Goal
  <2>1. DupRecorded(fd, Errno) /\ x # Errno /\ kfd' = kfd /\ ofd' = ofd
    BY <1>5, DupFailsEffect, Constants
  <2> QED
    BY <1>0, <2>1 DEF DupRecorded, Insert, FdNamed
<1>6. CASE UntoldStep
  <2>1. PICK fd \in Fd, fd2 \in Fd :
          /\ FdsStay({fd2}) /\ kfd'[fd2] = kfd[fd] /\ kfd[fd] # Free /\ tab' = tab
          /\ fd \notin DOMAIN tab.files
    BY <1>6, UntoldStepEffect DEF NamesKept
  <2>2. FdNamed(fd) /\ fd \notin DOMAIN tab.descr
    BY <1>0, <2>1 DEF Named
  <2>3. ofd[kfd[fd]].name \notin Path
    BY <2>1, <2>2 DEF FdNamed
  <2>4. x # fd2 /\ kfd'[x] = kfd[x] /\ ofd'[kfd'[x]] = ofd[kfd[x]]
    BY <2>1, <2>3 DEF FdsStay
  <2> QED
    BY <1>0, <2>1, <2>4 DEF FdNamed
<1>7. ASSUME NEW fd \in Fd, Travels(fd) PROVE Goal
  <2>1. kfd' = kfd /\ kfd[x] # Free /\ kfd[x] \in Slot /\ tab'.descr = tab.descr
    BY <1>7, OpenIs DEF Travels, ModesStay
  <2>2. ofd'[kfd[x]].name = ofd[kfd[x]].name
    BY <1>7, <2>1 DEF Travels
  <2> QED
    BY <1>0, <2>1, <2>2 DEF FdNamed
<1>8. CASE UNCHANGED <<kfd, kclo, ofd, dir, tab, snap, status>>
  BY <1>0, <1>8 DEF FdNamed
<1>9. ASSUME NEW path \in Path, unlink_handler(path) PROVE Goal
  <2>1. /\ Relabelled(UnlinkName(path))
        /\ tab' = tab \/ (path \in DOMAIN tab.paths /\ tab'.descr = Erase(tab.descr, tab.paths[path]))
    BY <1>9, UnlinkEffect
  <2>2. /\ kfd' = kfd /\ kfd[x] # Free /\ ofd[kfd[x]].name \in Names
        /\ ofd'[kfd[x]].name = UnlinkName(path)[ofd[kfd[x]].name]
    BY <2>1, OpenIs DEF Relabelled, ModesStay
  <2>3. ofd'[kfd[x]].name = ofd[kfd[x]].name /\ ofd[kfd[x]].name # path
    BY <2>2, NamesApart DEF UnlinkName
  <2>4. x \in DOMAIN tab.descr /\ tab.descr[x] = ofd[kfd[x]].name
    BY <1>0, <2>2, <2>3 DEF FdNamed
  <2>5. path \in DOMAIN tab.paths => x \notin tab.paths[path]
    BY <1>0, <2>3, <2>4 DEF FdListed
  <2> QED
    BY <2>1, <2>2, <2>3, <2>4, <2>5 DEF Erase
<1>10. ASSUME NEW oldpath \in Path, NEW newpath \in Path, rename_handler(oldpath, newpath) PROVE Goal
  <2>1. /\ Relabelled(RenameName(oldpath, newpath)) /\ oldpath # newpath /\ MayRename(oldpath, newpath)
        /\ oldpath \notin DOMAIN tab.paths => tab' = tab
    BY <1>10, RenameEffect
  <2>2. /\ kfd' = kfd /\ kfd[x] # Free /\ ofd[kfd[x]].name \in Names
        /\ ofd'[kfd[x]].name = RenameName(oldpath, newpath)[ofd[kfd[x]].name]
    BY <2>1, OpenIs DEF Relabelled, ModesStay
  <2>3. ofd[kfd[x]].name \in Path /\ ofd[kfd[x]].name # newpath
    BY <2>1, <2>2, NamesApart DEF RenameName, Names
  <2>4. x \in DOMAIN tab.descr /\ tab.descr[x] = ofd[kfd[x]].name
    BY <1>0, <2>2, <2>3 DEF FdNamed
  <2>5. ofd'[kfd[x]].name = IF tab.descr[x] = oldpath THEN newpath ELSE tab.descr[x]
    BY <2>2, <2>3, <2>4 DEF RenameName
  <2>6. CASE oldpath \notin DOMAIN tab.paths
    <3>1. tab.descr[x] # oldpath
      BY <1>0, <2>4, <2>6 DEF FdListed
    <3> QED
      BY <2>1, <2>2, <2>4, <2>5, <2>6, <3>1
  <2>7. CASE oldpath \in DOMAIN tab.paths
    <3> DEFINE P == Moved(tab.paths, oldpath, newpath)[newpath]
    <3>1. DOMAIN tab'.descr = DOMAIN tab.descr /\ tab'.descr[x] = IF x \in P THEN newpath ELSE tab.descr[x]
      BY <1>10, <2>4, <2>7, RenameEffect
    <3>2. newpath \in DOMAIN tab.paths => tab.paths[oldpath] \cup tab.paths[newpath] = {}
      BY <2>1, <2>7 DEF MayRename, NamesKept
    <3>3. P = tab.paths[oldpath]
      BY <2>1, <2>7, <3>2 DEF Moved, Insert, Erase
    <3>4. x \in P <=> tab.descr[x] = oldpath
      BY <1>0, <2>4, <2>7, <3>3 DEF FdListed
    <3> QED
      BY <2>2, <2>4, <2>5, <3>1, <3>4
  <2> QED
    BY <2>6, <2>7
<1>11. CASE execve_handler
  BY <1>11, ExecEffect DEF MayExec, NamesKept
<1>12. CASE execve_handler_Fails
  BY <1>0, <1>12, ExecFailsEffect DEF FdNamed
<1> QED
  BY <1>1, <1>2, <1>3, <1>4, <1>5, <1>6, <1>7, <1>8, <1>9, <1>10, <1>11, <1>12 DEF CallStep

NameInv == ListInv /\ (status = "running" => Named)

LEMMA InitName == Init => NameInv
BY InitList DEF Init, NameInv, Named, FdNamed

LEMMA NextName == NameInv /\ [Next]_vars => NameInv'
<1> SUFFICES ASSUME NameInv, [Next]_vars PROVE NameInv'
  OBVIOUS
<1>1. ListInv /\ ListInv' /\ OpenInv /\ MapsInv
  BY NextList DEF NameInv, ListInv, OpenInv
<1>2. CASE Next
  <2>1. habits' = habits /\ CallStep /\ status = "running"
    BY <1>1, <1>2, CallIsStep DEF Next
  <2> QED
    BY <1>1, <2>1, NamedKept DEF NameInv, ListInv, OpenInv
<1>3. CASE UNCHANGED vars
  BY <1>1, <1>3 DEF vars, NameInv, Named, FdNamed, NamesKept
<1> QED
  BY <1>2, <1>3

\* In a program that does not lose track of a name, the name the handlers send
\* is the one the open file has.
THEOREM FdsNamesTrue == Spec => []NamesTrue
<1>1. NameInv => NamesTrue
  BY DEF NameInv, Named, FdNamed, NamesTrue, Without, NamesKept, Of
<1> QED
  BY <1>1, InitName, NextName, PTL DEF Spec

\* A step by which a descriptor leaves a file of CAPIO_DIR tells the server.
THEOREM FdsClosesTold == Spec => ClosesTold
<1> DEFINE Told ==
      Without({{"dup2_onto_open"}, {"dup2_from_outside"}, {"fcntl_dup"}, {"rename_onto_known"}, {"exec"}})
      => \A fd \in Fd :
           (kfd[fd] # Free /\ Of(fd).name \in Path /\ kfd'[fd] # kfd[fd]) => told' = Of(fd).name
<1>1. ASSUME NameInv, [Next]_vars PROVE [Told]_vars
  <2> SUFFICES ASSUME Next, NEW x \in Fd, kfd[x] # Free, ofd[kfd[x]].name \in Path, kfd'[x] # kfd[x],
                      NamesKept, "dup2_from_outside" \notin habits
               PROVE  told' = ofd[kfd[x]].name
    BY <1>1 DEF Without, NamesKept, Of
  <2>1. MapsInv /\ habits' = habits /\ CallStep /\ status = "running"
    BY <1>1, CallIsStep DEF Next, NameInv, ListInv, OpenInv
  <2>2. x \in DOMAIN tab.files /\ tab.descr[x] = ofd[kfd[x]].name
    BY <1>1, <2>1 DEF NameInv, Named, FdNamed, MapsInv, TabOK, MapsOK
  <2>3. ASSUME NEW path \in Path, NEW mode \in OpenModes, NEW cloexec \in Cloexec,
               open_handler(path, mode, cloexec)
        PROVE  FALSE
    <3>1. cloexec \in BOOLEAN
      BY DEF Cloexec
    <3>2. Opened(Lowest, path, mode)
      BY <2>1, <2>3, <3>1, OpenEffect
    <3> QED
      BY <3>2 DEF Opened
  <2>4. CASE OpenOutside
    <3>1. Opened(Lowest, Outside, "r")
      BY <2>1, <2>4, OutsideEffect
    <3> QED
      BY <3>1 DEF Opened
  <2>5. ASSUME NEW fd \in Fd, close_handler(fd) PROVE told' = ofd[kfd[x]].name
    <3>1. FdsStay({fd}) /\ (fd \in DOMAIN tab.files => told' = tab.descr[fd])
      BY <2>1, <2>5, CloseEffect
    <3>2. x = fd
      BY <3>1 DEF FdsStay
    <3> QED
      BY <2>2, <3>1, <3>2
  <2>6. CASE DupStep
    <3>1. PICK fd2 \in Fd : FdsStay({fd2}) /\ kfd[fd2] = Free
      BY <2>1, <2>6, DupStepEffect DEF NamesKept
    <3> QED
      BY <3>1 DEF FdsStay
  <2>7. ASSUME NEW fd \in Fd, dup_handler_Fails(fd) PROVE FALSE
    BY <2>1, <2>7, DupFailsEffect
  <2>8. CASE UntoldStep
    <3>1. PICK fd2 \in Fd : FdsStay({fd2}) /\ kfd[fd2] = Free
      BY <2>1, <2>8, UntoldStepEffect
    <3> QED
      BY <3>1 DEF FdsStay
  <2>9. ASSUME NEW fd \in Fd, Travels(fd) PROVE FALSE
    BY <2>9 DEF Travels, ModesStay
  <2>10. ASSUME NEW path \in Path, unlink_handler(path) PROVE FALSE
    BY <2>1, <2>10, UnlinkEffect DEF Relabelled, ModesStay
  <2>11. ASSUME NEW oldpath \in Path, NEW newpath \in Path, rename_handler(oldpath, newpath) PROVE FALSE
    BY <2>1, <2>11, RenameEffect DEF Relabelled, ModesStay
  <2>12. CASE execve_handler
    BY <2>1, <2>12, ExecEffect DEF MayExec, NamesKept
  <2>13. CASE execve_handler_Fails
    BY <2>1, <2>13, ExecFailsEffect
  <2> QED
    BY <2>1, <2>3, <2>4, <2>5, <2>6, <2>7, <2>8, <2>9, <2>10, <2>11, <2>12, <2>13 DEF CallStep
<1> QED
  BY <1>1, InitName, NextName, PTL DEF Spec, ClosesTold

-----------------------------------------------------------------------------
(* OffsetCovers: descriptors share an offset when they share a position.   *)

Alike ==
  /\ ExecExact /\ "dup2_onto_open" \notin habits /\ "dup2_from_outside" \notin habits
  /\ "exec" \in habits => "exec_shared" \notin habits

Counted == Alike /\ Steady

OffsetOf(x) == tab.cell[tab.files[x].cell]

SameOffset ==
  Alike => \A f, g \in DOMAIN tab.files \cap Fd :
             kfd[f] = kfd[g] <=> tab.files[f].cell = tab.files[g].cell

Covered ==
  Counted => \A x \in DOMAIN tab.files \cap Fd :
               ofd[kfd[x]].mode = "r" => Covers(OffsetOf(x), ofd[kfd[x]].pos)

NeverBoth == \A x \in Fd : kfd[x] # Free => ofd[kfd[x]].mode # "rw"

LEMMA SameOffsetKept ==
  ASSUME MapsInv, habits' = habits, CallStep, status = "running", status' = "running",
         Leftovers, StillOpen, SameOffset
  PROVE  SameOffset'
<1> DEFINE Same(f, g) == kfd'[f] = kfd'[g] <=> tab'.files[f].cell = tab'.files[g].cell
<1> SUFFICES ASSUME Alike, NEW f \in Fd, NEW g \in Fd, f \in DOMAIN tab'.files, g \in DOMAIN tab'.files
             PROVE  Same(f, g)
  BY DEF SameOffset, Alike, ExecExact
<1>0. /\ \A x, y \in DOMAIN tab.files \cap Fd :
           kfd[x] = kfd[y] <=> tab.files[x].cell = tab.files[y].cell
      /\ \A x \in DOMAIN tab.files \cap Fd : kfd[x] # Free
      /\ ExecExact
  BY DEF SameOffset, Alike, StillOpen
\* Descriptors that were recorded and have what they had.
<1>kept. ASSUME f \in DOMAIN tab.files, g \in DOMAIN tab.files, kfd'[f] = kfd[f], kfd'[g] = kfd[g],
             tab'.files[f].cell = tab.files[f].cell, tab'.files[g].cell = tab.files[g].cell
      PROVE  Same(f, g)
  BY <1>0, <1>kept
<1>1. ASSUME NEW path \in Path, NEW mode \in OpenModes, NEW cloexec \in Cloexec,
             open_handler(path, mode, cloexec)
      PROVE  Same(f, g)
  <2>1. cloexec \in BOOLEAN
    BY DEF Cloexec
  <2> DEFINE l == Lowest
  <2>2. /\ Opened(l, path, mode) /\ DOMAIN tab'.files = DOMAIN tab.files \cup {l}
        /\ SameCells(tab', tab, DOMAIN tab.files)
        /\ l \notin DOMAIN tab.files =>
             \A x \in DOMAIN tab.files : tab'.files[x].cell # tab'.files[l].cell
    BY <1>1, <2>1, OpenEffect
  <2> HIDE DEF l
  <2>3. l \notin DOMAIN tab.files
    BY <1>0, <2>2 DEF Opened
  <2>4. \A x \in Fd : x # l => kfd'[x] = kfd[x] /\ kfd'[x] # kfd'[l]
    BY <2>2 DEF Opened
  <2>5. CASE f # l /\ g # l
    BY <1>kept, <2>2, <2>4, <2>5 DEF SameCells
  <2>6. CASE f = l /\ g # l
    BY <2>2, <2>3, <2>4, <2>6
  <2>7. CASE f # l /\ g = l
    BY <2>2, <2>3, <2>4, <2>7
  <2> QED
    BY <2>5, <2>6, <2>7
<1>2. CASE OpenOutside
  <2>1. Opened(Lowest, Outside, "r") /\ tab' = tab
    BY <1>2, OutsideEffect
  <2> QED
    BY <1>0, <1>kept, <2>1 DEF Opened
<1>3. ASSUME NEW fd \in Fd, close_handler(fd) PROVE Same(f, g)
  <2>1. (tab' = tab /\ fd \notin DOMAIN tab.files) \/ tab'.files = Erase(tab.files, {fd})
    BY <1>3, CloseEffect
  <2>2. FdsStay({fd})
    BY <1>3, CloseEffect
  <2> QED
    BY <1>kept, <2>1, <2>2 DEF FdsStay, Erase
<1>4. CASE DupStep
  <2>1. PICK fd \in Fd, fd2 \in Fd :
          /\ FdsStay({fd2}) /\ kfd'[fd2] = kfd[fd] /\ fd \in DOMAIN tab.files
          /\ kfd[fd2] = Free /\ DupRecorded(fd, fd2)
    BY <1>4, DupStepEffect DEF Alike
  <2> DEFINE r(x) == IF x = fd2 THEN fd ELSE x
  <2>2. fd2 \notin DOMAIN tab.files
    BY <1>0, <2>1
  <2>3. \A x \in DOMAIN tab'.files \cap Fd :
          /\ r(x) \in DOMAIN tab.files \cap Fd /\ kfd'[x] = kfd[r(x)]
          /\ tab'.files[x].cell = tab.files[r(x)].cell
    BY <2>1, <2>2 DEF FdsStay, DupRecorded, SameCells
  <2> HIDE DEF r
  <2> QED
    BY <1>0, <2>3
<1>5. ASSUME NEW fd \in Fd, dup_handler_Fails(fd) PROVE Same(f, g)
  <2>1. DupRecorded(fd, Errno) /\ kfd' = kfd
    BY <1>5, DupFailsEffect
  <2> QED
    BY <1>kept, <2>1, Constants DEF DupRecorded, SameCells
<1>6. CASE UntoldStep
  <2>1. PICK fd2 \in Fd : FdsStay({fd2}) /\ kfd[fd2] = Free /\ tab' = tab
    BY <1>6, UntoldStepEffect DEF Alike
  <2> QED
    BY <1>0, <1>kept, <2>1 DEF FdsStay
<1>7. ASSUME NEW fd \in Fd, Travels(fd) PROVE Same(f, g)
  BY <1>kept, <1>7 DEF Travels, ModesStay
<1>8. CASE UNCHANGED <<kfd, kclo, ofd, dir, tab, snap, status>>
  BY <1>kept, <1>8
<1>9. ASSUME NEW path \in Path, unlink_handler(path) PROVE Same(f, g)
  <2>1. kfd' = kfd /\ (tab' = tab \/ tab'.files = Erase(tab.files, tab.paths[path]))
    BY <1>9, UnlinkEffect DEF Relabelled, ModesStay
  <2> QED
    BY <1>kept, <2>1 DEF Erase
<1>10. ASSUME NEW oldpath \in Path, NEW newpath \in Path, rename_handler(oldpath, newpath)
       PROVE  Same(f, g)
  <2>1. kfd' = kfd /\ (tab' = tab \/ tab'.files = tab.files)
    BY <1>10, RenameEffect DEF Relabelled, ModesStay
  <2> QED
    BY <1>kept, <2>1
<1>11. CASE execve_handler
  <2>1. kfd' = kfd /\ DOMAIN tab'.files = DOMAIN tab.files /\ (DOMAIN tab.files # {} => Restored(tab))
    BY <1>0, <1>11, NothingRestored
  <2>2. ~Shared(tab)
    BY <1>11, ExecEffect DEF MayExec, Alike
  <2>3. tab'.files[f].cell = f /\ tab'.files[g].cell = g
    BY <2>1 DEF Restored
  <2>4. f # g => tab.files[f].cell # tab.files[g].cell
    BY <2>1, <2>2 DEF Shared
  <2> QED
    BY <1>0, <2>1, <2>3, <2>4
<1>12. CASE execve_handler_Fails
  BY <1>kept, <1>12, ExecFailsEffect
<1> QED
  BY <1>1, <1>2, <1>3, <1>4, <1>5, <1>6, <1>7, <1>8, <1>9, <1>10, <1>11, <1>12 DEF CallStep

LEMMA CoveredKept ==
  ASSUME MapsInv, habits' = habits, CallStep, status = "running", status' = "running",
         Leftovers, StillOpen, SameOffset, Covered
  PROVE  Covered'
<1> SUFFICES ASSUME Counted, NEW x \in Fd, x \in DOMAIN tab'.files, ofd'[kfd'[x]].mode = "r"
             PROVE  Covers(OffsetOf(x)', ofd'[kfd'[x]].pos)
  BY DEF Covered, Counted, Steady, Alike, ExecExact
<1> DEFINE Goal == Covers(OffsetOf(x)', ofd'[kfd'[x]].pos)
<1>0. /\ \A y \in DOMAIN tab.files \cap Fd :
           kfd[y] # Free /\ (ofd[kfd[y]].mode = "r" => Covers(OffsetOf(y), ofd[kfd[y]].pos))
      /\ ExecExact /\ Alike
  BY DEF Covered, Counted, Alike, StillOpen
\* A descriptor with the description and the offset of one that was recorded.
<1>kept. ASSUME NEW y \in DOMAIN tab.files \cap Fd,
             ofd'[kfd'[x]].mode = ofd[kfd[y]].mode, ofd'[kfd'[x]].pos = ofd[kfd[y]].pos,
             OffsetOf(x)' = OffsetOf(y)
      PROVE  Goal
  BY <1>0, <1>kept
<1>1. ASSUME NEW path \in Path, NEW mode \in OpenModes, NEW cloexec \in Cloexec,
             open_handler(path, mode, cloexec)
      PROVE  Goal
  <2>1. cloexec \in BOOLEAN
    BY DEF Cloexec
  <2> DEFINE l == Lowest
  <2>2. /\ Opened(l, path, mode) /\ DOMAIN tab'.files = DOMAIN tab.files \cup {l}
        /\ SameCells(tab', tab, DOMAIN tab.files)
        /\ l \notin DOMAIN tab.files => tab'.cell[tab'.files[l].cell] = 0
    BY <1>1, <2>1, OpenEffect
  <2> HIDE DEF l
  <2>3. l \notin DOMAIN tab.files
    BY <1>0, <2>2 DEF Opened
  <2>4. CASE x = l
    <3>1. OffsetOf(x)' = 0 /\ ofd'[kfd'[x]].pos = 0
      BY <2>2, <2>3, <2>4 DEF OffsetOf, Opened
    <3> QED
      BY <3>1, DescriptorsAssumption DEF Covers
  <2>5. CASE x # l
    <3>1. x \in DOMAIN tab.files /\ ofd'[kfd'[x]] = ofd[kfd[x]]
      BY <1>0, <2>2, <2>5 DEF Opened
    <3>2. OffsetOf(x)' = OffsetOf(x)
      BY <2>2, <3>1 DEF OffsetOf, SameCells
    <3> QED
      BY <1>kept, <3>1, <3>2
  <2> QED
    BY <2>4, <2>5
<1>2. CASE OpenOutside
  <2>1. Opened(Lowest, Outside, "r") /\ tab' = tab
    BY <1>2, OutsideEffect
  <2>2. ofd'[kfd'[x]] = ofd[kfd[x]] /\ OffsetOf(x)' = OffsetOf(x)
    BY <1>0, <2>1 DEF Opened, OffsetOf
  <2> QED
    BY <1>kept, <2>1, <2>2
<1>3. ASSUME NEW fd \in Fd, close_handler(fd) PROVE Goal
  <2>1. \/ tab' = tab /\ fd \notin DOMAIN tab.files
        \/ tab'.files = Erase(tab.files, {fd}) /\ SameCells(tab', tab, DOMAIN tab.files \ {fd})
    BY <1>3, CloseEffect
  <2>2. FdsStay({fd})
    BY <1>3, CloseEffect
  <2>3. x \in DOMAIN tab.files /\ x # fd
    BY <2>1 DEF Erase
  <2>4. ofd'[kfd'[x]] = ofd[kfd[x]] /\ OffsetOf(x)' = OffsetOf(x)
    BY <1>0, <2>1, <2>2, <2>3 DEF FdsStay, SameCells, OffsetOf
  <2> QED
    BY <1>kept, <2>3, <2>4
<1>4. CASE DupStep
  <2>1. PICK fd \in Fd, fd2 \in Fd :
          /\ FdsStay({fd2}) /\ kfd'[fd2] = kfd[fd] /\ fd \in DOMAIN tab.files /\ kfd[fd] # Free
          /\ kfd[fd2] = Free /\ DupRecorded(fd, fd2)
    BY <1>4, DupStepEffect DEF Counted, Alike
  <2> DEFINE y == IF x = fd2 THEN fd ELSE x
  <2>2. fd2 \notin DOMAIN tab.files
    BY <1>0, <2>1
  <2>3. y \in DOMAIN tab.files \cap Fd /\ kfd'[x] = kfd[y] /\ tab'.files[x].cell = tab.files[y].cell
    BY <2>1, <2>2 DEF FdsStay, DupRecorded, SameCells
  <2> HIDE DEF y
  <2>4. ofd'[kfd'[x]] = ofd[kfd[y]]
    BY <1>0, <2>1, <2>3 DEF FdsStay
  <2>5. OffsetOf(x)' = OffsetOf(y)
    BY <2>1, <2>3 DEF OffsetOf, DupRecorded, SameCells
  <2> QED
    BY <1>kept, <2>3, <2>4, <2>5
<1>5. ASSUME NEW fd \in Fd, dup_handler_Fails(fd) PROVE Goal
  <2>1. DupRecorded(fd, Errno) /\ kfd' = kfd /\ ofd' = ofd
    BY <1>5, DupFailsEffect
  <2>2. x \in DOMAIN tab.files
    BY <2>1, Constants DEF DupRecorded
  <2>3. OffsetOf(x)' = OffsetOf(x)
    BY <2>1, <2>2 DEF DupRecorded, SameCells, OffsetOf
  <2> QED
    BY <1>kept, <2>1, <2>2, <2>3
<1>6. CASE UntoldStep
  <2>1. PICK fd2 \in Fd : FdsStay({fd2}) /\ kfd[fd2] = Free /\ tab' = tab
    BY <1>6, UntoldStepEffect DEF Counted, Alike
  <2>2. ofd'[kfd'[x]] = ofd[kfd[x]] /\ OffsetOf(x)' = OffsetOf(x)
    BY <1>0, <2>1 DEF FdsStay, OffsetOf
  <2> QED
    BY <1>kept, <2>1, <2>2
<1>7. ASSUME NEW fd \in Fd, Travels(fd) PROVE Goal
  <2>1. /\ x \in DOMAIN tab.files /\ kfd' = kfd /\ kfd[x] # Free /\ kfd[x] \in Slot /\ fd \in DOMAIN tab.files
        /\ tab'.files = tab.files
    BY <1>0, <1>7, OpenIs DEF Travels, ModesStay
  <2>2. ofd[kfd[x]].mode = "r"
    BY <1>7, <2>1, OpenIs DEF Travels, ModesStay
  <2>3. Covers(OffsetOf(x), ofd[kfd[x]].pos)
    BY <1>0, <2>1, <2>2
  <2>4. kfd[x] = kfd[fd] <=> tab.files[x].cell = tab.files[fd].cell
    BY <1>0, <2>1 DEF SameOffset
  <2>5. CASE kfd[x] = kfd[fd]
    BY <1>7, <2>1, <2>2, <2>3, <2>4, <2>5 DEF Travels, OffsetOf, Counted
  <2>6. CASE kfd[x] # kfd[fd]
    <3>1. ofd'[kfd'[x]] = ofd[kfd[x]] /\ OffsetOf(x)' = OffsetOf(x)
      BY <1>7, <2>1, <2>4, <2>6 DEF Travels, OffsetOf
    <3> QED
      BY <2>3, <3>1
  <2> QED
    BY <2>5, <2>6
<1>8. CASE UNCHANGED <<kfd, kclo, ofd, dir, tab, snap, status>>
  BY <1>kept, <1>8 DEF OffsetOf
<1>9. ASSUME NEW path \in Path, unlink_handler(path) PROVE Goal
  <2>1. /\ Relabelled(UnlinkName(path))
        /\ \/ tab' = tab
           \/ /\ tab'.files = Erase(tab.files, tab.paths[path])
              /\ SameCells(tab', tab, DOMAIN tab.files \ tab.paths[path])
    BY <1>9, UnlinkEffect
  <2>2. x \in DOMAIN tab.files /\ OffsetOf(x)' = OffsetOf(x)
    BY <2>1 DEF Erase, SameCells, OffsetOf
  <2>3. ofd'[kfd'[x]].mode = ofd[kfd[x]].mode /\ ofd'[kfd'[x]].pos = ofd[kfd[x]].pos
    BY <1>0, <2>1, <2>2, OpenIs DEF Relabelled, ModesStay
  <2> QED
    BY <1>kept, <2>2, <2>3
<1>10. ASSUME NEW oldpath \in Path, NEW newpath \in Path, rename_handler(oldpath, newpath) PROVE Goal
  <2>1. /\ Relabelled(RenameName(oldpath, newpath))
        /\ tab' = tab \/ (tab'.files = tab.files /\ tab'.cell = tab.cell)
    BY <1>10, RenameEffect
  <2>2. x \in DOMAIN tab.files /\ OffsetOf(x)' = OffsetOf(x)
    BY <2>1 DEF OffsetOf
  <2>3. ofd'[kfd'[x]].mode = ofd[kfd[x]].mode /\ ofd'[kfd'[x]].pos = ofd[kfd[x]].pos
    BY <1>0, <2>1, <2>2, OpenIs DEF Relabelled, ModesStay
  <2> QED
    BY <1>kept, <2>2, <2>3
<1>11. CASE execve_handler
  <2>1. /\ kfd' = kfd /\ x \in DOMAIN tab.files /\ Restored(tab)
        /\ kfd[x] # Free => ofd'[kfd[x]] = ofd[kfd[x]]
    BY <1>0, <1>11, NothingRestored
  <2>2. OffsetOf(x)' = OffsetOf(x)
    BY <2>1 DEF Restored, OffsetOf
  <2> QED
    BY <1>0, <1>kept, <2>1, <2>2
<1>12. CASE execve_handler_Fails
  BY <1>kept, <1>12, ExecFailsEffect DEF OffsetOf
<1> QED
  BY <1>1, <1>2, <1>3, <1>4, <1>5, <1>6, <1>7, <1>8, <1>9, <1>10, <1>11, <1>12 DEF CallStep

LEMMA NeverBothKept ==
  ASSUME MapsInv, habits' = habits, CallStep, status = "running", status' = "running",
         "rw" \notin OpenModes, NeverBoth
  PROVE  NeverBoth'
<1> SUFFICES ASSUME NEW x \in Fd, kfd'[x] # Free PROVE ofd'[kfd'[x]].mode # "rw"
  BY DEF NeverBoth
<1> DEFINE Goal == ofd'[kfd'[x]].mode # "rw"
<1>kept. ASSUME NEW y \in Fd, kfd[y] # Free, ofd'[kfd'[x]].mode = ofd[kfd[y]].mode PROVE Goal
  BY <1>kept DEF NeverBoth
<1>1. ASSUME NEW name, NEW mode, mode # "rw", Opened(Lowest, name, mode) PROVE Goal
  <2>1. x = Lowest => ofd'[kfd'[x]].mode = mode
    BY <1>1 DEF Opened
  <2>2. x # Lowest => kfd[x] # Free /\ ofd'[kfd'[x]] = ofd[kfd[x]]
    BY <1>1 DEF Opened
  <2> QED
    BY <1>1, <1>kept, <2>1, <2>2
<1>2. ASSUME NEW path \in Path, NEW mode \in OpenModes, NEW cloexec \in Cloexec,
             open_handler(path, mode, cloexec)
      PROVE  Goal
  <2>1. cloexec \in BOOLEAN
    BY DEF Cloexec
  <2>2. Opened(Lowest, path, mode)
    BY <1>2, <2>1, OpenEffect
  <2> QED
    BY <1>1, <2>2
<1>3. CASE OpenOutside
  <2>1. Opened(Lowest, Outside, "r")
    BY <1>3, OutsideEffect
  <2> QED
    BY <1>1, <2>1
\* Descriptors that stay, are closed or duplicated.
<1>4. ASSUME NEW fds, FdsStay(fds), x \in fds => \E y \in Fd : kfd'[x] = kfd[y] PROVE Goal
  <2>1. ofd'[kfd'[x]] = ofd[kfd'[x]] /\ \E y \in Fd : kfd'[x] = kfd[y]
    BY <1>4 DEF FdsStay
  <2> QED
    BY <1>kept, <2>1
<1>5. ASSUME NEW fd \in Fd, close_handler(fd) PROVE Goal
  <2>1. FdsStay({fd}) /\ kfd'[fd] = Free
    BY <1>5, CloseEffect
  <2> QED
    BY <1>4, <2>1
<1>6. CASE DupStep
  <2>1. PICK fd \in Fd, fd2 \in Fd : FdsStay({fd2}) /\ kfd'[fd2] = kfd[fd]
    BY <1>6, DupStepEffect
  <2> QED
    BY <1>4, <2>1
<1>7. CASE UntoldStep
  <2>1. PICK fd \in Fd, fd2 \in Fd : FdsStay({fd2}) /\ kfd'[fd2] = kfd[fd]
    BY <1>7, UntoldStepEffect
  <2> QED
    BY <1>4, <2>1
<1>8. CASE execve_handler
  <2>1. FdsStay(kclo) /\ \A fd \in Fd \cap kclo : kfd'[fd] = Free
    BY <1>8, ExecEffect
  <2> QED
    BY <1>4, <2>1
<1>9. ASSUME ModesStay PROVE Goal
  <2>1. kfd[x] # Free /\ kfd'[x] = kfd[x] /\ ofd'[kfd[x]].mode = ofd[kfd[x]].mode
    BY <1>9, OpenIs DEF ModesStay
  <2> QED
    BY <1>kept, <2>1
<1>10. ASSUME UNCHANGED <<kfd, ofd>> PROVE Goal
  BY <1>10, <1>kept
<1>11. ASSUME NEW fd \in Fd, dup_handler_Fails(fd) PROVE Goal
  BY <1>10, <1>11, DupFailsEffect
<1>12. ASSUME NEW fd \in Fd, Travels(fd) PROVE Goal
  BY <1>9, <1>12 DEF Travels
<1>13. ASSUME NEW path \in Path, unlink_handler(path) PROVE Goal
  BY <1>9, <1>13, UnlinkEffect DEF Relabelled
<1>14. ASSUME NEW oldpath \in Path, NEW newpath \in Path, rename_handler(oldpath, newpath) PROVE Goal
  BY <1>9, <1>14, RenameEffect DEF Relabelled
<1>15. CASE execve_handler_Fails
  BY <1>10, <1>15, ExecFailsEffect
<1> QED
  BY <1>2, <1>3, <1>5, <1>6, <1>7, <1>8, <1>10, <1>11, <1>12, <1>13, <1>14, <1>15 DEF CallStep

CoverInv ==
  /\ OpenInv
  /\ status = "running" => SameOffset /\ Covered /\ NeverBoth

LEMMA InitCover == Init => CoverInv
BY InitOpen, NewTablesOK DEF Init, CoverInv, SameOffset, Covered, NeverBoth

LEMMA NextCover ==
  ASSUME "rw" \notin OpenModes
  PROVE  CoverInv /\ [Next]_vars => CoverInv'
<1> SUFFICES ASSUME CoverInv, [Next]_vars PROVE CoverInv'
  OBVIOUS
<1>1. OpenInv /\ OpenInv' /\ MapsInv
  BY NextOpen DEF CoverInv, OpenInv
<1>2. CASE Next
  <2>1. habits' = habits /\ CallStep /\ status = "running"
    BY <1>1, <1>2, CallIsStep DEF Next
  <2>2. Leftovers /\ StillOpen /\ SameOffset /\ Covered /\ NeverBoth
    BY <1>1, <2>1 DEF OpenInv, CoverInv
  <2> QED
    BY <1>1, <2>1, <2>2, SameOffsetKept, CoveredKept, NeverBothKept DEF CoverInv
<1>3. CASE UNCHANGED vars
  BY <1>1, <1>3
     DEF vars, CoverInv, SameOffset, Covered, NeverBoth, OffsetOf, Counted, Steady, Alike, ExecExact
<1> QED
  BY <1>2, <1>3

\* Where no file is opened for reading and writing at once (write leaves the
\* library's offset behind), the kernel accepts every seek and files are read
\* with read, the bytes read_handler asks the server for cover those the
\* kernel delivers: through duplicates, short reads, rename, unlink and execve.
THEOREM FdsOffsetCovers ==
  ASSUME "rw" \notin OpenModes
  PROVE  Spec => []OffsetCovers
<1>1. ASSUME CoverInv PROVE OffsetCovers
  <2> SUFFICES ASSUME status = "running", Counted, NEW fd \in DOMAIN tab.files \cap Fd,
                      kfd[fd] # Free, Readable(fd)
               PROVE  get_capio_fd_offset(tab, fd) >= Of(fd).pos
    BY DEF OffsetCovers, Without, Counted, Steady, Alike, ExecExact
  <2>1. ofd[kfd[fd]].mode = "r"
    BY <1>1 DEF CoverInv, NeverBoth, Readable, Of
  <2> QED
    BY <1>1, <2>1 DEF CoverInv, Covered, Covers, OffsetOf, get_capio_fd_offset, Of
<1>2. CoverInv /\ [Next]_vars => CoverInv'
  BY NextCover
<1> QED
  BY <1>1, <1>2, InitCover, PTL DEF Spec

=============================================================================
