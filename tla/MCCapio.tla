------------------------------ MODULE MCCapio ------------------------------
(***************************************************************************)
(* Small workflows for TLC.  Thread 2 belongs to the application that      *)
(* writes, threads 1, 3 and 5 to the one that reads.  Ids and sizes        *)
(* overlap on purpose, since the server compares them.                     *)
(***************************************************************************)
EXTENDS Capio, TLC

CONSTANTS prod, cons, f, g, d, root, o

C(op, p)     == [op |-> op, path |-> p, to |-> NoPath, n |-> 0]
ReadTo(p, n) == [op |-> "read", path |-> p, to |-> NoPath, n |-> n]
Move1(p, q)  == [op |-> "rename", path |-> p, to |-> q, n |-> 0]
Exit         == C("exit", NoPath)

Apps      == {prod, cons}
TwoApps   == (2 :> prod) @@ (3 :> cons)

NoParent    == [p \in Path |-> NoPath]
AllOnClose  == [p \in Path |-> "on_close"]
AllUpdate   == [p \in Path |-> "update"]
NoUpdate    == [p \in Path |-> "no_update"]
AnyClose    == [p \in Path |-> -1]
NoFileCount == [p \in Path |-> -1]
NoDeps      == [p \in Path |-> {}]
NoProducers == [p \in Path |-> {}]

\* pipe: one file, written and read at the same time, committed by its first
\* close; either thread may be killed.
OneFile    == {f}
PipeWriter == {C("create", f), C("write", f), C("close", f), Exit}
PipeReader == {C("open", f), ReadTo(f, 1), ReadTo(f, 2), C("stat", f), C("close", f), Exit}
PipeCalls  == (2 :> PipeWriter) @@ (3 :> PipeReader)

PipeBudget == [t \in Tid |-> 3]

\* live: the same pipe with the calls that wait; on_close:1, so that the count
\* in the metadata file decides.  The file is in mode no_update and the thread
\* that reads has the lower id: the server lets it go while the file has at most
\* one byte, and holds it from the second byte to the commit.
LowReader  == (1 :> cons) @@ (2 :> prod)
OneClose   == [p \in Path |-> 1]
LiveBudget == (1 :> 2) @@ (2 :> 4)
LiveCalls  == (1 :> {C("open", f), ReadTo(f, 1), ReadTo(f, 2), C("stat", f)}) @@
              (2 :> {C("create", f), C("write", f), C("close", f)})

\* tree: CAPIO_DIR, a directory of the configuration in it, in that a file the
\* configuration does not name and one that is committed when the first is, and
\* a path outside.
TreePaths   == {root, d, f, g, o}
TreeCapio   == {root, d, f, g}
TreeHandled == {d, f, g}
TreeParent  == (root :> NoPath) @@ (d :> root) @@ (f :> d) @@ (g :> d) @@ (o :> NoPath)
TreeRules   == [p \in Path |-> IF p = g THEN "on_file" ELSE "on_close"]
TreeDeps    == [p \in Path |-> IF p = g THEN {f} ELSE {}]
TreeCount   == [p \in Path |-> IF p = d THEN 1 ELSE -1]
TreeMakers  == [p \in Path |-> IF p = d THEN {prod} ELSE {}]
TreeGlobs   == {<<d, d>>, <<d, f>>, <<d, g>>, <<d, root>>, <<f, d>>, <<f, root>>, <<g, d>>, <<g, root>>}
TreeCalls   == (2 :> {C("mkdir", d), C("create", f), C("close", f), Move1(f, g), C("create", g),
                      C("unlink", g), C("stat", o), Exit}) @@
               (3 :> {C("stat", d), C("access", root), C("open", g), C("fstat", g), ReadTo(g, 1),
                      C("close", g), Exit})
TreeBudget  == (2 :> 3) @@ (3 :> 2)

\* open_lost: two readers open a file while it is made.
OpenCalls  == (2 :> {C("create", f)}) @@ (3 :> {C("open", f)})
TwoReaders == (2 :> prod) @@ (3 :> cons) @@ (5 :> cons)
LostCalls  == OpenCalls @@ (5 :> {C("open", f)})
OpenBudget == [t \in Tid |-> 1]

=============================================================================
