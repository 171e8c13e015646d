----------------------------- MODULE Namespace ------------------------------
(***************************************************************************)
(* The system calls that look names up and change them, by the processes   *)
(* that make them.  A call holds no lock from one operation on a node to   *)
(* the next.  Directories are never removed or renamed, so that a path is  *)
(* resolved in one step: only its last component can change meanwhile.     *)
(***************************************************************************)
EXTENDS PathResolution, FiniteSets, Functions

CONSTANTS
    Procs,
    Paths,   \* what the processes give to the calls
    Tried,   \* the paths that ChdirAgrees looks at
    MaxCalls, \* bound: calls of each process
    Mounts   \* the directory of the volume that each name of the root stands for

VARIABLES
    tree,       \* the entries and the parents of the directories
    proc,       \* what each process does, its working directory and its path
    removed,    \* nodes that a call was asked to remove
    contended   \* a name was removed by another process while one renames

vars == <<tree, proc, removed, contended>>

Idle == [pc |-> "idle"]

\* The volumes that are mounted, and perhaps a link or a file on one of them.
Init ==
    /\ \E n \in Links \cup Files \cup {None}, at \in Range(Mounts) \X Names :
          tree = [entry |-> [d \in Dirs |-> [c \in Names |->
                               IF d = Root THEN Mounts[c] ELSE IF <<d, c>> = at THEN n ELSE None]],
                  up |-> [d \in Dirs |-> Root]]
    /\ proc = [p \in Procs |-> [do |-> Idle, wd |-> Root, wdPath |-> <<>>, fchdir |-> FALSE,
                           calls |-> 0]]
    /\ removed = {} /\ contended = FALSE

Names_(n) == {at \in Dirs \X Names : tree.entry[at[1]][at[2]] = n}
Fresh == {n \in Nodes \ {Root} : Names_(n) = {} /\ n \notin removed}

VolumeID(dir) ==
    LET volume[d \in Dirs] == IF d \in Range(Mounts) THEN d ELSE volume[tree.up[d]]
    IN  volume[dir]

Set(d, c, n) == [tree EXCEPT !.entry[d][c] = n]
\* What p does next; a call that begins is counted.
Goes(p, do) ==
    proc' = [proc EXCEPT ![p].do = do, ![p].calls = IF proc[p].do = Idle THEN @ + 1 ELSE @]
Others(p) == \E q \in Procs \ {p} : proc[q].do.pc = "rename"
Found(p, path) == Resolve(tree, path, proc[p].wd)
Parent(p, path) == ResolveParent(tree, path, proc[p].wd)
Starts(p) == proc[p].do = Idle /\ proc[p].calls < MaxCalls
Writable(d) == d \in Dirs \ {Root}
-----------------------------------------------------------------------------
(* SysOpen *)

Open(p, path) ==
    /\ Starts(p)
    /\ Goes(p, IF Found(p, path) # None \/ Parent(p, path) = None THEN Idle
               ELSE [pc |-> "create", path |-> path])
    /\ UNCHANGED <<tree, removed, contended>>

\* Create of a name that exists meanwhile fails, and its error is ignored.
OpenCreate(p) ==
    LET do == proc[p].do
        d == Parent(p, do.path)
        c == BaseName(do.path)
    IN  /\ do.pc = "create"
        /\ \/ /\ Writable(d) /\ c \in Names /\ tree.entry[d][c] = None
              /\ \E n \in Fresh \cap Files : tree' = Set(d, c, n)
           \/ /\ ~(Writable(d) /\ c \in Names /\ tree.entry[d][c] = None)
              /\ UNCHANGED tree
        /\ Goes(p, [do EXCEPT !.pc = "retry"])
        /\ UNCHANGED <<removed, contended>>

\* The path is resolved once more, without O_CREAT: open, or ENOENT.
OpenRetry(p) ==
    /\ proc[p].do.pc = "retry"
    /\ Goes(p, Idle)
    /\ UNCHANGED <<tree, removed, contended>>
-----------------------------------------------------------------------------
(* Calls of one operation *)

Mkdir(p, path) ==
    LET d == Parent(p, path)
        c == BaseName(path)
    IN  /\ Starts(p) /\ Writable(d) /\ c \in Names /\ tree.entry[d][c] = None
        /\ \E n \in Fresh \cap Dirs : tree' = [Set(d, c, n) EXCEPT !.up[n] = d]
        /\ Goes(p, Idle)
        /\ UNCHANGED <<removed, contended>>

\* SysLink resolves the old path from the root, whatever the working directory.
Link(p, old, new) ==
    LET n == Resolve(tree, old, Root)
        d == Parent(p, new)
        c == BaseName(new)
    IN  /\ Starts(p) /\ n \in Files /\ Writable(d) /\ c \in Names /\ tree.entry[d][c] = None
        /\ tree' = Set(d, c, n)
        /\ Goes(p, Idle)
        /\ UNCHANGED <<removed, contended>>

\* SysUnlink removes the last component of the path from the working directory.  ReadDir(0)
\* of a directory is ".", so that SysRmdir always answers ENOTEMPTY and changes nothing.
Unlink(p, path) ==
    LET d == proc[p].wd
        c == BaseName(path)
    IN  /\ Starts(p) /\ Writable(d) /\ c \in Names /\ tree.entry[d][c] \in Files \cup Links
        /\ tree' = Set(d, c, None)
        /\ removed' = removed \cup {tree.entry[d][c]}
        /\ contended' = (contended \/ Others(p))
        /\ Goes(p, Idle)

Chdir(p, path) ==
    LET canonical == CanonicalizePath(path, proc[p].wdPath)
        n == Resolve(tree, canonical, Root)
    IN  /\ Starts(p) /\ n \in Dirs
        /\ proc' = [proc EXCEPT ![p].wd = n, ![p].wdPath = canonical.comps, ![p].fchdir = FALSE,
                             ![p].calls = @ + 1]
        /\ UNCHANGED <<tree, removed, contended>>

\* SysFChdir leaves the path of the working directory alone.
FChdir(p, d) ==
    /\ Starts(p)
    /\ d = Root \/ Names_(d) # {}
    /\ proc' = [proc EXCEPT ![p].wd = d, ![p].fchdir = TRUE, ![p].calls = @ + 1]
    /\ UNCHANGED <<tree, removed, contended>>
-----------------------------------------------------------------------------
(* SysRename and fs::Rename: look up, and then each operation on a node a step of its own.  *)
(* Across volumes the data is copied: it is read from the old node and, in the code, written *)
(* to the old node again.                                                                   *)

RenameStepsUnlinkFirst(across, exists) ==
    IF across THEN <<"create", "drop">>
    ELSE IF exists THEN <<"replace", "unlink", "link">> ELSE <<"unlink", "link">>
RenameSteps(across, exists) ==
    IF across THEN <<"create", "drop">>
    ELSE IF exists THEN <<"replace", "link", "unlink">> ELSE <<"link", "unlink">>

Rename(p, old, new) ==
    LET olddir == Parent(p, old)
        newdir == Parent(p, new)
        oldnode == Resolve(tree, Path(FALSE, <<BaseName(old)>>), olddir)
        newnode == Resolve(tree, Path(FALSE, <<BaseName(new)>>), newdir)
    IN  /\ Starts(p) /\ olddir \in Dirs /\ newdir \in Dirs
        /\ oldnode \in Files /\ newnode \notin Dirs
        /\ Goes(p, [pc |-> "rename", node |-> oldnode, to |-> <<newdir, BaseName(new)>>,
                    from |-> <<olddir, BaseName(old)>>,
                    left |-> RenameSteps(VolumeID(olddir) # VolumeID(newdir), newnode # None)])
        /\ contended' = (contended \/ Others(p))
        /\ UNCHANGED <<tree, removed>>

\* One operation of the rename; an error ends the call.
RenameStep(p) ==
    LET do == proc[p].do
        op == Head(do.left)
        at == IF op \in {"unlink", "drop"} THEN do.from ELSE do.to
        there == tree.entry[at[1]][at[2]]
        ok == IF op \in {"link", "create"} THEN there = None ELSE there \in Files \cup Links
    IN  /\ do.pc = "rename"
        /\ \E n \in IF op = "create" THEN Fresh \cap Files ELSE {IF op = "link" THEN do.node ELSE None} :
              tree' = IF ok THEN Set(at[1], at[2], n) ELSE tree
        /\ removed' = IF ok /\ (op \in {"replace", "drop"} \/ there \in Links)
                      THEN removed \cup {there} ELSE removed
        /\ Goes(p, IF ok /\ Len(do.left) > 1 THEN [do EXCEPT !.left = Tail(@)] ELSE Idle)
        /\ UNCHANGED contended
-----------------------------------------------------------------------------
Next ==
    \E p \in Procs :
       \/ OpenCreate(p) \/ OpenRetry(p) \/ RenameStep(p)
       \/ \E d \in Dirs : FChdir(p, d)
       \/ \E path \in Paths :
             \/ Open(p, path) \/ Mkdir(p, path) \/ Unlink(p, path) \/ Chdir(p, path)
             \/ \E new \in Paths : Link(p, path, new) \/ Rename(p, path, new)

Spec == Init /\ [][Next]_vars
-----------------------------------------------------------------------------
\* A file that nobody was asked to remove keeps a name through every step of a rename, as
\* long as no other process removes or renames meanwhile.
KeepsFiles ==
    ~contended' => \A n \in Files : Names_(n) # {} /\ n \notin removed' =>
        \E d \in Dirs, c \in Names : tree'.entry[d][c] = n
FileKept == [][KeepsFiles]_vars

\* chdir cuts the dots out of its path together with the path that the process keeps of its
\* working directory, and starts from the root: without links, and until the process uses
\* fchdir, that is where walking the path from the working directory ends, if it ends.
ChdirAgrees ==
    \A p \in Procs, path \in Tried :
       (~proc[p].fchdir /\ (\A n \in Links : Names_(n) = {} /\ n \notin removed) /\ Found(p, path) \in Dirs)
       => Resolve(tree, CanonicalizePath(path, proc[p].wdPath), Root) = Found(p, path)
=============================================================================
