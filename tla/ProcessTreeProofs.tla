--------------------------- MODULE ProcessTreeProofs ---------------------------
(***************************************************************************)
(* For any number of processes and of threads of the first one, whatever   *)
(* system calls they make and whoever is killed: parents and children      *)
(* agree on who belongs to whom, and a dead process leaves no child behind *)
(* that it could have killed.                                              *)
(*                                                                         *)
(* The properties speak of a list and of m_parent, but threads hold        *)
(* children too, in their local `child`, between two steps.  What they     *)
(* hold, what lists them and their m_parent is one family (OneFamily): a   *)
(* process never has two, so nobody takes a child, or its parent, away     *)
(* from somebody else.                                                     *)
(***************************************************************************)
EXTENDS ProcessTree, FiniteSetTheorems, TLAPS

(* What the invariant reads of a process and of a thread, by name.         *)
Parent(c) == proc[c].parent
Children(p) == proc[p].children
InList(p) == proc[p].listed
Late(c) == proc[c].late
Pc(t) == thread[t].pc

(* The sets that TypeOK gives their members.                               *)
ProcSet == [state : {"none", "Running", "Dying", "Dead"}, parent : Procs \cup {None},
            children : SUBSET Procs, lock : BOOLEAN, watching : SUBSET Threads,
            listed : BOOLEAN, kill : BOOLEAN, late : BOOLEAN, lost : BOOLEAN]
ThreadSet == [pc : Locs, child : Procs \cup {None}, value : -2 .. Cardinality(Procs),
              interrupted : BOOLEAN]
Typed == proc \in [Procs -> ProcSet] /\ thread \in [Threads -> ThreadSet]

(* A process that does not exist has no family: only the thread that is    *)
(* about to make it knows it.                                              *)
Making == {"fork", "exec"}
Unknown(c) == State(c) = "none" =>
  /\ Parent(c) = None /\ Children(c) = {} /\ Pc(c) = "unborn"
  /\ \A p \in Procs : c \notin Children(p)
  /\ \A t \in Threads : Child(t) = c => Pc(t) \in Making
MakesOne(t) == Pc(t) \in Making =>
  /\ Child(t) \in Procs /\ State(Child(t)) = "none"
  /\ \A u \in Threads : u # t => Child(u) # Child(t)

(* Until it is started, one that exists has not run, and one thread is at  *)
(* work on it.                                                             *)
Raising == {"copy", "register", "start"}
RaisesOne(t) == Pc(t) \in Raising =>
  /\ Child(t) \in Procs /\ State(Child(t)) = "Running" /\ Pc(Child(t)) = "unborn"
  /\ \A u \in Threads : u # t /\ Pc(u) \in Raising => Child(u) # Child(t)
(* SysExec has given it a parent already, but it is on no list yet.        *)
Registers(t) == Pc(t) = "register" => \A c \in Procs : Child(t) = c =>
  /\ Parent(c) = Owner(t) /\ \A p \in Procs : c \notin Children(p)
  /\ \A u \in Threads : u # t /\ Child(u) = c => Pc(u) = "sigchld"

Exists(t) == Pc(t) # "unborn" => State(Owner(t)) # "none"
Handling == {"await", "orphan", "drop", "unparent", "check", "remove"}
Handles(t) == Pc(t) \in Handling => Child(t) \in Procs

(* Where a main thread is in Die says what its process is.                 *)
Loop == {"front", "await", "orphan", "drop", "threads", "set_dead"}
Waiting == {"wait", "blocked", "woken"}
After == {"tell", "sigchld", "mark", "final", "gone"}
Stage(p) ==
  /\ Pc(p) \in Loop => State(p) = "Dying"
  /\ Pc(p) \in After => State(p) = "Dead"
  /\ State(p) = "Dead" => Pc(p) \in After \cup {"assert"}
  /\ State(p) = "Dying" => \/ Pc(p) \in Loop \cup {"assert"}
                           \/ Pc(p) \in Waiting /\ Child(p) \in Procs
  /\ State(p) \in {"Running", "Dying"} => InList(p)
Orphaned(p) == Pc(p) = "drop" => \A c \in Procs : Child(p) = c => Parent(c) = None

(* Who holds m_processLock.                                                *)
Holding == {"unparent", "set_dead", "tell", "sigchld", "mark", "final"}
OneHolds(t) == Pc(t) \in Holding =>
  /\ Locked(Owner(t))
  /\ \A u \in Threads : Pc(u) \in Holding /\ Owner(u) = Owner(t) => u = t

Related(p, c) == \/ c \in Children(p) \/ Parent(c) = p
                 \/ \E t \in Threads : Owner(t) = p /\ Child(t) = c /\ Pc(t) # "sigchld"
OneFamily == \A c, p, q \in Procs : Related(p, c) /\ Related(q, c) => p = q

(* Once Die has been through the list, only late children are in it.       *)
Past == {"threads", "set_dead", "tell", "sigchld", "mark", "final", "gone"}
OnlyLate(p) == Pc(p) \in Past \/ State(p) = "Dead" => \A c \in Children(p) : Late(c)

(* The parent that Die is about to send SIGCHLD to.                        *)
Tells(p) == Pc(p) = "sigchld" =>
  /\ Child(p) \in Procs /\ State(Child(p)) # "none"
  /\ Parent(p) = Child(p) \/ State(Child(p)) # "Running"

(* A watcher lives while its thread waits, and is signalled once by each   *)
(* process it watches.                                                     *)
HasOne == {"wait", "blocked", "woken", "rescan", "remove", "unparent", "assert"}
Watchers(p) == proc[p].watching
Watched(t) == {p \in Procs : t \in Watchers(p)}
Value(t) == thread[t].value
Watches(t) ==
  /\ Watched(t) # {} => Pc(t) \in HasOne
  /\ Value(t) + Cardinality(Watched(t)) <= Cardinality(Procs)
  /\ Pc(t) = "front" => Value(t) = 0

(* Listed, of what is read by name.                                        *)
Midway(locs, c) == \E t \in Threads : Pc(t) \in locs /\ Child(t) = c
Agree == \A p, c \in Procs :
  /\ c \in Children(p) => Parent(c) = p \/ Midway({"drop", "unparent", "assert"}, c)
  /\ Parent(c) = p => c \in Children(p) \/ Midway({"register", "unparent"}, c)

Ties ==
  /\ \A c \in Procs : Unknown(c) /\ Stage(c) /\ Orphaned(c) /\ OnlyLate(c) /\ Tells(c)
  /\ \A t \in Threads : MakesOne(t) /\ RaisesOne(t) /\ Registers(t) /\ Exists(t)
                       /\ Handles(t) /\ OneHolds(t)
  /\ OneFamily /\ Agree

IInv == Typed /\ Ties /\ \A t \in Threads : Watches(t)
-----------------------------------------------------------------------------
(* What a step does to a process, the watchers and a pending SIGKILL left  *)
(* aside, and to a thread, but for the value of its watcher.               *)
SameStates == \A p \in Procs : State(p)' = State(p)
SameParents == \A p \in Procs : Parent(p)' = Parent(p)
SameChildren == \A p \in Procs : Children(p)' = Children(p)
SameLocks == \A p \in Procs : Locked(p)' = Locked(p)
SameLists == \A p \in Procs : InList(p)' = InList(p)
SameLate == \A p \in Procs : Late(p)' = Late(p)
SameProcs == SameStates /\ SameParents /\ SameChildren /\ SameLocks /\ SameLists /\ SameLate
RestStill(t) == \A u \in Threads \ {t} : Pc(u)' = Pc(u) /\ Child(u)' = Child(u)
Only(t, loc, c) == Pc(t)' = loc /\ Child(t)' = c /\ RestStill(t)

(* The steps that leave all of that alone and move one thread: it chooses  *)
(* a process to make, reads its parent, picks one of its children, or goes *)
(* on with the one it has or with none.                                    *)
Chooses(t) == /\ Pc(t) = "user" /\ State(Owner(t)) = "Running" /\ Pc(t)' \in Making
              /\ \E c \in Procs : /\ Child(t)' = c /\ State(c) = "none"
                                 /\ \A u \in Threads : Child(u) # c
Looks(t) == /\ t \in Procs /\ Pc(t) = "tell" /\ Pc(t)' = "sigchld"
            /\ \E p \in Procs : Child(t)' = p /\ Parent(t) = p /\ State(p) = "Running"
Picks(t) == \E c \in Children(Owner(t)) :
  /\ Child(t)' = c
  /\ \/ Pc(t) = "find" /\ Pc(t)' = "check"
     \/ t \in Procs /\ Pc(t) = "front" /\ Pc(t)' \in {"await", "wait", "orphan"}
Keeps(t) ==
  /\ Child(t)' = Child(t)
  /\ \/ Pc(t)' = Pc(t)
     \/ Pc(t) = "user" /\ Pc(t)' \in {"scan", "find"} /\ State(Owner(t)) = "Running"
     \/ Pc(t) = "copy" /\ Pc(t)' = "start"
     \/ Pc(t) = "scan" /\ Pc(t)' = "watch"
     \/ Pc(t) = "watch" /\ Pc(t)' = "wait"
     \/ Pc(t) = "check" /\ Pc(t)' \in {"remove", "wait"}
     \/ Pc(t) \in {"wait", "blocked"} /\ Pc(t)' \in Waiting
     \/ Pc(t) = "woken" /\ t \in Procs /\ State(t) = "Dying" /\ Pc(t)' \in {"wait", "orphan"}
     \/ Pc(t) = "woken" /\ ~Joins(t) /\ Pc(t)' = "rescan"
     \/ Pc(t) = "woken" /\ ~Joins(t) /\ Pc(t)' = "remove" /\ Child(t) # None
     \/ Pc(t) = "front" /\ Pc(t)' = "assert"
     \/ t \in Procs /\ Pc(t) = "await" /\ Pc(t)' = "orphan"
     \/ Pc(t) = "tell" /\ Pc(t)' = "mark"
Leaves(t) ==
  /\ Child(t)' = None
  /\ \/ Pc(t) \in {"scan", "rescan", "watch", "find", "check"} /\ Pc(t)' \in {"user", "exit"}
     \/ Pc(t) = "woken" /\ ~Joins(t) /\ Pc(t)' \in {"user", "exit"}
     \/ Pc(t) = "rescan" /\ Pc(t)' = "watch"
     \/ Pc(t) = "sigchld" /\ Pc(t)' \in {"mark", "assert"}
Quiet(t) == SameProcs /\ RestStill(t) /\ (Chooses(t) \/ Looks(t) \/ Picks(t) \/ Keeps(t) \/ Leaves(t))

LEMMA OwnerIs ==
  /\ \A t \in Threads : Owner(t) \in Procs
  /\ \A p \in Procs : Owner(p) = p /\ p \in Threads /\ p \notin Workers
BY NamesAssumption DEF Owner, Threads

LEMMA TypedView == ASSUME Typed PROVE
  /\ \A p \in Procs : /\ State(p) \in {"none", "Running", "Dying", "Dead"}
                      /\ Parent(p) \in Procs \cup {None} /\ Children(p) \subseteq Procs
                      /\ Locked(p) \in BOOLEAN /\ InList(p) \in BOOLEAN /\ Late(p) \in BOOLEAN
  /\ \A t \in Threads : Pc(t) \in Locs /\ Child(t) \in Procs \cup {None}
BY DEF Typed, ProcSet, ThreadSet, State, Parent, Children, Locked, InList, Late, Pc, Child

-----------------------------------------------------------------------------
(* What each of the other steps does to what is read by name.             *)
LEMMA UnwatchedView == ASSUME Typed, NEW t \in Threads PROVE
  /\ Unwatched(t) \in [Procs -> ProcSet]
  /\ \A c \in Procs : \A f \in {"state", "parent", "children", "lock", "listed", "late"} :
       Unwatched(t)[c][f] = proc[c][f]
BY DEF Typed, ProcSet, Unwatched

LEMMA ForkEffect ==
  ASSUME Typed, NEW t \in Threads, Fork(t), Child(t) \in Procs, Child(t) # Owner(t)
  PROVE
  /\ \A c \in Procs : State(c)' = IF c = Child(t) THEN "Running" ELSE State(c)
  /\ \A c \in Procs : Parent(c)' = IF c = Child(t) THEN Owner(t) ELSE Parent(c)
  /\ \A c \in Procs : Children(c)' = IF c = Owner(t) THEN Children(Owner(t)) \cup {Child(t)}
                                      ELSE IF c = Child(t) THEN {} ELSE Children(c)
  /\ \A c \in Procs : Locked(c)' <=> c # Child(t) /\ Locked(c)
  /\ \A c \in Procs : InList(c)' <=> c = Child(t) \/ InList(c)
  /\ \A c \in Procs : Late(c)' <=> IF c = Child(t) THEN Pc(Owner(t)) \in Past ELSE Late(c)
  /\ Only(t, "copy", Child(t))
<1>1. \A c \in Procs : State(c)' = IF c = Child(t) THEN "Running" ELSE State(c)
  BY OwnerIs DEF Fork, Newborn, Unborn, Typed, ProcSet, State
<1>2. \A c \in Procs : Parent(c)' = IF c = Child(t) THEN Owner(t) ELSE Parent(c)
  BY OwnerIs DEF Fork, Newborn, Unborn, Typed, ProcSet, Parent
<1>3. \A c \in Procs : Children(c)' = IF c = Owner(t) THEN Children(Owner(t)) \cup {Child(t)}
                                      ELSE IF c = Child(t) THEN {} ELSE Children(c)
  <2>1. PICK X : X = Children(Owner(t)) \cup {Child(t)}
    OBVIOUS
  <2>2. PICK r : r = [Newborn(Owner(t)) EXCEPT !.late = PastChildren(Owner(t))]
    OBVIOUS
  <2>3. proc' = [proc EXCEPT ![Child(t)] = r, ![Owner(t)].children = X]
    BY <2>1, <2>2 DEF Fork, Children
  <2>4. r.children = {}
    BY <2>2 DEF Newborn, Unborn
  <2>5. \A c \in Procs : Children(c)' = IF c = Owner(t) THEN X ELSE IF c = Child(t) THEN r.children ELSE Children(c)
    BY <2>3, OwnerIs DEF Typed, ProcSet, Children
  <2>. QED BY <2>1, <2>4, <2>5
<1>4. \A c \in Procs : Locked(c)' <=> c # Child(t) /\ Locked(c)
  <2>1. \A c \in Procs : Locked(c)' = IF c = Child(t) THEN FALSE ELSE Locked(c)
    BY OwnerIs DEF Fork, Newborn, Unborn, Typed, ProcSet, Locked
  <2>. QED BY <2>1, OwnerIs, TypedView
<1>5. \A c \in Procs : InList(c)' <=> c = Child(t) \/ InList(c)
  <2>1. \A c \in Procs : InList(c)' = IF c = Child(t) THEN TRUE ELSE InList(c)
    BY OwnerIs DEF Fork, Newborn, Unborn, Typed, ProcSet, InList
  <2>. QED BY <2>1, OwnerIs, TypedView
<1>6. \A c \in Procs : Late(c)' <=> IF c = Child(t) THEN Pc(Owner(t)) \in Past ELSE Late(c)
  <2>1. \A c \in Procs : Late(c)' = IF c = Child(t) THEN PastChildren(Owner(t)) ELSE Late(c)
    BY OwnerIs DEF Fork, Newborn, Unborn, Typed, ProcSet, Late
  <2>2. PastChildren(Owner(t)) <=> Pc(Owner(t)) \in Past
    BY DEF PastChildren, Past, Pc
  <2>. QED BY <2>1, <2>2, OwnerIs, TypedView
<1>7. Only(t, "copy", Child(t))
  BY OwnerIs DEF Fork, Goto, Typed, ThreadSet, Only, RestStill, Pc, Child
<1>. QED BY <1>1, <1>2, <1>3, <1>4, <1>5, <1>6, <1>7

LEMMA CreateEffect == ASSUME Typed, NEW t \in Threads, Create(t), Child(t) \in Procs PROVE
  /\ \A c \in Procs : State(c)' = IF c = Child(t) THEN "Running" ELSE State(c)
  /\ \A c \in Procs : Parent(c)' = IF c = Child(t) THEN Owner(t) ELSE Parent(c)
  /\ \A c \in Procs : Children(c)' = IF c = Child(t) THEN {} ELSE Children(c)
  /\ \A c \in Procs : Locked(c)' <=> c # Child(t) /\ Locked(c)
  /\ \A c \in Procs : InList(c)' <=> c = Child(t) \/ InList(c)
  /\ \A c \in Procs : Late(c)' <=> c # Child(t) /\ Late(c)
  /\ Only(t, "register", Child(t))
<1>1. \A c \in Procs : State(c)' = IF c = Child(t) THEN "Running" ELSE State(c)
  BY OwnerIs DEF Create, Newborn, Unborn, Typed, ProcSet, State
<1>2. \A c \in Procs : Parent(c)' = IF c = Child(t) THEN Owner(t) ELSE Parent(c)
  BY OwnerIs DEF Create, Newborn, Unborn, Typed, ProcSet, Parent
<1>3. \A c \in Procs : Children(c)' = IF c = Child(t) THEN {} ELSE Children(c)
  BY OwnerIs DEF Create, Newborn, Unborn, Typed, ProcSet, Children
<1>4. \A c \in Procs : Locked(c)' <=> c # Child(t) /\ Locked(c)
  BY OwnerIs DEF Create, Newborn, Unborn, Typed, ProcSet, Locked
<1>5. \A c \in Procs : InList(c)' <=> c = Child(t) \/ InList(c)
  BY OwnerIs DEF Create, Newborn, Unborn, Typed, ProcSet, InList
<1>6. \A c \in Procs : Late(c)' <=> c # Child(t) /\ Late(c)
  BY OwnerIs DEF Create, Newborn, Unborn, Typed, ProcSet, Late
<1>7. Only(t, "register", Child(t))
  BY OwnerIs DEF Create, Goto, Typed, ThreadSet, Only, RestStill, Pc, Child
<1>. QED BY <1>1, <1>2, <1>3, <1>4, <1>5, <1>6, <1>7

LEMMA RegisterChildProcessEffect ==
  ASSUME Typed, NEW t \in Threads, RegisterChildProcess(t), Child(t) \in Procs
  PROVE
  /\ SameStates /\ SameParents /\ SameLocks /\ SameLists
  /\ \A c \in Procs : Children(c)' = IF c = Owner(t) THEN Children(Owner(t)) \cup {Child(t)} ELSE Children(c)
  /\ \A c \in Procs : Late(c)' <=> IF c = Child(t) THEN Pc(Owner(t)) \in Past ELSE Late(c)
  /\ Only(t, "start", Child(t))
<1>1. SameStates /\ SameParents /\ SameLocks /\ SameLists
  BY OwnerIs DEF RegisterChildProcess, InList, Locked, Parent, ProcSet, SameLists, SameLocks,
     SameParents, SameStates, State, Typed
<1>2. \A c \in Procs : Children(c)' = IF c = Owner(t) THEN Children(Owner(t)) \cup {Child(t)} ELSE Children(c)
  <2>1. PICK X : X = Children(Owner(t)) \cup {Child(t)}
    OBVIOUS
  <2>2. [proc EXCEPT ![Child(t)].late = PastChildren(Owner(t))][Owner(t)].children = Children(Owner(t))
    BY OwnerIs DEF Typed, ProcSet, Children
  <2>3. proc' = [proc EXCEPT ![Child(t)].late = PastChildren(Owner(t)), ![Owner(t)].children = X]
    BY <2>1, <2>2 DEF RegisterChildProcess
  <2>4. \A c \in Procs : Children(c)' = IF c = Owner(t) THEN X ELSE Children(c)
    BY <2>3, OwnerIs DEF Typed, ProcSet, Children
  <2>. QED BY <2>1, <2>4
<1>3. \A c \in Procs : Late(c)' <=> IF c = Child(t) THEN Pc(Owner(t)) \in Past ELSE Late(c)
  <2>1. \A c \in Procs : Late(c)' = IF c = Child(t) THEN PastChildren(Owner(t)) ELSE Late(c)
    BY OwnerIs DEF RegisterChildProcess, Typed, ProcSet, Late
  <2>2. PastChildren(Owner(t)) <=> Pc(Owner(t)) \in Past
    BY DEF PastChildren, Past, Pc
  <2>. QED BY <2>1, <2>2, OwnerIs, TypedView
<1>4. Only(t, "start", Child(t))
  BY OwnerIs DEF RegisterChildProcess, Goto, Typed, ThreadSet, Only, RestStill, Pc, Child
<1>. QED BY <1>1, <1>2, <1>3, <1>4

LEMMA StartEffect == ASSUME Typed, NEW t \in Threads, Start(t), Child(t) \in Procs, Child(t) # t
       PROVE
  /\ SameProcs
  /\ Pc(t)' \in {"user", "exit"} /\ Child(t)' = None
  /\ \A c \in Procs : c = Child(t) => Pc(c)' = "user" /\ Child(c)' = Child(c)
  /\ \A u \in Threads \ {t, Child(t)} : Pc(u)' = Pc(u) /\ Child(u)' = Child(u)
<1>1. SameProcs
  BY OwnerIs DEF Start, Children, InList, Late, Locked, Parent, ProcSet, SameChildren, SameLate,
     SameLists, SameLocks, SameParents, SameStates, State, Typed, SameProcs
<1>2. /\ Pc(t)' \in {"user", "exit"} /\ Child(t)' = None
      /\ \A c \in Procs : c = Child(t) => Pc(c)' = "user" /\ Child(c)' = Child(c)
      /\ \A u \in Threads \ {t, Child(t)} : Pc(u)' = Pc(u) /\ Child(u)' = Child(u)
  <2>1. PICK c : c = Child(t)
    OBVIOUS
  <2>2. PICK r : r = Idle(Outside(t))
    OBVIOUS
  <2>3. c \in Threads /\ c # t /\ thread' = [thread EXCEPT ![c].pc = "user", ![t] = r]
    BY <2>1, <2>2, OwnerIs DEF Start
  <2>4. r.pc \in {"user", "exit"} /\ r.child = None
    BY <2>2 DEF Idle, Outside
  <2>5. Pc(t)' \in {"user", "exit"} /\ Child(t)' = None
    BY <2>3, <2>4 DEF Typed, Pc, Child
  <2>6. \A u \in Threads \ {t, c} : Pc(u)' = Pc(u) /\ Child(u)' = Child(u)
    BY <2>3 DEF Typed, Pc, Child
  <2>7. Pc(c)' = "user" /\ Child(c)' = Child(c)
    BY <2>3 DEF Typed, ThreadSet, Pc, Child
  <2>. QED BY <2>5, <2>6, <2>7, <2>1
<1>. QED BY <1>1, <1>2

LEMMA RemoveEffect == ASSUME Typed, NEW t \in Threads, Remove(t) PROVE
  /\ SameStates /\ SameParents /\ SameChildren /\ SameLists /\ SameLate
  /\ \A c \in Procs : Locked(c)' <=> c = Owner(t) \/ Locked(c)
  /\ Only(t, IF Child(t) \in Children(Owner(t)) THEN "unparent" ELSE "assert", Child(t))
<1>1. SameStates /\ SameParents /\ SameChildren /\ SameLists /\ SameLate
  BY OwnerIs DEF Remove, Children, InList, Late, Parent, ProcSet, SameChildren, SameLate,
     SameLists, SameParents, SameStates, State, Typed
<1>2. \A c \in Procs : Locked(c)' <=> c = Owner(t) \/ Locked(c)
  BY OwnerIs DEF Remove, Typed, ProcSet, Locked
<1>3. Only(t, IF Child(t) \in Children(Owner(t)) THEN "unparent" ELSE "assert", Child(t))
  BY OwnerIs DEF Remove, Goto, Children, Typed, ThreadSet, Only, RestStill, Pc, Child
<1>. QED BY <1>1, <1>2, <1>3

LEMMA DieBeginEffect == ASSUME Typed, NEW p \in Procs, DieBegin(p) PROVE
  /\ SameParents /\ SameChildren /\ SameLocks /\ SameLists /\ SameLate
  /\ \A c \in Procs : State(c)' = IF c = p THEN "Dying" ELSE State(c)
  /\ Only(p, NextChild(Children(p)), None)
<1>1. SameParents /\ SameChildren /\ SameLocks /\ SameLists /\ SameLate
  BY OwnerIs DEF DieBegin, Children, InList, Late, Locked, Parent, ProcSet, SameChildren,
     SameLate, SameLists, SameLocks, SameParents, Typed
<1>2. \A c \in Procs : State(c)' = IF c = p THEN "Dying" ELSE State(c)
  BY OwnerIs DEF DieBegin, Typed, ProcSet, State
<1>3. Only(p, NextChild(Children(p)), None)
  BY OwnerIs DEF DieBegin, ToChildren, Idle, Children, Typed, ThreadSet, Only, RestStill, Pc, Child
<1>. QED BY <1>1, <1>2, <1>3

LEMMA OrphanEffect == ASSUME Typed, NEW p \in Procs, Orphan(p), Child(p) \in Procs PROVE
  /\ SameStates /\ SameChildren /\ SameLocks /\ SameLists /\ SameLate
  /\ \A c \in Procs : Parent(c)' = IF c = Child(p) THEN None ELSE Parent(c)
  /\ Only(p, "drop", Child(p))
<1>1. SameStates /\ SameChildren /\ SameLocks /\ SameLists /\ SameLate
  BY OwnerIs DEF Orphan, Forget, Children, InList, Late, Locked, ProcSet, SameChildren, SameLate,
     SameLists, SameLocks, SameStates, State, Typed
<1>2. \A c \in Procs : Parent(c)' = IF c = Child(p) THEN None ELSE Parent(c)
  BY OwnerIs DEF Orphan, Forget, Typed, ProcSet, Parent
<1>3. Only(p, "drop", Child(p))
  BY OwnerIs DEF Orphan, Goto, Typed, ThreadSet, Only, RestStill, Pc, Child
<1>. QED BY <1>1, <1>2, <1>3

LEMMA DropEffect == ASSUME Typed, NEW p \in Procs, Drop(p) PROVE
  /\ SameStates /\ SameParents /\ SameLocks /\ SameLists /\ SameLate
  /\ \A c \in Procs : Children(c)' = IF c = p THEN Children(p) \ {Child(p)} ELSE Children(c)
  /\ Only(p, NextChild(Children(p) \ {Child(p)}), None)
<1>1. SameStates /\ SameParents /\ SameLocks /\ SameLists /\ SameLate
  BY OwnerIs DEF Drop, Others, InList, Late, Locked, Parent, ProcSet, SameLate, SameLists,
     SameLocks, SameParents, SameStates, State, Typed
<1>2. \A c \in Procs : Children(c)' = IF c = p THEN Children(p) \ {Child(p)} ELSE Children(c)
  <2>1. PICK X : X = Children(p) \ {Child(p)}
    OBVIOUS
  <2>2. proc' = [proc EXCEPT ![p].children = X]
    BY <2>1 DEF Drop, Others, Children
  <2>3. \A c \in Procs : Children(c)' = IF c = p THEN X ELSE Children(c)
    BY <2>2, OwnerIs DEF Typed, ProcSet, Children
  <2>. QED BY <2>1, <2>3
<1>3. Only(p, NextChild(Children(p) \ {Child(p)}), None)
  BY OwnerIs DEF Drop, ToChildren, Idle, Others, Children, Typed, ThreadSet, Only, RestStill, Pc,
     Child
<1>. QED BY <1>1, <1>2, <1>3

LEMMA KillThreadsEffect == ASSUME Typed, NEW p \in Procs, KillThreads(p) PROVE
  /\ SameStates /\ SameParents /\ SameChildren /\ SameLists /\ SameLate
  /\ \A c \in Procs : Locked(c)' <=> c = p \/ Locked(c)
  /\ Only(p, "set_dead", Child(p))
<1>1. SameStates /\ SameParents /\ SameChildren /\ SameLists /\ SameLate
  BY OwnerIs DEF KillThreads, Children, InList, Late, Parent, ProcSet, SameChildren, SameLate,
     SameLists, SameParents, SameStates, State, Typed
<1>2. \A c \in Procs : Locked(c)' <=> c = p \/ Locked(c)
  BY OwnerIs DEF KillThreads, Typed, ProcSet, Locked
<1>3. Only(p, "set_dead", Child(p))
  BY OwnerIs DEF KillThreads, Goto, Typed, ThreadSet, Only, RestStill, Pc, Child
<1>. QED BY <1>1, <1>2, <1>3

LEMMA SetDeadEffect == ASSUME Typed, NEW p \in Procs, SetDead(p) PROVE
  /\ SameParents /\ SameChildren /\ SameLocks /\ SameLists /\ SameLate
  /\ \A c \in Procs : State(c)' = IF c = p THEN "Dead" ELSE State(c)
  /\ Pc(p)' = "tell"
  /\ \A u \in Threads : Child(u)' = Child(u)
  /\ \A u \in Threads \ {p} : Pc(u)' = Pc(u) \/ (Pc(u) = "blocked" /\ Pc(u)' = "woken")
<1>1. SameParents /\ SameChildren /\ SameLocks /\ SameLists /\ SameLate
  BY OwnerIs DEF SetDead, Children, InList, Late, Locked, Parent, ProcSet, SameChildren, SameLate,
     SameLists, SameLocks, SameParents, Typed
<1>2. \A c \in Procs : State(c)' = IF c = p THEN "Dead" ELSE State(c)
  BY OwnerIs DEF SetDead, Typed, ProcSet, State
<1>3. /\ Pc(p)' = "tell"
      /\ \A u \in Threads : Child(u)' = Child(u)
      /\ \A u \in Threads \ {p} : Pc(u)' = Pc(u) \/ (Pc(u) = "blocked" /\ Pc(u)' = "woken")
  BY OwnerIs DEF SetDead, Signalled, Typed, ThreadSet, Only, RestStill, Pc, Child
<1>. QED BY <1>1, <1>2, <1>3

LEMMA MarkProcessForDestructionEffect ==
  ASSUME Typed, NEW p \in Procs, MarkProcessForDestruction(p)
  PROVE
  /\ SameStates /\ SameParents /\ SameChildren /\ SameLocks /\ SameLate
  /\ \A c \in Procs : InList(c)' <=> c # p /\ InList(c)
  /\ Only(p, "final", Child(p))
<1>1. SameStates /\ SameParents /\ SameChildren /\ SameLocks /\ SameLate
  BY OwnerIs DEF MarkProcessForDestruction, Children, Late, Locked, Parent, ProcSet, SameChildren,
     SameLate, SameLocks, SameParents, SameStates, State, Typed
<1>2. \A c \in Procs : InList(c)' <=> c # p /\ InList(c)
  BY OwnerIs DEF MarkProcessForDestruction, Typed, ProcSet, InList
<1>3. Only(p, "final", Child(p))
  BY OwnerIs DEF MarkProcessForDestruction, Goto, Typed, ThreadSet, Only, RestStill, Pc, Child
<1>. QED BY <1>1, <1>2, <1>3

LEMMA FinalEffect == ASSUME Typed, NEW p \in Procs, Final(p) PROVE
  /\ SameStates /\ SameParents /\ SameChildren /\ SameLists /\ SameLate
  /\ \A c \in Procs : Locked(c)' <=> c # p /\ Locked(c)
  /\ Only(p, "gone", Child(p))
<1>1. SameStates /\ SameParents /\ SameChildren /\ SameLists /\ SameLate
  BY OwnerIs DEF Final, Children, InList, Late, Parent, ProcSet, SameChildren, SameLate,
     SameLists, SameParents, SameStates, State, Typed
<1>2. \A c \in Procs : Locked(c)' <=> c # p /\ Locked(c)
  BY OwnerIs DEF Final, Typed, ProcSet, Locked
<1>3. Only(p, "gone", Child(p))
  BY OwnerIs DEF Final, Goto, Typed, ThreadSet, Only, RestStill, Pc, Child
<1>. QED BY <1>1, <1>2, <1>3

LEMMA UnparentEffect == ASSUME Typed, NEW t \in Threads, Unparent(t), Child(t) \in Procs PROVE
  /\ SameStates /\ SameLists /\ SameLate
  /\ \A c \in Procs : Parent(c)' = IF c = Child(t) THEN None ELSE Parent(c)
  /\ \A c \in Procs : Children(c)' = IF c = Owner(t) THEN Children(Owner(t)) \ {Child(t)} ELSE Children(c)
  /\ \A c \in Procs : Locked(c)' <=> c # Owner(t) /\ Locked(c)
  /\ Pc(t)' \in {"user", "exit"} /\ Child(t)' = None /\ RestStill(t)
  /\ proc' \in [Procs -> ProcSet]
<1>1. PICK X : X = Children(Owner(t)) \ {Child(t)}
  OBVIOUS
<1>2. PICK U : U = Unwatched(t)
  OBVIOUS
<1>3. /\ U \in [Procs -> ProcSet]
      /\ \A c \in Procs : /\ U[c].state = State(c) /\ U[c].parent = Parent(c) /\ U[c].children = Children(c)
                          /\ U[c].lock = Locked(c) /\ U[c].listed = InList(c) /\ U[c].late = Late(c)
  BY <1>2, UnwatchedView DEF State, Parent, Children, Locked, InList, Late
<1>4. PICK V : V = [U EXCEPT ![Child(t)].parent = None]
  OBVIOUS
<1>5. V \in [Procs -> ProcSet]
  <2>1. [U EXCEPT ![Child(t)].parent = None] \in [Procs -> ProcSet]
    BY <1>3 DEF ProcSet
  <2>. QED BY <1>4, <2>1
<1>6. \A c \in Procs : /\ V[c].state = State(c) /\ V[c].parent = (IF c = Child(t) THEN None ELSE Parent(c))
                      /\ V[c].children = Children(c) /\ V[c].lock = Locked(c)
                      /\ V[c].listed = InList(c) /\ V[c].late = Late(c)
  BY <1>3, <1>4 DEF ProcSet
<1>7. proc' = [U EXCEPT ![Child(t)].parent = None, ![Owner(t)].children = X, ![Owner(t)].lock = FALSE]
  <2>1. [U EXCEPT ![Child(t)].parent = None][Owner(t)].children = Children(Owner(t))
    BY <1>4, <1>6, OwnerIs
  <2>. QED BY <1>1, <1>2, <2>1 DEF Unparent, Forget
<1>8. proc' = [V EXCEPT ![Owner(t)] = [V[Owner(t)] EXCEPT !.children = X, !.lock = FALSE]]
  BY <1>4, <1>5, <1>7, OwnerIs
<1>9. SameStates /\ SameLists /\ SameLate /\ \A c \in Procs : Parent(c)' = IF c = Child(t) THEN None ELSE Parent(c)
  BY <1>5, <1>6, <1>8, OwnerIs DEF SameStates, SameLists, SameLate, State, InList, Late, Parent,
     ProcSet
<1>10. \A c \in Procs : Children(c)' = IF c = Owner(t) THEN X ELSE Children(c)
  BY <1>5, <1>6, <1>8, OwnerIs DEF Children, ProcSet
<1>11. \A c \in Procs : Locked(c)' <=> c # Owner(t) /\ Locked(c)
  BY <1>5, <1>6, <1>8, OwnerIs DEF Locked, ProcSet
<1>12. Pc(t)' \in {"user", "exit"} /\ Child(t)' = None /\ RestStill(t)
  BY DEF Unparent, Return, Idle, Outside, Typed, ThreadSet, RestStill, Pc, Child
<1>13. proc' \in [Procs -> ProcSet]
  <2>1. X \in SUBSET Procs
    BY <1>1, TypedView, OwnerIs
  <2>2. [V[Owner(t)] EXCEPT !.children = X, !.lock = FALSE] \in ProcSet
    <3>1. PICK r \in ProcSet : r = V[Owner(t)]
      BY <1>5, OwnerIs
    <3>2. [r EXCEPT !.children = X] \in ProcSet
      BY <2>1 DEF ProcSet
    <3>3. [r EXCEPT !.children = X, !.lock = FALSE] \in ProcSet
      BY <3>2 DEF ProcSet
    <3>. QED BY <3>1, <3>3
  <2>. QED BY <1>5, <1>8, <2>2
<1>. QED BY <1>1, <1>9, <1>10, <1>11, <1>12, <1>13

LEMMA TakeEffect == ASSUME Typed, NEW t \in Threads, Take(t) PROVE
  \E d \in Children(Owner(t)) :
    /\ d \in Procs /\ State(d) = "Dead"
    /\ SameStates /\ SameParents /\ SameLists /\ SameLate
    /\ \A c \in Procs : Children(c)' = IF c = Owner(t) THEN Children(Owner(t)) \ {d} ELSE Children(c)
    /\ \A c \in Procs : Locked(c)' <=> c = Owner(t) \/ Locked(c)
    /\ Only(t, "unparent", d)
<1>1. PICK d \in DeadChildren(Owner(t)) :
        /\ proc' = [proc EXCEPT ![Owner(t)].children = @ \ {d}, ![Owner(t)].lock = TRUE]
        /\ With(t, "unparent", d)
  BY DEF Take
<1>2. d \in Children(Owner(t)) /\ d \in Procs /\ State(d) = "Dead"
  BY OwnerIs DEF Typed, ProcSet, DeadChildren, Dead, Children
<1>3. PICK X : X = Children(Owner(t)) \ {d}
  OBVIOUS
<1>4. X \in SUBSET Procs
  BY <1>3, OwnerIs, TypedView
<1>5. proc' = [proc EXCEPT ![Owner(t)] = [proc[Owner(t)] EXCEPT !.children = X, !.lock = TRUE]]
  BY <1>1, <1>3, OwnerIs DEF Typed, Children
<1>6. \A c \in Procs : Children(c)' = IF c = Owner(t) THEN X ELSE Children(c)
  BY <1>4, <1>5, OwnerIs DEF Typed, ProcSet, Children
<1>7. \A c \in Procs : Locked(c)' <=> c = Owner(t) \/ Locked(c)
  BY <1>4, <1>5, OwnerIs DEF Typed, ProcSet, Locked
<1>8. SameStates /\ SameParents /\ SameLists /\ SameLate
  BY <1>4, <1>5, OwnerIs DEF Typed, ProcSet, State, Parent, InList, Late, SameStates, SameParents,
     SameLists, SameLate
<1>9. Only(t, "unparent", d)
  BY <1>1 DEF With, Typed, ThreadSet, Only, RestStill, Pc, Child
<1>. QED BY <1>2, <1>3, <1>6, <1>7, <1>8, <1>9

LEMMA WatchingView == ASSUME Typed, NEW t \in Threads, NEW cs PROVE
  /\ Watching(t, cs) \in [Procs -> ProcSet]
  /\ \A c \in Procs : \A f \in {"state", "parent", "children", "lock", "listed", "late"} :
       Watching(t, cs)[c][f] = proc[c][f]
BY DEF Typed, ProcSet, Watching, Dead, State

LEMMA EnterQuiet == ASSUME Typed, NEW t \in Threads, Enter(t) PROVE Quiet(t)
<1>1. SameProcs
  BY DEF Enter, SameProcs, SameStates, SameParents, SameChildren, SameLocks, SameLists, SameLate,
     State, Parent, Children, Locked, InList, Late
<1>2. RestStill(t) /\ (Chooses(t) \/ Keeps(t))
  <2>1. CASE \E loc \in Calls[t] \cap {"scan", "find"} : Goto(t, loc)
    BY <2>1 DEF Enter, At, Goto, Typed, ThreadSet, Keeps, RestStill, Pc, Child
  <2>2. CASE \E loc \in Calls[t] \cap {"fork", "exec"} : Fresh # {} /\ With(t, loc, NextProcess)
    <3>1. NextProcess \in Procs /\ State(NextProcess) = "none" /\ \A u \in Threads : Child(u) # NextProcess
      BY <2>2 DEF NextProcess, Fresh
    <3>2. PICK c : c = NextProcess
      OBVIOUS
    <3>3. Child(t)' = c /\ Pc(t)' \in Making /\ Pc(t) = "user" /\ RestStill(t)
      <4>1. PICK loc \in Calls[t] \cap {"fork", "exec"} : Fresh # {} /\ With(t, loc, NextProcess)
        BY <2>2
      <4>2. Pc(t) = "user"
        BY DEF Enter, At, Pc
      <4>3. thread' = [thread EXCEPT ![t].pc = loc, ![t].child = c] /\ loc \in {"fork", "exec"}
        BY <3>2, <4>1 DEF With
      <4>. QED BY <4>2, <4>3 DEF Making, Typed, ThreadSet, RestStill, Pc, Child
    <3>. QED BY <3>1, <3>2, <3>3 DEF Enter, Chooses
  <2>. QED BY <2>1, <2>2 DEF Enter
<1>. QED BY <1>1, <1>2 DEF Quiet

LEMMA CopyThreadQuiet == ASSUME Typed, NEW t \in Threads, CopyThread(t) PROVE Quiet(t)
<1>1. SameProcs
  BY OwnerIs DEF CopyThread, Typed, ProcSet, SameProcs, SameStates, SameParents, SameChildren,
     SameLocks, SameLists, SameLate, State, Parent, Children, Locked, InList, Late
<1>2. RestStill(t) /\ (Keeps(t))
  BY OwnerIs, TypedView DEF CopyThread, At, Goto, Typed, ThreadSet, Keeps, RestStill, Pc, Child
<1>. QED BY <1>1, <1>2 DEF Quiet

LEMMA NoneDeadQuiet == ASSUME Typed, NEW t \in Threads, NoneDead(t) PROVE Quiet(t)
<1>1. SameProcs
  BY OwnerIs, UnwatchedView DEF NoneDead, Typed, ProcSet, SameProcs, SameStates, SameParents,
     SameChildren, SameLocks, SameLists, SameLate, State, Parent, Children, Locked, InList, Late
<1>2. RestStill(t) /\ (Keeps(t) \/ Leaves(t))
  BY OwnerIs, TypedView DEF NoneDead, At, Goto, Return, Idle, Outside, Typed, ThreadSet, Keeps,
     Leaves, RestStill, Pc, Child
<1>. QED BY <1>1, <1>2 DEF Quiet

LEMMA WatchAllQuiet == ASSUME Typed, NEW t \in Threads, WatchAll(t) PROVE Quiet(t)
<1>1. SameProcs
  BY OwnerIs, WatchingView DEF WatchAll, Watch, Typed, ProcSet, SameProcs, SameStates,
     SameParents, SameChildren, SameLocks, SameLists, SameLate, State, Parent, Children, Locked,
     InList, Late
<1>2. RestStill(t) /\ (Keeps(t) \/ Leaves(t))
  BY OwnerIs, TypedView DEF WatchAll, At, Goto, Return, Idle, Outside, Watch, Typed, ThreadSet,
     Keeps, Leaves, RestStill, Pc, Child
<1>. QED BY <1>1, <1>2 DEF Quiet

LEMMA FindQuiet == ASSUME Typed, NEW t \in Threads, Find(t) PROVE Quiet(t)
<1>1. SameProcs
  BY DEF Find, SameProcs, SameStates, SameParents, SameChildren, SameLocks, SameLists, SameLate,
     State, Parent, Children, Locked, InList, Late
<1>2. RestStill(t) /\ (Picks(t) \/ Leaves(t))
  BY OwnerIs, TypedView DEF Find, At, With, Return, Idle, Outside, Children, Typed, ThreadSet,
     Picks, Leaves, RestStill, Pc, Child
<1>. QED BY <1>1, <1>2 DEF Quiet

LEMMA CheckQuiet == ASSUME Typed, NEW t \in Threads, Check(t) PROVE Quiet(t)
<1>1. SameProcs
  BY OwnerIs, WatchingView DEF Check, Watch, Typed, ProcSet, SameProcs, SameStates, SameParents,
     SameChildren, SameLocks, SameLists, SameLate, State, Parent, Children, Locked, InList, Late
<1>2. RestStill(t) /\ (Keeps(t) \/ Leaves(t))
  BY OwnerIs, TypedView DEF Check, At, Goto, Return, Idle, Outside, Watch, Typed, ThreadSet,
     Keeps, Leaves, RestStill, Pc, Child
<1>. QED BY <1>1, <1>2 DEF Quiet

LEMMA WaitQuiet == ASSUME Typed, NEW t \in Threads, Wait(t) PROVE Quiet(t)
<1>1. SameProcs
  BY DEF Wait, SameProcs, SameStates, SameParents, SameChildren, SameLocks, SameLists, SameLate,
     State, Parent, Children, Locked, InList, Late
<1>2. RestStill(t) /\ (Keeps(t))
  BY OwnerIs, TypedView DEF Wait, At, Waiting, Typed, ThreadSet, Keeps, RestStill, Pc, Child
<1>. QED BY <1>1, <1>2 DEF Quiet

LEMMA InterruptQuiet == ASSUME Typed, NEW t \in Threads, Interrupt(t) PROVE Quiet(t)
<1>1. SameProcs
  BY DEF Interrupt, SameProcs, SameStates, SameParents, SameChildren, SameLocks, SameLists,
     SameLate, State, Parent, Children, Locked, InList, Late
<1>2. RestStill(t) /\ (Keeps(t))
  BY OwnerIs, TypedView DEF Interrupt, At, Waiting, Typed, ThreadSet, Keeps, RestStill, Pc, Child
<1>. QED BY <1>1, <1>2 DEF Quiet

LEMMA WokenQuiet == ASSUME Typed, NEW t \in Threads, Woken(t) PROVE Quiet(t)
<1>1. SameProcs
  BY OwnerIs, UnwatchedView DEF Woken, Typed, ProcSet, SameProcs, SameStates, SameParents,
     SameChildren, SameLocks, SameLists, SameLate, State, Parent, Children, Locked, InList, Late
<1>2. RestStill(t) /\ (Keeps(t) \/ Leaves(t))
  BY OwnerIs, TypedView DEF Woken, At, Goto, Return, Idle, Outside, Joins, State, Typed,
     ThreadSet, Keeps, Leaves, RestStill, Pc, Child
<1>. QED BY <1>1, <1>2 DEF Quiet

LEMMA AwaitQuiet == ASSUME Typed, NEW p \in Procs, Await(p) PROVE Quiet(p)
<1>1. SameProcs
  BY DEF Await, SameProcs, SameStates, SameParents, SameChildren, SameLocks, SameLists, SameLate,
     State, Parent, Children, Locked, InList, Late
<1>2. RestStill(p) /\ (Keeps(p))
  BY OwnerIs, TypedView DEF Await, At, Goto, Typed, ThreadSet, Keeps, RestStill, Pc, Child
<1>. QED BY <1>1, <1>2 DEF Quiet

LEMMA TestParentQuiet == ASSUME Typed, NEW p \in Procs, TestParent(p) PROVE Quiet(p)
<1>1. SameProcs
  BY DEF TestParent, SameProcs, SameStates, SameParents, SameChildren, SameLocks, SameLists,
     SameLate, State, Parent, Children, Locked, InList, Late
<1>2. RestStill(p) /\ (Looks(p) \/ Keeps(p))
  BY OwnerIs, TypedView DEF TestParent, At, Goto, With, Parent, State, Typed, ThreadSet, Looks,
     Keeps, RestStill, Pc, Child
<1>. QED BY <1>1, <1>2 DEF Quiet

LEMMA SignalParentQuiet == ASSUME Typed, NEW p \in Procs, SignalParent(p) PROVE Quiet(p)
<1>1. SameProcs
  BY DEF SignalParent, SameProcs, SameStates, SameParents, SameChildren, SameLocks, SameLists,
     SameLate, State, Parent, Children, Locked, InList, Late
<1>2. RestStill(p) /\ (Leaves(p))
  BY OwnerIs, TypedView DEF SignalParent, At, With, Typed, ThreadSet, Leaves, RestStill, Pc, Child
<1>. QED BY <1>1, <1>2 DEF Quiet

LEMMA FrontQuiet == ASSUME Typed, NEW p \in Procs, Front(p) PROVE Quiet(p)
<1>1. p \in Threads /\ Owner(p) = p /\ Pc(p) = "front"
  BY OwnerIs DEF Front, At, Pc
<1>2. CASE proc[p].children = {} /\ Goto(p, "assert") /\ UNCHANGED proc
  <2>1. SameProcs
    BY <1>2 DEF SameProcs, SameStates, SameParents, SameChildren, SameLocks, SameLists, SameLate,
       State, Parent, Children, Locked, InList, Late
  <2>2. RestStill(p) /\ Keeps(p)
    BY <1>1, <1>2 DEF Goto, Keeps, Typed, ThreadSet, RestStill, Pc, Child
  <2>. QED BY <2>1, <2>2 DEF Quiet
<1>3. ASSUME NEW c \in proc[p].children,
             \/ State(c) = "Running" /\ proc' = [proc EXCEPT ![c].kill = TRUE] /\ With(p, "await", c)
             \/ /\ State(c) = "Dying" /\ proc' = Watching(p, {c})
                /\ thread' = [thread EXCEPT ![p].pc = "wait", ![p].child = c]
             \/ Dead(c) /\ UNCHANGED proc /\ With(p, "orphan", c)
      PROVE  Quiet(p)
  <2>1. c \in Children(p) /\ c \in Procs
    BY TypedView DEF Children
  <2>2. CASE proc' = [proc EXCEPT ![c].kill = TRUE] /\ With(p, "await", c)
    <3>1. SameProcs
      BY <2>1, <2>2 DEF Typed, ProcSet, SameProcs, SameStates, SameParents, SameChildren,
         SameLocks, SameLists, SameLate, State, Parent, Children, Locked, InList, Late
    <3>2. RestStill(p) /\ Picks(p)
      BY <1>1, <2>1, <2>2 DEF With, Picks, Typed, ThreadSet, RestStill, Pc, Child
    <3>. QED BY <3>1, <3>2 DEF Quiet
  <2>3. CASE proc' = Watching(p, {c}) /\ thread' = [thread EXCEPT ![p].pc = "wait", ![p].child = c]
    <3>1. SameProcs
      BY <1>1, <2>3, WatchingView DEF SameProcs, SameStates, SameParents, SameChildren, SameLocks,
         SameLists, SameLate, State, Parent, Children, Locked, InList, Late
    <3>2. RestStill(p) /\ Picks(p)
      BY <1>1, <2>1, <2>3 DEF Picks, Typed, ThreadSet, RestStill, Pc, Child
    <3>. QED BY <3>1, <3>2 DEF Quiet
  <2>4. CASE UNCHANGED proc /\ With(p, "orphan", c)
    <3>1. SameProcs
      BY <2>4 DEF SameProcs, SameStates, SameParents, SameChildren, SameLocks, SameLists,
         SameLate, State, Parent, Children, Locked, InList, Late
    <3>2. RestStill(p) /\ Picks(p)
      BY <1>1, <2>1, <2>4 DEF With, Picks, Typed, ThreadSet, RestStill, Pc, Child
    <3>. QED BY <3>1, <3>2 DEF Quiet
  <2>. QED BY <1>3, <2>2, <2>3, <2>4
<1>. QED BY <1>2, <1>3 DEF Front

LEMMA KillQuiet == ASSUME Typed, NEW p \in Procs, Kill(p) PROVE Quiet(p)
<1>1. SameProcs
  BY DEF Kill, Typed, ProcSet, SameProcs, SameStates, SameParents, SameChildren, SameLocks,
     SameLists, SameLate, State, Parent, Children, Locked, InList, Late
<1>2. RestStill(p) /\ Keeps(p)
  BY OwnerIs DEF Kill, Keeps, RestStill, Pc, Child
<1>. QED BY <1>1, <1>2 DEF Quiet

-----------------------------------------------------------------------------
(* One thread that moves keeps the ties of all.                            *)
LEMMA ChoosesMove == ASSUME Typed, Ties, NEW t \in Threads, SameProcs, RestStill(t), Chooses(t)
       PROVE  Ties'
<1>1. \A c \in Procs : Unknown(c)'
  BY OwnerIs, TypedView, NamesAssumption DEF Ties, Unknown, Making, Exists, SameProcs, RestStill,
     Chooses, SameStates, SameParents, SameChildren
<1>2. \A c \in Procs : Stage(c)'
  BY OwnerIs, TypedView DEF Ties, Stage, Loop, Waiting, After, Unknown, Making, SameProcs,
     RestStill, Chooses, SameStates, SameLists
<1>3. \A c \in Procs : Orphaned(c)'
  BY OwnerIs, TypedView DEF Ties, Orphaned, SameProcs, RestStill, Chooses, Making, SameParents
<1>4. \A c \in Procs : OnlyLate(c)'
  BY OwnerIs, TypedView DEF Ties, OnlyLate, Past, SameProcs, RestStill, Chooses, Making, SameStates,
     SameChildren, SameLate
<1>5. \A c \in Procs : Tells(c)'
  BY OwnerIs, TypedView DEF Ties, Tells, SameProcs, RestStill, Chooses, Making, SameStates,
     SameParents
<1>6. \A u \in Threads : MakesOne(u)'
  BY OwnerIs, TypedView, NamesAssumption DEF Ties, MakesOne, Making, Unknown, SameProcs, RestStill,
     Chooses, SameStates
<1>7. \A u \in Threads : RaisesOne(u)'
  BY OwnerIs, TypedView DEF Ties, RaisesOne, Raising, MakesOne, Making, SameProcs, RestStill,
     Chooses, SameStates
<1>8. \A u \in Threads : Registers(u)'
  BY OwnerIs, TypedView, NamesAssumption DEF Ties, Registers, SameProcs, RestStill, Chooses, Making,
     SameParents, SameChildren
<1>9. \A u \in Threads : Exists(u)'
  BY OwnerIs, TypedView DEF Ties, Exists, SameProcs, RestStill, Chooses, Making, SameStates
<1>10. \A u \in Threads : Handles(u)'
  BY OwnerIs, TypedView DEF Ties, Handles, Handling, RestStill, Chooses, Making
<1>11. \A u \in Threads : OneHolds(u)'
  BY OwnerIs, TypedView DEF Ties, OneHolds, Holding, SameProcs, RestStill, Chooses, Making,
     SameLocks
<1>12. OneFamily'
  BY OwnerIs, TypedView, NamesAssumption DEF Ties, OneFamily, Related, Unknown, Making, SameProcs,
     RestStill, Chooses, SameChildren, SameParents
<1>13. Agree'
  BY OwnerIs, TypedView, NamesAssumption DEF Ties, Agree, Midway, Unknown, Making, SameProcs,
     RestStill, Chooses, SameChildren, SameParents
<1>. QED BY <1>1, <1>2, <1>3, <1>4, <1>5, <1>6, <1>7, <1>8, <1>9, <1>10, <1>11, <1>12, <1>13 DEF
   Ties

LEMMA LooksMove == ASSUME Typed, Ties, NEW t \in Threads, SameProcs, RestStill(t), Looks(t)
       PROVE  Ties'
<1>1. \A c \in Procs : Unknown(c)'
  BY OwnerIs, TypedView DEF Ties, Unknown, Making, SameProcs, RestStill, Looks, SameStates,
     SameParents, SameChildren
<1>2. \A c \in Procs : Stage(c)'
  BY OwnerIs, TypedView DEF Ties, Stage, Loop, Waiting, After, SameProcs, RestStill, Looks,
     SameStates, SameLists
<1>3. \A c \in Procs : Orphaned(c)'
  BY OwnerIs, TypedView DEF Ties, Orphaned, SameProcs, RestStill, Looks, SameParents
<1>4. \A c \in Procs : OnlyLate(c)'
  BY OwnerIs, TypedView DEF Ties, OnlyLate, Past, SameProcs, RestStill, Looks, SameStates,
     SameChildren, SameLate
<1>5. \A c \in Procs : Tells(c)'
  BY OwnerIs, TypedView DEF Ties, Tells, SameProcs, RestStill, Looks, SameStates, SameParents
<1>6. \A u \in Threads : MakesOne(u)'
  BY OwnerIs, TypedView DEF Ties, MakesOne, Making, SameProcs, RestStill, Looks, SameStates
<1>7. \A u \in Threads : RaisesOne(u)'
  BY OwnerIs, TypedView DEF Ties, RaisesOne, Raising, SameProcs, RestStill, Looks, SameStates
<1>8. \A u \in Threads : Registers(u)'
  BY OwnerIs, TypedView DEF Ties, Registers, SameProcs, RestStill, Looks, SameParents, SameChildren
<1>9. \A u \in Threads : Exists(u)'
  BY OwnerIs, TypedView DEF Ties, Exists, SameProcs, RestStill, Looks, SameStates
<1>10. \A u \in Threads : Handles(u)'
  BY OwnerIs, TypedView DEF Ties, Handles, Handling, RestStill, Looks
<1>11. \A u \in Threads : OneHolds(u)'
  BY OwnerIs, TypedView DEF Ties, OneHolds, Holding, SameProcs, RestStill, Looks, SameLocks
<1>12. OneFamily'
  BY OwnerIs, TypedView DEF Ties, OneFamily, Related, SameProcs, RestStill, Looks, SameChildren,
     SameParents
<1>13. Agree'
  BY OwnerIs, TypedView DEF Ties, Agree, Midway, SameProcs, RestStill, Looks, SameChildren,
     SameParents
<1>. QED BY <1>1, <1>2, <1>3, <1>4, <1>5, <1>6, <1>7, <1>8, <1>9, <1>10, <1>11, <1>12, <1>13 DEF
   Ties

LEMMA PicksMove == ASSUME Typed, Ties, NEW t \in Threads, SameProcs, RestStill(t), Picks(t)
       PROVE  Ties'
<1>1. \A c \in Procs : Unknown(c)'
  BY OwnerIs, TypedView DEF Ties, Unknown, Making, SameProcs, RestStill, Picks, SameStates,
     SameParents, SameChildren
<1>2. \A c \in Procs : Stage(c)'
  BY OwnerIs, TypedView DEF Ties, Stage, Loop, Waiting, After, SameProcs, RestStill, Picks,
     SameStates, SameLists
<1>3. \A c \in Procs : Orphaned(c)'
  BY OwnerIs, TypedView DEF Ties, Orphaned, SameProcs, RestStill, Picks, SameParents
<1>4. \A c \in Procs : OnlyLate(c)'
  BY OwnerIs, TypedView DEF Ties, OnlyLate, Past, SameProcs, RestStill, Picks, SameStates,
     SameChildren, SameLate
<1>5. \A c \in Procs : Tells(c)'
  BY OwnerIs, TypedView DEF Ties, Tells, SameProcs, RestStill, Picks, SameStates, SameParents
<1>6. \A u \in Threads : MakesOne(u)'
  BY OwnerIs, TypedView DEF Ties, MakesOne, Making, Unknown, SameProcs, RestStill, Picks, SameStates
<1>7. \A u \in Threads : RaisesOne(u)'
  BY OwnerIs, TypedView DEF Ties, RaisesOne, Raising, SameProcs, RestStill, Picks, SameStates
<1>8. \A u \in Threads : Registers(u)'
  BY OwnerIs, TypedView DEF Ties, Registers, SameProcs, RestStill, Picks, SameParents, SameChildren
<1>9. \A u \in Threads : Exists(u)'
  BY OwnerIs, TypedView DEF Ties, Exists, SameProcs, RestStill, Picks, SameStates
<1>10. \A u \in Threads : Handles(u)'
  BY OwnerIs, TypedView DEF Ties, Handles, Handling, RestStill, Picks
<1>11. \A u \in Threads : OneHolds(u)'
  BY OwnerIs, TypedView DEF Ties, OneHolds, Holding, SameProcs, RestStill, Picks, SameLocks
<1>12. OneFamily'
  BY OwnerIs, TypedView DEF Ties, OneFamily, Related, SameProcs, RestStill, Picks, SameChildren,
     SameParents
<1>13. Agree'
  BY OwnerIs, TypedView DEF Ties, Agree, Midway, SameProcs, RestStill, Picks, SameChildren,
     SameParents
<1>. QED BY <1>1, <1>2, <1>3, <1>4, <1>5, <1>6, <1>7, <1>8, <1>9, <1>10, <1>11, <1>12, <1>13 DEF
   Ties

LEMMA KeepsMove == ASSUME Typed, Ties, NEW t \in Threads, SameProcs, RestStill(t), Keeps(t)
       PROVE  Ties'
<1>1. \A c \in Procs : Unknown(c)'
  BY OwnerIs, TypedView DEF Ties, Unknown, Making, SameProcs, RestStill, Keeps, Joins, Waiting,
     SameStates, SameParents, SameChildren
<1>2. \A c \in Procs : Stage(c)'
  BY OwnerIs, TypedView DEF Ties, Stage, Loop, Waiting, After, Handles, Handling, SameProcs,
     RestStill, Keeps, Joins, SameStates, SameLists
<1>3. \A c \in Procs : Orphaned(c)'
  BY OwnerIs, TypedView DEF Ties, Orphaned, SameProcs, RestStill, Keeps, Joins, Waiting, SameParents
<1>4. \A c \in Procs : OnlyLate(c)'
  BY OwnerIs, TypedView DEF Ties, OnlyLate, Past, SameProcs, RestStill, Keeps, Joins, Waiting,
     SameStates, SameChildren, SameLate
<1>5. \A c \in Procs : Tells(c)'
  BY OwnerIs, TypedView DEF Ties, Tells, SameProcs, RestStill, Keeps, Joins, Waiting, SameStates,
     SameParents
<1>6. \A u \in Threads : MakesOne(u)'
  BY OwnerIs, TypedView DEF Ties, MakesOne, Making, SameProcs, RestStill, Keeps, Joins, Waiting,
     SameStates
<1>7. \A u \in Threads : RaisesOne(u)'
  BY OwnerIs, TypedView DEF Ties, RaisesOne, Raising, SameProcs, RestStill, Keeps, Joins, Waiting,
     SameStates
<1>8. \A u \in Threads : Registers(u)'
  BY OwnerIs, TypedView DEF Ties, Registers, SameProcs, RestStill, Keeps, Joins, Waiting,
     SameParents, SameChildren
<1>9. \A u \in Threads : Exists(u)'
  BY OwnerIs, TypedView DEF Ties, Exists, SameProcs, RestStill, Keeps, Joins, Waiting, SameStates
<1>10. \A u \in Threads : Handles(u)'
  BY OwnerIs, TypedView DEF Ties, Handles, Handling, Stage, Loop, Waiting, After, RestStill, Keeps,
     Joins
<1>11. \A u \in Threads : OneHolds(u)'
  BY OwnerIs, TypedView DEF Ties, OneHolds, Holding, SameProcs, RestStill, Keeps, Joins, Waiting,
     SameLocks
<1>12. OneFamily'
  BY OwnerIs, TypedView DEF Ties, OneFamily, Related, SameProcs, RestStill, Keeps, Joins, Waiting,
     SameChildren, SameParents
<1>13. Agree'
  BY OwnerIs, TypedView DEF Ties, Agree, Midway, SameProcs, RestStill, Keeps, Joins, Waiting,
     SameChildren, SameParents
<1>. QED BY <1>1, <1>2, <1>3, <1>4, <1>5, <1>6, <1>7, <1>8, <1>9, <1>10, <1>11, <1>12, <1>13 DEF
   Ties

LEMMA LeavesMove == ASSUME Typed, Ties, NEW t \in Threads, SameProcs, RestStill(t), Leaves(t)
       PROVE  Ties'
<1>1. \A c \in Procs : Unknown(c)'
  BY OwnerIs, TypedView, NamesAssumption DEF Ties, Unknown, Making, SameProcs, RestStill, Leaves,
     Joins, SameStates, SameParents, SameChildren
<1>2. \A c \in Procs : Stage(c)'
  BY OwnerIs, TypedView DEF Ties, Stage, Loop, Waiting, After, SameProcs, RestStill, Leaves, Joins,
     SameStates, SameLists
<1>3. \A c \in Procs : Orphaned(c)'
  BY OwnerIs, TypedView DEF Ties, Orphaned, SameProcs, RestStill, Leaves, Joins, SameParents
<1>4. \A c \in Procs : OnlyLate(c)'
  BY OwnerIs, TypedView DEF Ties, OnlyLate, Past, SameProcs, RestStill, Leaves, Joins, SameStates,
     SameChildren, SameLate
<1>5. \A c \in Procs : Tells(c)'
  BY OwnerIs, TypedView DEF Ties, Tells, SameProcs, RestStill, Leaves, Joins, SameStates,
     SameParents
<1>6. \A u \in Threads : MakesOne(u)'
  BY OwnerIs, TypedView, NamesAssumption DEF Ties, MakesOne, Making, SameProcs, RestStill, Leaves,
     Joins, SameStates
<1>7. \A u \in Threads : RaisesOne(u)'
  BY OwnerIs, TypedView DEF Ties, RaisesOne, Raising, SameProcs, RestStill, Leaves, Joins,
     SameStates
<1>8. \A u \in Threads : Registers(u)'
  BY OwnerIs, TypedView, NamesAssumption DEF Ties, Registers, SameProcs, RestStill, Leaves, Joins,
     SameParents, SameChildren
<1>9. \A u \in Threads : Exists(u)'
  BY OwnerIs, TypedView DEF Ties, Exists, SameProcs, RestStill, Leaves, Joins, SameStates
<1>10. \A u \in Threads : Handles(u)'
  BY OwnerIs, TypedView DEF Ties, Handles, Handling, RestStill, Leaves, Joins
<1>11. \A u \in Threads : OneHolds(u)'
  BY OwnerIs, TypedView DEF Ties, OneHolds, Holding, SameProcs, RestStill, Leaves, Joins, SameLocks
<1>12. OneFamily'
  BY OwnerIs, TypedView, NamesAssumption DEF Ties, OneFamily, Related, SameProcs, RestStill, Leaves,
     Joins, SameChildren, SameParents
<1>13. Agree'
  BY OwnerIs, TypedView, NamesAssumption DEF Ties, Agree, Midway, SameProcs, RestStill, Leaves,
     Joins, SameChildren, SameParents
<1>. QED BY <1>1, <1>2, <1>3, <1>4, <1>5, <1>6, <1>7, <1>8, <1>9, <1>10, <1>11, <1>12, <1>13 DEF
   Ties

-----------------------------------------------------------------------------
(* The other steps keep the ties too.                                      *)
LEMMA ForkKeeps == ASSUME Typed, Ties, NEW t \in Threads, ~Panicked, Fork(t) PROVE Ties'
<1>1. Pc(t) = "fork"
  BY DEF Fork, At, Pc
<1>2. Child(t) \in Procs /\ State(Child(t)) = "none" /\ Child(t) # Owner(t) /\ State(Owner(t)) # "none"
  BY <1>1 DEF Ties, MakesOne, Making, Exists
<1>3. Pc(Owner(t)) # "assert"
  BY OwnerIs DEF Panicked, At, Pc
<1>4. /\ \A c \in Procs : State(c)' = IF c = Child(t) THEN "Running" ELSE State(c)
      /\ \A c \in Procs : Parent(c)' = IF c = Child(t) THEN Owner(t) ELSE Parent(c)
      /\ \A c \in Procs : Children(c)' = IF c = Owner(t) THEN Children(Owner(t)) \cup {Child(t)}
                                          ELSE IF c = Child(t) THEN {} ELSE Children(c)
      /\ \A c \in Procs : Locked(c)' <=> c # Child(t) /\ Locked(c)
      /\ \A c \in Procs : InList(c)' <=> c = Child(t) \/ InList(c)
      /\ \A c \in Procs : Late(c)' <=> IF c = Child(t) THEN Pc(Owner(t)) \in Past ELSE Late(c)
      /\ Only(t, "copy", Child(t))
  BY <1>2, OwnerIs, ForkEffect
<1>5. \A c \in Procs : Unknown(c)'
  BY <1>1, <1>2, <1>3, <1>4, OwnerIs, TypedView DEF Ties, Unknown, Making, Only, RestStill
<1>6. \A c \in Procs : Stage(c)'
  BY <1>1, <1>2, <1>3, <1>4, OwnerIs, TypedView DEF Ties, Stage, Loop, Waiting, After, Unknown,
     Making, Only, RestStill
<1>7. \A c \in Procs : Orphaned(c)'
  BY <1>1, <1>2, <1>3, <1>4, OwnerIs, TypedView DEF Ties, Orphaned, Unknown, Making, Only, RestStill
<1>8. \A c \in Procs : OnlyLate(c)'
  BY <1>1, <1>2, <1>3, <1>4, OwnerIs, TypedView DEF Ties, OnlyLate, Past, Unknown, Making, Stage,
     Loop, Waiting, After, Only, RestStill
<1>9. \A c \in Procs : Tells(c)'
  BY <1>1, <1>2, <1>3, <1>4, OwnerIs, TypedView DEF Ties, Tells, Unknown, Making, Only, RestStill
<1>10. \A u \in Threads : MakesOne(u)'
  BY <1>1, <1>2, <1>3, <1>4, OwnerIs, TypedView DEF Ties, MakesOne, Making, Only, RestStill
<1>11. \A u \in Threads : RaisesOne(u)'
  BY <1>1, <1>2, <1>3, <1>4, OwnerIs, TypedView DEF Ties, RaisesOne, Raising, Unknown, Making,
     MakesOne, Only, RestStill
<1>12. \A u \in Threads : Registers(u)'
  BY <1>1, <1>2, <1>3, <1>4, OwnerIs, TypedView DEF Ties, Registers, Unknown, Making, MakesOne,
     Only, RestStill
<1>13. \A u \in Threads : Exists(u)'
  BY <1>1, <1>2, <1>3, <1>4, OwnerIs, TypedView DEF Ties, Exists, Only, RestStill
<1>14. \A u \in Threads : Handles(u)'
  BY <1>1, <1>2, <1>3, <1>4, OwnerIs, TypedView DEF Ties, Handles, Handling, Only, RestStill
<1>15. \A u \in Threads : OneHolds(u)'
  BY <1>1, <1>2, <1>3, <1>4, OwnerIs, TypedView DEF Ties, OneHolds, Holding, Exists, Only, RestStill
<1>16. OneFamily'
  BY <1>1, <1>2, <1>3, <1>4, OwnerIs, TypedView DEF Ties, OneFamily, Related, Unknown, Making,
     Only, RestStill
<1>17. Agree'
  BY <1>1, <1>2, <1>3, <1>4, OwnerIs, TypedView DEF Ties, Agree, Midway, Unknown, Making, Only,
     RestStill
<1>. QED BY <1>5, <1>6, <1>7, <1>8, <1>9, <1>10, <1>11, <1>12, <1>13, <1>14, <1>15, <1>16, <1>17
   DEF Ties

LEMMA CreateKeeps == ASSUME Typed, Ties, NEW t \in Threads, ~Panicked, Create(t) PROVE Ties'
<1>1. Pc(t) = "exec"
  BY DEF Create, At, Pc
<1>2. Child(t) \in Procs /\ State(Child(t)) = "none" /\ Child(t) # Owner(t) /\ State(Owner(t)) # "none"
  BY <1>1 DEF Ties, MakesOne, Making, Exists
<1>3. Pc(Owner(t)) # "assert"
  BY OwnerIs DEF Panicked, At, Pc
<1>4. /\ \A c \in Procs : State(c)' = IF c = Child(t) THEN "Running" ELSE State(c)
      /\ \A c \in Procs : Parent(c)' = IF c = Child(t) THEN Owner(t) ELSE Parent(c)
      /\ \A c \in Procs : Children(c)' = IF c = Child(t) THEN {} ELSE Children(c)
      /\ \A c \in Procs : Locked(c)' <=> c # Child(t) /\ Locked(c)
      /\ \A c \in Procs : InList(c)' <=> c = Child(t) \/ InList(c)
      /\ \A c \in Procs : Late(c)' <=> c # Child(t) /\ Late(c)
      /\ Only(t, "register", Child(t))
  BY <1>2, OwnerIs, CreateEffect
<1>5. \A c \in Procs : Unknown(c)'
  BY <1>1, <1>2, <1>3, <1>4, OwnerIs, TypedView DEF Ties, Unknown, Making, Only, RestStill
<1>6. \A c \in Procs : Stage(c)'
  BY <1>1, <1>2, <1>3, <1>4, OwnerIs, TypedView DEF Ties, Stage, Loop, Waiting, After, Unknown,
     Making, Only, RestStill
<1>7. \A c \in Procs : Orphaned(c)'
  BY <1>1, <1>2, <1>3, <1>4, OwnerIs, TypedView DEF Ties, Orphaned, Unknown, Making, Only, RestStill
<1>8. \A c \in Procs : OnlyLate(c)'
  BY <1>1, <1>2, <1>3, <1>4, OwnerIs, TypedView DEF Ties, OnlyLate, Past, Unknown, Making, Stage,
     Loop, Waiting, After, Only, RestStill
<1>9. \A c \in Procs : Tells(c)'
  BY <1>1, <1>2, <1>3, <1>4, OwnerIs, TypedView DEF Ties, Tells, Unknown, Making, Only, RestStill
<1>10. \A u \in Threads : MakesOne(u)'
  BY <1>1, <1>2, <1>3, <1>4, OwnerIs, TypedView DEF Ties, MakesOne, Making, Only, RestStill
<1>11. \A u \in Threads : RaisesOne(u)'
  BY <1>1, <1>2, <1>3, <1>4, OwnerIs, TypedView DEF Ties, RaisesOne, Raising, Unknown, Making,
     MakesOne, Only, RestStill
<1>12. \A u \in Threads : Registers(u)'
  BY <1>1, <1>2, <1>3, <1>4, OwnerIs, TypedView DEF Ties, Registers, Unknown, Making, MakesOne,
     Only, RestStill
<1>13. \A u \in Threads : Exists(u)'
  BY <1>1, <1>2, <1>3, <1>4, OwnerIs, TypedView DEF Ties, Exists, Only, RestStill
<1>14. \A u \in Threads : Handles(u)'
  BY <1>1, <1>2, <1>3, <1>4, OwnerIs, TypedView DEF Ties, Handles, Handling, Only, RestStill
<1>15. \A u \in Threads : OneHolds(u)'
  BY <1>1, <1>2, <1>3, <1>4, OwnerIs, TypedView DEF Ties, OneHolds, Holding, Exists, Only, RestStill
<1>16. OneFamily'
  BY <1>1, <1>2, <1>3, <1>4, OwnerIs, TypedView DEF Ties, OneFamily, Related, Unknown, Making,
     Only, RestStill
<1>17. Agree'
  BY <1>1, <1>2, <1>3, <1>4, OwnerIs, TypedView DEF Ties, Agree, Midway, Unknown, Making, Only,
     RestStill
<1>. QED BY <1>5, <1>6, <1>7, <1>8, <1>9, <1>10, <1>11, <1>12, <1>13, <1>14, <1>15, <1>16, <1>17
   DEF Ties

LEMMA RegisterChildProcessKeeps ==
  ASSUME Typed, Ties, NEW t \in Threads, ~Panicked, RegisterChildProcess(t)
  PROVE  Ties'
<1>1. Pc(t) = "register"
  BY DEF RegisterChildProcess, At, Pc
<1>2. Child(t) \in Procs /\ State(Child(t)) = "Running" /\ Pc(Child(t)) = "unborn" /\ Child(t) # t
  BY <1>1 DEF Ties, RaisesOne, Raising
<1>3. Pc(Owner(t)) # "assert"
  BY OwnerIs DEF Panicked, At, Pc
<1>4. /\ SameStates /\ SameParents /\ SameLocks /\ SameLists
      /\ \A c \in Procs : Children(c)' = IF c = Owner(t) THEN Children(Owner(t)) \cup {Child(t)} ELSE Children(c)
      /\ \A c \in Procs : Late(c)' <=> IF c = Child(t) THEN Pc(Owner(t)) \in Past ELSE Late(c)
      /\ Only(t, "start", Child(t))
  BY <1>2, OwnerIs, RegisterChildProcessEffect
<1>5. \A c \in Procs : Unknown(c)'
  BY <1>1, <1>2, <1>3, <1>4, OwnerIs, TypedView DEF Ties, Unknown, Making, Exists, Only, RestStill,
     SameStates, SameParents
<1>6. \A c \in Procs : Stage(c)'
  BY <1>1, <1>2, <1>3, <1>4, OwnerIs, TypedView DEF Ties, Stage, Loop, Waiting, After, Only,
     RestStill, SameStates, SameLists
<1>7. \A c \in Procs : Orphaned(c)'
  BY <1>1, <1>2, <1>3, <1>4, OwnerIs, TypedView DEF Ties, Orphaned, Only, RestStill, SameParents
<1>8. \A c \in Procs : OnlyLate(c)'
  BY <1>1, <1>2, <1>3, <1>4, OwnerIs, TypedView DEF Ties, OnlyLate, Past, OneFamily, Related,
     Stage, Loop, Waiting, After, Only, RestStill, SameStates
<1>9. \A c \in Procs : Tells(c)'
  BY <1>1, <1>2, <1>3, <1>4, OwnerIs, TypedView DEF Ties, Tells, Only, RestStill, SameStates,
     SameParents
<1>10. \A u \in Threads : MakesOne(u)'
  BY <1>1, <1>2, <1>3, <1>4, OwnerIs, TypedView DEF Ties, MakesOne, Making, Only, RestStill,
     SameStates
<1>11. \A u \in Threads : RaisesOne(u)'
  BY <1>1, <1>2, <1>3, <1>4, OwnerIs, TypedView DEF Ties, RaisesOne, Raising, Only, RestStill,
     SameStates
<1>12. \A u \in Threads : Registers(u)'
  BY <1>1, <1>2, <1>3, <1>4, OwnerIs, TypedView DEF Ties, Registers, Only, RestStill, SameParents
<1>13. \A u \in Threads : Exists(u)'
  BY <1>1, <1>2, <1>3, <1>4, OwnerIs, TypedView DEF Ties, Exists, Only, RestStill, SameStates
<1>14. \A u \in Threads : Handles(u)'
  BY <1>1, <1>2, <1>3, <1>4, OwnerIs, TypedView DEF Ties, Handles, Handling, Only, RestStill
<1>15. \A u \in Threads : OneHolds(u)'
  BY <1>1, <1>2, <1>3, <1>4, OwnerIs, TypedView DEF Ties, OneHolds, Holding, Only, RestStill,
     SameLocks
<1>16. OneFamily'
  BY <1>1, <1>2, <1>3, <1>4, OwnerIs, TypedView DEF Ties, OneFamily, Related, Only, RestStill,
     SameParents
<1>17. Agree'
  BY <1>1, <1>2, <1>3, <1>4, OwnerIs, TypedView DEF Ties, Agree, Midway, Registers, Only, RestStill,
     SameParents
<1>. QED BY <1>5, <1>6, <1>7, <1>8, <1>9, <1>10, <1>11, <1>12, <1>13, <1>14, <1>15, <1>16, <1>17
   DEF Ties

LEMMA StartKeeps == ASSUME Typed, Ties, NEW t \in Threads, ~Panicked, Start(t) PROVE Ties'
<1>1. Pc(t) = "start"
  BY DEF Start, At, Pc
<1>2. Child(t) \in Procs /\ State(Child(t)) = "Running" /\ Pc(Child(t)) = "unborn" /\ Child(t) # t
  BY <1>1 DEF Ties, RaisesOne, Raising
<1>3. /\ SameProcs
      /\ Pc(t)' \in {"user", "exit"} /\ Child(t)' = None
      /\ \A u \in Threads \ {t} : /\ Child(u)' = Child(u)
                                 /\ \/ Pc(u)' = Pc(u)
                                    \/ u = Child(t) /\ Pc(u) = "unborn" /\ Pc(u)' = "user" 
  BY <1>2, OwnerIs, StartEffect
<1>4. \A c \in Procs : Unknown(c)'
  BY <1>1, <1>2, <1>3, OwnerIs, TypedView, NamesAssumption DEF Ties, Unknown, Making, SameProcs,
     SameStates, SameParents, SameChildren
<1>5. \A c \in Procs : Stage(c)'
  BY <1>1, <1>2, <1>3, OwnerIs, TypedView DEF Ties, Stage, Loop, Waiting, After, SameProcs,
     SameStates, SameLists
<1>6. \A c \in Procs : Orphaned(c)'
  BY <1>1, <1>2, <1>3, OwnerIs, TypedView DEF Ties, Orphaned, SameProcs, SameParents
<1>7. \A c \in Procs : OnlyLate(c)'
  BY <1>1, <1>2, <1>3, OwnerIs, TypedView DEF Ties, OnlyLate, Past, Stage, Loop, Waiting, After,
     SameProcs, SameStates, SameChildren, SameLate
<1>8. \A c \in Procs : Tells(c)'
  BY <1>1, <1>2, <1>3, OwnerIs, TypedView DEF Ties, Tells, SameProcs, SameStates, SameParents
<1>9. \A u \in Threads : MakesOne(u)'
  BY <1>1, <1>2, <1>3, OwnerIs, TypedView, NamesAssumption DEF Ties, MakesOne, Making, SameProcs,
     SameStates
<1>10. \A u \in Threads : RaisesOne(u)'
  BY <1>1, <1>2, <1>3, OwnerIs, TypedView DEF Ties, RaisesOne, Raising, SameProcs, SameStates
<1>11. \A u \in Threads : Registers(u)'
  BY <1>1, <1>2, <1>3, OwnerIs, TypedView, NamesAssumption DEF Ties, Registers, SameProcs,
     SameParents, SameChildren
<1>12. \A u \in Threads : Exists(u)'
  BY <1>1, <1>2, <1>3, OwnerIs, TypedView DEF Ties, Exists, RaisesOne, Raising, SameProcs,
     SameStates
<1>13. \A u \in Threads : Handles(u)'
  BY <1>1, <1>2, <1>3, OwnerIs, TypedView DEF Ties, Handles, Handling
<1>14. \A u \in Threads : OneHolds(u)'
  BY <1>1, <1>2, <1>3, OwnerIs, TypedView DEF Ties, OneHolds, Holding, SameProcs, SameLocks
<1>15. OneFamily'
  BY <1>1, <1>2, <1>3, OwnerIs, TypedView, NamesAssumption DEF Ties, OneFamily, Related,
     SameProcs, SameChildren, SameParents
<1>16. Agree'
  BY <1>1, <1>2, <1>3, OwnerIs, TypedView, NamesAssumption DEF Ties, Agree, Midway, SameProcs,
     SameChildren, SameParents
<1>. QED BY <1>4, <1>5, <1>6, <1>7, <1>8, <1>9, <1>10, <1>11, <1>12, <1>13, <1>14, <1>15, <1>16
   DEF Ties

LEMMA UnparentKeeps == ASSUME Typed, Ties, NEW t \in Threads, ~Panicked, Unparent(t) PROVE Ties'
<1>1. Pc(t) = "unparent"
  BY DEF Unparent, At, Pc
<1>2. Child(t) \in Procs
  BY <1>1, OwnerIs DEF Ties, Handles, Handling
<1>3. ~Locked(Child(t))
  BY DEF Unparent, ChildUnlocked
<1>4. /\ SameStates /\ SameLists /\ SameLate
      /\ \A c \in Procs : Parent(c)' = IF c = Child(t) THEN None ELSE Parent(c)
      /\ \A c \in Procs : Children(c)' = IF c = Owner(t) THEN Children(Owner(t)) \ {Child(t)} ELSE Children(c)
      /\ \A c \in Procs : Locked(c)' <=> c # Owner(t) /\ Locked(c)
      /\ Pc(t)' \in {"user", "exit"} /\ Child(t)' = None /\ RestStill(t)
      /\ proc' \in [Procs -> ProcSet]
  BY <1>2, OwnerIs, UnparentEffect
<1>5. \A c \in Procs : Unknown(c)'
  BY <1>1, <1>2, <1>3, <1>4, OwnerIs, TypedView, NamesAssumption DEF Ties, Unknown, Making,
     RestStill, SameStates
<1>6. \A c \in Procs : Stage(c)'
  BY <1>1, <1>2, <1>3, <1>4, OwnerIs, TypedView DEF Ties, Stage, Loop, Waiting, After, RestStill,
     SameStates, SameLists
<1>7. \A c \in Procs : Orphaned(c)'
  BY <1>1, <1>2, <1>3, <1>4, OwnerIs, TypedView DEF Ties, Orphaned, RestStill
<1>8. \A c \in Procs : OnlyLate(c)'
  BY <1>1, <1>2, <1>3, <1>4, OwnerIs, TypedView DEF Ties, OnlyLate, Past, RestStill, SameStates,
     SameLate
<1>9. \A c \in Procs : Tells(c)'
  BY <1>1, <1>2, <1>3, <1>4, OwnerIs, TypedView DEF Ties, Tells, OneHolds, Holding, RestStill,
     SameStates
<1>10. \A u \in Threads : MakesOne(u)'
  BY <1>1, <1>2, <1>3, <1>4, OwnerIs, TypedView, NamesAssumption DEF Ties, MakesOne, Making,
     RestStill, SameStates
<1>11. \A u \in Threads : RaisesOne(u)'
  BY <1>1, <1>2, <1>3, <1>4, OwnerIs, TypedView DEF Ties, RaisesOne, Raising, RestStill, SameStates
<1>12. \A u \in Threads : Registers(u)'
  BY <1>1, <1>2, <1>3, <1>4, OwnerIs, TypedView, NamesAssumption DEF Ties, Registers, RestStill
<1>13. \A u \in Threads : Exists(u)'
  BY <1>1, <1>2, <1>3, <1>4, OwnerIs, TypedView DEF Ties, Exists, RestStill, SameStates
<1>14. \A u \in Threads : Handles(u)'
  BY <1>1, <1>2, <1>3, <1>4, OwnerIs, TypedView DEF Ties, Handles, Handling, RestStill
<1>15. \A u \in Threads : OneHolds(u)'
  BY <1>1, <1>2, <1>3, <1>4, OwnerIs, TypedView DEF Ties, OneHolds, Holding, RestStill
<1>16. OneFamily'
  BY <1>1, <1>2, <1>3, <1>4, OwnerIs, TypedView, NamesAssumption DEF Ties, OneFamily, Related,
     RestStill
<1>17. Agree'
  BY <1>1, <1>2, <1>3, <1>4, OwnerIs, TypedView, NamesAssumption DEF Ties, Agree, Midway,
     OneFamily, Related, RestStill
<1>. QED BY <1>5, <1>6, <1>7, <1>8, <1>9, <1>10, <1>11, <1>12, <1>13, <1>14, <1>15, <1>16, <1>17
   DEF Ties

LEMMA RemoveKeeps == ASSUME Typed, Ties, NEW t \in Threads, ~Panicked, Remove(t) PROVE Ties'
<1>1. Pc(t) = "remove"
  BY DEF Remove, At, Pc
<1>2. ~Locked(Owner(t))
  BY DEF Remove
<1>3. Child(t) \in Procs
  BY <1>1, OwnerIs DEF Ties, Handles, Handling
<1>4. /\ SameStates /\ SameParents /\ SameChildren /\ SameLists /\ SameLate
      /\ \A c \in Procs : Locked(c)' <=> c = Owner(t) \/ Locked(c)
      /\ Only(t, IF Child(t) \in Children(Owner(t)) THEN "unparent" ELSE "assert", Child(t))
  BY OwnerIs, RemoveEffect
<1>5. \A c \in Procs : Unknown(c)'
  BY <1>1, <1>2, <1>3, <1>4, OwnerIs, TypedView DEF Ties, Unknown, Making, Only, RestStill,
     SameStates, SameParents, SameChildren
<1>6. \A c \in Procs : Stage(c)'
  BY <1>1, <1>2, <1>3, <1>4, OwnerIs, TypedView DEF Ties, Stage, Loop, Waiting, After, Only,
     RestStill, SameStates, SameLists
<1>7. \A c \in Procs : Orphaned(c)'
  BY <1>1, <1>2, <1>3, <1>4, OwnerIs, TypedView DEF Ties, Orphaned, Only, RestStill, SameParents
<1>8. \A c \in Procs : OnlyLate(c)'
  BY <1>1, <1>2, <1>3, <1>4, OwnerIs, TypedView DEF Ties, OnlyLate, Past, Only, RestStill,
     SameStates, SameChildren, SameLate
<1>9. \A c \in Procs : Tells(c)'
  BY <1>1, <1>2, <1>3, <1>4, OwnerIs, TypedView DEF Ties, Tells, Only, RestStill, SameStates,
     SameParents
<1>10. \A u \in Threads : MakesOne(u)'
  BY <1>1, <1>2, <1>3, <1>4, OwnerIs, TypedView DEF Ties, MakesOne, Making, Only, RestStill,
     SameStates
<1>11. \A u \in Threads : RaisesOne(u)'
  BY <1>1, <1>2, <1>3, <1>4, OwnerIs, TypedView DEF Ties, RaisesOne, Raising, Only, RestStill,
     SameStates
<1>12. \A u \in Threads : Registers(u)'
  BY <1>1, <1>2, <1>3, <1>4, OwnerIs, TypedView DEF Ties, Registers, Only, RestStill, SameParents,
     SameChildren
<1>13. \A u \in Threads : Exists(u)'
  BY <1>1, <1>2, <1>3, <1>4, OwnerIs, TypedView DEF Ties, Exists, Only, RestStill, SameStates
<1>14. \A u \in Threads : Handles(u)'
  BY <1>1, <1>2, <1>3, <1>4, OwnerIs, TypedView DEF Ties, Handles, Handling, Only, RestStill
<1>15. \A u \in Threads : OneHolds(u)'
  BY <1>1, <1>2, <1>3, <1>4, OwnerIs, TypedView DEF Ties, OneHolds, Holding, Only, RestStill
<1>16. OneFamily'
  BY <1>1, <1>2, <1>3, <1>4, OwnerIs, TypedView DEF Ties, OneFamily, Related, Only, RestStill,
     SameChildren, SameParents
<1>17. Agree'
  BY <1>1, <1>2, <1>3, <1>4, OwnerIs, TypedView DEF Ties, Agree, Midway, Only, RestStill,
     SameChildren, SameParents
<1>. QED BY <1>5, <1>6, <1>7, <1>8, <1>9, <1>10, <1>11, <1>12, <1>13, <1>14, <1>15, <1>16, <1>17
   DEF Ties

LEMMA DieBeginKeeps == ASSUME Typed, Ties, NEW p \in Procs, ~Panicked, DieBegin(p) PROVE Ties'
<1>1. Pc(p) \in {"user", "exit"} /\ State(p) = "Running"
  BY DEF DieBegin, At, Pc
<1>2. /\ SameParents /\ SameChildren /\ SameLocks /\ SameLists /\ SameLate
      /\ \A c \in Procs : State(c)' = IF c = p THEN "Dying" ELSE State(c)
      /\ Only(p, NextChild(Children(p)), None)
  BY OwnerIs, DieBeginEffect
<1>3. \A c \in Procs : Unknown(c)'
  BY <1>1, <1>2, OwnerIs, TypedView, NamesAssumption DEF Ties, Unknown, Making, Only, RestStill,
     NextChild, SameParents, SameChildren
<1>4. \A c \in Procs : Stage(c)'
  BY <1>1, <1>2, OwnerIs, TypedView DEF Ties, Stage, Loop, Waiting, After, Only, RestStill,
     NextChild, SameLists
<1>5. \A c \in Procs : Orphaned(c)'
  BY <1>1, <1>2, OwnerIs, TypedView DEF Ties, Orphaned, Only, RestStill, NextChild, SameParents
<1>6. \A c \in Procs : OnlyLate(c)'
  BY <1>1, <1>2, OwnerIs, TypedView DEF Ties, OnlyLate, Past, Only, RestStill, NextChild,
     SameChildren, SameLate
<1>7. \A c \in Procs : Tells(c)'
  BY <1>1, <1>2, OwnerIs, TypedView DEF Ties, Tells, Only, RestStill, NextChild, SameParents
<1>8. \A u \in Threads : MakesOne(u)'
  BY <1>1, <1>2, OwnerIs, TypedView, NamesAssumption DEF Ties, MakesOne, Making, Only, RestStill,
     NextChild
<1>9. \A u \in Threads : RaisesOne(u)'
  BY <1>1, <1>2, OwnerIs, TypedView DEF Ties, RaisesOne, Raising, Only, RestStill, NextChild
<1>10. \A u \in Threads : Registers(u)'
  BY <1>1, <1>2, OwnerIs, TypedView, NamesAssumption DEF Ties, Registers, Only, RestStill,
     NextChild, SameParents, SameChildren
<1>11. \A u \in Threads : Exists(u)'
  BY <1>1, <1>2, OwnerIs, TypedView DEF Ties, Exists, Only, RestStill, NextChild
<1>12. \A u \in Threads : Handles(u)'
  BY <1>1, <1>2, OwnerIs, TypedView DEF Ties, Handles, Handling, Only, RestStill, NextChild
<1>13. \A u \in Threads : OneHolds(u)'
  BY <1>1, <1>2, OwnerIs, TypedView DEF Ties, OneHolds, Holding, Only, RestStill, NextChild,
     SameLocks
<1>14. OneFamily'
  BY <1>1, <1>2, OwnerIs, TypedView, NamesAssumption DEF Ties, OneFamily, Related, Only, RestStill,
     NextChild, SameChildren, SameParents
<1>15. Agree'
  BY <1>1, <1>2, OwnerIs, TypedView, NamesAssumption DEF Ties, Agree, Midway, Only, RestStill,
     NextChild, SameChildren, SameParents
<1>. QED BY <1>3, <1>4, <1>5, <1>6, <1>7, <1>8, <1>9, <1>10, <1>11, <1>12, <1>13, <1>14, <1>15 DEF
   Ties

LEMMA OrphanKeeps == ASSUME Typed, Ties, NEW p \in Procs, ~Panicked, Orphan(p) PROVE Ties'
<1>1. Pc(p) = "orphan"
  BY DEF Orphan, At, Pc
<1>2. Child(p) \in Procs
  BY <1>1, OwnerIs DEF Ties, Handles, Handling
<1>3. State(p) = "Dying"
  BY <1>1 DEF Ties, Stage, Loop
<1>4. /\ SameStates /\ SameChildren /\ SameLocks /\ SameLists /\ SameLate
      /\ \A c \in Procs : Parent(c)' = IF c = Child(p) THEN None ELSE Parent(c)
      /\ Only(p, "drop", Child(p))
  BY <1>2, OwnerIs, OrphanEffect
<1>5. \A c \in Procs : Unknown(c)'
  BY <1>1, <1>2, <1>3, <1>4, OwnerIs, TypedView, NamesAssumption DEF Ties, Unknown, Making, Only,
     RestStill, SameStates, SameChildren
<1>6. \A c \in Procs : Stage(c)'
  BY <1>1, <1>2, <1>3, <1>4, OwnerIs, TypedView DEF Ties, Stage, Loop, Waiting, After, Only,
     RestStill, SameStates, SameLists
<1>7. \A c \in Procs : Orphaned(c)'
  BY <1>1, <1>2, <1>3, <1>4, OwnerIs, TypedView DEF Ties, Orphaned, Only, RestStill
<1>8. \A c \in Procs : OnlyLate(c)'
  BY <1>1, <1>2, <1>3, <1>4, OwnerIs, TypedView DEF Ties, OnlyLate, Past, Only, RestStill,
     SameStates, SameChildren, SameLate
<1>9. \A c \in Procs : Tells(c)'
  BY <1>1, <1>2, <1>3, <1>4, OwnerIs, TypedView DEF Ties, Tells, OneFamily, Related, Only,
     RestStill, SameStates
<1>10. \A u \in Threads : MakesOne(u)'
  BY <1>1, <1>2, <1>3, <1>4, OwnerIs, TypedView, NamesAssumption DEF Ties, MakesOne, Making, Only,
     RestStill, SameStates
<1>11. \A u \in Threads : RaisesOne(u)'
  BY <1>1, <1>2, <1>3, <1>4, OwnerIs, TypedView DEF Ties, RaisesOne, Raising, Only, RestStill,
     SameStates
<1>12. \A u \in Threads : Registers(u)'
  BY <1>1, <1>2, <1>3, <1>4, OwnerIs, TypedView, NamesAssumption DEF Ties, Registers, Only,
     RestStill, SameChildren
<1>13. \A u \in Threads : Exists(u)'
  BY <1>1, <1>2, <1>3, <1>4, OwnerIs, TypedView DEF Ties, Exists, Only, RestStill, SameStates
<1>14. \A u \in Threads : Handles(u)'
  BY <1>1, <1>2, <1>3, <1>4, OwnerIs, TypedView DEF Ties, Handles, Handling, Only, RestStill
<1>15. \A u \in Threads : OneHolds(u)'
  BY <1>1, <1>2, <1>3, <1>4, OwnerIs, TypedView DEF Ties, OneHolds, Holding, Only, RestStill,
     SameLocks
<1>16. OneFamily'
  BY <1>1, <1>2, <1>3, <1>4, OwnerIs, TypedView, NamesAssumption DEF Ties, OneFamily, Related,
     Only, RestStill, SameChildren
<1>17. Agree'
  BY <1>1, <1>2, <1>3, <1>4, OwnerIs, TypedView, NamesAssumption DEF Ties, Agree, Midway, Only,
     RestStill, SameChildren
<1>. QED BY <1>5, <1>6, <1>7, <1>8, <1>9, <1>10, <1>11, <1>12, <1>13, <1>14, <1>15, <1>16, <1>17
   DEF Ties

LEMMA DropKeeps == ASSUME Typed, Ties, NEW p \in Procs, ~Panicked, Drop(p) PROVE Ties'
<1>1. Pc(p) = "drop"
  BY DEF Drop, At, Pc
<1>2. Child(p) \in Procs
  BY <1>1, OwnerIs DEF Ties, Handles, Handling
<1>3. State(p) = "Dying"
  BY <1>1 DEF Ties, Stage, Loop
<1>4. /\ SameStates /\ SameParents /\ SameLocks /\ SameLists /\ SameLate
      /\ \A c \in Procs : Children(c)' = IF c = p THEN Children(p) \ {Child(p)} ELSE Children(c)
      /\ Only(p, NextChild(Children(p) \ {Child(p)}), None)
  BY <1>2, OwnerIs, DropEffect
<1>5. \A c \in Procs : Unknown(c)'
  BY <1>1, <1>2, <1>3, <1>4, OwnerIs, TypedView, NamesAssumption DEF Ties, Unknown, Making, Only,
     RestStill, NextChild, SameStates, SameParents
<1>6. \A c \in Procs : Stage(c)'
  BY <1>1, <1>2, <1>3, <1>4, OwnerIs, TypedView DEF Ties, Stage, Loop, Waiting, After, Only,
     RestStill, NextChild, SameStates, SameLists
<1>7. \A c \in Procs : Orphaned(c)'
  BY <1>1, <1>2, <1>3, <1>4, OwnerIs, TypedView DEF Ties, Orphaned, Only, RestStill, NextChild,
     SameParents
<1>8. \A c \in Procs : OnlyLate(c)'
  BY <1>1, <1>2, <1>3, <1>4, OwnerIs, TypedView DEF Ties, OnlyLate, Past, Only, RestStill,
     NextChild, SameStates, SameLate
<1>9. \A c \in Procs : Tells(c)'
  BY <1>1, <1>2, <1>3, <1>4, OwnerIs, TypedView DEF Ties, Tells, Only, RestStill, NextChild,
     SameStates, SameParents
<1>10. \A u \in Threads : MakesOne(u)'
  BY <1>1, <1>2, <1>3, <1>4, OwnerIs, TypedView, NamesAssumption DEF Ties, MakesOne, Making, Only,
     RestStill, NextChild, SameStates
<1>11. \A u \in Threads : RaisesOne(u)'
  BY <1>1, <1>2, <1>3, <1>4, OwnerIs, TypedView DEF Ties, RaisesOne, Raising, Only, RestStill,
     NextChild, SameStates
<1>12. \A u \in Threads : Registers(u)'
  BY <1>1, <1>2, <1>3, <1>4, OwnerIs, TypedView, NamesAssumption DEF Ties, Registers, Only,
     RestStill, NextChild, SameParents
<1>13. \A u \in Threads : Exists(u)'
  BY <1>1, <1>2, <1>3, <1>4, OwnerIs, TypedView DEF Ties, Exists, Only, RestStill, NextChild,
     SameStates
<1>14. \A u \in Threads : Handles(u)'
  BY <1>1, <1>2, <1>3, <1>4, OwnerIs, TypedView DEF Ties, Handles, Handling, Only, RestStill,
     NextChild
<1>15. \A u \in Threads : OneHolds(u)'
  BY <1>1, <1>2, <1>3, <1>4, OwnerIs, TypedView DEF Ties, OneHolds, Holding, Only, RestStill,
     NextChild, SameLocks
<1>16. OneFamily'
  BY <1>1, <1>2, <1>3, <1>4, OwnerIs, TypedView, NamesAssumption DEF Ties, OneFamily, Related,
     Only, RestStill, NextChild, SameParents
<1>17. Agree'
  BY <1>1, <1>2, <1>3, <1>4, OwnerIs, TypedView, NamesAssumption DEF Ties, Agree, Midway,
     OneFamily, Related, Orphaned, Only, RestStill, NextChild, SameParents
<1>. QED BY <1>5, <1>6, <1>7, <1>8, <1>9, <1>10, <1>11, <1>12, <1>13, <1>14, <1>15, <1>16, <1>17
   DEF Ties

LEMMA KillThreadsKeeps == ASSUME Typed, Ties, NEW p \in Procs, ~Panicked, KillThreads(p)
       PROVE  Ties'
<1>1. Pc(p) = "threads"
  BY DEF KillThreads, At, Pc
<1>2. ~Locked(p)
  BY DEF KillThreads
<1>3. /\ SameStates /\ SameParents /\ SameChildren /\ SameLists /\ SameLate
      /\ \A c \in Procs : Locked(c)' <=> c = p \/ Locked(c)
      /\ Only(p, "set_dead", Child(p))
  BY OwnerIs, KillThreadsEffect
<1>4. \A c \in Procs : Unknown(c)'
  BY <1>1, <1>2, <1>3, OwnerIs, TypedView DEF Ties, Unknown, Making, Only, RestStill, SameStates,
     SameParents, SameChildren
<1>5. \A c \in Procs : Stage(c)'
  BY <1>1, <1>2, <1>3, OwnerIs, TypedView DEF Ties, Stage, Loop, Waiting, After, Only, RestStill,
     SameStates, SameLists
<1>6. \A c \in Procs : Orphaned(c)'
  BY <1>1, <1>2, <1>3, OwnerIs, TypedView DEF Ties, Orphaned, Only, RestStill, SameParents
<1>7. \A c \in Procs : OnlyLate(c)'
  BY <1>1, <1>2, <1>3, OwnerIs, TypedView DEF Ties, OnlyLate, Past, Only, RestStill, SameStates,
     SameChildren, SameLate
<1>8. \A c \in Procs : Tells(c)'
  BY <1>1, <1>2, <1>3, OwnerIs, TypedView DEF Ties, Tells, Only, RestStill, SameStates, SameParents
<1>9. \A u \in Threads : MakesOne(u)'
  BY <1>1, <1>2, <1>3, OwnerIs, TypedView DEF Ties, MakesOne, Making, Only, RestStill, SameStates
<1>10. \A u \in Threads : RaisesOne(u)'
  BY <1>1, <1>2, <1>3, OwnerIs, TypedView DEF Ties, RaisesOne, Raising, Only, RestStill, SameStates
<1>11. \A u \in Threads : Registers(u)'
  BY <1>1, <1>2, <1>3, OwnerIs, TypedView DEF Ties, Registers, Only, RestStill, SameParents,
     SameChildren
<1>12. \A u \in Threads : Exists(u)'
  BY <1>1, <1>2, <1>3, OwnerIs, TypedView DEF Ties, Exists, Only, RestStill, SameStates
<1>13. \A u \in Threads : Handles(u)'
  BY <1>1, <1>2, <1>3, OwnerIs, TypedView DEF Ties, Handles, Handling, Only, RestStill
<1>14. \A u \in Threads : OneHolds(u)'
  BY <1>1, <1>2, <1>3, OwnerIs, TypedView DEF Ties, OneHolds, Holding, Only, RestStill
<1>15. OneFamily'
  BY <1>1, <1>2, <1>3, OwnerIs, TypedView DEF Ties, OneFamily, Related, Only, RestStill,
     SameChildren, SameParents
<1>16. Agree'
  BY <1>1, <1>2, <1>3, OwnerIs, TypedView DEF Ties, Agree, Midway, Only, RestStill, SameChildren,
     SameParents
<1>. QED BY <1>4, <1>5, <1>6, <1>7, <1>8, <1>9, <1>10, <1>11, <1>12, <1>13, <1>14, <1>15, <1>16
   DEF Ties

LEMMA SetDeadKeeps == ASSUME Typed, Ties, NEW p \in Procs, ~Panicked, SetDead(p) PROVE Ties'
<1>1. Pc(p) = "set_dead"
  BY DEF SetDead, At, Pc
<1>2. State(p) = "Dying"
  BY <1>1 DEF Ties, Stage, Loop
<1>3. /\ SameParents /\ SameChildren /\ SameLocks /\ SameLists /\ SameLate
      /\ \A c \in Procs : State(c)' = IF c = p THEN "Dead" ELSE State(c)
      /\ Pc(p)' = "tell"
      /\ \A u \in Threads : Child(u)' = Child(u)
      /\ \A u \in Threads \ {p} : Pc(u)' = Pc(u) \/ (Pc(u) = "blocked" /\ Pc(u)' = "woken")
  BY OwnerIs, SetDeadEffect
<1>4. \A c \in Procs : Unknown(c)'
  BY <1>1, <1>2, <1>3, OwnerIs, TypedView DEF Ties, Unknown, Making, RestStill, SameParents,
     SameChildren
<1>5. \A c \in Procs : Stage(c)'
  BY <1>1, <1>2, <1>3, OwnerIs, TypedView DEF Ties, Stage, Loop, Waiting, After, RestStill,
     SameLists
<1>6. \A c \in Procs : Orphaned(c)'
  BY <1>1, <1>2, <1>3, OwnerIs, TypedView DEF Ties, Orphaned, RestStill, SameParents
<1>7. \A c \in Procs : OnlyLate(c)'
  BY <1>1, <1>2, <1>3, OwnerIs, TypedView DEF Ties, OnlyLate, Past, RestStill, SameChildren,
     SameLate
<1>8. \A c \in Procs : Tells(c)'
  BY <1>1, <1>2, <1>3, OwnerIs, TypedView DEF Ties, Tells, RestStill, SameParents
<1>9. \A u \in Threads : MakesOne(u)'
  BY <1>1, <1>2, <1>3, OwnerIs, TypedView DEF Ties, MakesOne, Making, RestStill
<1>10. \A u \in Threads : RaisesOne(u)'
  BY <1>1, <1>2, <1>3, OwnerIs, TypedView DEF Ties, RaisesOne, Raising, OneHolds, Holding, Stage,
     Loop, Waiting, After, RestStill
<1>11. \A u \in Threads : Registers(u)'
  BY <1>1, <1>2, <1>3, OwnerIs, TypedView DEF Ties, Registers, RestStill, SameParents, SameChildren
<1>12. \A u \in Threads : Exists(u)'
  BY <1>1, <1>2, <1>3, OwnerIs, TypedView DEF Ties, Exists, RestStill
<1>13. \A u \in Threads : Handles(u)'
  BY <1>1, <1>2, <1>3, OwnerIs, TypedView DEF Ties, Handles, Handling, RestStill
<1>14. \A u \in Threads : OneHolds(u)'
  BY <1>1, <1>2, <1>3, OwnerIs, TypedView DEF Ties, OneHolds, Holding, RestStill, SameLocks
<1>15. OneFamily'
  BY <1>1, <1>2, <1>3, OwnerIs, TypedView DEF Ties, OneFamily, Related, RestStill, SameChildren,
     SameParents
<1>16. Agree'
  BY <1>1, <1>2, <1>3, OwnerIs, TypedView DEF Ties, Agree, Midway, RestStill, SameChildren,
     SameParents
<1>. QED BY <1>4, <1>5, <1>6, <1>7, <1>8, <1>9, <1>10, <1>11, <1>12, <1>13, <1>14, <1>15, <1>16
   DEF Ties

LEMMA MarkProcessForDestructionKeeps ==
  ASSUME Typed, Ties, NEW p \in Procs, ~Panicked, MarkProcessForDestruction(p)
  PROVE  Ties'
<1>1. Pc(p) = "mark"
  BY DEF MarkProcessForDestruction, At, Pc
<1>2. State(p) = "Dead"
  BY <1>1 DEF Ties, Stage, After
<1>3. /\ SameStates /\ SameParents /\ SameChildren /\ SameLocks /\ SameLate
      /\ \A c \in Procs : InList(c)' <=> c # p /\ InList(c)
      /\ Only(p, "final", Child(p))
  BY OwnerIs, MarkProcessForDestructionEffect
<1>4. \A c \in Procs : Unknown(c)'
  BY <1>1, <1>2, <1>3, OwnerIs, TypedView DEF Ties, Unknown, Making, Only, RestStill, SameStates,
     SameParents, SameChildren
<1>5. \A c \in Procs : Stage(c)'
  BY <1>1, <1>2, <1>3, OwnerIs, TypedView DEF Ties, Stage, Loop, Waiting, After, Only, RestStill,
     SameStates
<1>6. \A c \in Procs : Orphaned(c)'
  BY <1>1, <1>2, <1>3, OwnerIs, TypedView DEF Ties, Orphaned, Only, RestStill, SameParents
<1>7. \A c \in Procs : OnlyLate(c)'
  BY <1>1, <1>2, <1>3, OwnerIs, TypedView DEF Ties, OnlyLate, Past, Only, RestStill, SameStates,
     SameChildren, SameLate
<1>8. \A c \in Procs : Tells(c)'
  BY <1>1, <1>2, <1>3, OwnerIs, TypedView DEF Ties, Tells, Only, RestStill, SameStates, SameParents
<1>9. \A u \in Threads : MakesOne(u)'
  BY <1>1, <1>2, <1>3, OwnerIs, TypedView DEF Ties, MakesOne, Making, Only, RestStill, SameStates
<1>10. \A u \in Threads : RaisesOne(u)'
  BY <1>1, <1>2, <1>3, OwnerIs, TypedView DEF Ties, RaisesOne, Raising, Only, RestStill, SameStates
<1>11. \A u \in Threads : Registers(u)'
  BY <1>1, <1>2, <1>3, OwnerIs, TypedView DEF Ties, Registers, Only, RestStill, SameParents,
     SameChildren
<1>12. \A u \in Threads : Exists(u)'
  BY <1>1, <1>2, <1>3, OwnerIs, TypedView DEF Ties, Exists, Only, RestStill, SameStates
<1>13. \A u \in Threads : Handles(u)'
  BY <1>1, <1>2, <1>3, OwnerIs, TypedView DEF Ties, Handles, Handling, Only, RestStill
<1>14. \A u \in Threads : OneHolds(u)'
  BY <1>1, <1>2, <1>3, OwnerIs, TypedView DEF Ties, OneHolds, Holding, Only, RestStill, SameLocks
<1>15. OneFamily'
  BY <1>1, <1>2, <1>3, OwnerIs, TypedView DEF Ties, OneFamily, Related, Only, RestStill,
     SameChildren, SameParents
<1>16. Agree'
  BY <1>1, <1>2, <1>3, OwnerIs, TypedView DEF Ties, Agree, Midway, Only, RestStill, SameChildren,
     SameParents
<1>. QED BY <1>4, <1>5, <1>6, <1>7, <1>8, <1>9, <1>10, <1>11, <1>12, <1>13, <1>14, <1>15, <1>16
   DEF Ties

LEMMA FinalKeeps == ASSUME Typed, Ties, NEW p \in Procs, ~Panicked, Final(p) PROVE Ties'
<1>1. Pc(p) = "final"
  BY DEF Final, At, Pc
<1>2. /\ SameStates /\ SameParents /\ SameChildren /\ SameLists /\ SameLate
      /\ \A c \in Procs : Locked(c)' <=> c # p /\ Locked(c)
      /\ Only(p, "gone", Child(p))
  BY OwnerIs, FinalEffect
<1>3. \A c \in Procs : Unknown(c)'
  BY <1>1, <1>2, OwnerIs, TypedView DEF Ties, Unknown, Making, Only, RestStill, SameStates,
     SameParents, SameChildren
<1>4. \A c \in Procs : Stage(c)'
  BY <1>1, <1>2, OwnerIs, TypedView DEF Ties, Stage, Loop, Waiting, After, Only, RestStill,
     SameStates, SameLists
<1>5. \A c \in Procs : Orphaned(c)'
  BY <1>1, <1>2, OwnerIs, TypedView DEF Ties, Orphaned, Only, RestStill, SameParents
<1>6. \A c \in Procs : OnlyLate(c)'
  BY <1>1, <1>2, OwnerIs, TypedView DEF Ties, OnlyLate, Past, Only, RestStill, SameStates,
     SameChildren, SameLate
<1>7. \A c \in Procs : Tells(c)'
  BY <1>1, <1>2, OwnerIs, TypedView DEF Ties, Tells, Only, RestStill, SameStates, SameParents
<1>8. \A u \in Threads : MakesOne(u)'
  BY <1>1, <1>2, OwnerIs, TypedView DEF Ties, MakesOne, Making, Only, RestStill, SameStates
<1>9. \A u \in Threads : RaisesOne(u)'
  BY <1>1, <1>2, OwnerIs, TypedView DEF Ties, RaisesOne, Raising, Only, RestStill, SameStates
<1>10. \A u \in Threads : Registers(u)'
  BY <1>1, <1>2, OwnerIs, TypedView DEF Ties, Registers, Only, RestStill, SameParents, SameChildren
<1>11. \A u \in Threads : Exists(u)'
  BY <1>1, <1>2, OwnerIs, TypedView DEF Ties, Exists, Only, RestStill, SameStates
<1>12. \A u \in Threads : Handles(u)'
  BY <1>1, <1>2, OwnerIs, TypedView DEF Ties, Handles, Handling, Only, RestStill
<1>13. \A u \in Threads : OneHolds(u)'
  BY <1>1, <1>2, OwnerIs, TypedView DEF Ties, OneHolds, Holding, Only, RestStill
<1>14. OneFamily'
  BY <1>1, <1>2, OwnerIs, TypedView DEF Ties, OneFamily, Related, Only, RestStill, SameChildren,
     SameParents
<1>15. Agree'
  BY <1>1, <1>2, OwnerIs, TypedView DEF Ties, Agree, Midway, Only, RestStill, SameChildren,
     SameParents
<1>. QED BY <1>3, <1>4, <1>5, <1>6, <1>7, <1>8, <1>9, <1>10, <1>11, <1>12, <1>13, <1>14, <1>15 DEF
   Ties

LEMMA TakeKeeps == ASSUME Typed, Ties, NEW t \in Threads, ~Panicked, Take(t) PROVE Ties'
<1>1. Pc(t) \in {"scan", "rescan"}
  BY DEF Take, At, Pc
<1>2. ~Locked(Owner(t))
  BY DEF Take
<1>3. PICK d \in Children(Owner(t)) :
        /\ d \in Procs /\ State(d) = "Dead"
        /\ SameStates /\ SameParents /\ SameLists /\ SameLate
        /\ \A c \in Procs : Children(c)' = IF c = Owner(t) THEN Children(Owner(t)) \ {d} ELSE Children(c)
        /\ \A c \in Procs : Locked(c)' <=> c = Owner(t) \/ Locked(c)
        /\ Only(t, "unparent", d)
  BY TakeEffect
<1>4. \A c \in Procs : Unknown(c)'
  BY <1>1, <1>2, <1>3, OwnerIs, TypedView DEF Ties, Unknown, Making, Only, RestStill, SameStates,
     SameParents
<1>5. \A c \in Procs : Stage(c)'
  BY <1>1, <1>2, <1>3, OwnerIs, TypedView DEF Ties, Stage, Loop, Waiting, After, Only, RestStill,
     SameStates, SameLists
<1>6. \A c \in Procs : Orphaned(c)'
  BY <1>1, <1>2, <1>3, OwnerIs, TypedView DEF Ties, Orphaned, Only, RestStill, SameParents
<1>7. \A c \in Procs : OnlyLate(c)'
  BY <1>1, <1>2, <1>3, OwnerIs, TypedView DEF Ties, OnlyLate, Past, Only, RestStill, SameStates,
     SameLate
<1>8. \A c \in Procs : Tells(c)'
  BY <1>1, <1>2, <1>3, OwnerIs, TypedView DEF Ties, Tells, Only, RestStill, SameStates, SameParents
<1>9. \A u \in Threads : MakesOne(u)'
  BY <1>1, <1>2, <1>3, OwnerIs, TypedView DEF Ties, MakesOne, Making, Unknown, Only, RestStill,
     SameStates
<1>10. \A u \in Threads : RaisesOne(u)'
  BY <1>1, <1>2, <1>3, OwnerIs, TypedView DEF Ties, RaisesOne, Raising, Only, RestStill, SameStates
<1>11. \A u \in Threads : Registers(u)'
  BY <1>1, <1>2, <1>3, OwnerIs, TypedView DEF Ties, Registers, Only, RestStill, SameParents
<1>12. \A u \in Threads : Exists(u)'
  BY <1>1, <1>2, <1>3, OwnerIs, TypedView DEF Ties, Exists, Only, RestStill, SameStates
<1>13. \A u \in Threads : Handles(u)'
  BY <1>1, <1>2, <1>3, OwnerIs, TypedView DEF Ties, Handles, Handling, Only, RestStill
<1>14. \A u \in Threads : OneHolds(u)'
  BY <1>1, <1>2, <1>3, OwnerIs, TypedView DEF Ties, OneHolds, Holding, Only, RestStill
<1>15. OneFamily'
  BY <1>1, <1>2, <1>3, OwnerIs, TypedView DEF Ties, OneFamily, Related, Only, RestStill, SameParents
<1>16. Agree'
  BY <1>1, <1>2, <1>3, OwnerIs, TypedView DEF Ties, Agree, Midway, Only, RestStill, SameParents
<1>. QED BY <1>4, <1>5, <1>6, <1>7, <1>8, <1>9, <1>10, <1>11, <1>12, <1>13, <1>14, <1>15, <1>16
   DEF Ties

-----------------------------------------------------------------------------
(* Types.  A field of a process or of a thread is given one of its values. *)
LEMMA ProcFields == ASSUME NEW r \in ProcSet PROVE
  /\ r.children \in SUBSET Procs /\ r.watching \in SUBSET Threads /\ r.kill \in BOOLEAN
  /\ \A x \in {"none", "Running", "Dying", "Dead"} : [r EXCEPT !.state = x] \in ProcSet
  /\ \A x \in Procs \cup {None} : [r EXCEPT !.parent = x] \in ProcSet
  /\ \A x \in SUBSET Procs : [r EXCEPT !.children = x] \in ProcSet
  /\ \A x \in SUBSET Threads : [r EXCEPT !.watching = x] \in ProcSet
  /\ \A x \in BOOLEAN : /\ [r EXCEPT !.lock = x] \in ProcSet /\ [r EXCEPT !.listed = x] \in ProcSet
                       /\ [r EXCEPT !.kill = x] \in ProcSet /\ [r EXCEPT !.late = x] \in ProcSet
                       /\ [r EXCEPT !.lost = x] \in ProcSet
BY DEF ProcSet

LEMMA NewbornTyped == ASSUME NEW p \in Procs \cup {None} PROVE Newborn(p) \in ProcSet
BY DEF Newborn, Unborn, ProcSet

LEMMA Counted == Cardinality(Procs) \in Nat
BY NamesAssumption, FS_CardinalityType

LEMMA ThreadFields == ASSUME NEW r \in ThreadSet PROVE
  /\ r.value \in -2 .. Cardinality(Procs)
  /\ \A x \in Locs : [r EXCEPT !.pc = x] \in ThreadSet
  /\ \A x \in Procs \cup {None} : [r EXCEPT !.child = x] \in ThreadSet
  /\ \A x \in -2 .. Cardinality(Procs) : [r EXCEPT !.value = x] \in ThreadSet
  /\ \A x \in BOOLEAN : [r EXCEPT !.interrupted = x] \in ThreadSet
BY DEF ThreadSet

LEMMA IdleTyped == /\ \A loc \in Locs : Idle(loc) \in ThreadSet
                   /\ \A t \in Threads : Idle(Outside(t)) \in ThreadSet
BY Counted DEF Idle, Outside, ThreadSet, Locs

LEMMA MovesTyped == ASSUME Typed PROVE
  /\ \A t \in Threads, loc \in Locs : Goto(t, loc) => thread' \in [Threads -> ThreadSet]
  /\ \A t \in Threads, loc \in Locs, c \in Procs \cup {None} :
       With(t, loc, c) => thread' \in [Threads -> ThreadSet]
  /\ \A t \in Threads : Return(t) => thread' \in [Threads -> ThreadSet]
BY ThreadFields, IdleTyped DEF Typed, Goto, With, Return

LEMMA SignalsCounted == \A cs \in SUBSET Procs : Signals(cs) \in -2 .. Cardinality(Procs)
<1>1. SUFFICES ASSUME NEW cs \in SUBSET Procs
               PROVE  Cardinality({c \in cs : Dead(c)}) \in -2 .. Cardinality(Procs)
  BY DEF Signals
<1>2. PICK S : S = {c \in cs : Dead(c)}
  OBVIOUS
<1>3. S \subseteq Procs
  BY <1>2
<1>4. Cardinality(S) \in Nat /\ Cardinality(S) <= Cardinality(Procs)
  BY <1>3, NamesAssumption, FS_Subset, FS_CardinalityType
<1>. QED BY <1>2, <1>4, Counted

LEMMA WatchTyped == ASSUME Typed, NEW t \in Threads, NEW cs \in SUBSET Procs, Watch(t, cs)
                    PROVE  thread' \in [Threads -> ThreadSet]
<1>1. PICK n : n = Signals(cs)
  OBVIOUS
<1>2. thread' = [thread EXCEPT ![t].pc = "wait", ![t].value = n] /\ n \in -2 .. Cardinality(Procs)
  BY <1>1, SignalsCounted DEF Watch
<1>3. [thread[t] EXCEPT !.pc = "wait", !.value = n] \in ThreadSet
  BY <1>2, ZenonT(60) DEF Typed, ThreadSet, Locs
<1>. QED BY <1>2, <1>3 DEF Typed

LEMMA EnterTyped == ASSUME Typed, NEW t \in Threads, Enter(t) PROVE Typed'
<1>1. proc' \in [Procs -> ProcSet]
  BY DEF Typed, Enter
<1>2. thread' \in [Threads -> ThreadSet]
  <2>1. ASSUME NEW loc \in Calls[t] \cap {"scan", "find"}, Goto(t, loc)
        PROVE  thread' \in [Threads -> ThreadSet]
    BY <2>1, MovesTyped DEF Locs
  <2>2. ASSUME NEW loc \in Calls[t] \cap {"fork", "exec"}, Fresh # {}, With(t, loc, NextProcess)
        PROVE  thread' \in [Threads -> ThreadSet]
    <3>1. NextProcess \in Procs
      BY <2>2 DEF NextProcess, Fresh
    <3>. QED BY <2>2, <3>1, MovesTyped DEF Locs
  <2>. QED BY <2>1, <2>2 DEF Enter
<1>. QED BY <1>1, <1>2 DEF Typed

LEMMA ForkTyped == ASSUME Typed, NEW t \in Threads, Child(t) \in Procs, Fork(t) PROVE Typed'
<1>1. proc' \in [Procs -> ProcSet]
  <2>1. PICK X, r : /\ X = Children(Owner(t)) \cup {Child(t)}
                    /\ r = [Newborn(Owner(t)) EXCEPT !.late = PastChildren(Owner(t))]
    OBVIOUS
  <2>2. X \in SUBSET Procs /\ r \in ProcSet
    <3>1. PastChildren(Owner(t)) \in BOOLEAN
      BY DEF PastChildren
    <3>. QED BY <2>1, <3>1, TypedView, OwnerIs, NewbornTyped, ProcFields
  <2>3. proc' = [proc EXCEPT ![Child(t)] = r, ![Owner(t)].children = X]
    BY <2>1 DEF Fork, Children
  <2>. QED BY <2>2, <2>3, ProcFields, OwnerIs DEF Typed
<1>2. thread' \in [Threads -> ThreadSet]
  BY ThreadFields, IdleTyped, OwnerIs, TypedView, NamesAssumption DEF Typed, Locs, Fork, Goto
<1>. QED BY <1>1, <1>2 DEF Typed

LEMMA CopyThreadTyped == ASSUME Typed, NEW t \in Threads, Child(t) \in Procs, CopyThread(t)
       PROVE  Typed'
<1>1. proc' \in [Procs -> ProcSet]
  BY ProcFields, OwnerIs DEF Typed, CopyThread
<1>2. thread' \in [Threads -> ThreadSet]
  BY ThreadFields, IdleTyped, OwnerIs, TypedView, NamesAssumption DEF Typed, Locs, CopyThread,
     Goto
<1>. QED BY <1>1, <1>2 DEF Typed

LEMMA CreateTyped == ASSUME Typed, NEW t \in Threads, Child(t) \in Procs, Create(t) PROVE Typed'
<1>1. proc' \in [Procs -> ProcSet]
  BY ProcFields, OwnerIs, NewbornTyped DEF Typed, Create
<1>2. thread' \in [Threads -> ThreadSet]
  BY ThreadFields, IdleTyped, OwnerIs, TypedView, NamesAssumption DEF Typed, Locs, Create, Goto
<1>. QED BY <1>1, <1>2 DEF Typed

LEMMA RegisterChildProcessTyped ==
  ASSUME Typed, NEW t \in Threads, Child(t) \in Procs, RegisterChildProcess(t)
  PROVE  Typed'
<1>1. proc' \in [Procs -> ProcSet]
  <2>1. PICK X : X = Children(Owner(t)) \cup {Child(t)}
    OBVIOUS
  <2>2. PastChildren(Owner(t)) \in BOOLEAN /\ X \in SUBSET Procs
    BY <2>1, TypedView, OwnerIs DEF PastChildren
  <2>3. [proc EXCEPT ![Child(t)].late = PastChildren(Owner(t))] \in [Procs -> ProcSet]
    BY <2>2, ProcFields DEF Typed
  <2>4. [proc EXCEPT ![Child(t)].late = PastChildren(Owner(t))][Owner(t)].children = Children(Owner(t))
    BY OwnerIs DEF Typed, ProcSet, Children
  <2>5. proc' = [proc EXCEPT ![Child(t)].late = PastChildren(Owner(t)), ![Owner(t)].children = X]
    BY <2>1, <2>4 DEF RegisterChildProcess
  <2>. QED BY <2>2, <2>3, <2>5, ProcFields, OwnerIs
<1>2. thread' \in [Threads -> ThreadSet]
  BY ThreadFields, IdleTyped, OwnerIs, TypedView, NamesAssumption DEF Typed, Locs,
     RegisterChildProcess, Goto
<1>. QED BY <1>1, <1>2 DEF Typed

LEMMA StartTyped == ASSUME Typed, NEW t \in Threads, Child(t) \in Procs, Start(t) PROVE Typed'
<1>1. proc' \in [Procs -> ProcSet]
  BY DEF Typed, Start
<1>2. thread' \in [Threads -> ThreadSet]
  BY ThreadFields, IdleTyped, OwnerIs, TypedView, NamesAssumption DEF Typed, Locs, Start
<1>. QED BY <1>1, <1>2 DEF Typed

LEMMA TakeTyped == ASSUME Typed, NEW t \in Threads, Take(t) PROVE Typed'
<1>1. proc' \in [Procs -> ProcSet]
  <2>1. PICK d \in DeadChildren(Owner(t)) :
          proc' = [proc EXCEPT ![Owner(t)].children = @ \ {d}, ![Owner(t)].lock = TRUE]
    BY DEF Take
  <2>2. proc[Owner(t)].children \ {d} \in SUBSET Procs
    BY ProcFields, OwnerIs DEF Typed
  <2>3. [proc EXCEPT ![Owner(t)].children = @ \ {d}] \in [Procs -> ProcSet]
    BY <2>2, ProcFields, OwnerIs DEF Typed
  <2>. QED BY <2>1, <2>3, ProcFields, OwnerIs
<1>2. thread' \in [Threads -> ThreadSet]
  <2>1. PICK d \in DeadChildren(Owner(t)) : With(t, "unparent", d)
    BY DEF Take
  <2>2. d \in Procs
    BY <2>1, ProcFields, OwnerIs DEF Typed, DeadChildren
  <2>. QED BY <2>1, <2>2, MovesTyped DEF Locs
<1>. QED BY <1>1, <1>2 DEF Typed

LEMMA UnparentTyped == ASSUME Typed, NEW t \in Threads, Child(t) \in Procs, Unparent(t)
       PROVE  Typed'
<1>1. proc' \in [Procs -> ProcSet]
  BY UnparentEffect
<1>2. thread' \in [Threads -> ThreadSet]
  BY ThreadFields, IdleTyped, OwnerIs, TypedView, NamesAssumption DEF Typed, Locs, Unparent,
     Return
<1>. QED BY <1>1, <1>2 DEF Typed

LEMMA NoneDeadTyped == ASSUME Typed, NEW t \in Threads, NoneDead(t) PROVE Typed'
<1>1. proc' \in [Procs -> ProcSet]
  BY ProcFields, OwnerIs, UnwatchedView DEF Typed, NoneDead
<1>2. thread' \in [Threads -> ThreadSet]
  <2>1. Goto(t, "watch") \/ Return(t) \/ thread' = [thread EXCEPT ![t] = Idle("watch")]
    BY DEF NoneDead
  <2>. QED BY <2>1, MovesTyped, IdleTyped DEF Typed, Locs
<1>. QED BY <1>1, <1>2 DEF Typed

LEMMA WatchAllTyped == ASSUME Typed, NEW t \in Threads, WatchAll(t) PROVE Typed'
<1>1. proc' \in [Procs -> ProcSet]
  BY ProcFields, OwnerIs, WatchingView DEF Typed, WatchAll, Watch
<1>2. thread' \in [Threads -> ThreadSet]
  <2>1. Return(t) \/ Watch(t, Children(Owner(t)))
    BY DEF WatchAll, Children
  <2>. QED BY <2>1, MovesTyped, WatchTyped, TypedView, OwnerIs
<1>. QED BY <1>1, <1>2 DEF Typed

LEMMA FindTyped == ASSUME Typed, NEW t \in Threads, Find(t) PROVE Typed'
<1>1. proc' \in [Procs -> ProcSet]
  BY DEF Typed, Find
<1>2. thread' \in [Threads -> ThreadSet]
  <2>1. ASSUME NEW c \in proc[Owner(t)].children, With(t, "check", c)
        PROVE  thread' \in [Threads -> ThreadSet]
    BY <2>1, MovesTyped, ProcFields, OwnerIs DEF Typed, Locs
  <2>. QED BY <2>1, MovesTyped DEF Find
<1>. QED BY <1>1, <1>2 DEF Typed

LEMMA CheckTyped == ASSUME Typed, NEW t \in Threads, Child(t) \in Procs, Check(t) PROVE Typed'
<1>1. proc' \in [Procs -> ProcSet]
  BY ProcFields, OwnerIs, WatchingView DEF Typed, Check, Watch
<1>2. thread' \in [Threads -> ThreadSet]
  <2>1. Goto(t, "remove") \/ Return(t) \/ Watch(t, {Child(t)})
    BY DEF Check
  <2>. QED BY <2>1, MovesTyped, WatchTyped DEF Locs
<1>. QED BY <1>1, <1>2 DEF Typed

LEMMA RemoveTyped == ASSUME Typed, NEW t \in Threads, Remove(t) PROVE Typed'
<1>1. proc' \in [Procs -> ProcSet]
  BY ProcFields, OwnerIs DEF Typed, Remove
<1>2. thread' \in [Threads -> ThreadSet]
  BY ThreadFields, IdleTyped, OwnerIs, TypedView, NamesAssumption DEF Typed, Locs, Remove, Goto
<1>. QED BY <1>1, <1>2 DEF Typed

LEMMA WaitTyped == ASSUME Typed, NEW t \in Threads, Wait(t) PROVE Typed'
<1>1. proc' \in [Procs -> ProcSet]
  BY DEF Typed, Wait
<1>2. thread' \in [Threads -> ThreadSet]
  <2>1. PICK n, loc : n = Lowered(thread[t].value) /\ loc = IF thread[t].value > 0 THEN "woken" ELSE "blocked"
    OBVIOUS
  <2>2. loc \in Locs
    BY <2>1 DEF Locs
  <2>5. n \in -2 .. Cardinality(Procs)
    <3>1. thread[t].value \in -2 .. Cardinality(Procs)
      BY ThreadFields DEF Typed
    <3>. QED BY <2>1, <3>1, Counted DEF Lowered
  <2>3. thread' = [thread EXCEPT ![t].value = n, ![t].interrupted = FALSE, ![t].pc = loc]
    BY <2>1 DEF Wait, Typed
  <2>4. [thread[t] EXCEPT !.value = n, !.interrupted = FALSE, !.pc = loc] \in ThreadSet
    BY <2>2, <2>5 DEF Typed, ThreadSet
  <2>. QED BY <2>3, <2>4 DEF Typed
<1>. QED BY <1>1, <1>2 DEF Typed

LEMMA InterruptTyped == ASSUME Typed, NEW t \in Threads, Interrupt(t) PROVE Typed'
<1>1. proc' \in [Procs -> ProcSet]
  BY DEF Typed, Interrupt
<1>2. thread' \in [Threads -> ThreadSet]
  BY ThreadFields, IdleTyped, OwnerIs, TypedView, NamesAssumption DEF Typed, Locs, Interrupt
<1>. QED BY <1>1, <1>2 DEF Typed

LEMMA WokenTyped == ASSUME Typed, NEW t \in Threads, Woken(t) PROVE Typed'
<1>1. proc' \in [Procs -> ProcSet]
  BY ProcFields, OwnerIs, UnwatchedView DEF Typed, Woken
<1>2. thread' \in [Threads -> ThreadSet]
  <2>1. Return(t) \/ \E loc \in {"wait", "orphan", "rescan", "remove"} : Goto(t, loc)
    BY DEF Woken
  <2>. QED BY <2>1, MovesTyped DEF Locs
<1>. QED BY <1>1, <1>2 DEF Typed

LEMMA KillTyped == ASSUME Typed, NEW p \in Procs, Kill(p) PROVE Typed'
<1>1. proc' \in [Procs -> ProcSet]
  BY ProcFields, OwnerIs DEF Typed, Kill
<1>2. thread' \in [Threads -> ThreadSet]
  BY ThreadFields, IdleTyped, OwnerIs, TypedView, NamesAssumption DEF Typed, Locs, Kill
<1>. QED BY <1>1, <1>2 DEF Typed

LEMMA DieBeginTyped == ASSUME Typed, NEW p \in Procs, DieBegin(p) PROVE Typed'
<1>1. proc' \in [Procs -> ProcSet]
  <2>1. CASE proc' = [proc EXCEPT ![p].state = "Dying"]
    BY <2>1, ProcFields DEF Typed
  <2>2. CASE proc' = [proc EXCEPT ![p].state = "Dying", ![p].kill = FALSE]
    <3>1. [proc EXCEPT ![p].state = "Dying"] \in [Procs -> ProcSet]
      BY ProcFields DEF Typed
    <3>. QED BY <2>2, <3>1, ProcFields
  <2>. QED BY <2>1, <2>2 DEF DieBegin
<1>2. thread' \in [Threads -> ThreadSet]
  BY ThreadFields, IdleTyped, OwnerIs, TypedView, NamesAssumption DEF Typed, Locs, DieBegin,
     ToChildren, NextChild
<1>. QED BY <1>1, <1>2 DEF Typed

LEMMA FrontTyped == ASSUME Typed, NEW p \in Procs, Front(p) PROVE Typed'
<1>1. proc' \in [Procs -> ProcSet]
  <2>1. ASSUME NEW c \in proc[p].children, proc' = [proc EXCEPT ![c].kill = TRUE]
        PROVE  proc' \in [Procs -> ProcSet]
    BY <2>1, ProcFields DEF Typed
  <2>2. ASSUME NEW c \in proc[p].children, proc' = Watching(p, {c})
        PROVE  proc' \in [Procs -> ProcSet]
    BY <2>2, WatchingView, OwnerIs
  <2>. QED BY <2>1, <2>2 DEF Front, Typed
<1>2. thread' \in [Threads -> ThreadSet]
  <2>1. CASE Goto(p, "assert")
    BY <2>1, MovesTyped, OwnerIs DEF Locs
  <2>2. ASSUME NEW c \in proc[p].children,
               \/ With(p, "await", c) \/ With(p, "orphan", c)
               \/ thread' = [thread EXCEPT ![p].pc = "wait", ![p].child = c]
        PROVE  thread' \in [Threads -> ThreadSet]
    <3>1. c \in Procs
      BY ProcFields DEF Typed
    <3>2. \E loc \in Locs : With(p, loc, c)
      BY <2>2 DEF With, Locs
    <3>. QED BY <3>1, <3>2, MovesTyped, OwnerIs
  <2>. QED BY <2>1, <2>2 DEF Front
<1>. QED BY <1>1, <1>2 DEF Typed

LEMMA AwaitTyped == ASSUME Typed, NEW p \in Procs, Await(p) PROVE Typed'
<1>1. proc' \in [Procs -> ProcSet]
  BY DEF Typed, Await
<1>2. thread' \in [Threads -> ThreadSet]
  BY ThreadFields, IdleTyped, OwnerIs, TypedView, NamesAssumption DEF Typed, Locs, Await, Goto
<1>. QED BY <1>1, <1>2 DEF Typed

LEMMA OrphanTyped == ASSUME Typed, NEW p \in Procs, Child(p) \in Procs, Orphan(p) PROVE Typed'
<1>1. proc' \in [Procs -> ProcSet]
  BY ProcFields, OwnerIs DEF Typed, Orphan, Forget
<1>2. thread' \in [Threads -> ThreadSet]
  BY ThreadFields, IdleTyped, OwnerIs, TypedView, NamesAssumption DEF Typed, Locs, Orphan, Goto
<1>. QED BY <1>1, <1>2 DEF Typed

LEMMA DropTyped == ASSUME Typed, NEW p \in Procs, Drop(p) PROVE Typed'
<1>1. proc' \in [Procs -> ProcSet]
  BY ProcFields, OwnerIs DEF Typed, Drop, Others
<1>2. thread' \in [Threads -> ThreadSet]
  BY ThreadFields, IdleTyped, OwnerIs, TypedView, NamesAssumption DEF Typed, Locs, Drop,
     ToChildren, NextChild
<1>. QED BY <1>1, <1>2 DEF Typed

LEMMA KillThreadsTyped == ASSUME Typed, NEW p \in Procs, KillThreads(p) PROVE Typed'
<1>1. proc' \in [Procs -> ProcSet]
  BY ProcFields, OwnerIs DEF Typed, KillThreads
<1>2. thread' \in [Threads -> ThreadSet]
  BY ThreadFields, IdleTyped, OwnerIs, TypedView, NamesAssumption DEF Typed, Locs, KillThreads,
     Goto
<1>. QED BY <1>1, <1>2 DEF Typed

LEMMA SetDeadTyped ==
  ASSUME Typed, NEW p \in Procs,
         \A u \in proc[p].watching : thread[u].value < Cardinality(Procs), SetDead(p)
  PROVE  Typed'
<1>1. proc' \in [Procs -> ProcSet]
  BY ProcFields, OwnerIs DEF Typed, SetDead
<1>2. thread' \in [Threads -> ThreadSet]
  <2>1. ASSUME NEW u \in Threads PROVE Signalled(p)[u] \in ThreadSet
    <3>1. CASE u \notin proc[p].watching
      BY <3>1 DEF Signalled, Typed
    <3>2. CASE u \in proc[p].watching
      <4>1. thread[u].value + 1 \in -2 .. Cardinality(Procs)
        BY <3>2, ThreadFields, Counted DEF Typed
      <4>2. (IF thread[u].pc = "blocked" THEN "woken" ELSE thread[u].pc) \in Locs
        BY DEF Typed, ThreadSet, Locs
      <4>. QED BY <3>2, <4>1, <4>2 DEF Signalled, Typed, ThreadSet
    <3>. QED BY <3>1, <3>2
  <2>2. Signalled(p) \in [Threads -> ThreadSet]
    BY <2>1 DEF Signalled
  <2>. QED BY <2>2, ThreadFields, OwnerIs DEF SetDead, Locs
<1>. QED BY <1>1, <1>2 DEF Typed

LEMMA TestParentTyped == ASSUME Typed, NEW p \in Procs, TestParent(p) PROVE Typed'
<1>1. proc' \in [Procs -> ProcSet]
  BY DEF Typed, TestParent
<1>2. thread' \in [Threads -> ThreadSet]
  <2>1. With(p, "sigchld", Parent(p)) \/ Goto(p, "mark")
    BY DEF TestParent, Parent
  <2>. QED BY <2>1, MovesTyped, TypedView, OwnerIs DEF Locs
<1>. QED BY <1>1, <1>2 DEF Typed

LEMMA SignalParentTyped == ASSUME Typed, NEW p \in Procs, SignalParent(p) PROVE Typed'
<1>1. proc' \in [Procs -> ProcSet]
  BY DEF Typed, SignalParent
<1>2. thread' \in [Threads -> ThreadSet]
  BY ThreadFields, IdleTyped, OwnerIs, TypedView, NamesAssumption DEF Typed, Locs, SignalParent,
     With
<1>. QED BY <1>1, <1>2 DEF Typed

LEMMA MarkProcessForDestructionTyped ==
  ASSUME Typed, NEW p \in Procs, MarkProcessForDestruction(p)
  PROVE  Typed'
<1>1. proc' \in [Procs -> ProcSet]
  BY ProcFields, OwnerIs DEF Typed, MarkProcessForDestruction
<1>2. thread' \in [Threads -> ThreadSet]
  BY ThreadFields, IdleTyped, OwnerIs, TypedView, NamesAssumption DEF Typed, Locs,
     MarkProcessForDestruction, Goto
<1>. QED BY <1>1, <1>2 DEF Typed

LEMMA FinalTyped == ASSUME Typed, NEW p \in Procs, Final(p) PROVE Typed'
<1>1. proc' \in [Procs -> ProcSet]
  BY ProcFields, OwnerIs DEF Typed, Final
<1>2. thread' \in [Threads -> ThreadSet]
  BY ThreadFields, IdleTyped, OwnerIs, TypedView, NamesAssumption DEF Typed, Locs, Final, Goto
<1>. QED BY <1>1, <1>2 DEF Typed

-----------------------------------------------------------------------------
(* Watchers.  Most steps put none on a list; a thread that had one keeps   *)
(* it, or takes it off every list.                                         *)
Fewer(t) == \A p \in Procs : t \in Watchers(p)' => t \in Watchers(p)
Lower(t) == /\ Value(t)' \in {Value(t), 0, Lowered(Value(t))}
            /\ Pc(t)' = "front" => Value(t)' = 0 \/ (Pc(t) = "front" /\ Value(t)' = Value(t))
Stays(t) == Lower(t) /\ (Pc(t) \in HasOne => Pc(t)' \in HasOne)
Unlisted(t) == Lower(t) /\ \A p \in Procs : t \notin Watchers(p)'

LEMMA ValueIs == ASSUME Typed PROVE \A t \in Threads : Value(t) \in Int
BY Counted DEF Typed, ThreadSet, Value

LEMMA SameStays == \A t \in Threads : thread'[t] = thread[t] => Stays(t)
BY DEF Stays, Lower, Value, Pc

LEMMA UnwatchedWatchers == ASSUME Typed, NEW t \in Threads PROVE
  \A p \in Procs, u \in Threads :
    u \in Unwatched(t)[p].watching <=> u # t /\ u \in Watchers(p)
BY DEF Typed, ProcSet, Unwatched, Watchers

LEMMA WatchedIs == ASSUME NEW t \in Threads PROVE
  /\ IsFiniteSet(Watched(t)) /\ Cardinality(Watched(t)) \in Nat /\ Cardinality(Watched(t)) <= Cardinality(Procs)
<1>1. Watched(t) \subseteq Procs
  BY DEF Watched
<1>. QED BY <1>1, NamesAssumption, FS_Subset, FS_CardinalityType

LEMMA WatchesStay ==
  ASSUME Typed, Typed', NEW t \in Threads, Watches(t), Fewer(t), Stays(t) \/ Unlisted(t)
  PROVE  Watches(t)'
<1>2. PICK W : W = {p \in Procs : t \in Watchers(p)'}
  OBVIOUS
<1>3. PICK V : V = Watched(t)
  OBVIOUS
<1>4. Watched(t)' = W
  BY <1>2 DEF Watched
<1>5. W \subseteq V
  BY <1>2, <1>3 DEF Fewer, Watched
<1>6. Cardinality(W) \in Nat /\ Cardinality(W) <= Cardinality(V) /\ Cardinality(V) \in Nat /\ Cardinality(V) <= Cardinality(Procs)
  BY <1>3, <1>5, WatchedIs, FS_Subset, FS_CardinalityType
<1>7. PICK n, m : n = Value(t) /\ m = Value(t)'
  OBVIOUS
<1>8. n \in Int /\ m \in {n, 0, Lowered(n)}
  BY <1>7, ValueIs DEF Stays, Unlisted, Lower
<1>9. n + Cardinality(V) <= Cardinality(Procs)
  BY <1>3, <1>7 DEF Watches
<1>10. m + Cardinality(W) <= Cardinality(Procs)
  BY <1>6, <1>8, <1>9, Counted DEF Lowered
<1>11. W # {} => Pc(t)' \in HasOne
  <2>1. CASE Stays(t)
    BY <1>3, <1>5, <2>1 DEF Stays, Watches
  <2>2. CASE Unlisted(t)
    BY <1>2, <2>2 DEF Unlisted
  <2>. QED BY <2>1, <2>2
<1>12. Pc(t)' = "front" => m = 0
  BY <1>7 DEF Stays, Unlisted, Lower, Watches
<1>. QED BY <1>4, <1>7, <1>10, <1>11, <1>12 DEF Watches

LEMMA EnterWatches ==
  ASSUME Typed, Typed', \A u \in Threads : Watches(u), NEW t \in Threads, Enter(t)
  PROVE  \A u \in Threads : Watches(u)'
<1>1. \A u \in Threads : Fewer(u)
  BY DEF Fewer, Watchers, Enter
<1>2. \A u \in Threads \ {t} : thread'[u] = thread[u]
  BY OwnerIs DEF Typed, Enter, Goto, With
<1>3. Stays(t)
  <2>1. Pc(t) = "user"
    BY DEF Enter, At, Pc
  <2>2. Pc(t)' # "front" /\ Value(t)' = Value(t)
    <3>1. ASSUME NEW loc \in Calls[t] \cap {"scan", "find"}, Goto(t, loc)
          PROVE  Pc(t)' # "front" /\ Value(t)' = Value(t)
      BY <3>1 DEF Goto, Typed, ThreadSet, Pc, Value
    <3>2. ASSUME NEW loc \in Calls[t] \cap {"fork", "exec"}, With(t, loc, NextProcess)
          PROVE  Pc(t)' # "front" /\ Value(t)' = Value(t)
      BY <3>2 DEF With, Typed, ThreadSet, Pc, Value
    <3>. QED BY <3>1, <3>2 DEF Enter
  <2>. QED BY <2>1, <2>2 DEF Stays, Lower, HasOne
<1>. QED BY <1>1, <1>2, <1>3, SameStays, WatchesStay

LEMMA ForkWatches ==
  ASSUME Typed, Typed', \A u \in Threads : Watches(u), NEW t \in Threads, Child(t) \in Procs,
         Fork(t)
  PROVE  \A u \in Threads : Watches(u)'
<1>1. \A u \in Threads : Fewer(u)
  <2>1. PICK r, X : r = [Newborn(Owner(t)) EXCEPT !.late = PastChildren(Owner(t))] /\ X = Children(Owner(t)) \cup {Child(t)}
    OBVIOUS
  <2>2. proc' = [proc EXCEPT ![Child(t)] = r, ![Owner(t)].children = X]
    BY <2>1 DEF Fork, Children
  <2>3. r.watching = {}
    BY <2>1 DEF Newborn, Unborn
  <2>4. \A c \in Procs : Watchers(c)' = IF c = Child(t) THEN r.watching ELSE Watchers(c)
    BY <2>2, OwnerIs DEF Typed, ProcSet, Watchers
  <2>. QED BY <2>3, <2>4 DEF Fewer
<1>2. \A u \in Threads \ {t} : thread'[u] = thread[u]
  BY OwnerIs DEF Typed, Fork, Goto
<1>3. Stays(t)
  BY OwnerIs DEF Stays, Lower, Value, Pc, HasOne, ThreadSet, Typed, Fork, Goto, At
<1>. QED BY <1>1, <1>2, <1>3, SameStays, WatchesStay

LEMMA CopyThreadWatches ==
  ASSUME Typed, Typed', \A u \in Threads : Watches(u), NEW t \in Threads, Child(t) \in Procs,
         CopyThread(t)
  PROVE  \A u \in Threads : Watches(u)'
<1>1. \A u \in Threads : Fewer(u)
  BY OwnerIs DEF Fewer, Watchers, Typed, ProcSet, CopyThread
<1>2. \A u \in Threads \ {t} : thread'[u] = thread[u]
  BY OwnerIs DEF Typed, CopyThread, Goto
<1>3. Stays(t)
  BY OwnerIs DEF Stays, Lower, Value, Pc, HasOne, ThreadSet, Typed, CopyThread, Goto, At
<1>. QED BY <1>1, <1>2, <1>3, SameStays, WatchesStay

LEMMA CreateWatches ==
  ASSUME Typed, Typed', \A u \in Threads : Watches(u), NEW t \in Threads, Child(t) \in Procs,
         Create(t)
  PROVE  \A u \in Threads : Watches(u)'
<1>1. \A u \in Threads : Fewer(u)
  <2>1. PICK r : r = Newborn(Owner(t))
    OBVIOUS
  <2>2. proc' = [proc EXCEPT ![Child(t)] = r]
    BY <2>1 DEF Create, Children
  <2>3. r.watching = {}
    BY <2>1 DEF Newborn, Unborn
  <2>4. \A c \in Procs : Watchers(c)' = IF c = Child(t) THEN r.watching ELSE Watchers(c)
    BY <2>2, OwnerIs DEF Typed, ProcSet, Watchers
  <2>. QED BY <2>3, <2>4 DEF Fewer
<1>2. \A u \in Threads \ {t} : thread'[u] = thread[u]
  BY OwnerIs DEF Typed, Create, Goto
<1>3. Stays(t)
  BY OwnerIs DEF Stays, Lower, Value, Pc, HasOne, ThreadSet, Typed, Create, Goto, At
<1>. QED BY <1>1, <1>2, <1>3, SameStays, WatchesStay

LEMMA RegisterChildProcessWatches ==
  ASSUME Typed, Typed', \A u \in Threads : Watches(u), NEW t \in Threads, Child(t) \in Procs,
         RegisterChildProcess(t)
  PROVE  \A u \in Threads : Watches(u)'
<1>1. \A u \in Threads : Fewer(u)
  BY OwnerIs DEF Fewer, Watchers, Typed, ProcSet, RegisterChildProcess
<1>2. \A u \in Threads \ {t} : thread'[u] = thread[u]
  BY OwnerIs DEF Typed, RegisterChildProcess, Goto
<1>3. Stays(t)
  BY OwnerIs DEF Stays, Lower, Value, Pc, HasOne, ThreadSet, Typed, RegisterChildProcess, Goto, At
<1>. QED BY <1>1, <1>2, <1>3, SameStays, WatchesStay

LEMMA StartWatches ==
  ASSUME Typed, Typed', \A u \in Threads : Watches(u), NEW t \in Threads, Child(t) \in Procs,
         Child(t) # t, Pc(Child(t)) = "unborn", Start(t)
  PROVE  \A u \in Threads : Watches(u)'
<1>1. \A u \in Threads : Fewer(u)
  BY DEF Fewer, Watchers, Start
<1>2. PICK c, r : c = Child(t) /\ r = Idle(Outside(t))
  OBVIOUS
<1>3. c \in Threads /\ c # t /\ thread' = [thread EXCEPT ![c].pc = "user", ![t] = r]
  BY <1>2, OwnerIs DEF Start
<1>4. Stays(c)
  <2>1. Pc(c) = "unborn"
    BY <1>2
  <2>. QED BY <1>3, <2>1 DEF Stays, Lower, Value, Pc, HasOne, Typed, ThreadSet
<1>5. Stays(t)
  BY <1>2, <1>3 DEF Stays, Lower, Value, Pc, HasOne, Typed, Start, At, Idle, Outside
<1>6. \A u \in Threads \ {c, t} : thread'[u] = thread[u]
  BY <1>3 DEF Typed
<1>. QED BY <1>1, <1>4, <1>5, <1>6, SameStays, WatchesStay

LEMMA TakeWatches ==
  ASSUME Typed, Typed', \A u \in Threads : Watches(u), NEW t \in Threads, Take(t)
  PROVE  \A u \in Threads : Watches(u)'
<1>1. \A u \in Threads : Fewer(u)
  BY OwnerIs DEF Fewer, Watchers, Typed, ProcSet, Take
<1>2. \A u \in Threads \ {t} : thread'[u] = thread[u]
  BY OwnerIs DEF Typed, Take, With
<1>3. Stays(t)
  BY OwnerIs DEF Stays, Lower, Value, Pc, HasOne, ThreadSet, Typed, Take, With, At
<1>. QED BY <1>1, <1>2, <1>3, SameStays, WatchesStay

LEMMA UnparentWatches ==
  ASSUME Typed, Typed', \A u \in Threads : Watches(u), NEW t \in Threads, Child(t) \in Procs,
         Unparent(t)
  PROVE  \A u \in Threads : Watches(u)'
<1>1. \A u \in Threads : Fewer(u)
  <2>1. PICK U, X : U = Unwatched(t) /\ X = [U EXCEPT ![Child(t)].parent = None][Owner(t)].children \ {Child(t)}
    OBVIOUS
  <2>2. proc' = [U EXCEPT ![Child(t)].parent = None, ![Owner(t)].children = X, ![Owner(t)].lock = FALSE]
    BY <2>1 DEF Unparent, Forget
  <2>3. U \in [Procs -> ProcSet]
    BY <2>1, UnwatchedView
  <2>4. \A c \in Procs : proc'[c].watching = U[c].watching
    BY <2>2, <2>3, OwnerIs DEF ProcSet
  <2>. QED BY <2>1, <2>4, UnwatchedWatchers DEF Fewer, Watchers
<1>2. \A u \in Threads \ {t} : thread'[u] = thread[u]
  BY OwnerIs DEF Typed, Unparent, Return
<1>3. Unlisted(t)
  <2>1. PICK U, X : U = Unwatched(t) /\ X = [U EXCEPT ![Child(t)].parent = None][Owner(t)].children \ {Child(t)}
    OBVIOUS
  <2>2. proc' = [U EXCEPT ![Child(t)].parent = None, ![Owner(t)].children = X, ![Owner(t)].lock = FALSE]
    BY <2>1 DEF Unparent, Forget
  <2>3. U \in [Procs -> ProcSet]
    BY <2>1, UnwatchedView
  <2>4. \A c \in Procs : proc'[c].watching = U[c].watching
    BY <2>2, <2>3, OwnerIs DEF ProcSet
  <2>5. Lower(t)
    BY DEF Lower, Unparent, Return, Idle, Outside, Typed, Value, Pc
  <2>. QED BY <2>1, <2>4, <2>5, UnwatchedWatchers DEF Unlisted, Watchers
<1>. QED BY <1>1, <1>2, <1>3, SameStays, WatchesStay

LEMMA NoneDeadWatches ==
  ASSUME Typed, Typed', \A u \in Threads : Watches(u), NEW t \in Threads, NoneDead(t)
  PROVE  \A u \in Threads : Watches(u)'
<1>1. \A u \in Threads : Fewer(u)
  <2>1. \A c \in Procs : proc'[c] = Unwatched(t)[c]
    BY DEF NoneDead
  <2>. QED BY <2>1, UnwatchedWatchers DEF Fewer, Watchers
<1>2. \A u \in Threads \ {t} : thread'[u] = thread[u]
  BY OwnerIs DEF Typed, NoneDead, Goto, Return
<1>3. Unlisted(t)
  BY OwnerIs DEF Unlisted, Watchers, Unwatched, ProcSet, Stays, Lower, Value, Pc, HasOne,
     ThreadSet, Typed, NoneDead, Goto, Return, At, Idle, Outside
<1>. QED BY <1>1, <1>2, <1>3, SameStays, WatchesStay

LEMMA FindWatches ==
  ASSUME Typed, Typed', \A u \in Threads : Watches(u), NEW t \in Threads, Find(t)
  PROVE  \A u \in Threads : Watches(u)'
<1>1. \A u \in Threads : Fewer(u)
  BY DEF Fewer, Watchers, Find
<1>2. \A u \in Threads \ {t} : thread'[u] = thread[u]
  BY OwnerIs DEF Typed, Find, With, Return
<1>3. Stays(t)
  BY OwnerIs DEF Stays, Lower, Value, Pc, HasOne, ThreadSet, Typed, Find, With, Return, At, Idle,
     Outside
<1>. QED BY <1>1, <1>2, <1>3, SameStays, WatchesStay

LEMMA RemoveWatches ==
  ASSUME Typed, Typed', \A u \in Threads : Watches(u), NEW t \in Threads, Remove(t)
  PROVE  \A u \in Threads : Watches(u)'
<1>1. \A u \in Threads : Fewer(u)
  BY OwnerIs DEF Fewer, Watchers, Typed, ProcSet, Remove
<1>2. \A u \in Threads \ {t} : thread'[u] = thread[u]
  BY OwnerIs DEF Typed, Remove, Goto
<1>3. Stays(t)
  BY OwnerIs DEF Stays, Lower, Value, Pc, HasOne, ThreadSet, Typed, Remove, Goto, At
<1>. QED BY <1>1, <1>2, <1>3, SameStays, WatchesStay

LEMMA WaitWatches ==
  ASSUME Typed, Typed', \A u \in Threads : Watches(u), NEW t \in Threads, Wait(t)
  PROVE  \A u \in Threads : Watches(u)'
<1>1. \A u \in Threads : Fewer(u)
  BY DEF Fewer, Watchers, Wait
<1>2. \A u \in Threads \ {t} : thread'[u] = thread[u]
  BY OwnerIs DEF Typed, Wait, Lowered
<1>3. Stays(t)
  BY OwnerIs DEF Stays, Lower, Value, Pc, HasOne, ThreadSet, Typed, Wait, Lowered, At
<1>. QED BY <1>1, <1>2, <1>3, SameStays, WatchesStay

LEMMA InterruptWatches ==
  ASSUME Typed, Typed', \A u \in Threads : Watches(u), NEW t \in Threads, Interrupt(t)
  PROVE  \A u \in Threads : Watches(u)'
<1>1. \A u \in Threads : Fewer(u)
  BY DEF Fewer, Watchers, Interrupt
<1>2. \A u \in Threads \ {t} : thread'[u] = thread[u]
  BY OwnerIs DEF Typed, Interrupt
<1>3. Stays(t)
  BY OwnerIs DEF Stays, Lower, Value, Pc, HasOne, ThreadSet, Typed, Interrupt, At
<1>. QED BY <1>1, <1>2, <1>3, SameStays, WatchesStay

LEMMA WokenWatches ==
  ASSUME Typed, Typed', \A u \in Threads : Watches(u), NEW t \in Threads, Woken(t)
  PROVE  \A u \in Threads : Watches(u)'
<1>1. \A u \in Threads : Fewer(u)
  <2>1. UNCHANGED proc \/ proc' = Unwatched(t)
    BY DEF Woken
  <2>. QED BY <2>1, UnwatchedWatchers DEF Fewer, Watchers
<1>2. \A u \in Threads \ {t} : thread'[u] = thread[u]
  BY OwnerIs DEF Typed, Woken, Goto, Return
<1>3. Stays(t) \/ Unlisted(t)
  BY OwnerIs DEF Unlisted, Watchers, Unwatched, ProcSet, Stays, Lower, Value, Pc, HasOne,
     ThreadSet, Typed, Woken, Goto, Return, At, Idle, Outside
<1>. QED BY <1>1, <1>2, <1>3, SameStays, WatchesStay

LEMMA KillWatches == ASSUME Typed, Typed', \A u \in Threads : Watches(u), NEW p \in Procs, Kill(p)
  PROVE  \A u \in Threads : Watches(u)'
<1>1. \A u \in Threads : Fewer(u)
  BY OwnerIs DEF Fewer, Watchers, Typed, ProcSet, Kill
<1>2. \A u \in Threads \ {p} : thread'[u] = thread[u]
  BY OwnerIs DEF Typed, Kill
<1>3. Stays(p)
  BY OwnerIs DEF Stays, Lower, Value, Pc, HasOne, ThreadSet, Typed, Kill, At
<1>. QED BY <1>1, <1>2, <1>3, SameStays, WatchesStay

LEMMA DieBeginWatches ==
  ASSUME Typed, Typed', \A u \in Threads : Watches(u), NEW p \in Procs, DieBegin(p)
  PROVE  \A u \in Threads : Watches(u)'
<1>1. \A u \in Threads : Fewer(u)
  BY OwnerIs DEF Fewer, Watchers, Typed, ProcSet, DieBegin
<1>2. \A u \in Threads \ {p} : thread'[u] = thread[u]
  BY OwnerIs DEF Typed, DieBegin, ToChildren, NextChild
<1>3. Stays(p)
  BY OwnerIs DEF Stays, Lower, Value, Pc, HasOne, ThreadSet, Typed, DieBegin, ToChildren,
     NextChild, At, Idle, Outside
<1>. QED BY <1>1, <1>2, <1>3, SameStays, WatchesStay

LEMMA AwaitWatches ==
  ASSUME Typed, Typed', \A u \in Threads : Watches(u), NEW p \in Procs, Await(p)
  PROVE  \A u \in Threads : Watches(u)'
<1>1. \A u \in Threads : Fewer(u)
  BY DEF Fewer, Watchers, Await
<1>2. \A u \in Threads \ {p} : thread'[u] = thread[u]
  BY OwnerIs DEF Typed, Await, Goto
<1>3. Stays(p)
  BY OwnerIs DEF Stays, Lower, Value, Pc, HasOne, ThreadSet, Typed, Await, Goto, At
<1>. QED BY <1>1, <1>2, <1>3, SameStays, WatchesStay

LEMMA OrphanWatches ==
  ASSUME Typed, Typed', \A u \in Threads : Watches(u), NEW p \in Procs, Child(p) \in Procs,
         Orphan(p)
  PROVE  \A u \in Threads : Watches(u)'
<1>1. \A u \in Threads : Fewer(u)
  BY OwnerIs DEF Fewer, Watchers, Typed, ProcSet, Orphan, Forget
<1>2. \A u \in Threads \ {p} : thread'[u] = thread[u]
  BY OwnerIs DEF Typed, Orphan, Goto
<1>3. Stays(p)
  BY OwnerIs DEF Stays, Lower, Value, Pc, HasOne, ThreadSet, Typed, Orphan, Goto, At
<1>. QED BY <1>1, <1>2, <1>3, SameStays, WatchesStay

LEMMA DropWatches == ASSUME Typed, Typed', \A u \in Threads : Watches(u), NEW p \in Procs, Drop(p)
  PROVE  \A u \in Threads : Watches(u)'
<1>1. \A u \in Threads : Fewer(u)
  BY OwnerIs DEF Fewer, Watchers, Typed, ProcSet, Drop, Others
<1>2. \A u \in Threads \ {p} : thread'[u] = thread[u]
  BY OwnerIs DEF Typed, Drop, ToChildren, NextChild
<1>3. Stays(p)
  BY OwnerIs DEF Stays, Lower, Value, Pc, HasOne, ThreadSet, Typed, Drop, ToChildren, NextChild,
     At, Idle, Outside
<1>. QED BY <1>1, <1>2, <1>3, SameStays, WatchesStay

LEMMA KillThreadsWatches ==
  ASSUME Typed, Typed', \A u \in Threads : Watches(u), NEW p \in Procs, KillThreads(p)
  PROVE  \A u \in Threads : Watches(u)'
<1>1. \A u \in Threads : Fewer(u)
  BY OwnerIs DEF Fewer, Watchers, Typed, ProcSet, KillThreads
<1>2. \A u \in Threads \ {p} : thread'[u] = thread[u]
  BY OwnerIs DEF Typed, KillThreads, Goto
<1>3. Stays(p)
  BY OwnerIs DEF Stays, Lower, Value, Pc, HasOne, ThreadSet, Typed, KillThreads, Goto, At
<1>. QED BY <1>1, <1>2, <1>3, SameStays, WatchesStay

LEMMA TestParentWatches ==
  ASSUME Typed, Typed', \A u \in Threads : Watches(u), NEW p \in Procs, TestParent(p)
  PROVE  \A u \in Threads : Watches(u)'
<1>1. \A u \in Threads : Fewer(u)
  BY DEF Fewer, Watchers, TestParent
<1>2. \A u \in Threads \ {p} : thread'[u] = thread[u]
  BY OwnerIs DEF Typed, TestParent, With, Goto
<1>3. Stays(p)
  BY OwnerIs DEF Stays, Lower, Value, Pc, HasOne, ThreadSet, Typed, TestParent, With, Goto, At
<1>. QED BY <1>1, <1>2, <1>3, SameStays, WatchesStay

LEMMA SignalParentWatches ==
  ASSUME Typed, Typed', \A u \in Threads : Watches(u), NEW p \in Procs, SignalParent(p)
  PROVE  \A u \in Threads : Watches(u)'
<1>1. \A u \in Threads : Fewer(u)
  BY DEF Fewer, Watchers, SignalParent
<1>2. \A u \in Threads \ {p} : thread'[u] = thread[u]
  BY OwnerIs DEF Typed, SignalParent, With
<1>3. Stays(p)
  BY OwnerIs DEF Stays, Lower, Value, Pc, HasOne, ThreadSet, Typed, SignalParent, With, At
<1>. QED BY <1>1, <1>2, <1>3, SameStays, WatchesStay

LEMMA MarkProcessForDestructionWatches ==
  ASSUME Typed, Typed', \A u \in Threads : Watches(u), NEW p \in Procs,
         MarkProcessForDestruction(p)
  PROVE  \A u \in Threads : Watches(u)'
<1>1. \A u \in Threads : Fewer(u)
  BY OwnerIs DEF Fewer, Watchers, Typed, ProcSet, MarkProcessForDestruction
<1>2. \A u \in Threads \ {p} : thread'[u] = thread[u]
  BY OwnerIs DEF Typed, MarkProcessForDestruction, Goto
<1>3. Stays(p)
  BY OwnerIs DEF Stays, Lower, Value, Pc, HasOne, ThreadSet, Typed, MarkProcessForDestruction,
     Goto, At
<1>. QED BY <1>1, <1>2, <1>3, SameStays, WatchesStay

LEMMA FinalWatches ==
  ASSUME Typed, Typed', \A u \in Threads : Watches(u), NEW p \in Procs, Final(p)
  PROVE  \A u \in Threads : Watches(u)'
<1>1. \A u \in Threads : Fewer(u)
  BY OwnerIs DEF Fewer, Watchers, Typed, ProcSet, Final
<1>2. \A u \in Threads \ {p} : thread'[u] = thread[u]
  BY OwnerIs DEF Typed, Final, Goto
<1>3. Stays(p)
  BY OwnerIs DEF Stays, Lower, Value, Pc, HasOne, ThreadSet, Typed, Final, Goto, At
<1>. QED BY <1>1, <1>2, <1>3, SameStays, WatchesStay

LEMMA WatchesMore ==
  ASSUME Typed', NEW t \in Threads, NEW cs \in SUBSET Procs, NEW ds \in SUBSET cs,
         \A p \in Procs : t \in Watchers(p)' => p \in cs \ ds,
         Value(t)' = Cardinality(ds), Pc(t)' = "wait"
  PROVE  Watches(t)'
<1>1. PICK W : W = {p \in Procs : t \in Watchers(p)'}
  OBVIOUS
<1>2. Watched(t)' = W
  BY <1>1 DEF Watched
<1>3. W \subseteq cs \ ds
  BY <1>1
<1>4. IsFiniteSet(cs) /\ IsFiniteSet(ds) /\ Cardinality(cs) <= Cardinality(Procs)
  BY NamesAssumption, FS_Subset
<1>5. IsFiniteSet(cs \ ds) /\ Cardinality(cs \ ds) = Cardinality(cs) - Cardinality(cs \cap ds)
  BY <1>4, FS_Difference
<1>6. cs \cap ds = ds
  OBVIOUS
<1>7. Cardinality(W) <= Cardinality(cs \ ds) /\ IsFiniteSet(W)
  BY <1>3, <1>5, FS_Subset
<1>8. Cardinality(ds) + Cardinality(W) <= Cardinality(Procs)
  <2>1. /\ Cardinality(ds) \in Nat /\ Cardinality(W) \in Nat /\ Cardinality(cs) \in Nat
        /\ Cardinality(cs \ ds) \in Nat
    BY <1>4, <1>5, <1>7, FS_CardinalityType
  <2>2. Cardinality(cs \ ds) = Cardinality(cs) - Cardinality(ds)
    BY <1>5, <1>6
  <2>. QED BY <1>4, <1>7, <2>1, <2>2, Counted
<1>. QED BY <1>2, <1>8 DEF Watches, HasOne

LEMMA WatchingWatchers == ASSUME Typed, NEW t \in Threads, NEW cs PROVE
  \A p \in Procs, u \in Threads :
    u \in Watching(t, cs)[p].watching <=> u \in Watchers(p) \/ (u = t /\ p \in cs /\ ~Dead(p))
BY DEF Typed, ProcSet, Watching, Watchers

LEMMA WatchWatches ==
  ASSUME Typed, Typed', \A u \in Threads : Watches(u), NEW t \in Threads, NEW cs \in SUBSET Procs,
         Pc(t) \notin HasOne, Watch(t, cs)
  PROVE  \A u \in Threads : Watches(u)'
<1>1. ASSUME NEW u \in Threads \ {t} PROVE Watches(u)'
  <2>1. Fewer(u)
    BY <1>1, WatchingWatchers DEF Watch, Watchers, Fewer
  <2>2. thread'[u] = thread[u]
    BY <1>1 DEF Watch, Typed
  <2>. QED BY <2>1, <2>2, SameStays, WatchesStay
<1>2. Watches(t)'
  <2>1. PICK ds : ds = {c \in cs : Dead(c)}
    OBVIOUS
  <2>2. \A p \in Procs : t \notin Watchers(p)
    BY DEF Watches, Watched
  <2>3. \A p \in Procs : t \in Watchers(p)' => p \in cs \ ds
    BY <2>1, <2>2, WatchingWatchers DEF Watch, Watchers
  <2>4. PICK n : n = Signals(cs)
    OBVIOUS
  <2>5. thread' = [thread EXCEPT ![t].pc = "wait", ![t].value = n]
    BY <2>4 DEF Watch
  <2>6. Value(t)' = n /\ Pc(t)' = "wait"
    BY <2>5 DEF Typed, ThreadSet, Value, Pc
  <2>7. n = Cardinality(ds)
    BY <2>1, <2>4 DEF Signals
  <2>. QED BY <2>1, <2>3, <2>6, <2>7, WatchesMore
<1>. QED BY <1>1, <1>2

LEMMA WatchAllWatches ==
  ASSUME Typed, Typed', \A u \in Threads : Watches(u), NEW t \in Threads, WatchAll(t)
  PROVE  \A u \in Threads : Watches(u)'
<1>1. Pc(t) \notin HasOne
  BY DEF WatchAll, At, Pc, HasOne
<1>2. CASE Return(t) /\ UNCHANGED proc
  <2>1. \A u \in Threads : Fewer(u)
    BY <1>2 DEF Fewer, Watchers
  <2>2. \A u \in Threads \ {t} : thread'[u] = thread[u]
    BY <1>2 DEF Return, Typed
  <2>3. Stays(t)
    BY <1>1, <1>2 DEF Return, Idle, Outside, Typed, Stays, Lower, Value, Pc
  <2>. QED BY <2>1, <2>2, <2>3, SameStays, WatchesStay
<1>3. CASE Watch(t, Children(Owner(t)))
  BY <1>1, <1>3, WatchWatches, TypedView, OwnerIs
<1>. QED BY <1>2, <1>3 DEF WatchAll, Children

LEMMA CheckWatches ==
  ASSUME Typed, Typed', \A u \in Threads : Watches(u), NEW t \in Threads, Child(t) \in Procs, Check(t)
  PROVE  \A u \in Threads : Watches(u)'
<1>1. Pc(t) \notin HasOne
  BY DEF Check, At, Pc, HasOne
<1>2. CASE (Goto(t, "remove") \/ Return(t)) /\ UNCHANGED proc
  <2>1. \A u \in Threads : Fewer(u)
    BY <1>2 DEF Fewer, Watchers
  <2>2. \A u \in Threads \ {t} : thread'[u] = thread[u]
    BY <1>2 DEF Goto, Return, Typed
  <2>3. Stays(t)
    BY <1>1, <1>2 DEF Goto, Return, Idle, Outside, Typed, ThreadSet, Stays, Lower, Value, Pc
  <2>. QED BY <2>1, <2>2, <2>3, SameStays, WatchesStay
<1>3. CASE Watch(t, {Child(t)})
  BY <1>1, <1>3, WatchWatches
<1>. QED BY <1>2, <1>3 DEF Check

LEMMA FrontWatches ==
  ASSUME Typed, Typed', \A u \in Threads : Watches(u), NEW p \in Procs, Front(p)
  PROVE  \A u \in Threads : Watches(u)'
<1>1. p \in Threads /\ Pc(p) = "front"
  BY OwnerIs DEF Front, At, Pc
<1>2. Pc(p) \notin HasOne /\ Value(p) = 0 /\ \A q \in Procs : p \notin Watchers(q)
  BY <1>1 DEF Watches, Watched, HasOne
<1>3. \A u \in Threads \ {p} : thread'[u] = thread[u]
  BY DEF Front, Goto, With, Typed
<1>4. CASE proc' = proc \/ \E c \in Procs : proc' = [proc EXCEPT ![c].kill = TRUE]
  <2>1. \A u \in Threads : Fewer(u)
    BY <1>4 DEF Fewer, Watchers, Typed, ProcSet
  <2>2. Value(p)' = Value(p)
    <3>1. CASE Goto(p, "assert")
      BY <1>1, <3>1 DEF Goto, Typed, ThreadSet, Value
    <3>2. ASSUME NEW c \in proc[p].children,
                 \/ With(p, "await", c) \/ With(p, "orphan", c)
                 \/ thread' = [thread EXCEPT ![p].pc = "wait", ![p].child = c]
          PROVE  Value(p)' = Value(p)
      BY <1>1, <3>2 DEF With, Typed, ThreadSet, Value
    <3>. QED BY <3>1, <3>2 DEF Front
  <2>3. Stays(p)
    BY <1>1, <1>2, <2>2 DEF Stays, Lower
  <2>. QED BY <1>3, <2>1, <2>3, SameStays, WatchesStay
<1>5. ASSUME NEW c \in Procs, State(c) = "Dying", proc' = Watching(p, {c}),
             thread' = [thread EXCEPT ![p].pc = "wait", ![p].child = c]
      PROVE  \A u \in Threads : Watches(u)'
  <2>1. ASSUME NEW u \in Threads \ {p} PROVE Watches(u)'
    <3>1. Fewer(u)
      BY <1>1, <1>5, <2>1, WatchingWatchers DEF Watchers, Fewer
    <3>. QED BY <1>3, <3>1, SameStays, WatchesStay
  <2>2. \A q \in Procs : p \in Watchers(q)' => q \in {c} \ {}
    BY <1>1, <1>2, <1>5, WatchingWatchers DEF Watchers
  <2>3. Value(p)' = 0 /\ Pc(p)' = "wait"
    BY <1>1, <1>2, <1>5 DEF Typed, ThreadSet, Value, Pc
  <2>4. Watches(p)'
    BY <1>1, <2>2, <2>3, WatchesMore, FS_EmptySet
  <2>. QED BY <2>1, <2>4
<1>6. \A c \in proc[p].children : c \in Procs
  BY ProcFields DEF Typed
<1>. QED BY <1>4, <1>5, <1>6 DEF Front

LEMMA SetDeadWatches ==
  ASSUME Typed, Typed', \A u \in Threads : Watches(u), NEW p \in Procs, SetDead(p)
  PROVE  \A u \in Threads : Watches(u)'
<1>1. p \in Threads /\ Pc(p) = "set_dead"
  BY OwnerIs DEF SetDead, At, Pc
<1>2. \A q \in Procs : p \notin Watchers(q)
  BY <1>1 DEF Watches, Watched, HasOne
<1>3. \A q \in Procs, u \in Threads : u \in Watchers(q)' <=> q # p /\ u \in Watchers(q)
  BY DEF SetDead, Typed, ProcSet, Watchers
<1>4. \A u \in Threads : Fewer(u)
  BY <1>3 DEF Fewer
<1>5. Watches(p)'
  <2>1. Pc(p)' = "tell"
    BY <1>1 DEF SetDead, Signalled, Typed, ThreadSet, Pc
  <2>2. Value(p)' = Value(p)
    BY <1>1, <1>2, ZenonT(60) DEF SetDead, Signalled, Typed, ThreadSet, Value, Watchers
  <2>. QED BY <1>1, <1>4, <2>1, <2>2, WatchesStay DEF Stays, Lower, HasOne
<1>6. ASSUME NEW u \in Threads \ {p}, u \notin Watchers(p) PROVE Watches(u)'
  <2>1. thread'[u] = thread[u]
    BY <1>6 DEF SetDead, Signalled, Watchers
  <2>. QED BY <1>4, <2>1, SameStays, WatchesStay
<1>7. ASSUME NEW u \in Threads \ {p}, u \in Watchers(p) PROVE Watches(u)'
  <2>1. PICK V : V = Watched(u)
    OBVIOUS
  <2>2. Watched(u)' = V \ {p}
    BY <1>3, <2>1 DEF Watched
  <2>3. p \in V /\ IsFiniteSet(V) /\ Cardinality(V) \in Nat
    BY <1>7, <2>1, WatchedIs DEF Watched
  <2>4. Cardinality(V \ {p}) = Cardinality(V) - 1
    BY <2>3, FS_RemoveElement
  <2>5. Value(u)' = Value(u) + 1
    BY <1>7, ZenonT(60) DEF SetDead, Signalled, Watchers, Value, Typed, ThreadSet
  <2>6. Pc(u)' = IF Pc(u) = "blocked" THEN "woken" ELSE Pc(u)
    BY <1>7, ZenonT(60) DEF SetDead, Signalled, Watchers, Pc, Typed, ThreadSet
  <2>7. Pc(u) \in HasOne
    BY <2>1, <2>3 DEF Watches
  <2>8. Value(u) + Cardinality(V) <= Cardinality(Procs) /\ Value(u) \in Int
    BY <2>1, ValueIs DEF Watches
  <2>9. Value(u)' + Cardinality(V \ {p}) <= Cardinality(Procs)
    BY <2>3, <2>4, <2>5, <2>8, Counted
  <2>. QED BY <2>2, <2>6, <2>7, <2>9 DEF Watches, HasOne
<1>. QED BY <1>5, <1>6, <1>7

-----------------------------------------------------------------------------
LEMMA QuietKeeps == ASSUME Typed, Ties, NEW t \in Threads, Quiet(t) PROVE Ties'
BY ChoosesMove, LooksMove, PicksMove, KeepsMove, LeavesMove DEF Quiet

(* Initially there is Root, in user mode with its workers.                 *)
LEMMA Initially == Init => IInv
<1>1. SUFFICES ASSUME Init PROVE IInv
  OBVIOUS
<1>2. Typed
  <2>1. Unborn \in ProcSet
    BY DEF Unborn, ProcSet
  <2>2. \A loc \in {"user", "unborn"} : Idle(loc) \in ThreadSet
    BY IdleTyped DEF Locs
  <2>. QED BY <1>1, <2>1, <2>2, NewbornTyped, OwnerIs DEF Init, Typed
<1>3. \A p \in Procs : /\ State(p) = (IF p = Root THEN "Running" ELSE "none") /\ Parent(p) = None
                       /\ Children(p) = {} /\ (InList(p) <=> p = Root) /\ Watchers(p) = {}
  BY <1>1 DEF Init, Newborn, Unborn, State, Parent, Children, InList, Watchers
<1>4. \A t \in Threads : /\ Pc(t) = (IF Owner(t) = Root THEN "user" ELSE "unborn")
                         /\ Child(t) = None /\ Value(t) = 0
  BY <1>1 DEF Init, Idle, Pc, Child, Value
<1>5. Ties
  <2>1. \A c \in Procs : Unknown(c) /\ Stage(c) /\ Orphaned(c) /\ OnlyLate(c) /\ Tells(c)
    BY <1>3, <1>4, OwnerIs, NamesAssumption
       DEF Unknown, Stage, Orphaned, OnlyLate, Tells, Making, Loop, Waiting, After, Past
  <2>2. \A t \in Threads : /\ MakesOne(t) /\ RaisesOne(t) /\ Registers(t) /\ Exists(t)
                           /\ Handles(t) /\ OneHolds(t)
    BY <1>3, <1>4, OwnerIs, NamesAssumption
       DEF MakesOne, RaisesOne, Registers, Exists, Handles, OneHolds, Making, Raising, Handling, Holding
  <2>3. OneFamily /\ Agree
    BY <1>3, <1>4, OwnerIs, NamesAssumption DEF OneFamily, Related, Agree
  <2>. QED BY <2>1, <2>2, <2>3 DEF Ties
<1>6. \A t \in Threads : Watches(t)
  <2>1. ASSUME NEW t \in Threads PROVE Watches(t)
    <3>1. Watched(t) = {}
      BY <1>3 DEF Watched
    <3>. QED BY <1>4, <3>1, FS_EmptySet, Counted DEF Watches
  <2>. QED BY <2>1
<1>. QED BY <1>2, <1>5, <1>6 DEF IInv

(* Every step keeps the invariant.                                         *)
LEMMA EnterStep == ASSUME IInv, ~Panicked, NEW t \in Threads, Enter(t) PROVE IInv'
<1>1. Typed'
  BY EnterTyped DEF IInv
<1>2. Ties'
  BY EnterQuiet, QuietKeeps, OwnerIs DEF IInv
<1>3. \A u \in Threads : Watches(u)'
  BY <1>1, EnterWatches DEF IInv
<1>. QED BY <1>1, <1>2, <1>3 DEF IInv

LEMMA ForkStep == ASSUME IInv, ~Panicked, NEW t \in Threads, Fork(t) PROVE IInv'
<1>1. Pc(t) = "fork"
  BY DEF Fork, At, Pc
<1>2. Child(t) \in Procs
  BY <1>1 DEF IInv, Ties, MakesOne, Making
<1>3. Typed'
  BY <1>2, ForkTyped DEF IInv
<1>4. Ties'
  BY <1>2, ForkKeeps DEF IInv
<1>5. \A u \in Threads : Watches(u)'
  BY <1>2, <1>3, ForkWatches DEF IInv
<1>. QED BY <1>3, <1>4, <1>5 DEF IInv

LEMMA CopyThreadStep == ASSUME IInv, ~Panicked, NEW t \in Threads, CopyThread(t) PROVE IInv'
<1>1. Pc(t) = "copy"
  BY DEF CopyThread, At, Pc
<1>2. Child(t) \in Procs
  BY <1>1 DEF IInv, Ties, RaisesOne, Raising
<1>3. Typed'
  BY <1>2, CopyThreadTyped DEF IInv
<1>4. Ties'
  BY <1>2, CopyThreadQuiet, QuietKeeps, OwnerIs DEF IInv
<1>5. \A u \in Threads : Watches(u)'
  BY <1>2, <1>3, CopyThreadWatches DEF IInv
<1>. QED BY <1>3, <1>4, <1>5 DEF IInv

LEMMA CreateStep == ASSUME IInv, ~Panicked, NEW t \in Threads, Create(t) PROVE IInv'
<1>1. Pc(t) = "exec"
  BY DEF Create, At, Pc
<1>2. Child(t) \in Procs
  BY <1>1 DEF IInv, Ties, MakesOne, Making
<1>3. Typed'
  BY <1>2, CreateTyped DEF IInv
<1>4. Ties'
  BY <1>2, CreateKeeps DEF IInv
<1>5. \A u \in Threads : Watches(u)'
  BY <1>2, <1>3, CreateWatches DEF IInv
<1>. QED BY <1>3, <1>4, <1>5 DEF IInv

LEMMA RegisterChildProcessStep ==
  ASSUME IInv, ~Panicked, NEW t \in Threads, RegisterChildProcess(t)
  PROVE  IInv'
<1>1. Pc(t) = "register"
  BY DEF RegisterChildProcess, At, Pc
<1>2. Child(t) \in Procs
  BY <1>1 DEF IInv, Ties, RaisesOne, Raising
<1>3. Typed'
  BY <1>2, RegisterChildProcessTyped DEF IInv
<1>4. Ties'
  BY <1>2, RegisterChildProcessKeeps DEF IInv
<1>5. \A u \in Threads : Watches(u)'
  BY <1>2, <1>3, RegisterChildProcessWatches DEF IInv
<1>. QED BY <1>3, <1>4, <1>5 DEF IInv

LEMMA StartStep == ASSUME IInv, ~Panicked, NEW t \in Threads, Start(t) PROVE IInv'
<1>1. Pc(t) = "start"
  BY DEF Start, At, Pc
<1>2. Child(t) \in Procs /\ Pc(Child(t)) = "unborn" /\ Child(t) # t
  BY <1>1 DEF IInv, Ties, RaisesOne, Raising
<1>3. Typed'
  BY <1>2, StartTyped DEF IInv
<1>4. Ties'
  BY <1>2, StartKeeps DEF IInv
<1>5. \A u \in Threads : Watches(u)'
  BY <1>2, <1>3, StartWatches DEF IInv
<1>. QED BY <1>3, <1>4, <1>5 DEF IInv

LEMMA TakeStep == ASSUME IInv, ~Panicked, NEW t \in Threads, Take(t) PROVE IInv'
<1>1. Typed'
  BY TakeTyped DEF IInv
<1>2. Ties'
  BY TakeKeeps DEF IInv
<1>3. \A u \in Threads : Watches(u)'
  BY <1>1, TakeWatches DEF IInv
<1>. QED BY <1>1, <1>2, <1>3 DEF IInv

LEMMA UnparentStep == ASSUME IInv, ~Panicked, NEW t \in Threads, Unparent(t) PROVE IInv'
<1>1. Pc(t) = "unparent"
  BY DEF Unparent, At, Pc
<1>2. Child(t) \in Procs
  BY <1>1 DEF IInv, Ties, Handles, Handling
<1>3. Typed'
  BY <1>2, UnparentTyped DEF IInv
<1>4. Ties'
  BY <1>2, UnparentKeeps DEF IInv
<1>5. \A u \in Threads : Watches(u)'
  BY <1>2, <1>3, UnparentWatches DEF IInv
<1>. QED BY <1>3, <1>4, <1>5 DEF IInv

LEMMA NoneDeadStep == ASSUME IInv, ~Panicked, NEW t \in Threads, NoneDead(t) PROVE IInv'
<1>1. Typed'
  BY NoneDeadTyped DEF IInv
<1>2. Ties'
  BY NoneDeadQuiet, QuietKeeps, OwnerIs DEF IInv
<1>3. \A u \in Threads : Watches(u)'
  BY <1>1, NoneDeadWatches DEF IInv
<1>. QED BY <1>1, <1>2, <1>3 DEF IInv

LEMMA WatchAllStep == ASSUME IInv, ~Panicked, NEW t \in Threads, WatchAll(t) PROVE IInv'
<1>1. Typed'
  BY WatchAllTyped DEF IInv
<1>2. Ties'
  BY WatchAllQuiet, QuietKeeps, OwnerIs DEF IInv
<1>3. \A u \in Threads : Watches(u)'
  BY <1>1, WatchAllWatches DEF IInv
<1>. QED BY <1>1, <1>2, <1>3 DEF IInv

LEMMA FindStep == ASSUME IInv, ~Panicked, NEW t \in Threads, Find(t) PROVE IInv'
<1>1. Typed'
  BY FindTyped DEF IInv
<1>2. Ties'
  BY FindQuiet, QuietKeeps, OwnerIs DEF IInv
<1>3. \A u \in Threads : Watches(u)'
  BY <1>1, FindWatches DEF IInv
<1>. QED BY <1>1, <1>2, <1>3 DEF IInv

LEMMA CheckStep == ASSUME IInv, ~Panicked, NEW t \in Threads, Check(t) PROVE IInv'
<1>1. Pc(t) = "check"
  BY DEF Check, At, Pc
<1>2. Child(t) \in Procs
  BY <1>1 DEF IInv, Ties, Handles, Handling
<1>3. Typed'
  BY <1>2, CheckTyped DEF IInv
<1>4. Ties'
  BY <1>2, CheckQuiet, QuietKeeps, OwnerIs DEF IInv
<1>5. \A u \in Threads : Watches(u)'
  BY <1>2, <1>3, CheckWatches DEF IInv
<1>. QED BY <1>3, <1>4, <1>5 DEF IInv

LEMMA RemoveStep == ASSUME IInv, ~Panicked, NEW t \in Threads, Remove(t) PROVE IInv'
<1>1. Typed'
  BY RemoveTyped DEF IInv
<1>2. Ties'
  BY RemoveKeeps DEF IInv
<1>3. \A u \in Threads : Watches(u)'
  BY <1>1, RemoveWatches DEF IInv
<1>. QED BY <1>1, <1>2, <1>3 DEF IInv

LEMMA WaitStep == ASSUME IInv, ~Panicked, NEW t \in Threads, Wait(t) PROVE IInv'
<1>1. Typed'
  BY WaitTyped DEF IInv
<1>2. Ties'
  BY WaitQuiet, QuietKeeps, OwnerIs DEF IInv
<1>3. \A u \in Threads : Watches(u)'
  BY <1>1, WaitWatches DEF IInv
<1>. QED BY <1>1, <1>2, <1>3 DEF IInv

LEMMA InterruptStep == ASSUME IInv, ~Panicked, NEW t \in Threads, Interrupt(t) PROVE IInv'
<1>1. Typed'
  BY InterruptTyped DEF IInv
<1>2. Ties'
  BY InterruptQuiet, QuietKeeps, OwnerIs DEF IInv
<1>3. \A u \in Threads : Watches(u)'
  BY <1>1, InterruptWatches DEF IInv
<1>. QED BY <1>1, <1>2, <1>3 DEF IInv

LEMMA WokenStep == ASSUME IInv, ~Panicked, NEW t \in Threads, Woken(t) PROVE IInv'
<1>1. Typed'
  BY WokenTyped DEF IInv
<1>2. Ties'
  BY WokenQuiet, QuietKeeps, OwnerIs DEF IInv
<1>3. \A u \in Threads : Watches(u)'
  BY <1>1, WokenWatches DEF IInv
<1>. QED BY <1>1, <1>2, <1>3 DEF IInv

LEMMA KillStep == ASSUME IInv, ~Panicked, NEW p \in Procs, Kill(p) PROVE IInv'
<1>1. Typed'
  BY KillTyped DEF IInv
<1>2. Ties'
  BY KillQuiet, QuietKeeps, OwnerIs DEF IInv
<1>3. \A u \in Threads : Watches(u)'
  BY <1>1, KillWatches DEF IInv
<1>. QED BY <1>1, <1>2, <1>3 DEF IInv

LEMMA DieBeginStep == ASSUME IInv, ~Panicked, NEW p \in Procs, DieBegin(p) PROVE IInv'
<1>1. Typed'
  BY DieBeginTyped DEF IInv
<1>2. Ties'
  BY DieBeginKeeps DEF IInv
<1>3. \A u \in Threads : Watches(u)'
  BY <1>1, DieBeginWatches DEF IInv
<1>. QED BY <1>1, <1>2, <1>3 DEF IInv

LEMMA FrontStep == ASSUME IInv, ~Panicked, NEW p \in Procs, Front(p) PROVE IInv'
<1>1. Typed'
  BY FrontTyped DEF IInv
<1>2. Ties'
  BY FrontQuiet, QuietKeeps, OwnerIs DEF IInv
<1>3. \A u \in Threads : Watches(u)'
  BY <1>1, FrontWatches DEF IInv
<1>. QED BY <1>1, <1>2, <1>3 DEF IInv

LEMMA AwaitStep == ASSUME IInv, ~Panicked, NEW p \in Procs, Await(p) PROVE IInv'
<1>1. Typed'
  BY AwaitTyped DEF IInv
<1>2. Ties'
  BY AwaitQuiet, QuietKeeps, OwnerIs DEF IInv
<1>3. \A u \in Threads : Watches(u)'
  BY <1>1, AwaitWatches DEF IInv
<1>. QED BY <1>1, <1>2, <1>3 DEF IInv

LEMMA OrphanStep == ASSUME IInv, ~Panicked, NEW p \in Procs, Orphan(p) PROVE IInv'
<1>1. Pc(p) = "orphan"
  BY DEF Orphan, At, Pc
<1>2. Child(p) \in Procs
  BY <1>1, OwnerIs DEF IInv, Ties, Handles, Handling
<1>3. Typed'
  BY <1>2, OrphanTyped DEF IInv
<1>4. Ties'
  BY <1>2, OrphanKeeps DEF IInv
<1>5. \A u \in Threads : Watches(u)'
  BY <1>2, <1>3, OrphanWatches DEF IInv
<1>. QED BY <1>3, <1>4, <1>5 DEF IInv

LEMMA DropStep == ASSUME IInv, ~Panicked, NEW p \in Procs, Drop(p) PROVE IInv'
<1>1. Typed'
  BY DropTyped DEF IInv
<1>2. Ties'
  BY DropKeeps DEF IInv
<1>3. \A u \in Threads : Watches(u)'
  BY <1>1, DropWatches DEF IInv
<1>. QED BY <1>1, <1>2, <1>3 DEF IInv

LEMMA KillThreadsStep == ASSUME IInv, ~Panicked, NEW p \in Procs, KillThreads(p) PROVE IInv'
<1>1. Typed'
  BY KillThreadsTyped DEF IInv
<1>2. Ties'
  BY KillThreadsKeeps DEF IInv
<1>3. \A u \in Threads : Watches(u)'
  BY <1>1, KillThreadsWatches DEF IInv
<1>. QED BY <1>1, <1>2, <1>3 DEF IInv

LEMMA SetDeadStep == ASSUME IInv, ~Panicked, NEW p \in Procs, SetDead(p) PROVE IInv'
<1>1. \A u \in proc[p].watching : thread[u].value < Cardinality(Procs)
  <2>1. ASSUME NEW u \in proc[p].watching PROVE thread[u].value < Cardinality(Procs)
    <3>1. u \in Threads /\ Value(u) \in Int
      BY ProcFields, ValueIs DEF IInv, Typed
    <3>2. PICK V : V = Watched(u)
      OBVIOUS
    <3>3. p \in V /\ IsFiniteSet(V) /\ Cardinality(V) \in Nat
      BY <3>1, <3>2, WatchedIs DEF Watched, Watchers
    <3>4. Cardinality(V) # 0
      BY <3>3, FS_EmptySet
    <3>5. Value(u) + Cardinality(V) <= Cardinality(Procs)
      BY <3>1, <3>2 DEF IInv, Watches
    <3>. QED BY <3>1, <3>3, <3>4, <3>5, Counted DEF Value
  <2>. QED BY <2>1
<1>2. Typed'
  BY <1>1, SetDeadTyped DEF IInv
<1>3. Ties'
  BY <1>1, SetDeadKeeps DEF IInv
<1>4. \A u \in Threads : Watches(u)'
  BY <1>1, <1>2, SetDeadWatches DEF IInv
<1>. QED BY <1>2, <1>3, <1>4 DEF IInv

LEMMA TestParentStep == ASSUME IInv, ~Panicked, NEW p \in Procs, TestParent(p) PROVE IInv'
<1>1. Typed'
  BY TestParentTyped DEF IInv
<1>2. Ties'
  BY TestParentQuiet, QuietKeeps, OwnerIs DEF IInv
<1>3. \A u \in Threads : Watches(u)'
  BY <1>1, TestParentWatches DEF IInv
<1>. QED BY <1>1, <1>2, <1>3 DEF IInv

LEMMA SignalParentStep == ASSUME IInv, ~Panicked, NEW p \in Procs, SignalParent(p) PROVE IInv'
<1>1. Typed'
  BY SignalParentTyped DEF IInv
<1>2. Ties'
  BY SignalParentQuiet, QuietKeeps, OwnerIs DEF IInv
<1>3. \A u \in Threads : Watches(u)'
  BY <1>1, SignalParentWatches DEF IInv
<1>. QED BY <1>1, <1>2, <1>3 DEF IInv

LEMMA MarkProcessForDestructionStep ==
  ASSUME IInv, ~Panicked, NEW p \in Procs, MarkProcessForDestruction(p)
  PROVE  IInv'
<1>1. Typed'
  BY MarkProcessForDestructionTyped DEF IInv
<1>2. Ties'
  BY MarkProcessForDestructionKeeps DEF IInv
<1>3. \A u \in Threads : Watches(u)'
  BY <1>1, MarkProcessForDestructionWatches DEF IInv
<1>. QED BY <1>1, <1>2, <1>3 DEF IInv

LEMMA FinalStep == ASSUME IInv, ~Panicked, NEW p \in Procs, Final(p) PROVE IInv'
<1>1. Typed'
  BY FinalTyped DEF IInv
<1>2. Ties'
  BY FinalKeeps DEF IInv
<1>3. \A u \in Threads : Watches(u)'
  BY <1>1, FinalWatches DEF IInv
<1>. QED BY <1>1, <1>2, <1>3 DEF IInv

LEMMA Step == ASSUME IInv, [Next]_vars PROVE IInv'
<1>1. CASE UNCHANGED vars
  <2>1. Typed'
    BY <1>1 DEF IInv, Typed, vars
  <2>2. Root \in Threads /\ Quiet(Root)
    BY <1>1, NamesAssumption, OwnerIs DEF vars, Quiet, Keeps, RestStill, SameProcs, SameStates,
       SameParents,
       SameChildren, SameLocks, SameLists, SameLate, State, Parent, Children, Locked, InList, Late, Pc, Child
  <2>3. \A t \in Threads : Fewer(t) /\ Stays(t)
    BY <1>1, SameStays DEF vars, Fewer, Watchers
  <2>. QED BY <2>1, <2>2, <2>3, QuietKeeps, WatchesStay DEF IInv
<1>2. ASSUME ~Panicked, NEW t \in Threads, Enter(t) \/ InKernel(t) PROVE IInv'
  BY <1>2, EnterStep, ForkStep, CopyThreadStep, CreateStep, RegisterChildProcessStep, StartStep,
     TakeStep, UnparentStep, NoneDeadStep, WatchAllStep, FindStep, CheckStep, RemoveStep,
     WaitStep, InterruptStep, WokenStep DEF InKernel
<1>3. ASSUME ~Panicked, NEW p \in Procs, Kill(p) \/ DieBegin(p) \/ Dying(p) PROVE IInv'
  BY <1>3, KillStep, DieBeginStep, FrontStep, AwaitStep, OrphanStep, DropStep, KillThreadsStep,
     SetDeadStep, TestParentStep, SignalParentStep, MarkProcessForDestructionStep, FinalStep DEF
     Dying
<1>. QED BY <1>1, <1>2, <1>3 DEF Next

-----------------------------------------------------------------------------
(* What the invariant says, in the words of the properties.                *)
LEMMA TypeFollows == ASSUME IInv PROVE TypeOK
<1>1. \A p \in Procs, t \in Threads : t \in proc[p].watching => HasWatcher(t)
  <2>1. ASSUME NEW p \in Procs, NEW t \in Threads, t \in proc[p].watching PROVE HasWatcher(t)
    <3>1. Watched(t) # {}
      BY <2>1 DEF Watched, Watchers
    <3>. QED BY <3>1 DEF IInv, Watches, HasOne, Pc, HasWatcher
  <2>. QED BY <2>1
<1>. QED BY <1>1 DEF IInv, Typed, ProcSet, ThreadSet, TypeOK

LEMMA NoChildLeftFollows == ASSUME IInv PROVE NoChildLeft
BY DEF IInv, Ties, OnlyLate, NoChildLeft, Dead, Children, Late

LEMMA ListedFollows == ASSUME IInv PROVE Listed
BY DEF IInv, Ties, Agree, Midway, Pc, Parent, Children, Listed, Between

(* A process that nothing refers to and that has a parent is on that       *)
(* parent's list, which is dead then: it came too late.                    *)
LEMMA LetGoFollows == ASSUME IInv PROVE LetGo
<1>1. SUFFICES ASSUME NEW c \in Procs, ~Referenced(c), Parent(c) # None PROVE Late(c)
  BY DEF LetGo, Parent, Late
<1>2. PICK p \in Procs : Parent(c) = p
  BY <1>1, TypedView DEF IInv
<1>3. ~Midway({"register", "unparent"}, c)
  BY <1>1 DEF Referenced, Midway, At, Pc
<1>4. c \in Children(p)
  BY <1>2, <1>3 DEF IInv, Ties, Agree
<1>5. ~InList(p)
  BY <1>1, <1>4 DEF Referenced, Children, InList
<1>6. State(p) # "none"
  BY <1>4 DEF IInv, Ties, Unknown
<1>7. State(p) = "Dead"
  BY <1>5, <1>6, TypedView DEF IInv, Ties, Stage
<1>. QED BY <1>4, <1>7 DEF IInv, Ties, OnlyLate

LEMMA ParentStaysFollows == ASSUME IInv PROVE ParentStays
BY OwnerIs DEF IInv, Ties, Tells, ParentStays, At, Pc, Parent

-----------------------------------------------------------------------------
(* What each step of Fork, SysExec, SysWaitPID and Die relies on and keeps. *)
THEOREM Invariant == Spec => []IInv
BY Initially, Step, PTL DEF Spec

(* Every process and thread keeps its type, and a watcher is on no list    *)
(* once the system call it lives in has gone on (SysWaitPID, KObject.h).   *)
THEOREM TypeCorrect == Spec => []TypeOK
BY Invariant, TypeFollows, PTL

(* Parent and children agree on who belongs to whom, at every step of a    *)
(* fork, an execution, a wait and a death (Process.cpp, Process.h).        *)
THEOREM TiesHold == Spec => []FamilyTies
<1>1. IInv => FamilyTies
  BY TypeFollows, ListedFollows, LetGoFollows, ParentStaysFollows DEF FamilyTies
<1>. QED BY Invariant, <1>1, PTL

(* A dead process leaves no child behind that Die could have killed        *)
(* (Process::Die).                                                         *)
THEOREM NoneLeft == Spec => []NoChildLeft
BY Invariant, NoChildLeftFollows, PTL
=============================================================================
