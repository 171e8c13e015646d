----------------------------- MODULE ProcessTree -----------------------------
(***************************************************************************)
(* Parents and children: SysFork and SysExec, SysWaitPID (Syscalls.cpp),   *)
(* the lists of children and of watchers (Process.h, KObject.h), and what  *)
(* Process::Die (Process.cpp) does to the children, the watchers and the   *)
(* parent of a process.                                                    *)
(*                                                                         *)
(* The main thread of a process has the name of the process; Root, which   *)
(* has no parent, also has Workers.  What Die does to the workers is in    *)
(* ProcessDeath: here they cannot enter the kernel once it has begun, and  *)
(* it waits until they have left it; the reaper is there too, and may free *)
(* a process as soon as its lock is released.  SIGCHLD has its default     *)
(* action, which is to be ignored.                                         *)
(***************************************************************************)
EXTENDS Integers, FiniteSets

CONSTANTS Procs, Root, Workers, None,
          Calls,    \* the system calls each thread makes, of scan, find, fork, exec
          Victims   \* the processes that may be sent a SIGKILL from outside

Threads == Procs \cup Workers

ASSUME NamesAssumption ==
  /\ Root \in Procs /\ IsFiniteSet(Procs) /\ Workers \cap Procs = {}
  /\ None \notin Procs /\ Victims \subseteq Procs
  /\ Calls \in [Threads -> SUBSET {"scan", "find", "fork", "exec"}]

Owner(t) == IF t \in Workers THEN Root ELSE t

VARIABLES
  proc,   \* Process: m_state, m_parent, m_children, m_processLock, m_watching, is it in
          \* the scheduler's list (listed), is a SIGKILL pending for its main thread; and
          \* history: did its parent list it too late for Die, was a SIGKILL overwritten
  thread  \* Thread: where its code is, its local `child`, the value of its watcher (a
          \* semaphore), was its wait interrupted

vars == <<proc, thread>>

Unborn == [state |-> "none", parent |-> None, children |-> {}, lock |-> FALSE, watching |-> {},
           listed |-> FALSE, kill |-> FALSE, late |-> FALSE, lost |-> FALSE]
Newborn(parent) == [Unborn EXCEPT !.state = "Running", !.parent = parent, !.listed = TRUE]
Idle(loc) == [pc |-> loc, child |-> None, value |-> 0, interrupted |-> FALSE]

Init ==
  /\ proc = [p \in Procs |-> IF p = Root THEN Newborn(None) ELSE Unborn]
  /\ thread = [t \in Threads |-> Idle(IF Owner(t) = Root THEN "user" ELSE "unborn")]

At(t, loc) == thread[t].pc = loc
Goto(t, loc) == thread' = [thread EXCEPT ![t].pc = loc]
With(t, loc, c) == thread' = [thread EXCEPT ![t].pc = loc, ![t].child = c]
Child(t) == thread[t].child
State(p) == proc[p].state
Dead(p) == State(p) = "Dead"
Locked(p) == proc[p].lock

(* The end of a system call: a pending SIGKILL is handled on the way out.  *)
Outside(t) == IF t \in Procs /\ proc[t].kill THEN "exit" ELSE "user"
Return(t) == thread' = [thread EXCEPT ![t] = Idle(Outside(t))]

(* ~KernelObjectWatcher: the watcher goes off every list it is in.         *)
Unwatched(t) == [p \in Procs |-> [proc[p] EXCEPT !.watching = @ \ {t}]]

(* A SIGKILL, or the death of its process, ends a thread's Block.          *)
Interruptible(t) == IF t \in Procs THEN proc[t].kill ELSE State(Root) # "Running"

(* A thread enters the kernel only while its process is alive.  It forks   *)
(* the process that comes next, while there are any left.                  *)
Fresh == {c \in Procs : State(c) = "none" /\ \A u \in Threads : Child(u) # c}
NextProcess == CHOOSE c \in Procs : c \in Fresh
Enter(t) ==
  /\ At(t, "user") /\ State(Owner(t)) = "Running"
  /\ \/ \E loc \in Calls[t] \cap {"scan", "find"} : Goto(t, loc)
     \/ \E loc \in Calls[t] \cap {"fork", "exec"} : Fresh # {} /\ With(t, loc, NextProcess)
  /\ UNCHANGED proc
-----------------------------------------------------------------------------
(* SysFork: the child is listed by Fork, then its main thread is           *)
(* overwritten with the caller, its pending signals with it, then started. *)
PastChildren(p) == thread[p].pc \in {"threads", "set_dead", "tell", "sigchld", "mark", "final", "gone"}

Fork(t) ==
  /\ At(t, "fork") /\ ~Locked(Owner(t))
  /\ proc' = [proc EXCEPT ![Child(t)] = [Newborn(Owner(t)) EXCEPT !.late = PastChildren(Owner(t))],
                          ![Owner(t)].children = @ \cup {Child(t)}]
  /\ Goto(t, "copy")

CopyThread(t) ==
  LET kill == t \in Procs /\ proc[t].kill IN
  /\ At(t, "copy")
  /\ proc' = [proc EXCEPT ![Child(t)].kill = kill, ![Child(t)].lost = proc[Child(t)].kill /\ ~kill]
  /\ Goto(t, "start")

(* SysExec: a process that has a parent before its parent lists it.        *)
Create(t) ==
  /\ At(t, "exec")
  /\ proc' = [proc EXCEPT ![Child(t)] = Newborn(Owner(t))]
  /\ Goto(t, "register")

RegisterChildProcess(t) ==
  /\ At(t, "register") /\ ~Locked(Owner(t))
  /\ proc' = [proc EXCEPT ![Child(t)].late = PastChildren(Owner(t)),
                          ![Owner(t)].children = @ \cup {Child(t)}]
  /\ Goto(t, "start")

Start(t) ==
  /\ At(t, "start") /\ ~Locked(Child(t))
  /\ thread' = [thread EXCEPT ![Child(t)].pc = "user", ![t] = Idle(Outside(t))]
  /\ UNCHANGED proc
-----------------------------------------------------------------------------
(* SysWaitPID for any child: RemoveDeadChild takes a dead one off the list *)
(* and holds m_processLock until it has that of the child too.             *)
DeadChildren(p) == {c \in proc[p].children : Dead(c)}

Take(t) ==
  /\ At(t, "scan") \/ At(t, "rescan")
  /\ ~Locked(Owner(t))
  /\ \E c \in DeadChildren(Owner(t)) :
       /\ proc' = [proc EXCEPT ![Owner(t)].children = @ \ {c}, ![Owner(t)].lock = TRUE]
       /\ With(t, "unparent", c)

ChildUnlocked(t) == ~Locked(Child(t))
Forget(p) == None

Unparent(t) ==
  /\ At(t, "unparent") /\ ChildUnlocked(t)
  /\ proc' = [Unwatched(t) EXCEPT ![Child(t)].parent = Forget(@),
                                  ![Owner(t)].children = @ \ {Child(t)}, ![Owner(t)].lock = FALSE]
  /\ Return(t)

(* None is dead: the system call waits, unless it has WNOHANG or its wait  *)
(* has been interrupted.                                                   *)
NoneDead(t) ==
  /\ ~Locked(Owner(t)) /\ DeadChildren(Owner(t)) = {}
  /\ \/ At(t, "scan") /\ (Goto(t, "watch") \/ Return(t))
     \/ At(t, "rescan") /\ (IF thread[t].interrupted THEN Return(t)
                            ELSE thread' = [thread EXCEPT ![t] = Idle("watch")])
  /\ proc' = Unwatched(t)

(* Process::Watch on each: a dead one signals the watcher at once.         *)
SignalsNever(cs) == 0                                                  \* mutant
Signals(cs) == Cardinality({c \in cs : Dead(c)})
Watching(t, cs) == [p \in Procs |-> IF p \in cs /\ ~Dead(p) THEN [proc[p] EXCEPT !.watching = @ \cup {t}]
                                    ELSE proc[p]]
Watch(t, cs) ==
  /\ proc' = Watching(t, cs)
  /\ thread' = [thread EXCEPT ![t].pc = "wait", ![t].value = Signals(cs)]

WatchAll(t) ==
  /\ At(t, "watch") /\ ~Locked(Owner(t))
  /\ IF proc[Owner(t)].children = {} THEN Return(t) /\ UNCHANGED proc
     ELSE Watch(t, proc[Owner(t)].children)

(* SysWaitPID for one child, found by FindChildByPID.                      *)
Find(t) ==
  /\ At(t, "find") /\ ~Locked(Owner(t))
  /\ \/ \E c \in proc[Owner(t)].children : With(t, "check", c)
     \/ Return(t)
  /\ UNCHANGED proc

Check(t) ==
  /\ At(t, "check")
  /\ IF Dead(Child(t)) THEN Goto(t, "remove") /\ UNCHANGED proc
     ELSE (Return(t) /\ UNCHANGED proc) \/ Watch(t, {Child(t)})

(* RemoveDeadChild(pid), which asserts that it finds the child.            *)
Remove(t) ==
  /\ At(t, "remove") /\ ~Locked(Owner(t))
  /\ proc' = [proc EXCEPT ![Owner(t)].lock = TRUE]
  /\ Goto(t, IF Child(t) \in proc[Owner(t)].children THEN "unparent" ELSE "assert")
-----------------------------------------------------------------------------
(* Semaphore::Wait on the watcher.  A wait that is interrupted leaves the  *)
(* value decremented; below -2 more makes no difference to a watcher,      *)
(* which is signalled once for what it waits for.                          *)
Lowered(v) == IF v = -2 THEN -2 ELSE v - 1

Wait(t) ==
  /\ At(t, "wait")
  /\ thread' = [thread EXCEPT ![t].value = Lowered(@), ![t].interrupted = FALSE,
                              ![t].pc = IF thread[t].value > 0 THEN "woken" ELSE "blocked"]
  /\ UNCHANGED proc

Interrupt(t) ==
  /\ At(t, "blocked") /\ Interruptible(t)
  /\ thread' = [thread EXCEPT ![t].pc = "woken", ![t].interrupted = TRUE]
  /\ UNCHANGED proc

SignalledNobody(p) == thread                                           \* mutant
Signalled(p) ==
  [t \in Threads |-> IF t \notin proc[p].watching THEN thread[t]
     ELSE [thread[t] EXCEPT !.value = @ + 1, !.pc = IF @ = "blocked" THEN "woken" ELSE @]]

Joins(t) == t \in Procs /\ State(t) = "Dying"

Woken(t) ==
  /\ At(t, "woken")
  /\ \/ /\ Joins(t)
        /\ IF thread[t].interrupted THEN Goto(t, "wait") /\ UNCHANGED proc
           ELSE Goto(t, "orphan") /\ proc' = Unwatched(t)
     \/ ~Joins(t) /\ Child(t) = None /\ Goto(t, "rescan") /\ UNCHANGED proc
     \/ /\ ~Joins(t) /\ Child(t) # None
        /\ IF thread[t].interrupted /\ ~Dead(Child(t)) THEN Return(t) /\ proc' = Unwatched(t)
           ELSE Goto(t, "remove") /\ UNCHANGED proc
-----------------------------------------------------------------------------
(* Process::Die on the main thread, from SysExit or for a SIGKILL, which   *)
(* anyone may send at any time (SysKill, a worker that dies).              *)
Kill(p) ==
  /\ p \in Victims /\ proc[p].listed
  /\ proc' = [proc EXCEPT ![p].kill = TRUE]
  /\ UNCHANGED thread

NextChildNone(cs) == "threads"                                          \* mutant
NextChild(cs) == IF cs = {} THEN "threads" ELSE "front"
ToChildren(p, cs) == thread' = [thread EXCEPT ![p] = Idle(NextChild(cs))]

DieBegin(p) ==
  /\ State(p) = "Running" /\ ~Locked(p)
  /\ \/ At(p, "user") /\ proc' = [proc EXCEPT ![p].state = "Dying"]
     \/ /\ At(p, "user") \/ At(p, "exit")
        /\ proc[p].kill
        /\ proc' = [proc EXCEPT ![p].state = "Dying", ![p].kill = FALSE]
  /\ ToChildren(p, proc[p].children)

(* The loop over the children, which reads the front of the list without   *)
(* the lock.  A running child is killed and waited for, a dying one is     *)
(* watched.                                                                *)
Front(p) ==
  /\ At(p, "front")
  /\ \/ proc[p].children = {} /\ Goto(p, "assert") /\ UNCHANGED proc
     \/ \E c \in proc[p].children :
          \/ State(c) = "Running" /\ proc' = [proc EXCEPT ![c].kill = TRUE] /\ With(p, "await", c)
          \/ /\ State(c) = "Dying" /\ proc' = Watching(p, {c})
             /\ thread' = [thread EXCEPT ![p].pc = "wait", ![p].child = c]
          \/ Dead(c) /\ UNCHANGED proc /\ With(p, "orphan", c)

Await(p) == At(p, "await") /\ Dead(Child(p)) /\ Goto(p, "orphan") /\ UNCHANGED proc

Orphan(p) ==
  /\ At(p, "orphan")
  /\ proc' = [proc EXCEPT ![Child(p)].parent = Forget(@)]
  /\ Goto(p, "drop")

OthersAll(p) == proc[p].children                                       \* mutant
Others(p) == proc[p].children \ {Child(p)}

Drop(p) ==
  /\ At(p, "drop") /\ ~Locked(p)
  /\ proc' = [proc EXCEPT ![p].children = Others(p)]
  /\ ToChildren(p, Others(p))

(* The other threads have left the kernel, and m_processLock is taken.     *)
KillThreads(p) ==
  /\ At(p, "threads") /\ ~Locked(p)
  /\ \A w \in Workers : Owner(w) = p => At(w, "user")
  /\ proc' = [proc EXCEPT ![p].lock = TRUE]
  /\ Goto(p, "set_dead")

SetDead(p) ==
  /\ At(p, "set_dead")
  /\ proc' = [proc EXCEPT ![p].state = "Dead", ![p].watching = {}]
  /\ thread' = [Signalled(p) EXCEPT ![p].pc = "tell"]

(* m_parent is read for the test, and again to send SIGCHLD.               *)
TestParent(p) ==
  /\ At(p, "tell")
  /\ IF proc[p].parent # None /\ State(proc[p].parent) = "Running"
     THEN With(p, "sigchld", proc[p].parent) ELSE Goto(p, "mark")
  /\ UNCHANGED proc

SignalParent(p) ==
  /\ At(p, "sigchld")
  /\ With(p, IF proc[p].parent = None THEN "assert" ELSE "mark", None)
  /\ UNCHANGED proc

MarkProcessForDestruction(p) ==
  /\ At(p, "mark")
  /\ proc' = [proc EXCEPT ![p].listed = FALSE]
  /\ Goto(p, "final")

Final(p) ==
  /\ At(p, "final")
  /\ proc' = [proc EXCEPT ![p].lock = FALSE]
  /\ Goto(p, "gone")
-----------------------------------------------------------------------------
InKernel(t) ==
  \/ Fork(t) \/ CopyThread(t) \/ Create(t) \/ RegisterChildProcess(t) \/ Start(t)
  \/ Take(t) \/ Unparent(t) \/ NoneDead(t) \/ WatchAll(t) \/ Find(t) \/ Check(t) \/ Remove(t)
  \/ Wait(t) \/ Interrupt(t) \/ Woken(t)

Dying(p) ==
  \/ Front(p) \/ Await(p) \/ Orphan(p) \/ Drop(p) \/ KillThreads(p) \/ SetDead(p)
  \/ TestParent(p) \/ SignalParent(p) \/ MarkProcessForDestruction(p) \/ Final(p)

Panicked == \E t \in Threads : At(t, "assert")

Next == /\ ~Panicked
        /\ \/ \E t \in Threads : Enter(t) \/ InKernel(t)
           \/ \E p \in Procs : Kill(p) \/ DieBegin(p) \/ Dying(p)

Spec == Init /\ [][Next]_vars

(* A thread that is in the kernel is scheduled, and a SIGKILL is looked    *)
(* for when a thread in user mode is; nobody has to make a system call.    *)
Killed(p) == proc[p].kill /\ DieBegin(p)
MainStep(p) == ~Panicked /\ (InKernel(p) \/ Killed(p) \/ Dying(p))
Fairness == /\ \A w \in Workers : WF_vars(~Panicked /\ InKernel(w))
            /\ \A p \in Procs : WF_vars(MainStep(p))
FairSpec == Spec /\ Fairness
-----------------------------------------------------------------------------
Locs == {"unborn", "user", "exit", "scan", "find", "fork", "exec", "copy", "register", "start",
         "unparent", "rescan", "watch", "check", "remove", "wait", "blocked", "woken", "threads",
         "front", "await", "orphan", "drop", "set_dead", "tell", "sigchld", "mark", "final", "gone",
         "assert"}

(* A watcher lives in the frame of the thread that waits: it is on no list *)
(* once that thread has gone on.                                           *)
HasWatcher(t) == thread[t].pc \in {"wait", "blocked", "woken", "rescan", "remove", "unparent", "assert"}

TypeOK ==
  /\ proc \in [Procs -> [state : {"none", "Running", "Dying", "Dead"}, parent : Procs \cup {None},
                         children : SUBSET Procs, lock : BOOLEAN, watching : SUBSET Threads,
                         listed : BOOLEAN, kill : BOOLEAN, late : BOOLEAN, lost : BOOLEAN]]
  /\ thread \in [Threads -> [pc : Locs, child : Procs \cup {None}, value : -2 .. Cardinality(Procs),
                         interrupted : BOOLEAN]]
  /\ \A p \in Procs, t \in Threads : t \in proc[p].watching => HasWatcher(t)

(* A process that is listed has its lister for a parent, except while Die  *)
(* is between the two; a process that has a parent is listed there, except *)
(* while SysExec or a wait is between the two (Process.cpp, Process.h).    *)
Between(locs, c) == \E t \in Threads : thread[t].pc \in locs /\ Child(t) = c
Listed == \A p, c \in Procs :
  /\ c \in proc[p].children => proc[c].parent = p \/ Between({"drop", "unparent", "assert"}, c)
  /\ proc[c].parent = p => c \in proc[p].children \/ Between({"register", "unparent"}, c)

(* ~Process asserts that the process has no parent: when no list and no    *)
(* thread refers to a process any more, its parent has let go of it.  Not  *)
(* so for one that was listed when Die had been through the list.          *)
Referenced(c) ==
  \/ proc[c].listed \/ Locked(c)
  \/ \E p \in Procs : c \in proc[p].children /\ (proc[p].listed \/ Locked(p))
  \/ \E t \in Threads : Child(t) = c /\ ~At(t, "sigchld")
LetGo == \A c \in Procs : ~Referenced(c) => proc[c].parent = None \/ proc[c].late

(* Between the test of m_parent and its use in Die nobody takes the parent *)
(* away, unless it has begun to die itself.                                *)
ParentStays == \A p \in Procs :
  At(p, "sigchld") => proc[p].parent = Child(p) \/ State(Child(p)) # "Running"

(* Parent and children agree on who belongs to whom, at every step of a    *)
(* fork, an execution, a wait and a death (Process.cpp, Process.h).        *)
FamilyTies == TypeOK /\ Listed /\ LetGo /\ ParentStays

(* A dead process leaves no child behind that Die could have killed.       *)
NoChildLeft == \A p \in Procs : Dead(p) => \A c \in proc[p].children : proc[c].late

(* SysWaitPID returns once every child it may wait for is dead.            *)
Waits(t) == thread[t].pc \in {"wait", "blocked"} /\ ~Joins(t)
Awaited(t) == IF Child(t) = None THEN proc[Owner(t)].children ELSE {Child(t)}
WaitEnds == \A t \in Threads :
  Waits(t) /\ (\A c \in Awaited(t) : Dead(c)) ~> ~Waits(t) \/ Panicked

(* A process that has begun to die is dead in the end ("Wait for it to     *)
(* die", Process.cpp), unless the SIGKILL for a child was overwritten or   *)
(* its wait for a dying child was interrupted.                             *)
Overwritten == \E c \in Procs : proc[c].lost
DieEnds == \A p \in Procs :
  State(p) = "Dying" ~> Dead(p) \/ Panicked \/ Overwritten \/ \E q \in Procs : thread[q].value = -2

=============================================================================
