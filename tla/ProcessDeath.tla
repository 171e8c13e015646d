---------------------------- MODULE ProcessDeath ----------------------------
(***************************************************************************)
(* How a process with several threads dies on several processors:          *)
(* Process::Die (Kernel/src/Obj/Process.cpp) on the main thread, which      *)
(* turns the others into zombies, waits until they have left the kernel,   *)
(* takes them off the run queues and gives up its own processor; the       *)
(* system call entry and exit (Syscalls.cpp) and the page fault            *)
(* (Paging.cpp) that the threads make meanwhile; Scheduler::Schedule and    *)
(* BalanceRunQueues (Scheduler.cpp) under all of them; the reaper           *)
(* (Kernel.cpp).                                                           *)
(*                                                                         *)
(* A run queue is the set of its threads.  m_processLock and processesLock *)
(* are held at certain places of Die: see ProcessLocked and                *)
(* ProcessesLocked.  Others is a thread of another process.                *)
(***************************************************************************)
EXTENDS Naturals, FiniteSets

CONSTANTS CPUs, Main, Workers, Others, Idle

Own == {Main} \cup Workers
Threads == Own \cup Others

ASSUME NamesAssumption == CPUs # {} /\ Main \notin Workers /\ Idle \notin Threads

VARIABLES
  thread,  \* Thread: state, kernelLock, and where its code is (at)
  cpu,     \* CPU: the thread it executes, whether currentThread was set to null under
           \* it (lost), runQueue, runQueueLock
  proc,    \* Process: m_state, has a SIGKILL been sent to the main thread, is it in
           \* destroyedProcesses, does its address space exist
  die      \* Die's place, its `cpu`, the threads it has not yet turned into zombies
           \* or processors it has not yet purged (todo), its `thread`, and runningThreads

vars == <<thread, cpu, proc, die>>

Init ==
  /\ thread = [t \in Threads |-> [state |-> "Running", kernelLock |-> FALSE, at |-> "user"]]
  /\ \E place \in [Threads -> CPUs] :
       cpu = [c \in CPUs |-> [current |-> Idle, lost |-> FALSE, lock |-> FALSE,
                              queue |-> {t \in Threads : place[t] = c}]]
  /\ proc = [state |-> "Running", killed |-> FALSE, marked |-> FALSE, space |-> TRUE]
  /\ die = [pc |-> "none", cpu |-> CHOOSE c \in CPUs : TRUE, todo |-> {}, thread |-> Main,
            running |-> {}]

Executes(c, t) == cpu[c].current = t
Runs(t) == \E c \in CPUs : Executes(c, t)
At(t, loc) == Runs(t) /\ thread[t].at = loc
State(t) == thread[t].state
Set(t, s, k, loc) == thread' = [thread EXCEPT ![t] = [state |-> s, kernelLock |-> k, at |-> loc]]

ProcessLocked == die.pc \in {"zombify", "try_lock", "purge", "dead", "mark", "final"}
ProcessesLocked == die.pc = "purge"
Masked(c) == Executes(c, Main) /\ die.pc = "switch"
-----------------------------------------------------------------------------
(* Scheduler::Schedule, from the timer, the IPI or Yield.  A time slice    *)
(* that is not over is a step that changes nothing.                        *)
RunnableDying(t) == State(t) # "Blocked"                                \* mutant
RunnableOnly(t) == State(t) = "Running"                                \* mutant
Runnable(t) == State(t) \in {"Running", "Zombie"}
Current(c) == IF cpu[c].lost THEN {} ELSE {cpu[c].current} \ {Idle}

(* BalanceRunQueues: whatever no processor is at is dealt out anew, and    *)
(* the dying are dropped.                                                  *)
FixedNone(c) == {}                                                     \* mutant
Fixed(c) == cpu[c].queue \cap Current(c)
Movable == {t \in UNION {cpu[c].queue \ Fixed(c) : c \in CPUs} : State(t) # "Dying"}
Balanced(c) ==
  IF ProcessesLocked \/ \E d \in CPUs \ {c} : cpu[d].lock THEN {}
  ELSE {[d \in CPUs |-> Fixed(d) \cup {t \in Movable : place[t] = d}] : place \in [Movable -> CPUs]}

Candidates(c, q) ==
  IF cpu[c].lost \/ {t \in q : Runnable(t)} = {} \/ \E t \in Current(c) : State(t) = "Dying"
  THEN {Idle} ELSE {t \in q : Runnable(t)}

Schedule(c, t) ==
  /\ ~cpu[c].lock /\ ~Masked(c)
  /\ \E queues \in {[d \in CPUs |-> cpu[d].queue]} \cup Balanced(c) :
       /\ t \in Candidates(c, queues[c])
       /\ cpu' = [d \in CPUs |->
            IF d # c THEN [cpu[d] EXCEPT !.queue = queues[d]]
            ELSE [cpu[c] EXCEPT !.current = t, !.lost = FALSE,
                                !.queue = queues[c] \ {u \in Current(c) : State(u) = "Dying"}]]
  /\ UNCHANGED <<thread, proc, die>>
-----------------------------------------------------------------------------
(* SyscallHandler: the kernel lock says that the thread is in the kernel.  *)
(* Who does not get it yields for ever ("spin").                           *)
Enter(t) ==
  /\ \E c \in CPUs : Executes(c, t) /\ ~cpu[c].lost
  /\ thread[t].at = "user"
  /\ IF thread[t].kernelLock THEN Set(t, State(t), TRUE, "spin") ELSE Set(t, State(t), TRUE, "entry")
  /\ UNCHANGED <<cpu, proc, die>>

ZombieChecked(t) == Set(t, State(t), State(t) # "Zombie", IF State(t) = "Zombie" THEN "spin" ELSE "kernel")
CheckZombie(t) ==
  /\ At(t, "entry")
  /\ ZombieChecked(t)
  /\ UNCHANGED <<cpu, proc, die>>

(* The end of a system call: a pending SIGKILL is looked for, the kernel   *)
(* lock released, and a dying thread yields while it is dying.             *)
Return(t) ==
  /\ At(t, "kernel") /\ ~(t = Main /\ proc.killed)
  /\ Set(t, State(t), FALSE, "leave")
  /\ UNCHANGED <<cpu, proc, die>>

Leave(t) ==
  /\ At(t, "leave") /\ State(t) # "Dying"
  /\ Set(t, State(t), thread[t].kernelLock, "user")
  /\ UNCHANGED <<cpu, proc, die>>

(* PageFaultHandler for a fault in user mode; it panics without the lock.  *)
PageFault(t) ==
  /\ \E c \in CPUs : Executes(c, t) /\ ~cpu[c].lost
  /\ thread[t].at = "user"
  /\ \/ State(t) = "Zombie" /\ Set(t, "Zombie", thread[t].kernelLock, "spin")
     \/ State(t) # "Zombie" /\ thread[t].kernelLock /\ Set(t, State(t), TRUE, "panic")
     \/ State(t) # "Zombie" /\ ~thread[t].kernelLock /\ Set(t, State(t), TRUE, "fault")
  /\ UNCHANGED <<cpu, proc, die>>

FaultReturn(t) ==
  /\ At(t, "fault")
  /\ Set(t, State(t), FALSE, "user")
  /\ UNCHANGED <<cpu, proc, die>>

(* Thread::Block, which a zombie or a killed thread returns from at once.  *)
(* A futex's blocker has an empty Interrupt: no signal wakes the waiter.   *)
Waits(t) == IF t = Main THEN {"block", "futex"} ELSE {"block"}

Block(t) ==
  /\ At(t, "kernel") /\ State(t) = "Running" /\ ~(t = Main /\ proc.killed)
  /\ \E loc \in Waits(t) : Set(t, "Blocked", TRUE, loc)
  /\ UNCHANGED <<cpu, proc, die>>

(* Thread::Unblock, called for the event waited for; here also the end of  *)
(* the sleep in Die.                                                       *)
Unblock(t) ==
  /\ State(t) = "Blocked"
  /\ Set(t, "Running", thread[t].kernelLock, thread[t].at)
  /\ UNCHANGED <<cpu, proc, die>>

Resume(t) ==
  /\ Runs(t) /\ thread[t].at \in Waits(t) /\ State(t) # "Blocked"
  /\ Set(t, State(t), thread[t].kernelLock, "kernel")
  /\ UNCHANGED <<cpu, proc, die>>

(* SysExitThread releases the kernel lock, and SyscallHandler again.       *)
ExitThread(t) ==
  /\ At(t, "kernel")
  /\ Set(t, "Dying", FALSE, "exit")
  /\ UNCHANGED <<cpu, proc, die>>

ExitReturn(t) ==
  /\ At(t, "exit")
  /\ Set(t, State(t), FALSE, "leave")
  /\ UNCHANGED <<cpu, proc, die>>

(* Die on another thread than the main one (SysExit, a signal, a crash):   *)
(* it sends SIGKILL to the main thread, which wakes it, and spins.         *)
Interrupted(t) == IF thread[t].at = "block" /\ State(t) = "Blocked" THEN "Running" ELSE State(t)

WorkerDie(t) ==
  /\ At(t, "kernel") \/ At(t, "fault")
  /\ ~ProcessLocked
  /\ IF proc.state = "Dying" THEN Set(t, State(t), FALSE, "spin") /\ UNCHANGED proc
     ELSE /\ proc' = [proc EXCEPT !.killed = TRUE]
          /\ thread' = [thread EXCEPT ![t].at = "spin", ![t].kernelLock = FALSE,
                          ![Main].state = Interrupted(Main)]
  /\ UNCHANGED <<cpu, die>>
-----------------------------------------------------------------------------
(* Die on the main thread, which has its kernel lock: from a system call,  *)
(* or from DoSwitch, which delivers a signal to a thread in user mode.     *)
DieBegin ==
  /\ proc.state = "Running"
  /\ At(Main, "kernel") \/ At(Main, "fault") \/ (At(Main, "user") /\ proc.killed)
  /\ Set(Main, "Running", TRUE, "die")
  /\ proc' = [proc EXCEPT !.state = "Dying"]
  /\ die' = [die EXCEPT !.pc = "zombify", !.todo = Workers]
  /\ UNCHANGED cpu

Dies(pc) == At(Main, "die") /\ State(Main) # "Blocked" /\ die.pc = pc

(* For each thread: it becomes a zombie, even one that has exited; then,   *)
(* if it is not in the kernel, it is locked out of it.                     *)
Zombify(t) ==
  /\ Dies("zombify") /\ t \in die.todo
  /\ Set(t, "Zombie", thread[t].kernelLock, thread[t].at)
  /\ die' = [die EXCEPT !.pc = "try_lock", !.todo = @ \ {t}, !.thread = t]
  /\ UNCHANGED <<cpu, proc>>

LockOutAlways(t) == Set(t, "Dying", TRUE, thread[t].at)                \* mutant
LockOut(t) == ~thread[t].kernelLock /\ Set(t, "Dying", TRUE, thread[t].at)

TryLock ==
  /\ Dies("try_lock")
  /\ \/ LockOut(die.thread) /\ die' = [die EXCEPT !.pc = "zombify"]
     \/ /\ thread[die.thread].kernelLock
        /\ die' = [die EXCEPT !.pc = "zombify", !.running = @ \cup {die.thread}]
        /\ UNCHANGED thread
  /\ UNCHANGED <<cpu, proc>>

(* The children are killed here; then the threads in the kernel are waited *)
(* for, with a sleep after each pass over them.                            *)
Collecting ==
  /\ Dies("zombify") /\ die.todo = {}
  /\ die' = [die EXCEPT !.pc = "collect"]
  /\ UNCHANGED <<thread, cpu, proc>>

Collect(t) ==
  /\ Dies("collect") /\ t \in die.running
  /\ LockOut(t)
  /\ die' = [die EXCEPT !.running = @ \ {t}]
  /\ UNCHANGED <<cpu, proc>>

Sleep ==
  /\ Dies("collect") /\ die.running # {}
  /\ Set(Main, "Blocked", TRUE, "die")
  /\ UNCHANGED <<cpu, proc, die>>

(* The loops over a run queue start again at index 1 after a removal: of   *)
(* several threads of the process one can be missed.                       *)
Purged(q) == {q \ Workers} \cup
             {q \ (Workers \ {t}) : t \in {u \in q \cap Workers : q \cap Workers # {u}}}

Purge(c) ==
  /\ Dies("collect") /\ die.running = {} /\ Executes(c, Main) /\ ~cpu[c].lock
  /\ \E q \in Purged(cpu[c].queue) : cpu' = [cpu EXCEPT ![c].queue = q]
  /\ die' = [die EXCEPT !.pc = "purge", !.cpu = c, !.todo = CPUs \ {c}]
  /\ UNCHANGED <<thread, proc>>

PurgeOther(c) ==
  /\ Dies("purge") /\ c \in die.todo /\ ~cpu[c].lock
  /\ \E q \in Purged(cpu[c].queue) :
       cpu' = [cpu EXCEPT ![c].queue = q, ![c].lost = cpu[c].lost \/ cpu[c].current \in Workers]
  /\ die' = [die EXCEPT !.todo = @ \ {c}]
  /\ UNCHANGED <<thread, proc>>

EndPurge ==
  /\ Dies("purge") /\ die.todo = {}
  /\ die' = [die EXCEPT !.pc = "dead"]
  /\ UNCHANGED <<thread, cpu, proc>>

SetDead ==
  /\ Dies("dead")
  /\ proc' = [proc EXCEPT !.state = "Dead"]
  /\ die' = [die EXCEPT !.pc = "mark"]
  /\ UNCHANGED <<thread, cpu>>

MarkProcessForDestruction ==
  /\ Dies("mark")
  /\ proc' = [proc EXCEPT !.marked = TRUE]
  /\ die' = [die EXCEPT !.pc = "final"]
  /\ UNCHANGED <<thread, cpu>>

(* Die takes the lock of the processor it purged on and releases that of   *)
(* the one it is on, which balancing may have changed since then.          *)
FinalLock ==
  /\ Dies("final") /\ ~cpu[die.cpu].lock
  /\ cpu' = [cpu EXCEPT ![die.cpu].lock = TRUE]
  /\ Set(Main, "Dying", TRUE, "die")
  /\ die' = [die EXCEPT !.pc = "switch"]
  /\ UNCHANGED proc

FinalSwitch(c) ==
  /\ Dies("switch") /\ Executes(c, Main)
  /\ cpu' = [cpu EXCEPT ![c] = [@ EXCEPT !.queue = cpu[c].queue \ {Main},
                                           !.current = Idle, !.lock = FALSE]]
  /\ die' = [die EXCEPT !.pc = "gone"]
  /\ UNCHANGED <<thread, proc>>

(* The reaper: the main function of the kernel process.                    *)
Reap ==
  /\ proc.marked /\ ~ProcessLocked
  /\ proc' = [proc EXCEPT !.marked = FALSE, !.space = FALSE]
  /\ UNCHANGED <<thread, cpu, die>>
-----------------------------------------------------------------------------
Reschedule(c) == \E t \in Threads \cup {Idle} : Schedule(c, t)

(* What a thread may do, and what it does once it is in the kernel.        *)
Chooses(t) == Enter(t) \/ PageFault(t) \/ Block(t)
Proceeds(t) == CheckZombie(t) \/ FaultReturn(t) \/ Return(t) \/ Leave(t) \/ Resume(t)

DieStep == \/ TryLock \/ Collecting \/ EndPurge \/ SetDead
           \/ MarkProcessForDestruction \/ FinalLock
           \/ \E t \in Workers : Zombify(t) \/ Collect(t)
           \/ \E c \in CPUs : Purge(c) \/ PurgeOther(c) \/ FinalSwitch(c)

Next == \/ \E c \in CPUs : Reschedule(c)
        \/ \E t \in Own : Chooses(t) \/ Proceeds(t) \/ Unblock(t)
        \/ \E t \in Workers : ExitThread(t) \/ ExitReturn(t) \/ WorkerDie(t)
        \/ DieBegin \/ DieStep \/ Sleep \/ Reap

Spec == Init /\ [][Next]_vars

(* The timer reaches every processor; round robin gives a runnable thread its turn again and *)
(* again, and in its turns a thread in the kernel gets on; before it sleeps *)
(* Die has tried every lock, and it wakes; other waits may be for ever.     *)
Dispatch(t) == \E c \in CPUs : Schedule(c, t)
Works(t) == \/ Proceeds(t)
            \/ t # Main /\ ExitReturn(t)
            \/ t = Main /\ DieStep

Fairness == /\ \A c \in CPUs : WF_vars(Reschedule(c))
            /\ \A t \in Own : SF_vars(Dispatch(t)) /\ SF_vars(Works(t))
            /\ SF_vars(DieBegin /\ proc.killed)
            /\ WF_vars(thread[Main].at = "die" /\ Unblock(Main))
            /\ WF_vars(Reap)

FairSpec == Spec /\ Fairness
-----------------------------------------------------------------------------
TypeOK ==
  /\ thread \in [Threads -> [state : {"Running", "Blocked", "Zombie", "Dying"},
                             kernelLock : BOOLEAN,
                             at : {"user", "entry", "kernel", "fault", "block", "futex", "exit",
                                   "leave", "spin", "panic", "die"}]]
  /\ \A t \in Own : thread[t].at \in {"entry", "kernel", "fault", "block", "futex", "die"} => thread[t].kernelLock
  /\ cpu \in [CPUs -> [current : Threads \cup {Idle}, lost : BOOLEAN, lock : BOOLEAN,
                       queue : SUBSET Threads]]
  /\ proc \in [state : {"Running", "Dying", "Dead"}, killed : BOOLEAN, marked : BOOLEAN,
               space : BOOLEAN]
  /\ die \in [pc : {"none", "zombify", "try_lock", "collect", "purge", "dead", "mark",
                    "final", "switch", "gone"},
              cpu : CPUs, todo : SUBSET (Workers \cup CPUs), thread : Own, running : SUBSET Workers]

Over == die.pc \in {"purge", "dead", "mark", "final", "switch", "gone"}
Panicked == \E t \in Own : thread[t].at = "panic"

(* Whatever the balancer, the schedulers and Die do at once, no thread is  *)
(* executed by two processors or on two run queues, and a processor's      *)
(* current thread is on its own queue (Schedule, BalanceRunQueues, Die).   *)
OneProcessor ==
  /\ \A c, d \in CPUs : c # d => /\ cpu[c].queue \cap cpu[d].queue = {}
                                 /\ cpu[c].current \in Threads => ~Executes(d, cpu[c].current)
  /\ \A c \in CPUs : Current(c) \subseteq cpu[c].queue

(* Once Die goes on to take its process apart, no other thread of it holds *)
(* anything of the kernel: none is in a system call or will enter one, and *)
(* all are dying (the panic "Thread should be dead" in Die).               *)
KernelLeft == Over => \A t \in Workers : /\ State(t) = "Dying"
                                         /\ thread[t].at \notin {"entry", "kernel", "fault", "block"}

(* A processor never turns to a thread of a process whose threads Die has  *)
(* collected: what still runs then is what was running before.             *)
NoneRevived == [][Over => \A t \in Workers : Runs(t)' => Runs(t)]_vars

(* The address space goes only after the main thread has left it and the   *)
(* process is dead (Die, reaper).                                          *)
ReapedAfterUse == ~proc.space => proc.state = "Dead" /\ die.pc \in {"switch", "gone"}

(* A thread other than the main one that dies takes the process with it,   *)
(* and a Die that has begun ends, whatever the other threads wait for and  *)
(* wherever they run; unless the kernel panics, or the main thread waits   *)
(* for a futex.                                                            *)
DieEnds == proc.killed \/ proc.state = "Dying"
             ~> \/ die.pc = "gone" /\ ~proc.space
                \/ Panicked \/ thread[Main].at = "futex"

=============================================================================
