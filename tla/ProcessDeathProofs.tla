------------------------- MODULE ProcessDeathProofs -------------------------
(***************************************************************************)
(* For any number of processors and threads: the types of ProcessDeath,    *)
(* and that no worker is in the kernel once Die takes the process apart.   *)
(*                                                                         *)
(* KernelLeft is not inductive.  What makes it hold is that Die, for every *)
(* worker it has dealt with, holds the kernel lock as long as the worker   *)
(* could still come in from user mode (LockedOut): after SysExitThread the *)
(* lock may have been released a second time, but then the worker is dying *)
(* and does not get back to user mode.                                     *)
(***************************************************************************)
EXTENDS ProcessDeath, TLAPS

Outside == {"user", "exit", "leave", "spin", "panic"}

(* The workers Die has dealt with.                                         *)
Handled(t) ==
  \/ Over
  \/ /\ die.pc \in {"zombify", "try_lock", "collect"}
     /\ t \notin die.todo /\ t \notin die.running
     /\ ~(die.pc = "try_lock" /\ die.thread = t)

LockedOut == \A t \in Workers : Handled(t) =>
               /\ State(t) = "Dying" /\ thread[t].at \in Outside
               /\ thread[t].at = "user" => thread[t].kernelLock

Todo == /\ die.pc = "collect" => die.todo = {}
        /\ die.pc = "try_lock" => die.thread \in Workers

IInv == TypeOK /\ Todo /\ LockedOut

LEMMA InitIInv == Init => IInv
<1> SUFFICES ASSUME Init PROVE IInv
  OBVIOUS
<1> USE NamesAssumption
<1>1. TypeOK
  BY DEF Init, TypeOK, Own, Threads
<1>2. Todo /\ LockedOut
  BY DEF Init, Todo, LockedOut, Handled, Over
<1> QED
  BY <1>1, <1>2 DEF IInv

(* Queue, lock and current thread of a processor are changed in place.     *)
LEMMA ProcessorRecord ==
  ASSUME NEW C, NEW T, NEW b \in BOOLEAN, NEW q \in SUBSET T,
         NEW r \in [current : C, lost : BOOLEAN, lock : BOOLEAN, queue : SUBSET T]
  PROVE  [r EXCEPT !.queue = q, !.lost = b]
           \in [current : C, lost : BOOLEAN, lock : BOOLEAN, queue : SUBSET T]
OBVIOUS

LEMMA ProcessorFields ==
  ASSUME NEW C, NEW T, NEW b, NEW q,
         NEW r \in [current : C, lost : BOOLEAN, lock : BOOLEAN, queue : SUBSET T]
  PROVE  /\ [r EXCEPT !.queue = q, !.lost = b].queue = q
         /\ [r EXCEPT !.queue = q, !.lost = b].current = r.current
         /\ [r EXCEPT !.queue = q, !.lost = b].lost = b
OBVIOUS

LEMMA ProcessorRecordSwitch ==
  ASSUME NEW C, NEW T, NEW b \in BOOLEAN, NEW q \in SUBSET T, NEW x \in C,
         NEW r \in [current : C, lost : BOOLEAN, lock : BOOLEAN, queue : SUBSET T]
  PROVE  /\ [r EXCEPT !.queue = q, !.current = x, !.lock = b]
              \in [current : C, lost : BOOLEAN, lock : BOOLEAN, queue : SUBSET T]
         /\ [r EXCEPT !.lock = b]
              \in [current : C, lost : BOOLEAN, lock : BOOLEAN, queue : SUBSET T]
OBVIOUS

(* What a balanced distribution of the threads looks like.                 *)
LEMMA QueuesType ==
  ASSUME TypeOK, NEW c \in CPUs,
         NEW queues \in {[d \in CPUs |-> cpu[d].queue]} \cup Balanced(c)
  PROVE  queues \in [CPUs -> SUBSET Threads]
<1>1. CASE queues = [d \in CPUs |-> cpu[d].queue]
  BY <1>1 DEF TypeOK
<1>2. CASE queues \in Balanced(c)
  <2>1. Movable \subseteq Threads
    BY DEF Movable, TypeOK
  <2>2. \A d \in CPUs : Fixed(d) \subseteq Threads
    BY DEF Fixed, TypeOK
  <2> QED
    BY <1>2, <2>1, <2>2 DEF Balanced
<1> QED
  BY <1>1, <1>2

LEMMA ScheduleStep ==
  ASSUME IInv, NEW c \in CPUs, NEW t \in Threads \cup {Idle}, Schedule(c, t)
  PROVE  IInv'
<1>1. cpu' \in [CPUs -> [current : Threads \cup {Idle}, lost : BOOLEAN, lock : BOOLEAN,
                         queue : SUBSET Threads]]
  <2>1. PICK queues \in {[d \in CPUs |-> cpu[d].queue]} \cup Balanced(c) :
          cpu' = [d \in CPUs |->
            IF d # c THEN [cpu[d] EXCEPT !.queue = queues[d]]
            ELSE [cpu[c] EXCEPT !.current = t, !.lost = FALSE,
                                !.queue = queues[c] \ {u \in Current(c) : State(u) = "Dying"}]]
    BY DEF Schedule
  <2>2. queues \in [CPUs -> SUBSET Threads]
    BY QueuesType DEF IInv
  <2>3. cpu \in [CPUs -> [current : Threads \cup {Idle}, lost : BOOLEAN, lock : BOOLEAN,
                          queue : SUBSET Threads]]
    BY DEF IInv, TypeOK
  <2>4. ASSUME NEW d \in CPUs
        PROVE  cpu'[d] \in [current : Threads \cup {Idle}, lost : BOOLEAN, lock : BOOLEAN,
                            queue : SUBSET Threads]
    BY <2>1, <2>2, <2>3
  <2> QED
    BY <2>1, <2>4, ZenonT(60)
<1>2. TypeOK'
  BY <1>1 DEF IInv, TypeOK, Schedule
<1> QED
  BY <1>2 DEF IInv, Schedule, Todo, LockedOut, Handled, Over, State

States == {"Running", "Blocked", "Zombie", "Dying"}
Places == Outside \cup {"entry", "kernel", "fault", "block", "futex", "die"}
ProcTypeOK == proc \in [state : {"Running", "Dying", "Dead"}, killed : BOOLEAN,
                        marked : BOOLEAN, space : BOOLEAN]

DieTypeOK == die \in [pc : {"none", "zombify", "try_lock", "collect", "purge", "dead", "mark",
                            "final", "switch", "gone"},
                      cpu : CPUs, todo : SUBSET (Workers \cup CPUs), thread : Own,
                      running : SUBSET Workers]
CpuTypeOK == cpu \in [CPUs -> [current : Threads \cup {Idle}, lost : BOOLEAN, lock : BOOLEAN,
                               queue : SUBSET Threads]]

LEMMA SetIs ==
  ASSUME TypeOK, NEW t \in Own, NEW s \in States, NEW k \in BOOLEAN, NEW loc \in Places,
         Set(t, s, k, loc)
  PROVE  /\ thread' \in [Threads -> [state : States, kernelLock : BOOLEAN, at : Places]]
         /\ thread'[t].state = s /\ thread'[t].kernelLock = k /\ thread'[t].at = loc
         /\ \A u \in Threads \ {t} : thread'[u] = thread[u]
BY DEF TypeOK, Set, States, Places, Outside, Own, Threads

(* A step that changes one thread: Die may deal with this thread, and with *)
(* no other.                                                               *)
LEMMA ChangeStep ==
  ASSUME IInv, NEW t \in Own, NEW s \in States, NEW k \in BOOLEAN, NEW loc \in Places,
         Set(t, s, k, loc), CpuTypeOK', DieTypeOK', ProcTypeOK', Todo',
         loc \in Outside \/ k,
         \A u \in Workers \ {t} : Handled(u)' => Handled(u),
         t \in Workers /\ Handled(t)' =>
           s = "Dying" /\ loc \in Outside /\ (loc = "user" => k)
  PROVE  IInv'
<1>1. /\ thread' \in [Threads -> [state : States, kernelLock : BOOLEAN, at : Places]]
      /\ thread'[t].state = s /\ thread'[t].kernelLock = k /\ thread'[t].at = loc
      /\ \A u \in Threads \ {t} : thread'[u] = thread[u]
  BY SetIs DEF IInv
<1>2. TypeOK'
  BY <1>1 DEF IInv, TypeOK, CpuTypeOK, DieTypeOK, ProcTypeOK, States, Places, Outside, Own, Threads
<1>3. LockedOut'
  <2> SUFFICES ASSUME NEW u \in Workers, Handled(u)'
               PROVE  /\ thread'[u].state = "Dying" /\ thread'[u].at \in Outside
                      /\ thread'[u].at = "user" => thread'[u].kernelLock
    BY DEF LockedOut, State
  <2>1. CASE u = t
    BY <1>1, <2>1
  <2>2. CASE u # t
    BY <1>1, <2>2 DEF IInv, LockedOut, State, Own, Threads
  <2> QED
    BY <2>1, <2>2
<1> QED
  BY <1>2, <1>3 DEF IInv

(* A step of one thread, which leaves Die alone.                           *)
LEMMA ThreadStep ==
  ASSUME IInv, NEW t \in Own, NEW s \in States, NEW k \in BOOLEAN, NEW loc \in Places,
         Set(t, s, k, loc), UNCHANGED <<cpu, die>>, ProcTypeOK',
         loc \in Outside \/ k,
         t \in Workers /\ Handled(t) =>
           s = "Dying" /\ loc \in Outside /\ (loc = "user" => k)
  PROVE  IInv'
<1>1. CpuTypeOK' /\ DieTypeOK' /\ Todo'
  BY DEF IInv, TypeOK, CpuTypeOK, DieTypeOK, Todo
<1>2. \A u \in Workers : Handled(u)' => Handled(u)
  BY DEF Handled, Over
<1> QED
  BY <1>1, <1>2, ChangeStep

(* What is known of one thread, and of a worker Die has dealt with.        *)
LEMMA ThreadFacts ==
  ASSUME IInv, NEW t \in Own
  PROVE  /\ State(t) \in States /\ thread[t].kernelLock \in BOOLEAN /\ thread[t].at \in Places
         /\ thread[t].at \in Outside \/ thread[t].kernelLock
         /\ t \in Workers /\ Handled(t) =>
              /\ State(t) = "Dying" /\ thread[t].at \in Outside
              /\ thread[t].at = "user" => thread[t].kernelLock
         /\ ProcTypeOK
<1>1. thread[t] \in [state : States, kernelLock : BOOLEAN, at : Places]
  BY DEF IInv, TypeOK, States, Places, Outside, Own, Threads
<1>2. thread[t].at \in Outside \/ thread[t].kernelLock
  BY <1>1 DEF IInv, TypeOK, Places
<1> QED
  BY <1>1, <1>2 DEF IInv, TypeOK, ProcTypeOK, LockedOut, State

LEMMA OwnSteps ==
  ASSUME IInv, NEW t \in Own, Chooses(t) \/ Proceeds(t) \/ Unblock(t)
  PROVE  IInv'
<1> USE ThreadFacts DEF States, Places, Outside
<1>p. UNCHANGED proc => ProcTypeOK'
  BY DEF ProcTypeOK
<1>1. CASE Enter(t)
  <2>1. CASE thread[t].kernelLock
    BY <1>1, <1>p, <2>1, ThreadStep DEF Enter
  <2>2. CASE ~thread[t].kernelLock
    BY <1>1, <1>p, <2>2, ThreadStep DEF Enter
  <2> QED
    BY <2>1, <2>2
<1>2. CASE PageFault(t)
  <2>1. CASE State(t) = "Zombie"
    BY <1>2, <1>p, <2>1, ThreadStep DEF PageFault
  <2>2. CASE State(t) # "Zombie" /\ thread[t].kernelLock
    BY <1>2, <1>p, <2>2, ThreadStep DEF PageFault
  <2>3. CASE State(t) # "Zombie" /\ ~thread[t].kernelLock
    BY <1>2, <1>p, <2>3, ThreadStep DEF PageFault
  <2> QED
    BY <2>1, <2>2, <2>3
<1>3. CASE Block(t)
  <2>1. PICK loc \in Waits(t) : Set(t, "Blocked", TRUE, loc)
    BY <1>3 DEF Block
  <2>2. loc \in {"block", "futex"}
    BY DEF Waits
  <2> QED
    BY <1>3, <1>p, <2>1, <2>2, ThreadStep DEF Block, At
<1>4. CASE CheckZombie(t)
  <2>1. CASE State(t) = "Zombie"
    BY <1>4, <1>p, <2>1, ThreadStep DEF CheckZombie, ZombieChecked, At
  <2>2. CASE State(t) # "Zombie"
    BY <1>4, <1>p, <2>2, ThreadStep DEF CheckZombie, ZombieChecked, At
  <2> QED
    BY <2>1, <2>2
<1>5. CASE FaultReturn(t)
  BY <1>5, <1>p, ThreadStep DEF FaultReturn, At
<1>6. CASE Return(t)
  BY <1>6, <1>p, ThreadStep DEF Return, At
<1>7. CASE Leave(t)
  BY <1>7, <1>p, ThreadStep DEF Leave, At
<1>8. CASE Resume(t)
  BY <1>8, <1>p, ThreadStep DEF Resume, Waits
<1>9. CASE Unblock(t)
  BY <1>9, <1>p, ThreadStep DEF Unblock
<1> QED
  BY <1>1, <1>2, <1>3, <1>4, <1>5, <1>6, <1>7, <1>8, <1>9 DEF Chooses, Proceeds

LEMMA WorkerSteps ==
  ASSUME IInv, NEW t \in Workers, ExitThread(t) \/ ExitReturn(t) \/ WorkerDie(t)
  PROVE  IInv'
<1> USE ThreadFacts DEF States, Places, Outside
<1>w. t \in Own /\ Main \in Own /\ Main # t
  BY NamesAssumption DEF Own
<1>p. UNCHANGED proc => ProcTypeOK'
  BY <1>w DEF ProcTypeOK
<1>1. CASE ExitThread(t)
  BY <1>1, <1>p, <1>w, ThreadStep DEF ExitThread, At
<1>2. CASE ExitReturn(t)
  BY <1>2, <1>p, <1>w, ThreadStep DEF ExitReturn, At
<1>3. CASE WorkerDie(t) /\ proc.state = "Dying"
  BY <1>3, <1>p, <1>w, ThreadStep DEF WorkerDie, At
<1>4. CASE WorkerDie(t) /\ proc.state # "Dying"
  <2>1. /\ thread' = [thread EXCEPT ![t].at = "spin", ![t].kernelLock = FALSE,
                                    ![Main].state = Interrupted(Main)]
        /\ proc' = [proc EXCEPT !.killed = TRUE] /\ UNCHANGED <<cpu, die>>
        /\ thread[t].at \in {"kernel", "fault"}
    BY <1>4 DEF WorkerDie, At
  <2>2. Interrupted(Main) \in States
    BY <1>w DEF Interrupted
  <2>3. thread \in [Threads -> [state : States, kernelLock : BOOLEAN, at : Places]]
    BY DEF IInv, TypeOK, Own, Threads
  <2>4. /\ thread' \in [Threads -> [state : States, kernelLock : BOOLEAN, at : Places]]
        /\ \A u \in Threads \ {t, Main} : thread'[u] = thread[u]
        /\ thread'[t].at = "spin"
        /\ thread'[Main].at = thread[Main].at /\ thread'[Main].kernelLock = thread[Main].kernelLock
    BY <1>w, <2>1, <2>2, <2>3 DEF Threads, Own
  <2>5. ProcTypeOK'
    BY <2>1, <1>w DEF ProcTypeOK
  <2>6. ASSUME NEW u \in Own PROVE thread'[u].at \in Outside \/ thread'[u].kernelLock
    BY <2>4, <1>w DEF Threads, Own
  <2>7. TypeOK'
    <3>1. \A u \in Own : thread'[u].at \in {"entry", "kernel", "fault", "block", "futex", "die"}
                          => thread'[u].kernelLock
      BY <2>6
    <3> QED
      BY <2>1, <2>4, <2>5, <3>1, SMTT(60) DEF IInv, TypeOK, ProcTypeOK, Own, Threads
  <2>8. ~Handled(t)
    BY <2>1, <1>w
  <2>9. LockedOut'
    <3> SUFFICES ASSUME NEW u \in Workers, Handled(u)'
                 PROVE  /\ thread'[u].state = "Dying" /\ thread'[u].at \in Outside
                        /\ thread'[u].at = "user" => thread'[u].kernelLock
      BY DEF LockedOut, State
    <3>1. Handled(u) /\ u # t /\ u # Main
      BY <2>1, <2>8, NamesAssumption DEF Handled, Over
    <3> QED
      BY <2>4, <3>1 DEF IInv, LockedOut, State, Own, Threads
  <2> QED
    BY <2>1, <2>7, <2>9 DEF IInv, Todo
<1> QED
  BY <1>1, <1>2, <1>3, <1>4

(* A step of Die that changes nothing of the threads and deals with nobody *)
(* it has not dealt with.                                                  *)
LEMMA DieOnlyStep ==
  ASSUME IInv, UNCHANGED thread, CpuTypeOK', DieTypeOK', ProcTypeOK', Todo',
         \A u \in Workers : Handled(u)' => Handled(u)
  PROVE  IInv'
<1>1. TypeOK'
  BY DEF IInv, TypeOK, CpuTypeOK, DieTypeOK, ProcTypeOK
<1>2. LockedOut'
  BY DEF IInv, LockedOut, State
<1> QED
  BY <1>1, <1>2 DEF IInv

LEMMA DieSteps ==
  ASSUME IInv, DieBegin \/ DieStep \/ Sleep \/ Reap
  PROVE  IInv'
<1> USE DEF DieTypeOK, CpuTypeOK, ProcTypeOK, Dies, At
<1>t. Main \in Own /\ Main \notin Workers /\ Workers \subseteq Own
      /\ DieTypeOK /\ CpuTypeOK /\ ProcTypeOK /\ Todo
  BY NamesAssumption DEF IInv, TypeOK, Own
<1>f. \A t \in Own : /\ State(t) \in States /\ thread[t].kernelLock \in BOOLEAN
                     /\ thread[t].at \in Places
                     /\ thread[t].at \in Outside \/ thread[t].kernelLock
  BY ThreadFacts
<1>c. UNCHANGED cpu => CpuTypeOK'
  BY <1>t
<1>p. UNCHANGED proc => ProcTypeOK'
  BY <1>t
<1>0. CASE DieBegin
  <2>1. /\ Set(Main, "Running", TRUE, "die") /\ UNCHANGED cpu /\ ProcTypeOK' /\ DieTypeOK'
        /\ die'.pc = "zombify" /\ die'.todo = Workers
    BY <1>0, <1>t DEF DieBegin
  <2>2. Todo' /\ \A u \in Workers : ~Handled(u)'
    BY <2>1 DEF Todo, Handled, Over
  <2> QED
    BY <1>t, <1>c, <2>1, <2>2, ChangeStep DEF States, Places
<1>1. ASSUME NEW t \in Workers, Zombify(t) PROVE IInv'
  <2>1. /\ Set(t, "Zombie", thread[t].kernelLock, thread[t].at) /\ UNCHANGED <<cpu, proc>>
        /\ DieTypeOK' /\ die'.pc = "try_lock" /\ die'.thread = t /\ die'.running = die.running
        /\ die'.todo = die.todo \ {t} /\ die.pc = "zombify"
    BY <1>1, <1>t DEF Zombify
  <2>2. Todo' /\ ~Handled(t)' /\ \A u \in Workers \ {t} : Handled(u)' => Handled(u)
    BY <2>1 DEF Todo, Handled, Over
  <2> QED
    BY <1>t, <1>c, <1>f, <1>p, <2>1, <2>2, ChangeStep DEF States
<1>2. ASSUME NEW t \in Workers, LockOut(t), Todo',
             UNCHANGED <<cpu, proc>>, DieTypeOK',
             \A u \in Workers \ {t} : Handled(u)' => Handled(u)
      PROVE  IInv'
  <2>1. Set(t, "Dying", TRUE, thread[t].at) /\ thread[t].at \in Outside
    BY <1>2, <1>f, <1>t DEF LockOut
  <2> QED
    BY <1>2, <1>t, <1>c, <1>f, <1>p, <2>1, ChangeStep DEF States
<1>3. CASE TryLock
  <2>1. /\ die'.pc = "zombify" /\ die'.todo = die.todo /\ die'.thread = die.thread
        /\ DieTypeOK' /\ Todo' /\ UNCHANGED <<cpu, proc>> /\ die.pc = "try_lock"
        /\ die.running \subseteq die'.running /\ die.thread \in Workers
    <3>1. die.pc = "try_lock" /\ die.thread \in Workers /\ UNCHANGED <<cpu, proc>>
      BY <1>3, <1>t DEF TryLock, Todo
    <3>2. \/ die' = [die EXCEPT !.pc = "zombify"]
          \/ die' = [die EXCEPT !.pc = "zombify", !.running = @ \cup {die.thread}]
      BY <1>3 DEF TryLock
    <3>3. /\ die'.pc = "zombify" /\ die'.todo = die.todo /\ die'.thread = die.thread
          /\ DieTypeOK' /\ die.running \subseteq die'.running
      <4>1. CASE die' = [die EXCEPT !.pc = "zombify"]
        BY <4>1, <1>t
      <4>2. CASE die' = [die EXCEPT !.pc = "zombify", !.running = @ \cup {die.thread}]
        BY <3>1, <4>2, <1>t
      <4> QED
        BY <3>2, <4>1, <4>2
    <3> QED
      BY <3>1, <3>3 DEF Todo
  <2>2. \A u \in Workers \ {die.thread} : Handled(u)' => Handled(u)
    BY <2>1 DEF Handled, Over
  <2>3. CASE LockOut(die.thread)
    BY <1>2, <2>1, <2>2, <2>3
  <2>4. CASE UNCHANGED thread /\ die'.running = die.running \cup {die.thread}
    <3>1. \A u \in Workers : Handled(u)' => Handled(u)
      BY <2>1, <2>2, <2>4 DEF Handled, Over
    <3> QED
      BY <1>c, <1>p, <2>1, <2>4, <3>1, DieOnlyStep
  <2> QED
    BY <1>3, <1>t, <2>3, <2>4 DEF TryLock
<1>4. CASE Collecting
  <2>1. UNCHANGED <<thread, cpu, proc>> /\ DieTypeOK' /\ die'.pc = "collect" /\ die.pc = "zombify"
        /\ die'.todo = {} /\ die.todo = {} /\ die'.running = die.running
    BY <1>4, <1>t DEF Collecting
  <2>2. Todo' /\ \A u \in Workers : Handled(u)' => Handled(u)
    BY <2>1 DEF Todo, Handled, Over
  <2> QED
    BY <1>c, <1>p, <2>1, <2>2, DieOnlyStep
<1>5. ASSUME NEW t \in Workers, Collect(t) PROVE IInv'
  <2>1. /\ LockOut(t) /\ UNCHANGED <<cpu, proc>> /\ DieTypeOK' /\ die'.pc = "collect"
        /\ die.pc = "collect" /\ die'.todo = die.todo /\ die'.running = die.running \ {t}
    BY <1>5, <1>t DEF Collect
  <2>2. Todo' /\ \A u \in Workers \ {t} : Handled(u)' => Handled(u)
    BY <1>t, <2>1 DEF Todo, Handled, Over
  <2> QED
    BY <1>2, <2>1, <2>2
<1>6. CASE Sleep
  <2>1. Set(Main, "Blocked", TRUE, "die") /\ UNCHANGED <<cpu, proc, die>>
    BY <1>6 DEF Sleep
  <2> QED
    BY <1>p, <1>t, <2>1, ThreadStep DEF States, Places
<1>7. ASSUME NEW c \in CPUs, Purge(c) PROVE IInv'
  <2>1. UNCHANGED <<thread, proc>> /\ DieTypeOK' /\ die'.pc = "purge"
        /\ die.pc = "collect" /\ die.running = {} /\ die.todo = {}
    BY <1>7, <1>t DEF Purge, Todo
  <2>2. CpuTypeOK'
    BY <1>7, <1>t DEF Purge, Purged
  <2>3. Todo' /\ \A u \in Workers : Handled(u)' => Handled(u)
    BY <2>1 DEF Todo, Handled, Over
  <2> QED
    BY <1>p, <2>1, <2>2, <2>3, DieOnlyStep
<1>8. ASSUME NEW c \in CPUs, PurgeOther(c) PROVE IInv'
  <2>1. UNCHANGED <<thread, proc>> /\ DieTypeOK' /\ die'.pc = "purge" /\ die.pc = "purge"
    BY <1>8, <1>t DEF PurgeOther
  <2>2. CpuTypeOK'
    <3>1. PICK q \in Purged(cpu[c].queue) :
            cpu' = [cpu EXCEPT ![c].queue = q, ![c].lost = cpu[c].lost \/ cpu[c].current \in Workers]
      BY <1>8 DEF PurgeOther
    <3>2. q \in SUBSET Threads
      BY <1>t DEF Purged
    <3>3. [cpu[c] EXCEPT !.queue = q, !.lost = cpu[c].lost \/ cpu[c].current \in Workers]
            \in [current : Threads \cup {Idle}, lost : BOOLEAN, lock : BOOLEAN,
                 queue : SUBSET Threads]
      <4>1. cpu[c] \in [current : Threads \cup {Idle}, lost : BOOLEAN, lock : BOOLEAN,
                        queue : SUBSET Threads]
        BY <1>t
      <4>2. (cpu[c].lost \/ cpu[c].current \in Workers) \in BOOLEAN
        BY <4>1
      <4> QED
        BY <3>2, <4>1, <4>2, ProcessorRecord
    <3> QED
      BY <3>1, <3>3, <1>t
  <2>3. Todo' /\ \A u \in Workers : Handled(u)' => Handled(u)
    BY <2>1 DEF Todo, Handled, Over
  <2> QED
    BY <1>p, <2>1, <2>2, <2>3, DieOnlyStep
<1>9. CASE EndPurge \/ SetDead \/ MarkProcessForDestruction
  <2>1. UNCHANGED <<thread, cpu>> /\ DieTypeOK' /\ ProcTypeOK' /\ Over /\ Over'
    BY <1>9, <1>t DEF EndPurge, SetDead, MarkProcessForDestruction, Over
  <2>2. Todo' /\ \A u \in Workers : Handled(u)' => Handled(u)
    BY <2>1 DEF Todo, Handled, Over
  <2> QED
    BY <1>c, <2>1, <2>2, DieOnlyStep
<1>10. CASE FinalLock
  <2>1. Set(Main, "Dying", TRUE, "die") /\ UNCHANGED proc /\ DieTypeOK' /\ Over /\ Over'
    BY <1>10, <1>t DEF FinalLock, Over
  <2>2. CpuTypeOK'
    <3>1. die.cpu \in CPUs /\ cpu' = [cpu EXCEPT ![die.cpu] = [@ EXCEPT !.lock = TRUE]]
      BY <1>10, <1>t DEF FinalLock
    <3>2. cpu[die.cpu] \in [current : Threads \cup {Idle}, lost : BOOLEAN, lock : BOOLEAN,
                            queue : SUBSET Threads]
      BY <3>1, <1>t
    <3>3. [cpu[die.cpu] EXCEPT !.lock = TRUE]
            \in [current : Threads \cup {Idle}, lost : BOOLEAN, lock : BOOLEAN,
                 queue : SUBSET Threads]
      BY <3>2, ProcessorRecordSwitch
    <3> QED
      BY <3>1, <3>3, <1>t
  <2>3. Todo' /\ \A u \in Workers : Handled(u)' => Handled(u)
    BY <2>1 DEF Todo, Handled, Over
  <2> QED
    BY <1>p, <1>t, <2>1, <2>2, <2>3, ChangeStep DEF States, Places
<1>11. ASSUME NEW c \in CPUs, FinalSwitch(c) PROVE IInv'
  <2>1. UNCHANGED <<thread, proc>> /\ DieTypeOK' /\ Over /\ Over'
    BY <1>11, <1>t DEF FinalSwitch, Over
  <2>2. CpuTypeOK'
    <3>1. cpu' = [cpu EXCEPT ![c] = [@ EXCEPT !.queue = cpu[c].queue \ {Main},
                                              !.current = Idle, !.lock = FALSE]]
      BY <1>11 DEF FinalSwitch
    <3>2. [cpu[c] EXCEPT !.queue = cpu[c].queue \ {Main}, !.current = Idle, !.lock = FALSE]
            \in [current : Threads \cup {Idle}, lost : BOOLEAN, lock : BOOLEAN,
                 queue : SUBSET Threads]
      <4>1. cpu[c] \in [current : Threads \cup {Idle}, lost : BOOLEAN, lock : BOOLEAN,
                        queue : SUBSET Threads]
        BY <1>t
      <4>2. cpu[c].queue \ {Main} \in SUBSET Threads
        BY <4>1
      <4> QED
        BY <4>1, <4>2, ProcessorRecordSwitch
    <3> QED
      BY <3>1, <3>2, <1>t
  <2>3. Todo' /\ \A u \in Workers : Handled(u)' => Handled(u)
    BY <2>1 DEF Todo, Handled, Over
  <2> QED
    BY <1>p, <2>1, <2>2, <2>3, DieOnlyStep
<1>12. CASE Reap
  <2>1. UNCHANGED <<thread, cpu, die>> /\ ProcTypeOK' /\ DieTypeOK'
    BY <1>12, <1>t DEF Reap
  <2>2. Todo' /\ \A u \in Workers : Handled(u)' => Handled(u)
    BY <1>t, <2>1 DEF Todo, Handled, Over
  <2> QED
    BY <1>c, <2>1, <2>2, DieOnlyStep
<1> QED
  BY <1>0, <1>1, <1>3, <1>4, <1>5, <1>6, <1>7, <1>8, <1>9, <1>10, <1>11, <1>12 DEF DieStep

LEMMA StepIInv == IInv /\ [Next]_vars => IInv'
<1> SUFFICES ASSUME IInv, [Next]_vars PROVE IInv'
  OBVIOUS
<1>1. CASE UNCHANGED vars
  BY <1>1 DEF vars, IInv, TypeOK, Todo, LockedOut, Handled, Over, State
<1>2. ASSUME NEW c \in CPUs, Reschedule(c) PROVE IInv'
  BY <1>2, ScheduleStep DEF Reschedule
<1> QED
  BY <1>1, <1>2, OwnSteps, WorkerSteps, DieSteps DEF Next

(* In every behaviour, with any number of threads and processors, the      *)
(* variables keep their types, and a thread in the kernel has its lock.    *)
THEOREM TypeCorrect == Spec => []TypeOK
<1>1. IInv => TypeOK
  BY DEF IInv
<1> QED
  BY InitIInv, StepIInv, <1>1, PTL DEF Spec

(* Once Die takes its process apart, every other thread of it is dying and *)
(* outside the kernel: the panic "Thread should be dead" is not reached.   *)
THEOREM KernelIsLeft == Spec => []KernelLeft
<1>1. IInv => KernelLeft
  BY DEF IInv, LockedOut, Handled, KernelLeft, Outside
<1> QED
  BY InitIInv, StepIInv, <1>1, PTL DEF Spec

(* What a processor turns to once Die takes the process apart is not one   *)
(* of its workers: those are dying, and Schedule does not pick them.       *)
LEMMA NoDispatch ==
  ASSUME IInv, Over, [Next]_vars, NEW t \in Workers, NEW c \in CPUs, cpu'[c].current = t
  PROVE  cpu[c].current = t
<1>t. CpuTypeOK /\ t \in Threads /\ t # Idle /\ State(t) = "Dying"
  BY NamesAssumption DEF IInv, TypeOK, CpuTypeOK, LockedOut, Handled, Own, Threads
<1> USE DEF CpuTypeOK
<1>1. CASE UNCHANGED cpu
  BY <1>1
<1>2. ASSUME NEW d \in CPUs, NEW u \in Threads \cup {Idle}, Schedule(d, u)
      PROVE  cpu[c].current = t
  <2>1. PICK queues \in {[e \in CPUs |-> cpu[e].queue]} \cup Balanced(d) :
          /\ u \in Candidates(d, queues[d])
          /\ cpu' = [e \in CPUs |->
               IF e # d THEN [cpu[e] EXCEPT !.queue = queues[e]]
               ELSE [cpu[d] EXCEPT !.current = u, !.lost = FALSE,
                                   !.queue = queues[d] \ {v \in Current(d) : State(v) = "Dying"}]]
    BY <1>2 DEF Schedule
  <2>2. u # t
    BY <1>t, <2>1 DEF Candidates, Runnable
  <2>3. CASE c = d
    BY <1>t, <2>1, <2>2, <2>3
  <2>4. CASE c # d
    BY <1>t, <2>1, <2>4
  <2> QED
    BY <2>3, <2>4, ZenonT(60)
<1>3. ASSUME NEW d \in CPUs, PurgeOther(d) PROVE cpu[c].current = t
  <2>1. PICK q : cpu' = [cpu EXCEPT ![d].queue = q, ![d].lost = cpu[d].lost \/ cpu[d].current \in Workers]
    BY <1>3 DEF PurgeOther
  <2>2. CASE c = d
    BY <1>t, <2>1, <2>2
  <2>3. CASE c # d
    BY <1>t, <2>1, <2>3
  <2> QED
    BY <2>2, <2>3
<1>4. ASSUME NEW d \in CPUs, FinalSwitch(d) PROVE cpu[c].current = t
  <2>1. cpu' = [cpu EXCEPT ![d] = [@ EXCEPT !.queue = cpu[d].queue \ {Main},
                                            !.current = Idle, !.lock = FALSE]]
    BY <1>4 DEF FinalSwitch
  <2>2. CASE c = d
    BY <1>t, <2>1, <2>2
  <2>3. CASE c # d
    BY <1>t, <2>1, <2>3
  <2> QED
    BY <2>2, <2>3
<1>5. CASE FinalLock
  <2>1. cpu' = [cpu EXCEPT ![die.cpu].lock = TRUE]
    BY <1>5 DEF FinalLock
  <2> QED
    BY <1>t, <2>1
<1>6. ASSUME NEW d \in CPUs, Purge(d) PROVE FALSE
  BY <1>6 DEF Purge, Dies, Over
<1>7. CASE \E u \in Own : Chooses(u) \/ Proceeds(u) \/ Unblock(u)
  <2>1. UNCHANGED cpu
    BY <1>7 DEF Chooses, Proceeds, Enter, PageFault, Block, CheckZombie, FaultReturn, Return,
                Leave, Resume, Unblock
  <2> QED
    BY <2>1
<1>8. CASE \E u \in Workers : ExitThread(u) \/ ExitReturn(u) \/ WorkerDie(u)
  BY <1>1, <1>8 DEF ExitThread, ExitReturn, WorkerDie
<1>9. CASE DieBegin \/ TryLock \/ Collecting \/ Sleep \/ EndPurge \/ SetDead
           \/ MarkProcessForDestruction \/ Reap \/ \E u \in Workers : Zombify(u) \/ Collect(u)
  BY <1>1, <1>9 DEF DieBegin, TryLock, Collecting, Sleep, EndPurge, SetDead,
                    MarkProcessForDestruction, Reap, Zombify, Collect
<1> QED
  BY <1>1, <1>2, <1>3, <1>4, <1>5, <1>6, <1>7, <1>8, <1>9 DEF Next, DieStep, Reschedule, vars

(* Whatever the schedulers and the balancer do after Die has collected its *)
(* threads, none of them is run anew.                                      *)
THEOREM NotRevived == Spec => NoneRevived
<1>1. IInv /\ [Next]_vars => [Over => \A t \in Workers : Runs(t)' => Runs(t)]_vars
  BY NoDispatch DEF Runs, Executes
<1> QED
  BY InitIInv, StepIInv, <1>1, PTL DEF Spec, NoneRevived

(* The order of Die's last steps: a process that is marked or reaped is    *)
(* dead, and its main thread is past the place where it was marked.        *)
LastSteps ==
  /\ die.pc \in {"mark", "final", "switch", "gone"} => proc.state = "Dead"
  /\ proc.marked => die.pc \in {"final", "switch", "gone"}
  /\ ~proc.space => die.pc \in {"switch", "gone"}

LEMMA StepLastSteps == IInv /\ LastSteps /\ [Next]_vars => LastSteps'
<1> SUFFICES ASSUME IInv, LastSteps, [Next]_vars PROVE LastSteps'
  OBVIOUS
<1> USE DEF LastSteps, ProcTypeOK, DieTypeOK
<1>t. ProcTypeOK /\ DieTypeOK
  BY DEF IInv, TypeOK
<1>1. CASE UNCHANGED <<proc, die>>
  BY <1>1
<1>2. CASE DieBegin
  BY <1>2, <1>t DEF DieBegin
<1>3. CASE SetDead
  BY <1>3, <1>t DEF SetDead, Dies
<1>4. CASE MarkProcessForDestruction
  BY <1>4, <1>t DEF MarkProcessForDestruction, Dies
<1>5. CASE FinalLock
  BY <1>5, <1>t DEF FinalLock, Dies
<1>6. ASSUME NEW c \in CPUs, FinalSwitch(c) PROVE LastSteps'
  BY <1>6, <1>t DEF FinalSwitch, Dies
<1>7. CASE Reap
  BY <1>7, <1>t DEF Reap, ProcessLocked
<1>8. CASE \E t \in Workers : WorkerDie(t)
  <2>1. UNCHANGED die /\ (UNCHANGED proc \/ proc' = [proc EXCEPT !.killed = TRUE])
    BY <1>8 DEF WorkerDie
  <2> QED
    BY <1>t, <2>1
<1>9. CASE TryLock \/ Collecting \/ EndPurge \/ \E t \in Workers : Zombify(t) \/ Collect(t)
  <2>1. UNCHANGED proc /\ die.pc \in {"zombify", "try_lock", "collect", "purge"}
    BY <1>9 DEF TryLock, Collecting, EndPurge, Zombify, Collect, Dies
  <2>2. die'.pc \in {"zombify", "try_lock", "collect", "dead"}
    BY <1>9, <1>t DEF TryLock, Collecting, EndPurge, Zombify, Collect, Dies
  <2> QED
    BY <2>1, <2>2
<1>10. CASE \E c \in CPUs : Purge(c) \/ PurgeOther(c)
  <2>1. UNCHANGED proc /\ die.pc \in {"collect", "purge"}
    BY <1>10 DEF Purge, PurgeOther, Dies
  <2>2. die'.pc = "purge"
    BY <1>10, <1>t DEF Purge, PurgeOther, Dies
  <2> QED
    BY <2>1, <2>2
<1>11. CASE \/ \E c \in CPUs : Reschedule(c)
            \/ \E t \in Own : Chooses(t) \/ Proceeds(t) \/ Unblock(t)
            \/ \E t \in Workers : ExitThread(t) \/ ExitReturn(t)
            \/ Sleep
  BY <1>1, <1>11 DEF Reschedule, Schedule, Chooses, Proceeds, Enter, PageFault, Block, CheckZombie,
                     FaultReturn, Return, Leave, Resume, Unblock, ExitThread, ExitReturn, Sleep
<1> QED
  BY <1>1, <1>2, <1>3, <1>4, <1>5, <1>6, <1>7, <1>8, <1>9, <1>10, <1>11 DEF Next, DieStep, vars

(* The reaper frees the address space only of a dead process whose main    *)
(* thread has left it.                                                     *)
THEOREM ReapedLast == Spec => []ReapedAfterUse
<1>1. Init => LastSteps
  BY DEF Init, LastSteps
<1>2. LastSteps => ReapedAfterUse
  BY DEF LastSteps, ReapedAfterUse
<1> QED
  BY InitIInv, StepIInv, StepLastSteps, <1>1, <1>2, PTL DEF Spec
-----------------------------------------------------------------------------
(* A processor that has lost its current thread executes a worker that Die *)
(* has collected: it is dying, so no balancer moves it and no scheduler    *)
(* picks it, although its queue may hold it no longer.  Die does not start *)
(* over.                                                                   *)
LostOver == \A c \in CPUs : cpu[c].lost => Over /\ cpu[c].current \in Workers
Begun == die.pc # "none" => proc.state # "Running"

Placed == OneProcessor /\ LostOver /\ Begun

LEMMA InitPlaced == Init => Placed
<1> SUFFICES ASSUME Init PROVE Placed
  OBVIOUS
<1>1. PICK place \in [Threads -> CPUs] :
        cpu = [c \in CPUs |-> [current |-> Idle, lost |-> FALSE, lock |-> FALSE,
                               queue |-> {t \in Threads : place[t] = c}]]
  BY DEF Init
<1>2. OneProcessor /\ LostOver
  BY <1>1, NamesAssumption DEF OneProcessor, LostOver, Current, Executes
<1> QED
  BY <1>2 DEF Placed, Begun, Init

LEMMA StepBegun == IInv /\ Begun /\ [Next]_vars => Begun' /\ (Over => Over')
<1> SUFFICES ASSUME IInv, Begun, [Next]_vars PROVE Begun' /\ (Over => Over')
  OBVIOUS
<1> USE DEF Begun, Over, ProcTypeOK, DieTypeOK
<1>t. ProcTypeOK /\ DieTypeOK
  BY DEF IInv, TypeOK
<1>1. CASE UNCHANGED <<proc, die>>
  BY <1>1
<1>2. CASE DieBegin
  BY <1>2, <1>t DEF DieBegin
<1>3. CASE SetDead
  BY <1>3, <1>t DEF SetDead, Dies
<1>4. CASE MarkProcessForDestruction \/ Reap
  BY <1>4, <1>t DEF MarkProcessForDestruction, Reap, Dies
<1>5. CASE \E t \in Workers : WorkerDie(t)
  <2>1. UNCHANGED die /\ (UNCHANGED proc \/ proc' = [proc EXCEPT !.killed = TRUE])
    BY <1>5 DEF WorkerDie
  <2> QED
    BY <1>t, <2>1
<1>6. CASE TryLock \/ Collecting \/ EndPurge \/ FinalLock \/ \E t \in Workers : Zombify(t) \/ Collect(t)
  <2>1. UNCHANGED proc /\ die.pc # "none" /\ (Over => Over')
    BY <1>6, <1>t DEF TryLock, Collecting, EndPurge, FinalLock, Zombify, Collect, Dies
  <2> QED
    BY <2>1
<1>7. CASE \E c \in CPUs : Purge(c) \/ PurgeOther(c) \/ FinalSwitch(c)
  <2>1. UNCHANGED proc /\ die.pc # "none" /\ (Over => Over')
    BY <1>7, <1>t DEF Purge, PurgeOther, FinalSwitch, Dies
  <2> QED
    BY <2>1
<1>8. CASE \/ \E c \in CPUs : Reschedule(c)
           \/ \E t \in Own : Chooses(t) \/ Proceeds(t) \/ Unblock(t)
           \/ \E t \in Workers : ExitThread(t) \/ ExitReturn(t)
           \/ Sleep
  BY <1>1, <1>8 DEF Reschedule, Schedule, Chooses, Proceeds, Enter, PageFault, Block, CheckZombie,
                    FaultReturn, Return, Leave, Resume, Unblock, ExitThread, ExitReturn, Sleep
<1> QED
  BY <1>1, <1>2, <1>3, <1>4, <1>5, <1>6, <1>7, <1>8 DEF Next, DieStep, vars

(* Before and after balancing: every queue keeps what its processor is at, *)
(* and no thread is on two; who is on a queue of another than before runs  *)
(* nowhere.                                                                *)
LEMMA QueuesApart ==
  ASSUME IInv, Placed, NEW c \in CPUs,
         NEW queues \in {[d \in CPUs |-> cpu[d].queue]} \cup Balanced(c)
  PROVE  /\ \A d, e \in CPUs : d # e => queues[d] \cap queues[e] = {}
         /\ \A d \in CPUs : Current(d) \subseteq queues[d]
<1> USE DEF Placed, OneProcessor
<1>1. CASE queues = [d \in CPUs |-> cpu[d].queue]
  BY <1>1
<1>2. CASE queues \in Balanced(c)
  <2>1. PICK place \in [Movable -> CPUs] :
          queues = [d \in CPUs |-> Fixed(d) \cup {t \in Movable : place[t] = d}]
    BY <1>2 DEF Balanced
  <2>2. \A d, e \in CPUs : d # e => Fixed(d) \cap Fixed(e) = {}
    BY DEF Fixed
  <2>3. \A d \in CPUs : Fixed(d) \cap Movable = {}
    BY DEF Fixed, Movable
  <2>4. \A d \in CPUs : Current(d) \subseteq Fixed(d)
    BY DEF Fixed
  <2> QED
    BY <2>1, <2>2, <2>3, <2>4
<1> QED
  BY <1>1, <1>2

LEMMA SchedulePlaced ==
  ASSUME IInv, Placed, NEW c \in CPUs, NEW t \in Threads \cup {Idle}, Schedule(c, t)
  PROVE  OneProcessor' /\ LostOver'
<1>t. CpuTypeOK /\ Idle \notin Threads
  BY NamesAssumption, SMTT(60) DEF IInv, TypeOK, CpuTypeOK
<1>1. PICK queues \in {[d \in CPUs |-> cpu[d].queue]} \cup Balanced(c) :
        /\ t \in Candidates(c, queues[c])
        /\ cpu' = [d \in CPUs |->
             IF d # c THEN [cpu[d] EXCEPT !.queue = queues[d]]
             ELSE [cpu[c] EXCEPT !.current = t, !.lost = FALSE,
                                 !.queue = queues[c] \ {u \in Current(c) : State(u) = "Dying"}]]
        /\ UNCHANGED <<thread, proc, die>>
  BY DEF Schedule
<1> DEFINE kept == queues[c] \ {u \in Current(c) : State(u) = "Dying"}
<1>2. /\ \A d, e \in CPUs : d # e => queues[d] \cap queues[e] = {}
      /\ \A d \in CPUs : Current(d) \subseteq queues[d]
  BY QueuesApart
<1>3. \A d \in CPUs : cpu[d] \in [current : Threads \cup {Idle}, lost : BOOLEAN, lock : BOOLEAN,
                                  queue : SUBSET Threads]
  BY <1>t DEF CpuTypeOK
<1>4. /\ cpu'[c].current = t /\ cpu'[c].lost = FALSE /\ cpu'[c].queue = kept
      /\ \A d \in CPUs \ {c} : /\ cpu'[d].current = cpu[d].current /\ cpu'[d].lost = cpu[d].lost
                               /\ cpu'[d].queue = queues[d]
  BY <1>1, <1>3
<1> HIDE DEF kept
<1>5. \A d, e \in CPUs : d # e => cpu'[d].queue \cap cpu'[e].queue = {}
  BY <1>2, <1>4 DEF kept
<1>6. t # Idle => t \in kept /\ State(t) # "Dying"
  BY <1>1 DEF Candidates, Runnable, kept
<1>7. \A d \in CPUs : Current(d)' \subseteq cpu'[d].queue
  <2>1. Current(c)' \subseteq cpu'[c].queue
    BY <1>4, <1>6 DEF Current
  <2>2. ASSUME NEW d \in CPUs \ {c} PROVE Current(d)' \subseteq cpu'[d].queue
    BY <1>2, <1>4 DEF Current
  <2> QED
    BY <2>1, <2>2
<1>8. ASSUME NEW d \in CPUs \ {c}, t \in Threads PROVE cpu[d].current # t
  <2>1. CASE cpu[d].lost
    <3>1. Over /\ cpu[d].current \in Workers
      BY <2>1 DEF Placed, LostOver
    <3>2. State(cpu[d].current) = "Dying"
      BY <3>1 DEF IInv, LockedOut, Handled
    <3> QED
      BY <1>6, <1>8, <1>t, <3>2
  <2>2. CASE ~cpu[d].lost
    BY <1>2, <1>6, <1>8, <1>t, <2>2 DEF Current, kept
  <2> QED
    BY <2>1, <2>2
<1>9. OneProcessor'
  <2>1. ASSUME NEW d \in CPUs, NEW e \in CPUs, d # e, cpu'[d].current \in Threads
        PROVE  cpu'[e].current # cpu'[d].current
    <3>1. CASE d = c
      BY <1>4, <1>8, <2>1, <3>1
    <3>2. CASE e = c
      BY <1>4, <1>8, <2>1, <3>2
    <3>3. CASE d # c /\ e # c
      BY <1>4, <2>1, <3>3 DEF Placed, OneProcessor, Executes
    <3> QED
      BY <3>1, <3>2, <3>3
  <2> QED
    BY <1>5, <1>7, <2>1 DEF OneProcessor, Executes
<1>10. LostOver'
  BY <1>1, <1>4 DEF Placed, LostOver, Over
<1> QED
  BY <1>9, <1>10

(* A step that takes threads off queues, and turns processors to no other  *)
(* thread but Idle.                                                        *)
LEMMA ShrinkPlaced ==
  ASSUME IInv, Placed, Over => Over',
         \A c \in CPUs :
           /\ cpu'[c].queue \subseteq cpu[c].queue
           /\ cpu'[c].current \in {cpu[c].current, Idle}
           /\ Current(c)' \subseteq cpu'[c].queue
           /\ cpu'[c].lost => cpu'[c].current = cpu[c].current
           /\ cpu'[c].lost => cpu[c].lost \/ (Over' /\ cpu[c].current \in Workers)
  PROVE  OneProcessor' /\ LostOver'
<1>1. OneProcessor'
  BY NamesAssumption DEF Placed, OneProcessor, Executes
<1>2. LostOver'
  BY DEF Placed, LostOver
<1> QED
  BY <1>1, <1>2

Lost(c, q) == [cpu[c] EXCEPT !.queue = q, !.lost = cpu[c].lost \/ cpu[c].current \in Workers]

LEMMA StepPlaced == IInv /\ Placed /\ [Next]_vars => Placed'
<1> SUFFICES ASSUME IInv, Placed, [Next]_vars PROVE OneProcessor' /\ LostOver'
  BY StepBegun DEF Placed
<1>t. CpuTypeOK /\ DieTypeOK /\ Idle \notin Threads /\ Main \in Threads /\ Main \notin Workers
  BY NamesAssumption DEF IInv, TypeOK, CpuTypeOK, DieTypeOK, Own, Threads
<1>o. Over => Over'
  BY StepBegun DEF Placed
<1>r. \A c \in CPUs : cpu[c] \in [current : Threads \cup {Idle}, lost : BOOLEAN, lock : BOOLEAN,
                                  queue : SUBSET Threads]
  BY <1>t DEF CpuTypeOK
<1>q. \A c \in CPUs : Current(c) \subseteq cpu[c].queue
  BY DEF Placed, OneProcessor
<1>m. \A c \in CPUs : Executes(c, Main) => ~cpu[c].lost
  BY <1>t DEF Placed, LostOver, Executes
<1>1. CASE UNCHANGED cpu
  BY <1>1, <1>o, <1>q, ShrinkPlaced DEF Current
<1>2. ASSUME NEW c \in CPUs, Reschedule(c) PROVE OneProcessor' /\ LostOver'
  BY <1>2, SchedulePlaced DEF Reschedule
<1>3. ASSUME NEW c \in CPUs, Purge(c) PROVE OneProcessor' /\ LostOver'
  <2>1. PICK q \in Purged(cpu[c].queue) : cpu' = [cpu EXCEPT ![c].queue = q]
    BY <1>3 DEF Purge
  <2>2. cpu[c].current = Main /\ q \subseteq cpu[c].queue /\ (Main \in cpu[c].queue => Main \in q)
    BY <1>3, <1>t DEF Purge, Purged, Executes
  <2>3. /\ cpu'[c].queue = q /\ cpu'[c].current = Main /\ cpu'[c].lost = cpu[c].lost
        /\ \A d \in CPUs \ {c} : cpu'[d] = cpu[d]
    BY <1>r, <1>t, <2>1, <2>2 DEF CpuTypeOK
  <2>4. \A d \in CPUs : Current(d)' \subseteq cpu'[d].queue
    BY <1>q, <2>2, <2>3 DEF Current
  <2> QED
    BY <1>o, <2>2, <2>3, <2>4, ShrinkPlaced
<1>4. ASSUME NEW c \in CPUs, PurgeOther(c) PROVE OneProcessor' /\ LostOver'
  <2>1. PICK q \in Purged(cpu[c].queue) :
          cpu' = [cpu EXCEPT ![c] = Lost(c, q)]
    BY <1>4 DEF PurgeOther, Lost
  <2>2. q \subseteq cpu[c].queue /\ \A u \in cpu[c].queue \ Workers : u \in q
    BY DEF Purged
  <2>3. /\ cpu'[c].queue = q /\ cpu'[c].current = cpu[c].current
        /\ cpu'[c].lost = (cpu[c].lost \/ cpu[c].current \in Workers)
        /\ \A d \in CPUs \ {c} : cpu'[d] = cpu[d]
    <3>1. /\ Lost(c, q).queue = q /\ Lost(c, q).current = cpu[c].current
          /\ Lost(c, q).lost = (cpu[c].lost \/ cpu[c].current \in Workers)
      BY <1>r, ProcessorFields DEF Lost
    <3>2. cpu'[c] = Lost(c, q) /\ \A d \in CPUs \ {c} : cpu'[d] = cpu[d]
      BY <1>t, <2>1 DEF CpuTypeOK
    <3> QED
      BY <3>1, <3>2
  <2>4. \A d \in CPUs : Current(d)' \subseteq cpu'[d].queue
    BY <1>q, <2>2, <2>3 DEF Current
  <2>5. Over'
    BY <1>4, <1>o DEF PurgeOther, Dies, Over
  <2> QED
    BY <1>o, <2>2, <2>3, <2>4, <2>5, ShrinkPlaced
<1>5. CASE FinalLock
  <2>1. die.cpu \in CPUs /\ cpu' = [cpu EXCEPT ![die.cpu].lock = TRUE]
    BY <1>5, <1>t DEF FinalLock, DieTypeOK
  <2>2. \A d \in CPUs : /\ cpu'[d].queue = cpu[d].queue /\ cpu'[d].current = cpu[d].current
                        /\ cpu'[d].lost = cpu[d].lost
    BY <1>r, <1>t, <2>1 DEF CpuTypeOK
  <2> QED
    BY <1>o, <1>q, <2>2, ShrinkPlaced DEF Current
<1>6. ASSUME NEW c \in CPUs, FinalSwitch(c) PROVE OneProcessor' /\ LostOver'
  <2>1. Executes(c, Main) /\
        cpu' = [cpu EXCEPT ![c] = [@ EXCEPT !.queue = cpu[c].queue \ {Main},
                                            !.current = Idle, !.lock = FALSE]]
    BY <1>6 DEF FinalSwitch
  <2>2. /\ cpu'[c].queue = cpu[c].queue \ {Main} /\ cpu'[c].current = Idle
        /\ cpu'[c].lost = cpu[c].lost
        /\ \A d \in CPUs \ {c} : cpu'[d] = cpu[d]
    BY <1>r, <1>t, <2>1 DEF CpuTypeOK
  <2>3. \A d \in CPUs : Current(d)' \subseteq cpu'[d].queue
    BY <1>q, <2>2 DEF Current
  <2>4. ~cpu'[c].lost
    BY <1>m, <2>1, <2>2
  <2> QED
    BY <1>o, <2>2, <2>3, <2>4, ShrinkPlaced
<1>7. CASE \/ \E t \in Own : Chooses(t) \/ Proceeds(t) \/ Unblock(t)
           \/ \E t \in Workers : ExitThread(t) \/ ExitReturn(t) \/ WorkerDie(t)
           \/ DieBegin \/ TryLock \/ Collecting \/ Sleep \/ EndPurge \/ SetDead
           \/ MarkProcessForDestruction \/ Reap \/ \E t \in Workers : Zombify(t) \/ Collect(t)
  <2>1. UNCHANGED cpu
    BY <1>7 DEF Chooses, Proceeds, Enter, PageFault, Block, CheckZombie, FaultReturn, Return, Leave,
                Resume, Unblock, ExitThread, ExitReturn, WorkerDie, DieBegin, TryLock, Collecting,
                Sleep, EndPurge, SetDead, MarkProcessForDestruction, Reap, Zombify, Collect
  <2> QED
    BY <1>1, <2>1, SMTT(60)
<1> QED
  BY <1>1, <1>2, <1>3, <1>4, <1>5, <1>6, <1>7 DEF Next, DieStep, vars

(* With any number of processors, no thread is run by two of them or is on *)
(* two run queues, whatever schedulers, balancers and Die do at once.      *)
THEOREM OnOneProcessor == Spec => []OneProcessor
<1>1. Placed => OneProcessor
  BY DEF Placed
<1> QED
  BY InitIInv, StepIInv, InitPlaced, StepPlaced, <1>1, PTL DEF Spec
=============================================================================
