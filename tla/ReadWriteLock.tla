---------------------------- MODULE ReadWriteLock ----------------------------
(***************************************************************************)
(* class ReadWriteLock (Kernel/include/Lock.h): two spinlocks and a count. *)
(* `lock` is held while a thread enters as a reader, and by a writer for   *)
(* the whole of its critical section; `fileLock` is held by a writer or,   *)
(* jointly, by all the readers: the first one in takes it, the last one    *)
(* out gives it back, and the two need not be the same thread.             *)
(*                                                                         *)
(* One action is one atomic memory operation of the code, so every         *)
(* interleaving of the threads of several processors is a behaviour.       *)
(* TryAcquireWrite is called from nowhere and is not modelled.             *)
(***************************************************************************)
EXTENDS Naturals, FiniteSets

CONSTANT Threads
ASSUME ThreadsAssumption == IsFiniteSet(Threads)

VARIABLES
  activeReaders,   \* the atomic counter
  fileLock, lock,  \* lock_t: TRUE while held
  pc               \* the operation the thread executes next

vars == <<activeReaders, fileLock, lock, pc>>

(* The next operation of a thread inside AcquireRead, a reader's section,  *)
(* ReleaseRead, AcquireWrite, a writer's section and ReleaseWrite.         *)
Location == {"outside",
             "read_take_lock", "read_count", "read_take_file", "read_give_lock",
             "reading", "unread_give_file",
             "write_take_lock", "write_take_file",
             "writing", "unwrite_give_lock"}

Init == /\ activeReaders = 0
        /\ fileLock = FALSE /\ lock = FALSE
        /\ pc = [t \in Threads |-> "outside"]

Goto(t, from, to) == pc[t] = from /\ pc' = [pc EXCEPT ![t] = to]
-----------------------------------------------------------------------------
(* Mutants: operations with a plausible slip, one per property that is to  *)
(* notice it.                                                              *)

(* Every reader, not the last one, gives `fileLock` back.                  *)
ReleaseReadCountEvery(t) == /\ Goto(t, "reading", "unread_give_file")
                            /\ activeReaders' = activeReaders - 1
                            /\ UNCHANGED <<fileLock, lock>>

(* The writer does not wait for the readers inside.                        *)
WriteTakeFileAnyway(t) == /\ Goto(t, "write_take_file", "writing")
                          /\ fileLock' = TRUE
                          /\ UNCHANGED <<activeReaders, lock>>

(* The writer does not keep `lock`: readers go on entering.                *)
WriteTakeLockBriefly(t) == /\ Goto(t, "write_take_lock", "write_take_file")
                           /\ ~lock
                           /\ UNCHANGED <<activeReaders, fileLock, lock>>
-----------------------------------------------------------------------------
(* AcquireRead *)
CallAcquireRead(t) == /\ Goto(t, "outside", "read_take_lock")
                      /\ UNCHANGED <<activeReaders, fileLock, lock>>

ReadTakeLock(t) == /\ Goto(t, "read_take_lock", "read_count")
                   /\ ~lock /\ lock' = TRUE
                   /\ UNCHANGED <<activeReaders, fileLock>>

ReadCount(t) == /\ Goto(t, "read_count",
                        IF activeReaders + 1 = 1 THEN "read_take_file"
                                                 ELSE "read_give_lock")
                /\ activeReaders' = activeReaders + 1
                /\ UNCHANGED <<fileLock, lock>>

ReadTakeFile(t) == /\ Goto(t, "read_take_file", "read_give_lock")
                   /\ ~fileLock /\ fileLock' = TRUE
                   /\ UNCHANGED <<activeReaders, lock>>

ReadGiveLock(t) == /\ Goto(t, "read_give_lock", "reading")
                   /\ lock' = FALSE
                   /\ UNCHANGED <<activeReaders, fileLock>>

(* ReleaseRead *)
ReleaseReadCount(t) == /\ Goto(t, "reading",
                               IF activeReaders - 1 = 0 THEN "unread_give_file"
                                                        ELSE "outside")
                       /\ activeReaders' = activeReaders - 1
                       /\ UNCHANGED <<fileLock, lock>>

ReleaseReadFile(t) == /\ Goto(t, "unread_give_file", "outside")
                      /\ fileLock' = FALSE
                      /\ UNCHANGED <<activeReaders, lock>>

(* AcquireWrite *)
CallAcquireWrite(t) == /\ Goto(t, "outside", "write_take_lock")
                       /\ UNCHANGED <<activeReaders, fileLock, lock>>

WriteTakeLock(t) == /\ Goto(t, "write_take_lock", "write_take_file")
                    /\ ~lock /\ lock' = TRUE
                    /\ UNCHANGED <<activeReaders, fileLock>>

WriteTakeFile(t) == /\ Goto(t, "write_take_file", "writing")
                    /\ ~fileLock /\ fileLock' = TRUE
                    /\ UNCHANGED <<activeReaders, lock>>

(* ReleaseWrite *)
ReleaseWriteFile(t) == /\ Goto(t, "writing", "unwrite_give_lock")
                       /\ fileLock' = FALSE
                       /\ UNCHANGED <<activeReaders, lock>>

ReleaseWriteLock(t) == /\ Goto(t, "unwrite_give_lock", "outside")
                       /\ lock' = FALSE
                       /\ UNCHANGED <<activeReaders, fileLock>>

AcquireRead(t) == CallAcquireRead(t) \/ ReadTakeLock(t) \/ ReadCount(t)
                     \/ ReadTakeFile(t) \/ ReadGiveLock(t)
ReleaseRead(t) == ReleaseReadCount(t) \/ ReleaseReadFile(t)
AcquireWrite(t) == CallAcquireWrite(t) \/ WriteTakeLock(t) \/ WriteTakeFile(t)
ReleaseWrite(t) == ReleaseWriteFile(t) \/ ReleaseWriteLock(t)

Next == \E t \in Threads : AcquireRead(t) \/ ReleaseRead(t)
                              \/ AcquireWrite(t) \/ ReleaseWrite(t)

Spec == Init /\ [][Next]_vars

(* Threads are preempted but not abandoned, and a caller that holds the    *)
(* lock leaves its section; nobody has to enter.  A spinning thread whose  *)
(* lock comes and goes may lose every race for it: only weak fairness.     *)
Fairness == \A t \in Threads :
  /\ WF_vars(ReadTakeLock(t) \/ ReadCount(t) \/ ReadTakeFile(t) \/ ReadGiveLock(t))
  /\ WF_vars(ReleaseRead(t))
  /\ WF_vars(WriteTakeLock(t) \/ WriteTakeFile(t))
  /\ WF_vars(ReleaseWrite(t))

FairSpec == Spec /\ Fairness
-----------------------------------------------------------------------------
At(L) == {t \in Threads : pc[t] \in L}

InRead  == At({"read_give_lock", "reading"})
InWrite == At({"writing"})

TypeOK == /\ activeReaders \in Nat
          /\ fileLock \in BOOLEAN /\ lock \in BOOLEAN
          /\ pc \in [Threads -> Location]

(* A writer has the protected data to itself: no reader and no second      *)
(* writer is between its acquire and its release (AcquireRead,             *)
(* AcquireWrite, ReleaseRead, ReleaseWrite).                               *)
Exclusion == \A w \in InWrite : InRead = {} /\ InWrite = {w}

(* The counter is the number of readers that have counted themselves in    *)
(* and not out: the "first reader" and "last reader" tests read this.      *)
Counted == At({"read_take_file", "read_give_lock", "reading"})
CounterExact == activeReaders = Cardinality(Counted)

(* The four roles in which `fileLock` is held: as a reader, as the last    *)
(* reader on its way out, as a writer.  It is free exactly when nobody is  *)
(* in one of them, whichever thread took it.                               *)
LastOut == At({"unread_give_file"})
HoldsLock == At({"read_count", "read_take_file", "read_give_lock",
                 "write_take_file", "writing", "unwrite_give_lock"})

LockInv == /\ \A t, u \in HoldsLock : t = u
           /\ lock <=> HoldsLock # {}
FirstReaderAlone == \A t \in At({"read_take_file"}) : Counted = {t}
FileLockInv == /\ fileLock <=> InRead \cup LastOut \cup InWrite # {}
               /\ \A w \in InWrite : InRead = {} /\ LastOut = {} /\ InWrite = {w}
               /\ \A t \in LastOut : InRead = {} /\ LastOut = {t}

(* The inductive invariant behind Exclusion.                               *)
IInv == TypeOK /\ CounterExact /\ LockInv /\ FirstReaderAlone /\ FileLockInv

(* A writer that holds `lock` is not starved: the readers inside drain and *)
(* none can enter past it, so it gets `fileLock` (AcquireWrite, "Stop more *)
(* threads from reading").                                                 *)
WriterGetsFile == \A t \in Threads : pc[t] = "write_take_file" ~> pc[t] = "writing"

(* A first reader waits at most for one owner of `fileLock` to leave.      *)
FirstReaderGetsFile == \A t \in Threads : pc[t] = "read_take_file" ~> pc[t] = "reading"

(* Whoever holds `lock` and waits for `fileLock` gets it.                  *)
FileGranted == WriterGetsFile /\ FirstReaderGetsFile

(* The lock implements ReadersWriter.                                      *)
Abstract == INSTANCE ReadersWriter WITH readers <- InRead, writers <- InWrite
Implements == Abstract!RWSpec
=============================================================================
