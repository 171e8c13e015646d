------------------------------ MODULE FileProofs ------------------------------
(* Proofs about the readers-writer lock that the file system waits on, and about the parts *)
(* of the file system that MCFiles composes: the block cache of an Ext2 volume, the table  *)
(* of handles and open files, and a node of the temporary file system.                     *)
EXTENDS ReadWriteLock, MCFiles, FiniteSetTheorems, SequenceTheorems, WellFoundedInduction, TLAPS

(* The initial state satisfies the inductive invariant.                    *)
LEMMA InitIInv == Init => IInv
<1> SUFFICES ASSUME Init PROVE IInv
  OBVIOUS
<1>1. TypeOK /\ LockInv /\ FirstReaderAlone /\ FileLockInv
  BY DEF Init, TypeOK, LockInv, FirstReaderAlone, FileLockInv, Location,
         HoldsLock, At, InRead, InWrite, LastOut
<1>2. Counted = {}
  BY DEF Init, Counted, At
<1>3. CounterExact
  BY <1>2, FS_EmptySet DEF Init, CounterExact
<1> QED BY <1>1, <1>3 DEF IInv

(* The counter follows the set it counts.                                  *)
LEMMA CounterStep ==
  ASSUME IInv, NEW t \in Threads,
         AcquireRead(t) \/ ReleaseRead(t) \/ AcquireWrite(t) \/ ReleaseWrite(t)
  PROVE  CounterExact'
<1> USE DEF Goto
<1>0. IsFiniteSet(Counted)
  BY ThreadsAssumption, FS_Subset DEF Counted, At
<1>1. CASE ReadCount(t)
  <2>1. Counted' = Counted \cup {t} /\ t \notin Counted
    BY <1>1 DEF ReadCount, Counted, At, IInv, TypeOK
  <2>2. Cardinality(Counted') = Cardinality(Counted) + 1
    BY <1>0, <2>1, FS_AddElement
  <2> QED BY <1>1, <2>2 DEF ReadCount, CounterExact, IInv
<1>2. CASE ReleaseReadCount(t)
  <2>1. Counted' = Counted \ {t} /\ t \in Counted
    BY <1>2 DEF ReleaseReadCount, Counted, At, IInv, TypeOK
  <2>2. Cardinality(Counted') = Cardinality(Counted) - 1
    BY <1>0, <2>1, FS_RemoveElement
  <2> QED BY <1>2, <2>2 DEF ReleaseReadCount, CounterExact, IInv
<1>3. CASE ~ReadCount(t) /\ ~ReleaseReadCount(t)
  <2>1. activeReaders' = activeReaders /\ Counted' = Counted
    BY <1>3 DEF AcquireRead, ReleaseRead, AcquireWrite, ReleaseWrite,
         CallAcquireRead, ReadTakeLock, ReadTakeFile, ReadGiveLock,
         ReleaseReadFile, CallAcquireWrite, WriteTakeLock, WriteTakeFile,
         ReleaseWriteFile, ReleaseWriteLock, Counted, At, IInv, TypeOK
  <2> QED BY <2>1 DEF CounterExact, IInv
<1> QED BY <1>1, <1>2, <1>3

(* The counter is 0 exactly when nobody is counted, 1 when one thread is.  *)
LEMMA CounterReads ==
  ASSUME IInv
  PROVE  /\ activeReaders = 0 <=> Counted = {}
         /\ \A t \in Counted : activeReaders = 1 <=> Counted = {t}
<1>1. IsFiniteSet(Counted)
  BY ThreadsAssumption, FS_Subset DEF Counted, At
<1>2. activeReaders = 0 <=> Counted = {}
  BY <1>1, FS_EmptySet DEF IInv, CounterExact
<1>3. ASSUME NEW t \in Counted PROVE activeReaders = 1 <=> Counted = {t}
  <2>1. Cardinality(Counted \ {t}) = activeReaders - 1 /\ IsFiniteSet(Counted \ {t})
    BY <1>1, <1>3, FS_RemoveElement DEF IInv, CounterExact
  <2>2. Cardinality(Counted \ {t}) = 0 <=> Counted \ {t} = {}
    BY <2>1, FS_EmptySet
  <2> QED BY <2>1, <2>2, <1>3 DEF IInv, TypeOK
<1> QED BY <1>2, <1>3

(* One atomic operation of one thread preserves who holds which lock: the  *)
(* sets of threads in each role change by that thread only, so every case  *)
(* is set reasoning once those changes are known.                          *)
LEMMA LocksStep ==
  ASSUME IInv, NEW t \in Threads,
         AcquireRead(t) \/ ReleaseRead(t) \/ AcquireWrite(t) \/ ReleaseWrite(t)
  PROVE  TypeOK' /\ LockInv' /\ FirstReaderAlone' /\ FileLockInv'
<1> USE DEF IInv, Goto, TypeOK, Location
<1>1. CASE CallAcquireRead(t)
  <2>1. TypeOK'
    BY <1>1 DEF CallAcquireRead
  <2>2. LockInv'
    BY <1>1 DEF CallAcquireRead, LockInv, HoldsLock, At
  <2>3. FirstReaderAlone'
    BY <1>1 DEF CallAcquireRead, LockInv, HoldsLock, FirstReaderAlone, Counted, At
  <2>4. FileLockInv'
    BY <1>1 DEF CallAcquireRead, LockInv, HoldsLock, FirstReaderAlone, Counted,
         FileLockInv, InRead, InWrite, LastOut, At
  <2> QED BY <2>1, <2>2, <2>3, <2>4
<1>2. CASE ReadTakeLock(t)
  <2>1. TypeOK'
    BY <1>2 DEF ReadTakeLock
  <2>2. LockInv'
    BY <1>2 DEF ReadTakeLock, LockInv, HoldsLock, At
  <2>3. FirstReaderAlone'
    BY <1>2 DEF ReadTakeLock, LockInv, HoldsLock, FirstReaderAlone, Counted, At
  <2>4. FileLockInv'
    BY <1>2 DEF ReadTakeLock, LockInv, HoldsLock, FirstReaderAlone, Counted,
         FileLockInv, InRead, InWrite, LastOut, At
  <2> QED BY <2>1, <2>2, <2>3, <2>4
<1>3. CASE ReadCount(t)
  <2>1. TypeOK'
    BY <1>3 DEF ReadCount
  <2>2. LockInv'
    BY <1>3, CounterReads DEF ReadCount, LockInv, HoldsLock, At
  <2>3. FirstReaderAlone'
    BY <1>3, CounterReads DEF ReadCount, LockInv, HoldsLock, FirstReaderAlone, Counted, At
  <2>4. FileLockInv'
    BY <1>3, CounterReads DEF ReadCount, LockInv, HoldsLock, FirstReaderAlone, Counted,
         FileLockInv, InRead, InWrite, LastOut, At
  <2> QED BY <2>1, <2>2, <2>3, <2>4
<1>4. CASE ReadTakeFile(t)
  <2>1. TypeOK'
    BY <1>4 DEF ReadTakeFile
  <2>2. LockInv'
    BY <1>4 DEF ReadTakeFile, LockInv, HoldsLock, At
  <2>3. FirstReaderAlone'
    BY <1>4 DEF ReadTakeFile, LockInv, HoldsLock, FirstReaderAlone, Counted, At
  <2>4. FileLockInv'
    BY <1>4 DEF ReadTakeFile, LockInv, HoldsLock, FirstReaderAlone, Counted,
         FileLockInv, InRead, InWrite, LastOut, At
  <2> QED BY <2>1, <2>2, <2>3, <2>4
<1>5. CASE ReadGiveLock(t)
  <2>1. TypeOK'
    BY <1>5 DEF ReadGiveLock
  <2>2. LockInv'
    BY <1>5 DEF ReadGiveLock, LockInv, HoldsLock, At
  <2>3. FirstReaderAlone'
    BY <1>5 DEF ReadGiveLock, LockInv, HoldsLock, FirstReaderAlone, Counted, At
  <2>4. FileLockInv'
    BY <1>5 DEF ReadGiveLock, LockInv, HoldsLock, FirstReaderAlone, Counted,
         FileLockInv, InRead, InWrite, LastOut, At
  <2> QED BY <2>1, <2>2, <2>3, <2>4
<1>6. CASE ReleaseReadCount(t)
  <2>1. TypeOK'
    BY <1>6, CounterReads DEF ReleaseReadCount, Counted, At
  <2>2. LockInv'
    BY <1>6, CounterReads DEF ReleaseReadCount, LockInv, HoldsLock, At
  <2>3. FirstReaderAlone'
    BY <1>6, CounterReads DEF ReleaseReadCount, LockInv, HoldsLock, FirstReaderAlone, Counted, At
  <2>4. FileLockInv'
    BY <1>6, CounterReads DEF ReleaseReadCount, LockInv, HoldsLock, FirstReaderAlone, Counted,
         FileLockInv, InRead, InWrite, LastOut, At
  <2> QED BY <2>1, <2>2, <2>3, <2>4
<1>7. CASE ReleaseReadFile(t)
  <2>1. TypeOK'
    BY <1>7 DEF ReleaseReadFile
  <2>2. LockInv'
    BY <1>7 DEF ReleaseReadFile, LockInv, HoldsLock, At
  <2>3. FirstReaderAlone'
    BY <1>7 DEF ReleaseReadFile, LockInv, HoldsLock, FirstReaderAlone, Counted, At
  <2>4. FileLockInv'
    BY <1>7 DEF ReleaseReadFile, LockInv, HoldsLock, FirstReaderAlone, Counted,
         FileLockInv, InRead, InWrite, LastOut, At
  <2> QED BY <2>1, <2>2, <2>3, <2>4
<1>8. CASE CallAcquireWrite(t)
  <2>1. TypeOK'
    BY <1>8 DEF CallAcquireWrite
  <2>2. LockInv'
    BY <1>8 DEF CallAcquireWrite, LockInv, HoldsLock, At
  <2>3. FirstReaderAlone'
    BY <1>8 DEF CallAcquireWrite, LockInv, HoldsLock, FirstReaderAlone, Counted, At
  <2>4. FileLockInv'
    BY <1>8 DEF CallAcquireWrite, LockInv, HoldsLock, FirstReaderAlone, Counted,
         FileLockInv, InRead, InWrite, LastOut, At
  <2> QED BY <2>1, <2>2, <2>3, <2>4
<1>9. CASE WriteTakeLock(t)
  <2>1. TypeOK'
    BY <1>9 DEF WriteTakeLock
  <2>2. LockInv'
    BY <1>9 DEF WriteTakeLock, LockInv, HoldsLock, At
  <2>3. FirstReaderAlone'
    BY <1>9 DEF WriteTakeLock, LockInv, HoldsLock, FirstReaderAlone, Counted, At
  <2>4. FileLockInv'
    BY <1>9 DEF WriteTakeLock, LockInv, HoldsLock, FirstReaderAlone, Counted,
         FileLockInv, InRead, InWrite, LastOut, At
  <2> QED BY <2>1, <2>2, <2>3, <2>4
<1>10. CASE WriteTakeFile(t)
  <2>1. TypeOK'
    BY <1>10 DEF WriteTakeFile
  <2>2. LockInv'
    BY <1>10 DEF WriteTakeFile, LockInv, HoldsLock, At
  <2>3. FirstReaderAlone'
    BY <1>10 DEF WriteTakeFile, LockInv, HoldsLock, FirstReaderAlone, Counted, At
  <2>4. FileLockInv'
    BY <1>10 DEF WriteTakeFile, LockInv, HoldsLock, FirstReaderAlone, Counted,
         FileLockInv, InRead, InWrite, LastOut, At
  <2> QED BY <2>1, <2>2, <2>3, <2>4
<1>11. CASE ReleaseWriteFile(t)
  <2>1. TypeOK'
    BY <1>11 DEF ReleaseWriteFile
  <2>2. LockInv'
    BY <1>11 DEF ReleaseWriteFile, LockInv, HoldsLock, At
  <2>3. FirstReaderAlone'
    BY <1>11 DEF ReleaseWriteFile, LockInv, HoldsLock, FirstReaderAlone, Counted, At
  <2>4. FileLockInv'
    BY <1>11 DEF ReleaseWriteFile, LockInv, HoldsLock, FirstReaderAlone, Counted,
         FileLockInv, InRead, InWrite, LastOut, At
  <2> QED BY <2>1, <2>2, <2>3, <2>4
<1>12. CASE ReleaseWriteLock(t)
  <2>1. TypeOK'
    BY <1>12 DEF ReleaseWriteLock
  <2>2. LockInv'
    BY <1>12 DEF ReleaseWriteLock, LockInv, HoldsLock, At
  <2>3. FirstReaderAlone'
    BY <1>12 DEF ReleaseWriteLock, LockInv, HoldsLock, FirstReaderAlone, Counted, At
  <2>4. FileLockInv'
    BY <1>12 DEF ReleaseWriteLock, LockInv, HoldsLock, FirstReaderAlone, Counted,
         FileLockInv, InRead, InWrite, LastOut, At
  <2> QED BY <2>1, <2>2, <2>3, <2>4
<1> QED BY <1>1, <1>2, <1>3, <1>4, <1>5, <1>6, <1>7, <1>8, <1>9, <1>10, <1>11, <1>12
        DEF AcquireRead, ReleaseRead, AcquireWrite, ReleaseWrite

LEMMA StepIInv == IInv /\ [Next]_vars => IInv'
<1> SUFFICES ASSUME IInv, [Next]_vars PROVE IInv'
  OBVIOUS
<1>1. CASE Next
  BY <1>1, LocksStep, CounterStep DEF Next, IInv
<1>2. CASE UNCHANGED vars
  BY <1>2 DEF vars, IInv, TypeOK, CounterExact, LockInv, FirstReaderAlone,
     FileLockInv, At, HoldsLock, Counted, InRead, InWrite, LastOut
<1> QED BY <1>1, <1>2

(* The inductive invariant holds in every reachable state.                 *)
THEOREM Invariance == Spec => []IInv
BY InitIInv, StepIInv, PTL DEF Spec

(* The lock's variables keep their types; the counter is never negative.   *)
THEOREM TypeCorrect == Spec => []TypeOK
<1>1. IInv => TypeOK
  BY DEF IInv
<1> QED BY <1>1, Invariance, PTL

(* A writer is alone with the data the lock protects.                      *)
THEOREM MutualExclusion == Spec => []Exclusion
<1>1. IInv => Exclusion
  BY DEF IInv, FileLockInv, Exclusion
<1> QED BY <1>1, Invariance, PTL

(* Every operation is a step of the abstract lock or none of its business: *)
(* the thread that makes InRead or InWrite larger finds the other empty.   *)
LEMMA StepRefines ==
  ASSUME IInv, NEW t \in Threads,
         AcquireRead(t) \/ ReleaseRead(t) \/ AcquireWrite(t) \/ ReleaseWrite(t)
  PROVE  [Abstract!RWNext]_Abstract!rwVars
<1> USE DEF IInv, Goto, TypeOK, At, InRead, InWrite
<1>1. CASE ReadCount(t) /\ activeReaders # 0
  <2>1. PICK u \in Counted : TRUE
    BY <1>1, CounterReads
  <2>2. InWrite = {} /\ t \notin InRead
    BY <1>1, <2>1 DEF ReadCount, LockInv, HoldsLock, FirstReaderAlone, FileLockInv, Counted
  <2>3. InRead' = InRead \cup {t} /\ InWrite' = InWrite
    BY <1>1 DEF ReadCount
  <2> QED BY <2>2, <2>3 DEF Abstract!RWNext, Abstract!BeginRead
<1>2. CASE ReadTakeFile(t)
  <2>1. InRead' = InRead \cup {t} /\ InWrite' = InWrite /\ t \notin InRead
    BY <1>2 DEF ReadTakeFile
  <2>2. InWrite = {}
    BY <1>2 DEF ReadTakeFile, FileLockInv
  <2> QED BY <2>1, <2>2 DEF Abstract!RWNext, Abstract!BeginRead
<1>3. CASE ReleaseReadCount(t)
  <2>1. InRead' = InRead \ {t} /\ InWrite' = InWrite /\ t \in InRead
    BY <1>3 DEF ReleaseReadCount
  <2> QED BY <2>1 DEF Abstract!RWNext, Abstract!EndRead
<1>4. CASE WriteTakeFile(t)
  <2>1. InRead' = InRead /\ InWrite' = InWrite \cup {t}
    BY <1>4 DEF WriteTakeFile
  <2>2. InRead = {} /\ InWrite = {}
    BY <1>4 DEF WriteTakeFile, FileLockInv
  <2> QED BY <2>1, <2>2 DEF Abstract!RWNext, Abstract!BeginWrite
<1>5. CASE ReleaseWriteFile(t)
  <2>1. InRead' = InRead /\ InWrite' = InWrite \ {t} /\ t \in InWrite
    BY <1>5 DEF ReleaseWriteFile
  <2> QED BY <2>1 DEF Abstract!RWNext, Abstract!EndWrite
<1>6. CASE ReadCount(t) /\ activeReaders = 0
  BY <1>6 DEF ReadCount, Abstract!rwVars
<1>7. CASE \/ CallAcquireRead(t) \/ ReadTakeLock(t) \/ ReadGiveLock(t) \/ ReleaseReadFile(t)
           \/ CallAcquireWrite(t) \/ WriteTakeLock(t) \/ ReleaseWriteLock(t)
  BY <1>7 DEF CallAcquireRead, ReadTakeLock, ReadGiveLock, ReleaseReadFile,
     CallAcquireWrite, WriteTakeLock, ReleaseWriteLock, Abstract!rwVars
<1> QED BY <1>1, <1>2, <1>3, <1>4, <1>5, <1>6, <1>7
        DEF AcquireRead, ReleaseRead, AcquireWrite, ReleaseWrite

(* The two spinlocks and the counter implement a readers-writer lock.      *)
THEOREM Refinement == Spec => Implements
<1>1. Init => Abstract!RWInit
  BY DEF Init, Abstract!RWInit, InRead, InWrite, At
<1>2. IInv /\ [Next]_vars => [Abstract!RWNext]_Abstract!rwVars
  <2> SUFFICES ASSUME IInv, [Next]_vars PROVE [Abstract!RWNext]_Abstract!rwVars
    OBVIOUS
  <2>1. CASE Next
    BY <2>1, StepRefines DEF Next
  <2>2. CASE UNCHANGED vars
    BY <2>2 DEF vars, InRead, InWrite, At, Abstract!rwVars
  <2> QED BY <2>1, <2>2
<1> QED BY <1>1, <1>2, Invariance, PTL DEF Spec, Implements, Abstract!RWSpec
-----------------------------------------------------------------------------
-----------------------------------------------------------------------------
(* BlockCache                                                              *)
CacheTypeOK ==
  /\ map \in [Blocks -> Slots \cup {None}]
  /\ list \in Seq(Slots)
  /\ slot \in [Slots -> [block : Blocks \cup {None}, data : Data \cup {None}]]
  /\ device \in [Blocks -> Data]
CacheInv == CacheTypeOK /\ B!Coherent
-----------------------------------------------------------------------------
(* What the operations on a list without repetition leave.                 *)
LEMMA Elements ==
  ASSUME NEW q \in Seq(Slots)
  PROVE  /\ Len(q) \in Nat /\ DOMAIN q = 1..Len(q) /\ \A i \in 1..Len(q) : q[i] \in Slots
         /\ \A s : s \in B!ToSet(q) <=> \E i \in 1..Len(q) : q[i] = s
         /\ B!IsInjective(q) <=> \A i, j \in 1..Len(q) : q[i] = q[j] => i = j
<1>1. Len(q) \in Nat /\ DOMAIN q = 1..Len(q) /\ \A i \in 1..Len(q) : q[i] \in Slots
  BY LenProperties, ElementOfSeq
<1> QED BY <1>1 DEF B!ToSet, B!IsInjective

LEMMA AppendFresh ==
  ASSUME NEW q \in Seq(Slots), B!IsInjective(q), NEW s \in Slots, s \notin B!ToSet(q)
  PROVE  /\ Append(q, s) \in Seq(Slots) /\ B!IsInjective(Append(q, s))
         /\ \A r : r \in B!ToSet(Append(q, s)) <=> r \in B!ToSet(q) \/ r = s
<1> DEFINE a == Append(q, s)
           n == Len(q)
<1>1. /\ a \in Seq(Slots) /\ Len(a) = n + 1 /\ a[n + 1] = s /\ \A i \in 1..n : a[i] = q[i]
  BY AppendProperties
<1>2. n \in Nat /\ (\A i \in 1..n + 1 : i \in 1..n \/ i = n + 1) /\ n + 1 \in 1..n + 1 /\ \A i \in 1..n : i \in 1..n + 1
  BY Elements
<1>3. (\A r : r \in B!ToSet(q) <=> \E i \in 1..n : q[i] = r) /\ \A i, j \in 1..n : q[i] = q[j] => i = j
  BY Elements
<1> HIDE DEF a, n
<1>a. /\ \A r : r \in B!ToSet(a) <=> \E i \in 1..n + 1 : a[i] = r
      /\ B!IsInjective(a) <=> \A i, j \in 1..n + 1 : a[i] = a[j] => i = j
  BY <1>1, Elements
<1>4. \A i, j \in 1..n + 1 : a[i] = a[j] => i = j
  BY <1>1, <1>2, <1>3
<1>5. \A r : r \in B!ToSet(a) <=> r \in B!ToSet(q) \/ r = s
  BY <1>1, <1>2, <1>3, <1>a
<1> QED BY <1>1, <1>4, <1>5, <1>a DEF a

LEMMA PrependFresh ==
  ASSUME NEW q \in Seq(Slots), B!IsInjective(q), NEW s \in Slots, s \notin B!ToSet(q)
  PROVE  /\ <<s>> \o q \in Seq(Slots) /\ B!IsInjective(<<s>> \o q)
         /\ \A r : r \in B!ToSet(<<s>> \o q) <=> r \in B!ToSet(q) \/ r = s
<1> DEFINE a == <<s>> \o q
           n == Len(q)
<1>0. <<s>> \in Seq(Slots) /\ Len(<<s>>) = 1 /\ <<s>>[1] = s  OBVIOUS
<1>n. n \in Nat  BY Elements
<1>1. /\ a \in Seq(Slots) /\ Len(a) = n + 1
      /\ \A i \in 1..n + 1 : a[i] = IF i <= 1 THEN <<s>>[i] ELSE q[i - 1]
  BY <1>0, <1>n, ConcatProperties
<1>2. /\ 1 \in 1..n + 1 /\ a[1] = s
      /\ \A i \in 1..n + 1 : i # 1 => i - 1 \in 1..n /\ a[i] = q[i - 1]
      /\ \A i \in 1..n : i + 1 \in 1..n + 1 /\ a[i + 1] = q[i]
  BY <1>0, <1>1, <1>n
<1>3. (\A r : r \in B!ToSet(q) <=> \E i \in 1..n : q[i] = r) /\ \A i, j \in 1..n : q[i] = q[j] => i = j
  BY Elements
<1> HIDE DEF a, n
<1>a. /\ \A r : r \in B!ToSet(a) <=> \E i \in 1..n + 1 : a[i] = r
      /\ B!IsInjective(a) <=> \A i, j \in 1..n + 1 : a[i] = a[j] => i = j
  BY <1>1, Elements
<1>4. ASSUME NEW i \in 1..n + 1, NEW j \in 1..n + 1, a[i] = a[j] PROVE i = j
  <2>1. CASE i = 1 \/ j = 1  BY <1>2, <1>3, <1>4, <2>1
  <2>2. CASE i # 1 /\ j # 1
    <3>1. i - 1 = j - 1  BY <1>2, <1>3, <1>4, <2>2
    <3> QED BY <1>n, <3>1
  <2> QED BY <2>1, <2>2
<1>5. \A r : r \in B!ToSet(a) <=> r \in B!ToSet(q) \/ r = s
  BY <1>2, <1>3, <1>a
<1> QED BY <1>1, <1>4, <1>5, <1>a DEF a

(* The least recently used block leaves the list.                          *)
LEMMA TailForgets ==
  ASSUME NEW q \in Seq(Slots), B!IsInjective(q), q # <<>>
  PROVE  /\ Tail(q) \in Seq(Slots) /\ B!IsInjective(Tail(q)) /\ Head(q) \in Slots /\ Head(q) \in B!ToSet(q)
         /\ \A r : r \in B!ToSet(Tail(q)) <=> r \in B!ToSet(q) /\ r # Head(q)
<1> DEFINE a == Tail(q)
           n == Len(q)
<1>n. n \in Nat \ {0} /\ Head(q) = q[1] /\ Head(q) \in Slots  BY EmptySeq, HeadTailProperties
<1>1. a \in Seq(Slots) /\ Len(a) = n - 1 /\ \A i \in 1..n - 1 : a[i] = q[i + 1]
  BY HeadTailProperties
<1>2. /\ 1 \in 1..n /\ \A i \in 1..n - 1 : i + 1 \in 1..n /\ i + 1 # 1
      /\ \A i \in 1..n : i # 1 => i - 1 \in 1..n - 1 /\ a[i - 1] = q[i]
  BY <1>n, <1>1
<1>3. (\A r : r \in B!ToSet(q) <=> \E i \in 1..n : q[i] = r) /\ \A i, j \in 1..n : q[i] = q[j] => i = j
  BY Elements
<1> HIDE DEF a, n
<1>a. /\ \A r : r \in B!ToSet(a) <=> \E i \in 1..n - 1 : a[i] = r
      /\ B!IsInjective(a) <=> \A i, j \in 1..n - 1 : a[i] = a[j] => i = j
  BY <1>1, Elements, SMTT(60)
<1>4. ASSUME NEW i \in 1..n - 1, NEW j \in 1..n - 1, a[i] = a[j] PROVE i = j
  <2>1. i + 1 = j + 1  BY <1>1, <1>2, <1>3, <1>4
  <2> QED BY <1>n, <2>1
<1>5. \A r : r \in B!ToSet(a) <=> r \in B!ToSet(q) /\ r # Head(q)
  <2>1. ASSUME NEW r, r \in B!ToSet(a) PROVE r \in B!ToSet(q) /\ r # Head(q)
    <3>1. PICK i \in 1..n - 1 : a[i] = r  BY <1>a, <2>1
    <3>2. i + 1 \in 1..n /\ i + 1 # 1 /\ q[i + 1] = r  BY <1>1, <1>2, <3>1
    <3> QED BY <1>n, <1>2, <1>3, <3>2
  <2>2. ASSUME NEW r, r \in B!ToSet(q), r # Head(q) PROVE r \in B!ToSet(a)
    <3>1. PICK i \in 1..n : q[i] = r  BY <1>3, <2>2
    <3>2. i # 1  BY <1>n, <2>2, <3>1
    <3> QED BY <1>2, <1>a, <3>1, <3>2
  <2> QED BY <2>1, <2>2
<1>h. Head(q) \in B!ToSet(q)  BY <1>n, <1>2, <1>3
<1> QED BY <1>n, <1>1, <1>4, <1>5, <1>a, <1>h DEF a

(* A block that is found leaves its place in the list.                     *)
LEMMA WithoutForgets ==
  ASSUME list \in Seq(Slots), B!IsInjective(list), NEW s \in B!ToSet(list)
  PROVE  /\ B!Without(s) \in Seq(Slots) /\ B!IsInjective(B!Without(s))
         /\ \A r : r \in B!ToSet(B!Without(s)) <=> r \in B!ToSet(list) /\ r # s
<1> DEFINE p == CHOOSE i \in DOMAIN list : list[i] = s
           n == Len(list)
           l == SubSeq(list, 1, p - 1)
           r == SubSeq(list, p + 1, n)
           a == l \o r
<1>1. /\ n \in Nat /\ p \in 1..n /\ list[p] = s /\ \A i \in 1..n : list[i] \in Slots
      /\ \A t : t \in B!ToSet(list) <=> \E i \in 1..n : list[i] = t
      /\ \A i, j \in 1..n : list[i] = list[j] => i = j
  <2>1. n \in Nat /\ DOMAIN list = 1..n /\ \E i \in 1..n : list[i] = s  BY Elements
  <2>2. p \in 1..n /\ list[p] = s  BY <2>1
  <2> QED BY <2>1, <2>2, Elements
<1>2. B!Without(s) = a  BY DEF B!Without, B!RemoveAt
<1> HIDE DEF p
<1>3. l \in Seq(Slots) /\ Len(l) = p - 1 /\ \A i \in 1..p - 1 : l[i] = list[i]
  <2>1. p - 1 \in Int /\ \A i \in 1..p - 1 : list[i] \in Slots  BY <1>1
  <2> QED BY <1>1, <2>1, SubSeqProperties
<1>4. r \in Seq(Slots) /\ Len(r) = n - p /\ \A i \in 1..n - p : r[i] = list[p + i]
  BY <1>1
<1> HIDE DEF l, r, n
<1>n. Len(l) + Len(r) = n - 1 /\ p - 1 \in Nat /\ n \in Nat  BY <1>1, <1>3, <1>4
<1>5. /\ a \in Seq(Slots) /\ Len(a) = n - 1
      /\ \A i \in 1..n - 1 : a[i] = IF i <= p - 1 THEN l[i] ELSE r[i - (p - 1)]
  <2>1. /\ a \in Seq(Slots) /\ Len(a) = Len(l) + Len(r)
        /\ \A i \in 1..Len(l) + Len(r) : a[i] = IF i <= Len(l) THEN l[i] ELSE r[i - Len(l)]
    BY <1>3, <1>4, ConcatProperties
  <2> HIDE DEF a
  <2> QED BY <1>3, <1>n, <2>1
<1> HIDE DEF a
<1>6. /\ \A i \in 1..n - 1 : i < p => i \in 1..n /\ a[i] = list[i]
      /\ \A i \in 1..n - 1 : i >= p => i + 1 \in 1..n /\ a[i] = list[i + 1]
  <2>1. ASSUME NEW i \in 1..n - 1, i < p PROVE i \in 1..n /\ a[i] = list[i]
    <3>1. i \in 1..n /\ i \in 1..p - 1 /\ i <= p - 1  BY <1>1, <2>1
    <3>2. a[i] = l[i]  BY <1>5, <3>1
    <3> QED BY <1>3, <3>1, <3>2
  <2>2. ASSUME NEW i \in 1..n - 1, i >= p PROVE i + 1 \in 1..n /\ a[i] = list[i + 1]
    <3>1. i - (p - 1) \in 1..n - p /\ p + (i - (p - 1)) = i + 1 /\ ~(i <= p - 1)  BY <1>1, <2>2
    <3>2. a[i] = r[i - (p - 1)]  BY <1>5, <3>1
    <3>3. i + 1 \in 1..n  BY <1>1
    <3> QED BY <1>4, <3>1, <3>2, <3>3
  <2> QED BY <2>1, <2>2
<1>7. /\ \A t : t \in B!ToSet(a) <=> \E i \in 1..n - 1 : a[i] = t
      /\ B!IsInjective(a) <=> \A i, j \in 1..n - 1 : a[i] = a[j] => i = j
  BY <1>5, Elements
<1>8. ASSUME NEW i \in 1..n - 1, NEW j \in 1..n - 1, a[i] = a[j] PROVE i = j
  <2>1. i < p \/ i >= p  BY <1>1
  <2>2. j < p \/ j >= p  BY <1>1
  <2> QED BY <1>1, <1>6, <1>8, <2>1, <2>2
<1>9. ASSUME NEW t PROVE t \in B!ToSet(a) <=> t \in B!ToSet(list) /\ t # s
  <2>1. ASSUME t \in B!ToSet(a) PROVE t \in B!ToSet(list) /\ t # s
    <3>1. PICK i \in 1..n - 1 : a[i] = t  BY <1>7, <2>1
    <3>2. CASE i < p
      <4>1. i \in 1..n /\ list[i] = t /\ i # p  BY <1>1, <1>6, <3>1, <3>2
      <4> QED BY <1>1, <4>1
    <3>3. CASE i >= p
      <4>1. i + 1 \in 1..n /\ list[i + 1] = t /\ i + 1 # p  BY <1>1, <1>6, <3>1, <3>3
      <4> QED BY <1>1, <4>1
    <3> QED BY <1>1, <3>2, <3>3
  <2>2. ASSUME t \in B!ToSet(list), t # s PROVE t \in B!ToSet(a)
    <3>1. PICK i \in 1..n : list[i] = t  BY <1>1, <2>2
    <3>2. i # p  BY <1>1, <2>2, <3>1
    <3>3. CASE i < p
      <4>1. i \in 1..n - 1  BY <1>1, <3>3
      <4> QED BY <1>6, <1>7, <3>1, <3>3, <4>1
    <3>4. CASE i > p
      <4>1. i - 1 \in 1..n - 1 /\ i - 1 >= p /\ (i - 1) + 1 = i  BY <1>1, <3>4
      <4>2. a[i - 1] = t  BY <1>6, <3>1, <4>1
      <4> QED BY <1>7, <4>1, <4>2
    <3> QED BY <1>1, <3>2, <3>3, <3>4
  <2> QED BY <2>1, <2>2
<1> QED BY <1>2, <1>5, <1>7, <1>8, <1>9

(* A list that is not full leaves a cached block to make.                  *)
LEMMA Room ==
  ASSUME NEW q \in Seq(Slots), B!IsInjective(q), IsFiniteSet(Slots), Len(q) # Cardinality(Slots)
  PROVE  \E s \in Slots : s \notin B!ToSet(q)
<1> SUFFICES ASSUME \A s \in Slots : s \in B!ToSet(q) PROVE FALSE  OBVIOUS
<1>1. Len(q) \in Nat /\ q \in [1..Len(q) -> Slots] /\ \A i, j \in 1..Len(q) : q[i] = q[j] => i = j
  BY Elements, LenProperties
<1>2. \A s \in Slots : \E i \in 1..Len(q) : q[i] = s  BY Elements
<1>3. q \in Bijection(1..Len(q), Slots)
  BY <1>1, <1>2 DEF Bijection, Injection, Surjection, IsInjective, B!IsInjective
<1>4. ExistsBijection(1..Len(q), Slots)  BY <1>3 DEF ExistsBijection
<1>5. IsFiniteSet(1..Len(q)) /\ Cardinality(1..Len(q)) = Len(q)  BY <1>1, FS_Interval, SMTT(60)
<1>6. Cardinality(Slots) = Len(q)  BY <1>4, <1>5, FS_Bijection
<1> QED BY <1>6
-----------------------------------------------------------------------------

(* The size that the instance counts is the one the library speaks of.     *)
LEMMA SameSize == B!Cardinality(Slots) = Cardinality(Slots)
BY DEF B!Cardinality, Cardinality

LEMMA CacheInit == B!Init => CacheInv
<1> SUFFICES ASSUME B!Init PROVE CacheInv  OBVIOUS
<1>1. CacheTypeOK  BY DEF B!Init, CacheTypeOK
<1>2. list \in Seq(Slots) /\ Len(list) = 0  BY DEF B!Init
<1>3. B!IsInjective(list)
  <2>1. list = <<>> /\ DOMAIN list = {}  BY DEF B!Init
  <2> QED BY <2>1 DEF B!IsInjective
<1> QED BY <1>1, <1>3 DEF B!Init, CacheInv, B!Coherent

LEMMA HitStep ==
  ASSUME CacheInv, NEW b \in Blocks, B!ReadHit(b)
  PROVE  CacheInv'
<1> DEFINE s == map[b]
<1>1. s \in B!ToSet(list) /\ s \in Slots /\ list \in Seq(Slots) /\ B!IsInjective(list)
  BY DEF CacheInv, CacheTypeOK, B!Coherent, B!ReadHit
<1>2. /\ B!Without(s) \in Seq(Slots) /\ B!IsInjective(B!Without(s))
      /\ \A r : r \in B!ToSet(B!Without(s)) <=> r \in B!ToSet(list) /\ r # s
  BY <1>1, WithoutForgets
<1>3. list' = Append(B!Without(s), s)  BY DEF B!ReadHit
<1>4. /\ list' \in Seq(Slots) /\ B!IsInjective(list')
      /\ \A r : r \in B!ToSet(list') <=> r \in B!ToSet(list)
  BY <1>1, <1>2, <1>3, AppendFresh
<1> QED BY <1>4 DEF CacheInv, CacheTypeOK, B!Coherent, B!ReadHit

(* A miss: the place taken for the block is not one that the map finds.    *)
LEMMA MissStep ==
  ASSUME CacheInv, NEW b \in Blocks, NEW ok \in BOOLEAN, B!ReadMiss(b, ok)
  PROVE  CacheInv'
<1> DEFINE kept == IF B!Full THEN Tail(list) ELSE list
           left == IF B!Full THEN [map EXCEPT ![slot[B!Victim].block] = None] ELSE map
<1>t. CacheTypeOK /\ B!Coherent /\ list \in Seq(Slots) /\ B!IsInjective(list) /\ map \in [Blocks -> Slots \cup {None}]
  BY DEF CacheInv, CacheTypeOK, B!Coherent
<1>c. \A c \in Blocks : map[c] # None =>
        map[c] \in B!ToSet(list) /\ map[c] \in Slots /\ slot[map[c]].block = c /\ (c \notin failed => slot[map[c]].data = device[c])
  BY <1>t DEF B!Coherent
<1>1. /\ kept \in Seq(Slots) /\ B!IsInjective(kept) /\ B!Slot \in Slots /\ B!Slot \notin B!ToSet(kept)
      /\ \A r \in B!ToSet(list) : r # B!Slot => r \in B!ToSet(kept)
  <2>1. CASE B!Full
    <3>1. Len(list) # 0  BY <2>1, FS_EmptySet, SameSize, CacheAssumption DEF B!Full
    <3>2. list # <<>>  BY <3>1
    <3> QED BY <1>t, <2>1, <3>2, TailForgets DEF B!Slot, B!Victim
  <2>2. CASE ~B!Full
    <3>1. \E s \in Slots : s \notin B!ToSet(list)  BY <1>t, <2>2, Room, SameSize, CacheAssumption DEF B!Full
    <3>2. B!Slot \in Slots /\ B!Slot \notin B!ToSet(list)  BY <2>2, <3>1 DEF B!Slot
    <3> QED BY <1>t, <2>2, <3>2
  <2> QED BY <2>1, <2>2
<1>2. /\ left \in [Blocks -> Slots \cup {None}]
      /\ \A c \in Blocks : left[c] # None => left[c] = map[c] /\ left[c] # B!Slot
  <2>1. CASE B!Full
    <3>1. left \in [Blocks -> Slots \cup {None}]  BY <1>t, <2>1
    <3>2. ASSUME NEW c \in Blocks, left[c] # None PROVE left[c] = map[c] /\ left[c] # B!Slot
      <4>1. c # slot[B!Victim].block /\ left[c] = map[c]  BY <1>t, <2>1, <3>2
      <4>2. slot[map[c]].block = c  BY <1>c, <3>2, <4>1
      <4> QED BY <2>1, <4>1, <4>2 DEF B!Slot
    <3> QED BY <3>1, <3>2
  <2>2. CASE ~B!Full
    <3>1. B!Slot \notin B!ToSet(list)  BY <1>1, <2>2
    <3> QED BY <1>t, <1>c, <2>2, <3>1
  <2> QED BY <2>1, <2>2
<1>3. /\ slot' = [slot EXCEPT ![B!Slot] = [block |-> b, data |-> IF ok THEN device[b] ELSE None]]
      /\ list' = IF ok THEN Append(kept, B!Slot) ELSE <<B!Slot>> \o kept
      /\ map' = IF ok THEN [left EXCEPT ![b] = B!Slot] ELSE left
      /\ UNCHANGED <<device, failed>>
  BY DEF B!ReadMiss
<1> HIDE DEF kept, left
<1>4. /\ list' \in Seq(Slots) /\ B!IsInjective(list')
      /\ \A r : r \in B!ToSet(list') <=> r \in B!ToSet(kept) \/ r = B!Slot
  BY <1>1, <1>3, AppendFresh, PrependFresh
<1>5. /\ slot'[B!Slot].block = b /\ (ok => slot'[B!Slot].data = device[b])
      /\ \A s \in Slots : s # B!Slot => slot'[s] = slot[s]
      /\ CacheTypeOK'
  <2>1. device[b] \in Data /\ slot \in [Slots -> [block : Blocks \cup {None}, data : Data \cup {None}]]
    BY <1>t DEF CacheTypeOK
  <2>2. [block |-> b, data |-> IF ok THEN device[b] ELSE None] \in [block : Blocks \cup {None}, data : Data \cup {None}]
    BY <2>1
  <2>3. slot' \in [Slots -> [block : Blocks \cup {None}, data : Data \cup {None}]]  BY <1>1, <1>3, <2>1, <2>2
  <2>4. map' \in [Blocks -> Slots \cup {None}]  BY <1>1, <1>2, <1>3
  <2>5. CacheTypeOK'  BY <1>t, <1>3, <1>4, <2>3, <2>4 DEF CacheTypeOK
  <2> QED BY <1>1, <1>3, <2>1, <2>5
<1>6. ASSUME NEW c \in Blocks, map'[c] # None
      PROVE  /\ map'[c] \in B!ToSet(list') /\ slot'[map'[c]].block = c
             /\ c \notin failed' => slot'[map'[c]].data = device'[c]
  <2>1. CASE ok /\ c = b
    <3>1. map'[c] = B!Slot  BY <1>2, <1>3, <2>1
    <3> QED BY <1>3, <1>4, <1>5, <2>1, <3>1
  <2>2. CASE ~(ok /\ c = b)
    <3>1. map'[c] = left[c]  BY <1>2, <1>3, <2>2
    <3>2. left[c] = map[c] /\ map[c] # B!Slot /\ map[c] # None  BY <1>2, <1>6, <3>1
    <3> QED BY <1>c, <1>1, <1>3, <1>4, <1>5, <3>1, <3>2
  <2> QED BY <2>1, <2>2
<1> QED BY <1>4, <1>5, <1>6 DEF CacheInv, B!Coherent

LEMMA WriteStep ==
  ASSUME CacheInv, NEW b \in Blocks, NEW v \in Data, NEW ok \in BOOLEAN, B!Write(b, v, ok)
  PROVE  CacheInv'
<1>t. /\ map \in [Blocks -> Slots \cup {None}] /\ device \in [Blocks -> Data]
      /\ slot \in [Slots -> [block : Blocks \cup {None}, data : Data \cup {None}]]
  BY DEF CacheInv, CacheTypeOK
<1>c. \A c \in Blocks : map[c] # None =>
        map[c] \in B!ToSet(list) /\ map[c] \in Slots /\ slot[map[c]].block = c /\ (c \notin failed => slot[map[c]].data = device[c])
  <2>1. \A s \in B!ToSet(list) : s \in Slots  BY Elements DEF CacheInv, CacheTypeOK
  <2> QED BY <2>1 DEF CacheInv, B!Coherent
<1>1. /\ slot' = IF map[b] = None THEN slot ELSE [slot EXCEPT ![map[b]].data = v]
      /\ device' = IF ok THEN [device EXCEPT ![b] = v] ELSE device
      /\ failed' = IF ok THEN failed \ {b} ELSE failed \cup {b}
      /\ UNCHANGED <<map, list>>
  BY DEF B!Write
<1>2. CacheTypeOK'
  <2>1. slot' \in [Slots -> [block : Blocks \cup {None}, data : Data \cup {None}]]  BY <1>t, <1>1
  <2> QED BY <1>t, <1>1, <2>1 DEF CacheInv, CacheTypeOK
<1>3. ASSUME NEW c \in Blocks, map[c] # None
      PROVE  slot'[map[c]].block = c /\ (c \notin failed' => slot'[map[c]].data = device'[c])
  <2>1. CASE c = b  BY <1>t, <1>c, <1>1, <1>3, <2>1
  <2>2. CASE c # b
    <3>1. map[b] # None => map[c] # map[b]  BY <1>c, <1>3, <2>2
    <3>2. slot'[map[c]] = slot[map[c]]  BY <1>t, <1>c, <1>1, <1>3, <3>1
    <3> QED BY <1>t, <1>c, <1>1, <1>3, <2>2, <3>2
  <2> QED BY <2>1, <2>2
<1> QED BY <1>1, <1>2, <1>3, <1>c DEF CacheInv, B!Coherent

LEMMA CacheStep == CacheInv /\ [B!Next]_B!vars => CacheInv'
<1> SUFFICES ASSUME CacheInv, [B!Next]_B!vars PROVE CacheInv'  OBVIOUS
<1>1. CASE UNCHANGED B!vars  BY <1>1 DEF B!vars, CacheInv, CacheTypeOK, B!Coherent
<1>2. ASSUME NEW b \in Blocks, B!Forget(b) PROVE CacheInv'
  BY <1>2 DEF B!Forget, CacheInv, CacheTypeOK, B!Coherent
<1>3. ASSUME NEW b \in Blocks, B!ReadAsserts(b) PROVE CacheInv'
  BY <1>3 DEF B!ReadAsserts, CacheInv, CacheTypeOK, B!Coherent
<1> QED BY <1>1, <1>2, <1>3, HitStep, MissStep, WriteStep DEF B!Next
(* The composition: while the part is the cache, the cache has its invariant. *)
CoherentInv == part = "cache" => CacheInv

(* Ext2Volume::ReadBlockCached and WriteBlockCached: what the map finds is *)
(* in the list, once, and holds what the disk holds under that number.     *)
THEOREM CacheCoherent == FilesSpec => []Coherent
<1>1. FilesInit => CoherentInv
  <2>1. B!Init => CacheInv  BY CacheInit
  <2> QED BY <2>1 DEF FilesInit, CoherentInv
<1>2. CoherentInv /\ [FilesNext]_files => CoherentInv'
  <2> SUFFICES ASSUME CoherentInv, [FilesNext]_files, part' = "cache" PROVE CacheInv'
    BY DEF CoherentInv
  <2>1. part = "cache" /\ (B!Next \/ UNCHANGED cache)  BY Zenon DEF FilesNext, files
  <2>2. UNCHANGED cache => UNCHANGED B!vars  BY DEF cache, B!vars
  <2> QED BY <2>1, <2>2, CacheStep DEF CoherentInv
<1>3. CoherentInv => Coherent  BY DEF CoherentInv, Coherent, CacheInv
<1> QED BY <1>1, <1>2, <1>3, PTL DEF FilesSpec
-----------------------------------------------------------------------------
(* FileTable                                                               *)
HandleType == [file : OpenFiles \cup {None}, cloexec : BOOLEAN]
OpenFileType == [node : Inodes \cup {None}, pos : Nat, lock : Callers \cup {None}, ref : Int, moved : BOOLEAN]
CallOps == {"none", "place", "transfer", "node", "use", "dup", "destroy", "replace", "cloexec"}
CallType == [op : CallOps, fd : Nat, h : HandleType, at : Nat]
TableTypeOK ==
  /\ table \in [Processes -> Seq(HandleType)] /\ \A p \in Processes : Len(table[p]) <= MaxHandles
  /\ file \in [OpenFiles -> OpenFileType]
  /\ opens \in [Inodes -> Int]
  /\ thr \in [Callers -> CallType]
  /\ taken \in [OpenFiles -> SUBSET Int]

(* A call keeps its file, and the entries that it will use.                *)
Placed == \A t \in Callers :
  /\ thr[t].op = "none" => thr[t] = T!Idle
  /\ thr[t].op # "none" => thr[t].h.file # None
  /\ thr[t].op \in {"dup", "cloexec"} => thr[t].fd \in DOMAIN table[Own[t]]
  /\ thr[t].op \in {"destroy", "replace"} => thr[t].at \in DOMAIN table[Own[t]]

(* Who transfers has the lock, and what was delivered lies below the       *)
(* position, until somebody moves it.                                      *)
Delivered ==
  /\ \A f \in OpenFiles :
       /\ file[f].ref = 0 => file[f] = T!Free /\ taken[f] = {}
       /\ ~file[f].moved => taken[f] \subseteq 0 .. file[f].pos - 1
  /\ \A t \in Callers : thr[t].op = "node" =>
       /\ file[thr[t].h.file].lock = t
       /\ ~file[thr[t].h.file].moved => thr[t].at = file[thr[t].h.file].pos
TableInv == TableTypeOK /\ Placed /\ Delivered /\ T!Referenced
-----------------------------------------------------------------------------
LEMMA Sizes == \A S : T!Cardinality(S) = Cardinality(S)
BY DEF T!Cardinality, Cardinality

(* One reference more or less.                                             *)
If(x) == IF x THEN 1 ELSE 0
Held(f) == Cardinality(T!Holders(f))
Listed(f) == Cardinality(T!Entries(f))
OpenOn(n) == {f \in OpenFiles : file[f].node = n}

LEMMA ReferencedMeans ==
  T!Referenced <=>
    /\ \A f \in OpenFiles : /\ file[f].ref = Held(f) + Listed(f)
                            /\ (file[f].ref > 0) = (file[f].node # None)
    /\ \A n \in Inodes : opens[n] = Cardinality(OpenOn(n))
BY Sizes DEF T!Referenced, Held, Listed, OpenOn

LEMMA ReferencedNext ==
  T!Referenced' <=>
    /\ \A f \in OpenFiles : /\ file'[f].ref = Held(f)' + Listed(f)'
                            /\ (file'[f].ref > 0) = (file'[f].node # None)
    /\ \A n \in Inodes : opens'[n] = Cardinality(OpenOn(n)')
BY Sizes DEF T!Referenced, Held, Listed, OpenOn

(* The finite sets that are counted.                                       *)
LEMMA Countable ==
  /\ \A f : IsFiniteSet(T!Holders(f)) /\ Held(f) \in Nat
  /\ \A f : IsFiniteSet(T!Entries(f)) /\ Listed(f) \in Nat
  /\ \A n : IsFiniteSet(OpenOn(n)) /\ Cardinality(OpenOn(n)) \in Nat
<1>1. ASSUME NEW f PROVE IsFiniteSet(T!Holders(f)) /\ Held(f) \in Nat
  BY FS_Subset, FS_CardinalityType, TableAssumption DEF T!Holders, Held
<1>2. ASSUME NEW f PROVE IsFiniteSet(T!Entries(f)) /\ Listed(f) \in Nat
  <2>1. IsFiniteSet(1 .. MaxHandles)  BY FS_Interval, TableAssumption
  <2>2. IsFiniteSet(Processes \X (1 .. MaxHandles))  BY <2>1, FS_Product, TableAssumption
  <2>3. T!Entries(f) \in SUBSET (Processes \X (1 .. MaxHandles))  BY DEF T!Entries
  <2> QED BY <2>2, <2>3, FS_Subset, FS_CardinalityType DEF Listed
<1>3. ASSUME NEW n PROVE IsFiniteSet(OpenOn(n)) /\ Cardinality(OpenOn(n)) \in Nat
  BY FS_Subset, FS_CardinalityType, TableAssumption DEF OpenOn
<1> QED BY <1>1, <1>2, <1>3

LEMMA OneElement ==
  ASSUME NEW S, IsFiniteSet(S), NEW x
  PROVE  /\ Cardinality(S) \in Nat /\ IsFiniteSet(S \cup {x}) /\ IsFiniteSet(S \ {x})
         /\ x \notin S => S \ {x} = S /\ Cardinality(S \cup {x}) = Cardinality(S) + 1
         /\ x \in S => S \cup {x} = S /\ Cardinality(S \ {x}) = Cardinality(S) - 1
<1>1. IsFiniteSet(S \cup {x}) /\ Cardinality(S \cup {x}) = IF x \in S THEN Cardinality(S) ELSE Cardinality(S) + 1
  BY FS_AddElement
<1>2. IsFiniteSet(S \ {x}) /\ Cardinality(S \ {x}) = IF x \in S THEN Cardinality(S) - 1 ELSE Cardinality(S)
  BY FS_RemoveElement
<1>3. Cardinality(S) \in Nat  BY FS_CardinalityType
<1>4. (x \notin S => S \ {x} = S) /\ (x \in S => S \cup {x} = S)  OBVIOUS
<1> QED BY <1>1, <1>2, <1>3, <1>4

LEMMA TwoSets ==
  ASSUME NEW S, NEW Z, IsFiniteSet(S), IsFiniteSet(Z), S \cap Z = {}
  PROVE  IsFiniteSet(S \cup Z) /\ Cardinality(S \cup Z) = Cardinality(S) + Cardinality(Z)
<1>1. /\ IsFiniteSet(S \cup Z)
      /\ Cardinality(S \cup Z) = Cardinality(S) + Cardinality(Z) - Cardinality(S \cap Z)
  BY FS_Union
<1>2. Cardinality(S \cap Z) = 0  BY FS_EmptySet
<1>3. Cardinality(S) \in Nat /\ Cardinality(Z) \in Nat  BY FS_CardinalityType
<1> QED BY <1>1, <1>2, <1>3

(* A thread's row changes: who holds a file.                               *)
LEMMA HoldersMove ==
  ASSUME NEW t \in Callers, NEW row, thr'[t] = row, \A s \in Callers : s # t => thr'[s] = thr[s], NEW f
  PROVE  Held(f)' = Held(f) - If(thr[t].h.file = f) + If(row.h.file = f)
<1>f. IsFiniteSet(T!Holders(f)) /\ Held(f) \in Nat  BY Countable
<1>1. T!Holders(f)' = IF row.h.file = f THEN T!Holders(f) \cup {t} ELSE T!Holders(f) \ {t}
  BY DEF T!Holders
<1>2. t \in T!Holders(f) <=> thr[t].h.file = f  BY DEF T!Holders
<1>3. Held(f)' = Cardinality(T!Holders(f)')  BY DEF Held
<1>4. Held(f)' = IF row.h.file = f THEN Cardinality(T!Holders(f) \cup {t}) ELSE Cardinality(T!Holders(f) \ {t})
  BY <1>1, <1>3
<1>5. Held(f) = Cardinality(T!Holders(f))  BY DEF Held
<1>6. /\ t \notin T!Holders(f) => /\ Cardinality(T!Holders(f) \ {t}) = Held(f)
                                   /\ Cardinality(T!Holders(f) \cup {t}) = Held(f) + 1
      /\ t \in T!Holders(f) => /\ Cardinality(T!Holders(f) \cup {t}) = Held(f)
                                /\ Cardinality(T!Holders(f) \ {t}) = Held(f) - 1
  <2> DEFINE S == T!Holders(f)
  <2>1. /\ t \notin S => S \ {t} = S /\ Cardinality(S \cup {t}) = Cardinality(S) + 1
        /\ t \in S => S \cup {t} = S /\ Cardinality(S \ {t}) = Cardinality(S) - 1
    <3> HIDE DEF S
    <3> QED BY <1>f, OneElement DEF S
  <2> QED BY <2>1, <1>5
<1> QED BY <1>f, <1>2, <1>4, <1>6 DEF If

(* A table changes: which entries refer to a file.                         *)
LEMMA EntriesMove ==
  ASSUME TableTypeOK, NEW p \in Processes, NEW tab \in Seq(HandleType), Len(tab) <= MaxHandles,
         table' = [table EXCEPT ![p] = tab], NEW f
  PROVE  Listed(f)' = Listed(f) - T!Count(table[p], f) + T!Count(tab, f)
         /\ T!Count(table[p], f) \in Nat /\ T!Count(tab, f) \in Nat
<1>0. /\ table'[p] = tab /\ \A q \in Processes : q # p => table'[q] = table[q]
      /\ table[p] \in Seq(HandleType) /\ Len(table[p]) <= MaxHandles /\ MaxHandles \in Nat
  BY TableAssumption DEF TableTypeOK
<1> DEFINE In(tb) == {i \in DOMAIN tb : tb[i].file = f}
           Of(tb) == {p} \X In(tb)
           rest == {e \in T!Entries(f) : e[1] # p}
<1>1. ASSUME NEW tb \in Seq(HandleType), Len(tb) <= MaxHandles
      PROVE  /\ IsFiniteSet(Of(tb)) /\ Cardinality(Of(tb)) = T!Count(tb, f) /\ T!Count(tb, f) \in Nat
             /\ Of(tb) = {e \in {p} \X (1 .. MaxHandles) : e[2] \in DOMAIN tb /\ tb[e[2]].file = f}
  <2>1. DOMAIN tb = 1 .. Len(tb) /\ Len(tb) \in Nat  BY <1>1
  <2>2. IsFiniteSet(In(tb)) /\ Cardinality(In(tb)) \in Nat
    <3>1. IsFiniteSet(DOMAIN tb)  BY <2>1, FS_Interval
    <3> QED BY <3>1, FS_Subset, FS_CardinalityType
  <2>3. IsFiniteSet({p}) /\ Cardinality({p}) = 1  BY FS_Singleton
  <2>4. IsFiniteSet(Of(tb)) /\ Cardinality(Of(tb)) = 1 * Cardinality(In(tb))  BY <2>2, <2>3, FS_Product
  <2>5. T!Count(tb, f) = Cardinality(In(tb))  BY Sizes DEF T!Count
  <2>6. Of(tb) = {e \in {p} \X (1 .. MaxHandles) : e[2] \in DOMAIN tb /\ tb[e[2]].file = f}
    BY <1>1, <2>1, <1>0
  <2> QED BY <2>2, <2>4, <2>5, <2>6
<1>2. IsFiniteSet(T!Entries(f)) /\ Listed(f) \in Nat  BY Countable
<1>3. IsFiniteSet(rest) /\ Cardinality(rest) \in Nat  BY <1>2, FS_Subset, FS_CardinalityType
<1>4. T!Entries(f) = rest \cup Of(table[p]) /\ T!Entries(f)' = rest \cup Of(tab)
  <2>1. T!Entries(f) = rest \cup Of(table[p])  BY <1>0, <1>1 DEF T!Entries
  <2>2. T!Entries(f)' = rest \cup Of(tab)  BY <1>0, <1>1 DEF T!Entries
  <2> QED BY <2>1, <2>2
<1>5. rest \cap Of(table[p]) = {} /\ rest \cap Of(tab) = {}  OBVIOUS
<1>6. /\ Cardinality(rest \cup Of(table[p])) = Cardinality(rest) + T!Count(table[p], f)
      /\ Cardinality(rest \cup Of(tab)) = Cardinality(rest) + T!Count(tab, f)
  <2> HIDE DEF Of, rest
  <2>1. /\ IsFiniteSet(Of(table[p])) /\ Cardinality(Of(table[p])) = T!Count(table[p], f)
        /\ IsFiniteSet(Of(tab)) /\ Cardinality(Of(tab)) = T!Count(tab, f)
    BY <1>0, <1>1
  <2>2. Cardinality(rest \cup Of(table[p])) = Cardinality(rest) + Cardinality(Of(table[p]))
    BY <2>1, <1>3, <1>5, TwoSets
  <2>3. Cardinality(rest \cup Of(tab)) = Cardinality(rest) + Cardinality(Of(tab))
    BY <2>1, <1>3, <1>5, TwoSets
  <2> QED BY <2>1, <2>2, <2>3
<1>7. T!Count(table[p], f) \in Nat /\ T!Count(tab, f) \in Nat  BY <1>0, <1>1
<1>8. Listed(f) = Cardinality(T!Entries(f)) /\ Listed(f)' = Cardinality(T!Entries(f)')  BY DEF Listed
<1> HIDE DEF Of, rest
<1> QED BY <1>3, <1>4, <1>6, <1>7, <1>8

(* One entry of a table changes.                                           *)
LEMMA CountPut ==
  ASSUME NEW tab \in Seq(HandleType), NEW i \in DOMAIN tab, NEW h \in HandleType, NEW f
  PROVE  T!Count([tab EXCEPT ![i] = h], f) = T!Count(tab, f) - If(tab[i].file = f) + If(h.file = f)
<1> DEFINE s == {j \in DOMAIN tab : tab[j].file = f}
           n == [tab EXCEPT ![i] = h]
           z == {j \in DOMAIN n : n[j].file = f}
<1>1. DOMAIN n = DOMAIN tab /\ n[i] = h /\ (\A j \in DOMAIN tab : j # i => n[j] = tab[j]) /\ DOMAIN tab = 1 .. Len(tab)
  OBVIOUS
<1>2. z = IF h.file = f THEN s \cup {i} ELSE s \ {i}  BY <1>1
<1>3. IsFiniteSet(s) /\ Cardinality(s) \in Nat
  <2>1. IsFiniteSet(DOMAIN tab)  BY <1>1, FS_Interval
  <2> QED BY <2>1, FS_Subset, FS_CardinalityType
<1>4. i \in s <=> tab[i].file = f  OBVIOUS
<1>5. T!Count(tab, f) = Cardinality(s) /\ T!Count(n, f) = Cardinality(z)  BY Sizes DEF T!Count
<1> HIDE DEF s, z, n
<1>6. Cardinality(z) = Cardinality(s) - If(tab[i].file = f) + If(h.file = f)
  <2>1. /\ i \notin s => s \ {i} = s /\ Cardinality(s \cup {i}) = Cardinality(s) + 1
        /\ i \in s => s \cup {i} = s /\ Cardinality(s \ {i}) = Cardinality(s) - 1
    BY <1>3, OneElement
  <2>2. CASE h.file = f
    <3>1. Cardinality(z) = IF i \in s THEN Cardinality(s) ELSE Cardinality(s) + 1  BY <1>2, <2>1, <2>2
    <3> QED BY <1>3, <1>4, <2>2, <3>1 DEF If
  <2>3. CASE h.file # f
    <3>1. Cardinality(z) = IF i \in s THEN Cardinality(s) - 1 ELSE Cardinality(s)  BY <1>2, <2>1, <2>3
    <3> QED BY <1>3, <1>4, <2>3, <3>1 DEF If
  <2> QED BY <2>2, <2>3
<1> QED BY <1>5, <1>6 DEF n

LEMMA CountAppend ==
  ASSUME NEW tab \in Seq(HandleType), NEW h \in HandleType, NEW f
  PROVE  T!Count(Append(tab, h), f) = T!Count(tab, f) + If(h.file = f)
<1> DEFINE s == {j \in DOMAIN tab : tab[j].file = f}
           n == Append(tab, h)
           z == {j \in DOMAIN n : n[j].file = f}
           l == Len(tab) + 1
<1>1. /\ DOMAIN n = DOMAIN tab \cup {l} /\ n[l] = h /\ (\A j \in DOMAIN tab : n[j] = tab[j])
      /\ DOMAIN tab = 1 .. Len(tab) /\ l \notin DOMAIN tab /\ Len(tab) \in Nat
  OBVIOUS
<1>2. z = (IF h.file = f THEN s \cup {l} ELSE s) /\ l \notin s  BY <1>1
<1>3. IsFiniteSet(s) /\ Cardinality(s) \in Nat
  <2>1. IsFiniteSet(DOMAIN tab)  BY <1>1, FS_Interval
  <2> QED BY <2>1, FS_Subset, FS_CardinalityType
<1>5. T!Count(tab, f) = Cardinality(s) /\ T!Count(n, f) = Cardinality(z)  BY Sizes DEF T!Count
<1> HIDE DEF s, z, n, l
<1>6. Cardinality(z) = Cardinality(s) + If(h.file = f)
  BY <1>2, <1>3, OneElement DEF If
<1> QED BY <1>5, <1>6 DEF n

LEMMA CountIsNat ==
  ASSUME NEW tab \in Seq(HandleType), NEW f
  PROVE  T!Count(tab, f) \in Nat /\ (T!Count(tab, f) > 0 => \E i \in DOMAIN tab : tab[i].file = f)
<1> DEFINE s == {j \in DOMAIN tab : tab[j].file = f}
<1>1. IsFiniteSet(DOMAIN tab)
  <2>1. DOMAIN tab = 1 .. Len(tab) /\ Len(tab) \in Nat  OBVIOUS
  <2> QED BY <2>1, FS_Interval
<1>2. IsFiniteSet(s) /\ Cardinality(s) \in Nat  BY <1>1, FS_Subset, FS_CardinalityType
<1>3. T!Count(tab, f) = Cardinality(s)  BY Sizes DEF T!Count
<1>4. s = {} => Cardinality(s) = 0  BY FS_EmptySet
<1>5. s # {} => \E i \in DOMAIN tab : tab[i].file = f  OBVIOUS
<1> HIDE DEF s
<1> QED BY <1>2, <1>3, <1>4, <1>5

(* The least of some numbers.                                              *)
LEMMA LeastOf ==
  ASSUME NEW S, S \subseteq Nat, S # {}
  PROVE  \E i \in S : \A j \in S : i <= j
<1> DEFINE R == {ss \in Nat \X Nat : ss[1] < ss[2]}
<1>1. IsWellFoundedOn(R, Nat)  BY NatLessThanWellFounded DEF OpToRel
<1>2. \E x \in S : \A y \in S : ~ (<<y, x>> \in R)  BY <1>1, WFMin
<1>3. \A x, y \in Nat : y < x => <<y, x>> \in R  OBVIOUS
<1> HIDE DEF R
<1>4. \A x, y \in S : <<y, x>> \notin R => x <= y  BY <1>3
<1> QED BY <1>2, <1>4
-----------------------------------------------------------------------------
(* Types, and what a call may rely on.                                     *)
LEMMA TableBasics ==
  ASSUME TableTypeOK
  PROVE  /\ T!Idle \in CallType /\ T!Null \in HandleType /\ T!Free \in OpenFileType
         /\ T!Idle.op = "none" /\ T!Idle.h = T!Null /\ T!Null.file = None
         /\ T!Free.ref = 0 /\ T!Free.node = None /\ T!Free.pos = 0 /\ ~T!Free.moved
         /\ \A t \in Callers : Own[t] \in Processes /\ thr[t] \in CallType /\ table[Own[t]] \in Seq(HandleType)
         /\ \A p \in Processes : table[p] \in Seq(HandleType)
         /\ \A f \in OpenFiles : file[f] \in OpenFileType
<1>1. /\ T!Null \in HandleType /\ T!Null.file = None  BY DEF T!Null, HandleType
<1>2. /\ T!Idle \in CallType /\ T!Idle.op = "none" /\ T!Idle.h = T!Null
  <2> HIDE DEF T!Null
  <2> QED BY <1>1 DEF T!Idle, CallType, CallOps
<1>3. T!Free \in OpenFileType /\ T!Free.ref = 0 /\ T!Free.node = None /\ T!Free.pos = 0 /\ ~T!Free.moved
  BY DEF T!Free, OpenFileType
<1>4. /\ \A t \in Callers : Own[t] \in Processes /\ thr[t] \in CallType /\ table[Own[t]] \in Seq(HandleType)
      /\ \A p \in Processes : table[p] \in Seq(HandleType)
      /\ \A f \in OpenFiles : file[f] \in OpenFileType
  BY TableAssumption DEF TableTypeOK
<1> QED BY <1>1, <1>2, <1>3, <1>4

LEMMA ReferenceTypes ==
  ASSUME TableTypeOK, NEW fl \in [OpenFiles -> OpenFileType], NEW change \in [OpenFiles -> Int], T!Reference(fl, change)
  PROVE  /\ file' \in [OpenFiles -> OpenFileType] /\ opens' \in [Inodes -> Int]
         /\ taken' \in [OpenFiles -> SUBSET Int]
<1> DEFINE gone == {f \in OpenFiles : fl[f].ref > 0 /\ fl[f].ref + change[f] = 0}
<1>1. /\ file' = [f \in OpenFiles |-> IF f \in gone THEN T!Free ELSE [fl[f] EXCEPT !.ref = @ + change[f]]]
      /\ opens' = [n \in Inodes |-> opens[n] - T!Cardinality({f \in gone : fl[f].node = n})]
      /\ taken' = [f \in OpenFiles |-> IF f \in gone THEN {} ELSE taken[f]]
  BY DEF T!Reference
<1>2. \A S \in SUBSET OpenFiles : T!Cardinality(S) \in Nat
  BY Sizes, FS_Subset, FS_CardinalityType, TableAssumption
<1>3. \A f \in OpenFiles : [fl[f] EXCEPT !.ref = @ + change[f]] \in OpenFileType  BY DEF OpenFileType
<1>4. gone \in SUBSET OpenFiles  OBVIOUS
<1> HIDE DEF gone
<1>5. \A n \in Inodes : opens[n] - T!Cardinality({f \in gone : fl[f].node = n}) \in Int
  <2> TAKE n \in Inodes
  <2>1. {f \in gone : fl[f].node = n} \in SUBSET OpenFiles  BY <1>4
  <2>2. opens[n] \in Int  BY DEF TableTypeOK
  <2> QED BY <1>2, <2>1, <2>2
<1> QED BY <1>1, <1>3, <1>5, TableBasics DEF TableTypeOK

LEMMA PlacedKept ==
  ASSUME TableTypeOK, TableTypeOK', Placed, NEW t \in Callers,
         \A s \in Callers \ {t} : thr'[s] = thr[s],
         \A s \in Callers : thr[s] = T!Idle \/ DOMAIN table[Own[s]] \subseteq DOMAIN table'[Own[s]],
         thr'[t].op = "none" => thr'[t] = T!Idle,
         thr'[t].op # "none" => thr'[t].h.file # None,
         thr'[t].op \in {"dup", "cloexec"} => thr'[t].fd \in DOMAIN table'[Own[t]],
         thr'[t].op \in {"destroy", "replace"} => thr'[t].at \in DOMAIN table'[Own[t]]
  PROVE  Placed'
<1>1. ASSUME NEW s \in Callers \ {t}
      PROVE  /\ thr'[s].op = "none" => thr'[s] = T!Idle
             /\ thr'[s].op # "none" => thr'[s].h.file # None
             /\ thr'[s].op \in {"dup", "cloexec"} => thr'[s].fd \in DOMAIN table'[Own[s]]
             /\ thr'[s].op \in {"destroy", "replace"} => thr'[s].at \in DOMAIN table'[Own[s]]
  BY <1>1, TableBasics DEF Placed
<1> QED BY <1>1 DEF Placed

(* A handle is put into an entry that there is.                            *)
LEMMA PutTypes ==
  ASSUME TableTypeOK, NEW t \in Callers, NEW i \in DOMAIN table[Own[t]], NEW h \in HandleType, T!Put(t, i, h)
  PROVE  /\ table' = [table EXCEPT ![Own[t]] = [table[Own[t]] EXCEPT ![i] = h]]
         /\ [table[Own[t]] EXCEPT ![i] = h] \in Seq(HandleType)
         /\ Len([table[Own[t]] EXCEPT ![i] = h]) <= MaxHandles
         /\ table' \in [Processes -> Seq(HandleType)] /\ \A p \in Processes : Len(table'[p]) <= MaxHandles
         /\ \A p \in Processes : DOMAIN table'[p] = DOMAIN table[p]
<1> DEFINE tab == table[Own[t]]
           new == [tab EXCEPT ![i] = h]
<1>1. tab \in Seq(HandleType) /\ Len(tab) <= MaxHandles /\ Own[t] \in Processes
  BY TableBasics DEF TableTypeOK
<1>2. new \in Seq(HandleType) /\ Len(new) = Len(tab) /\ DOMAIN new = DOMAIN tab  BY <1>1
<1>3. table' = [table EXCEPT ![Own[t]] = new]  BY DEF T!Put
<1> HIDE DEF new
<1>4. /\ table' \in [Processes -> Seq(HandleType)] /\ \A p \in Processes : Len(table'[p]) <= MaxHandles
      /\ \A p \in Processes : DOMAIN table'[p] = DOMAIN table[p]
  BY <1>1, <1>2, <1>3 DEF TableTypeOK
<1> QED BY <1>1, <1>2, <1>3, <1>4 DEF new
(* The steps that one thread takes with a handle in its hand.              *)
LEMMA CallMoves ==
  ASSUME TableTypeOK, NEW t \in Callers, NEW row \in CallType, thr' = [thr EXCEPT ![t] = row]
  PROVE  /\ thr' \in [Callers -> CallType] /\ thr'[t] = row
         /\ \A s \in Callers \ {t} : thr'[s] = thr[s]
BY DEF TableTypeOK

LEMMA OneType ==
  ASSUME NEW f
  PROVE  /\ T!One(f, 1) \in [OpenFiles -> Int] /\ T!One(f, -1) \in [OpenFiles -> Int]
         /\ \A g \in OpenFiles : T!One(f, 1)[g] = If(f = g) /\ T!One(f, -1)[g] = -If(f = g)
BY DEF T!One, If

LEMMA GetHandleDoes ==
  ASSUME TableTypeOK, Placed, NEW t \in Callers, NEW op \in {"transfer", "use", "dup", "cloexec"},
         NEW fd \in 1 .. MaxHandles, T!GetHandle(t, op, fd)
  PROVE  /\ TableTypeOK' /\ Placed' /\ table' = table /\ T!Reference(file, T!One(thr'[t].h.file, 1))
         /\ thr[t] = T!Idle /\ thr' = [thr EXCEPT ![t] = thr'[t]] /\ thr'[t].op # "node"
         /\ fd \in DOMAIN table[Own[t]] /\ table[Own[t]][fd].file = thr'[t].h.file
<1> DEFINE row == [op |-> op, fd |-> fd, h |-> table[Own[t]][fd], at |-> 0]
<1>1. /\ thr[t].op = "none" /\ fd \in DOMAIN table[Own[t]] /\ table[Own[t]][fd].file # None
      /\ thr' = [thr EXCEPT ![t] = row] /\ T!Reference(file, T!One(table[Own[t]][fd].file, 1))
      /\ table' = table
  BY DEF T!GetHandle, T!Calls, T!Entry
<1>2. table[Own[t]][fd] \in HandleType  BY <1>1, TableBasics
<1>3. row \in CallType  BY <1>2 DEF CallType, CallOps
<1>4. row.op = op /\ row.h = table[Own[t]][fd] /\ row.fd = fd  OBVIOUS
<1> HIDE DEF row
<1>5. thr' \in [Callers -> CallType] /\ thr'[t] = row /\ \A s \in Callers \ {t} : thr'[s] = thr[s]
  BY <1>1, <1>3, CallMoves
<1>6. /\ file' \in [OpenFiles -> OpenFileType] /\ opens' \in [Inodes -> Int]
      /\ taken' \in [OpenFiles -> SUBSET Int]
  <2>1. T!One(table[Own[t]][fd].file, 1) \in [OpenFiles -> Int]  BY OneType
  <2>2. file \in [OpenFiles -> OpenFileType]  BY DEF TableTypeOK
  <2> QED BY <1>1, <2>1, <2>2, ReferenceTypes
<1>7. TableTypeOK'  BY <1>1, <1>5, <1>6 DEF TableTypeOK
<1>8. Placed'  BY <1>1, <1>4, <1>5, <1>7, PlacedKept
<1>9. thr[t] = T!Idle  BY <1>1 DEF Placed
<1> QED BY <1>1, <1>4, <1>5, <1>7, <1>8, <1>9

(* A call that ends gives its reference back.                              *)
LEMMA ReturnsDoes ==
  ASSUME TableTypeOK, NEW t \in Callers, T!Returns(t)
  PROVE  /\ thr' = [thr EXCEPT ![t] = T!Idle] /\ thr' \in [Callers -> CallType] /\ thr'[t] = T!Idle
         /\ \A s \in Callers \ {t} : thr'[s] = thr[s]
<1>1. T!Idle \in CallType /\ thr' = [thr EXCEPT ![t] = T!Idle]  BY TableBasics DEF T!Returns
<1> QED BY <1>1, CallMoves

LEMMA CallEnds ==
  ASSUME TableTypeOK, Placed, NEW t \in Callers, T!Returns(t), table' = table,
         file' \in [OpenFiles -> OpenFileType], opens' \in [Inodes -> Int], taken' \in [OpenFiles -> SUBSET Int]
  PROVE  TableTypeOK' /\ Placed'
<1>1. TableTypeOK'  BY ReturnsDoes DEF TableTypeOK
<1>2. thr'[t] = T!Idle /\ thr'[t].op = "none" /\ \A s \in Callers \ {t} : thr'[s] = thr[s]
  BY ReturnsDoes, TableBasics
<1>3. Placed'  BY <1>1, <1>2, PlacedKept
<1> QED BY <1>1, <1>3

LEMMA UseNodeDoes ==
  ASSUME TableTypeOK, Placed, NEW t \in Callers, T!UseNode(t)
  PROVE  /\ TableTypeOK' /\ Placed' /\ table' = table /\ T!Reference(file, T!One(thr[t].h.file, -1))
         /\ thr' = [thr EXCEPT ![t] = T!Idle] /\ thr[t].h.file # None
<1>1. thr[t].op = "use" /\ T!Reference(file, T!One(thr[t].h.file, -1)) /\ T!Returns(t) /\ table' = table
  BY DEF T!UseNode, T!Calls
<1>2. file \in [OpenFiles -> OpenFileType]  BY DEF TableTypeOK
<1>3. TableTypeOK' /\ Placed'  BY <1>1, <1>2, OneType, ReferenceTypes, CallEnds, SMTT(60)
<1> QED BY <1>1, <1>3, ReturnsDoes DEF Placed

LEMMA SeekDoes ==
  ASSUME TableTypeOK, Placed, NEW t \in Callers, NEW to \in 0 .. MaxPos, T!Seek(t, to)
  PROVE  /\ TableTypeOK' /\ Placed' /\ table' = table /\ thr[t].h.file \in OpenFiles
         /\ thr' = [thr EXCEPT ![t] = T!Idle]
         /\ \E fl \in [OpenFiles -> OpenFileType] :
              /\ T!Reference(fl, T!One(thr[t].h.file, -1))
              /\ \A f \in OpenFiles :
                   /\ f # thr[t].h.file => fl[f] = file[f]
                   /\ f = thr[t].h.file => fl[f] = [file[f] EXCEPT !.pos = to, !.moved = TRUE]
<1> DEFINE f == thr[t].h.file
           fl == [file EXCEPT ![f].pos = to, ![f].moved = TRUE]
<1>1. thr[t].op = "use" /\ T!Reference(fl, T!One(f, -1)) /\ T!Returns(t) /\ table' = table
  BY DEF T!Seek, T!Calls
<1>2. f \in OpenFiles  BY <1>1, TableBasics, ZenonT(60) DEF Placed, CallType, HandleType
<1>3. /\ fl \in [OpenFiles -> OpenFileType]
      /\ \A g \in OpenFiles : /\ g # f => fl[g] = file[g]
                              /\ g = f => fl[g] = [file[g] EXCEPT !.pos = to, !.moved = TRUE]
  <2>1. file \in [OpenFiles -> OpenFileType] /\ to \in Nat  BY TableAssumption DEF TableTypeOK
  <2>2. [file[f] EXCEPT !.pos = to, !.moved = TRUE] \in OpenFileType  BY <1>2, <2>1 DEF OpenFileType
  <2>3. fl = [file EXCEPT ![f] = [file[f] EXCEPT !.pos = to, !.moved = TRUE]]  BY <1>2, <2>1
  <2> QED BY <1>2, <2>1, <2>2, <2>3
<1> HIDE DEF fl, f
<1>4. TableTypeOK' /\ Placed'  BY <1>1, <1>3, OneType, ReferenceTypes, CallEnds
<1>5. thr' = [thr EXCEPT ![t] = T!Idle]  BY <1>1, ReturnsDoes
<1> QED BY <1>1, <1>2, <1>3, <1>4, <1>5 DEF f
LEMMA CloseDoes ==
  ASSUME TableTypeOK, Placed, NEW t \in Callers, NEW fd \in 1 .. MaxHandles, T!Close(t, fd)
  PROVE  /\ TableTypeOK' /\ Placed' /\ thr' = thr /\ fd \in DOMAIN table[Own[t]]
         /\ T!Put(t, fd, T!Null) /\ T!Reference(file, T!One(table[Own[t]][fd].file, -1))
<1>1. /\ fd \in DOMAIN table[Own[t]] /\ T!Put(t, fd, T!Null)
      /\ T!Reference(file, T!One(table[Own[t]][fd].file, -1)) /\ thr' = thr
  BY DEF T!Close, T!Entry
<1>2. file \in [OpenFiles -> OpenFileType] /\ T!Null \in HandleType  BY TableBasics DEF TableTypeOK
<1>3. /\ table' \in [Processes -> Seq(HandleType)] /\ \A p \in Processes : Len(table'[p]) <= MaxHandles
      /\ \A p \in Processes : DOMAIN table'[p] = DOMAIN table[p]
  BY <1>1, <1>2, PutTypes
<1>r. /\ file' \in [OpenFiles -> OpenFileType] /\ opens' \in [Inodes -> Int]
      /\ taken' \in [OpenFiles -> SUBSET Int]
  BY <1>1, <1>2, OneType, ReferenceTypes
<1>4. TableTypeOK'  BY <1>1, <1>3, <1>r DEF TableTypeOK
<1>5. Placed'  BY <1>1, <1>3, TableBasics DEF Placed
<1> QED BY <1>1, <1>4, <1>5

(* The next place of a call that has its handle.                           *)
LEMMA DupDestroyDoes ==
  ASSUME TableTypeOK, Placed, NEW t \in Callers, T!DupDestroy(t)
  PROVE  /\ TableTypeOK' /\ Placed' /\ thr[t].at \in DOMAIN table[Own[t]]
         /\ T!Put(t, thr[t].at, T!Null) /\ T!Reference(file, T!One(table[Own[t]][thr[t].at].file, -1))
         /\ thr' = [thr EXCEPT ![t] = thr'[t]] /\ thr'[t].h = thr[t].h /\ thr'[t].op # "node"
<1> DEFINE row == [thr[t] EXCEPT !.op = "replace"]
<1>1. /\ thr[t].op = "destroy" /\ T!Put(t, thr[t].at, T!Null)
      /\ T!Reference(file, T!One(table[Own[t]][thr[t].at].file, -1)) /\ T!Goes(t, "replace")
  BY DEF T!DupDestroy, T!Calls, T!Entry
<1>2. /\ file \in [OpenFiles -> OpenFileType] /\ T!Null \in HandleType /\ thr[t] \in CallType
      /\ thr \in [Callers -> CallType]
  BY TableBasics DEF TableTypeOK
<1>3. /\ row \in CallType /\ row.op = "replace" /\ row.at = thr[t].at /\ row.h = thr[t].h
  BY <1>2 DEF CallType, CallOps
<1>4. thr' = [thr EXCEPT ![t] = row]  BY <1>1, <1>2 DEF T!Goes
<1>5. thr[t].at \in DOMAIN table[Own[t]] /\ thr[t].h.file # None  BY <1>1 DEF Placed
<1>6. /\ table' \in [Processes -> Seq(HandleType)] /\ \A p \in Processes : Len(table'[p]) <= MaxHandles
      /\ \A p \in Processes : DOMAIN table'[p] = DOMAIN table[p]
  BY <1>1, <1>2, <1>5, PutTypes
<1> HIDE DEF row
<1>7. thr' \in [Callers -> CallType] /\ thr'[t] = row /\ \A s \in Callers \ {t} : thr'[s] = thr[s]
  BY <1>3, <1>4, CallMoves
<1>r. /\ file' \in [OpenFiles -> OpenFileType] /\ opens' \in [Inodes -> Int]
      /\ taken' \in [OpenFiles -> SUBSET Int]
  BY <1>1, <1>2, OneType, ReferenceTypes
<1>8. TableTypeOK'  BY <1>6, <1>7, <1>r DEF TableTypeOK
<1>9. Placed'  BY <1>3, <1>5, <1>6, <1>7, <1>8, PlacedKept, TableBasics
<1> QED BY <1>1, <1>3, <1>4, <1>5, <1>7, <1>8, <1>9

LEMMA DupReplaceDoes ==
  ASSUME TableTypeOK, Placed, NEW t \in Callers, T!DupReplace(t)
  PROVE  /\ TableTypeOK' /\ Placed' /\ thr[t].at \in DOMAIN table[Own[t]]
         /\ T!Put(t, thr[t].at, thr[t].h) /\ T!Reference(file, T!One(table[Own[t]][thr[t].at].file, -1))
         /\ thr' = [thr EXCEPT ![t] = T!Idle] /\ thr[t].h \in HandleType
<1>1. /\ thr[t].op = "replace" /\ T!Put(t, thr[t].at, thr[t].h)
      /\ T!Reference(file, T!One(table[Own[t]][thr[t].at].file, -1)) /\ T!Returns(t)
  BY DEF T!DupReplace, T!Replace, T!Calls, T!Entry
<1>2. /\ file \in [OpenFiles -> OpenFileType] /\ thr[t].h \in HandleType
  BY TableBasics DEF TableTypeOK, CallType
<1>3. thr[t].at \in DOMAIN table[Own[t]]  BY <1>1 DEF Placed
<1>4. /\ table' \in [Processes -> Seq(HandleType)] /\ \A p \in Processes : Len(table'[p]) <= MaxHandles
      /\ \A p \in Processes : DOMAIN table'[p] = DOMAIN table[p]
  BY <1>1, <1>2, <1>3, PutTypes
<1>5. /\ thr' = [thr EXCEPT ![t] = T!Idle] /\ thr' \in [Callers -> CallType] /\ thr'[t] = T!Idle
      /\ \A s \in Callers \ {t} : thr'[s] = thr[s]
  BY <1>1, ReturnsDoes
<1>r. /\ file' \in [OpenFiles -> OpenFileType] /\ opens' \in [Inodes -> Int]
      /\ taken' \in [OpenFiles -> SUBSET Int]
  BY <1>1, <1>2, OneType, ReferenceTypes
<1>6. TableTypeOK'  BY <1>4, <1>5, <1>r DEF TableTypeOK
<1>7. Placed'  BY <1>4, <1>5, <1>6, PlacedKept, TableBasics
<1> QED BY <1>1, <1>2, <1>3, <1>5, <1>6, <1>7

LEMMA DupDoes ==
  ASSUME TableTypeOK, Placed, NEW t \in Callers, NEW to \in 0 .. MaxHandles, NEW c \in BOOLEAN, T!Dup(t, to, c)
  PROVE  /\ TableTypeOK' /\ Placed' /\ UNCHANGED <<table, file, opens, taken, again>>
         /\ thr' = [thr EXCEPT ![t] = thr'[t]] /\ thr'[t].h.file = thr[t].h.file /\ thr'[t].op # "node"
<1> DEFINE h == [thr[t].h EXCEPT !.cloexec = @ \/ c]
           row == [thr[t] EXCEPT !.h = h, !.op = IF to = 0 THEN "place" ELSE "destroy", !.at = to]
<1>1. /\ thr[t].op = "dup" /\ thr' = [thr EXCEPT ![t] = row] /\ to <= Len(table[Own[t]])
      /\ UNCHANGED <<table, file, opens, taken, again>>
  BY DEF T!Dup, T!Calls
<1>2. thr[t] \in CallType /\ thr[t].h \in HandleType /\ to \in Nat
  BY TableBasics, TableAssumption DEF CallType
<1>3. h \in HandleType /\ h.file = thr[t].h.file  BY <1>2 DEF HandleType
<1> HIDE DEF h
<1>4. row \in CallType /\ row.op = (IF to = 0 THEN "place" ELSE "destroy") /\ row.at = to /\ row.h = h
  BY <1>2, <1>3 DEF CallType, CallOps
<1> HIDE DEF row
<1>5. thr' \in [Callers -> CallType] /\ thr'[t] = row /\ \A s \in Callers \ {t} : thr'[s] = thr[s]
  BY <1>1, <1>4, CallMoves
<1>6. TableTypeOK'  BY <1>1, <1>5 DEF TableTypeOK
<1>7. thr[t].h.file # None  BY <1>1 DEF Placed
<1>8. to # 0 => to \in DOMAIN table[Own[t]]
  <2>1. table[Own[t]] \in Seq(HandleType)  BY TableBasics
  <2> QED BY <1>1, <1>2, <2>1
<1>9. Placed'  BY <1>1, <1>3, <1>4, <1>5, <1>6, <1>7, <1>8, PlacedKept
<1> QED BY <1>1, <1>3, <1>4, <1>5, <1>6, <1>9

LEMMA SetCloseOnExecDoes ==
  ASSUME TableTypeOK, Placed, NEW t \in Callers, NEW c \in BOOLEAN, T!SetCloseOnExec(t, c)
  PROVE  /\ TableTypeOK' /\ Placed' /\ UNCHANGED <<table, file, opens, taken, again>>
         /\ thr' = [thr EXCEPT ![t] = thr'[t]] /\ thr'[t].h.file = thr[t].h.file /\ thr'[t].op # "node"
<1> DEFINE row == [thr[t] EXCEPT !.h.cloexec = c, !.op = "replace", !.at = thr[t].fd]
<1>1. /\ thr[t].op = "cloexec" /\ thr' = [thr EXCEPT ![t] = row] /\ UNCHANGED <<table, file, opens, taken, again>>
  BY DEF T!SetCloseOnExec, T!Calls
<1>2. thr[t] \in CallType /\ thr[t].h \in HandleType  BY TableBasics DEF CallType
<1>3. [thr[t].h EXCEPT !.cloexec = c] \in HandleType /\ [thr[t].h EXCEPT !.cloexec = c].file = thr[t].h.file
  BY <1>2 DEF HandleType
<1>4. row = [thr[t] EXCEPT !.h = [thr[t].h EXCEPT !.cloexec = c], !.op = "replace", !.at = thr[t].fd]
  BY <1>2 DEF CallType, HandleType
<1>5. /\ row \in CallType /\ row.op = "replace" /\ row.at = thr[t].fd /\ row.h = [thr[t].h EXCEPT !.cloexec = c]
  <2> HIDE DEF row
  <2> DEFINE k == [thr[t].h EXCEPT !.cloexec = c]
  <2> HIDE DEF k
  <2>1. row = [thr[t] EXCEPT !.h = k, !.op = "replace", !.at = thr[t].fd] /\ k \in HandleType  BY <1>3, <1>4 DEF k
  <2>2. row \in CallType /\ row.op = "replace" /\ row.at = thr[t].fd /\ row.h = k
    BY <1>2, <2>1 DEF CallType, CallOps
  <2> QED BY <2>2 DEF k
<1> HIDE DEF row
<1>6. thr' \in [Callers -> CallType] /\ thr'[t] = row /\ \A s \in Callers \ {t} : thr'[s] = thr[s]
  BY <1>1, <1>5, CallMoves
<1>7. TableTypeOK'  BY <1>1, <1>6 DEF TableTypeOK
<1>8. thr[t].h.file # None /\ thr[t].fd \in DOMAIN table[Own[t]]  BY <1>1 DEF Placed
<1>9. Placed'  BY <1>1, <1>3, <1>5, <1>6, <1>7, <1>8, PlacedKept
<1> QED BY <1>1, <1>3, <1>5, <1>6, <1>7, <1>9

LEMMA TransferBeginDoes ==
  ASSUME TableTypeOK, Placed, NEW t \in Callers, T!TransferBegin(t)
  PROVE  /\ TableTypeOK' /\ Placed' /\ UNCHANGED <<table, opens, taken, again>>
         /\ thr[t].h.file \in OpenFiles /\ file[thr[t].h.file].lock = None
         /\ file' = [file EXCEPT ![thr[t].h.file] = [file[thr[t].h.file] EXCEPT !.lock = t]]
         /\ thr' = [thr EXCEPT ![t] = thr'[t]] /\ thr'[t].h = thr[t].h
         /\ thr'[t].op = "node" /\ thr'[t].at = file[thr[t].h.file].pos
<1> DEFINE f == thr[t].h.file
           row == [thr[t] EXCEPT !.op = "node", !.at = file[f].pos]
           entry == [file[f] EXCEPT !.lock = t]
<1>1. /\ thr[t].op = "transfer" /\ file[f].lock = None /\ file' = [file EXCEPT ![f].lock = t]
      /\ thr' = [thr EXCEPT ![t].op = "node", ![t].at = file[f].pos] /\ UNCHANGED <<table, opens, taken, again>>
  BY DEF T!TransferBegin, T!Calls
<1>2. /\ thr[t] \in CallType /\ thr \in [Callers -> CallType] /\ file \in [OpenFiles -> OpenFileType]
  BY TableBasics DEF TableTypeOK
<1>3. f \in OpenFiles /\ thr[t].h.file # None  BY <1>1, <1>2 DEF Placed, CallType, HandleType
<1>4. file[f] \in OpenFileType /\ file[f].pos \in Nat  BY <1>2, <1>3 DEF OpenFileType
<1>5. entry \in OpenFileType  BY <1>4 DEF OpenFileType
<1>6. file' = [file EXCEPT ![f] = entry]  BY <1>1, <1>2, <1>3
<1>7. thr' = [thr EXCEPT ![t] = row]  BY <1>1, <1>2
<1>8. row \in CallType /\ row.op = "node" /\ row.at = file[f].pos /\ row.h = thr[t].h
  BY <1>2, <1>4 DEF CallType, CallOps
<1> HIDE DEF row
<1>9. thr' \in [Callers -> CallType] /\ thr'[t] = row /\ \A s \in Callers \ {t} : thr'[s] = thr[s]
  BY <1>7, <1>8, CallMoves
<1>10. file' \in [OpenFiles -> OpenFileType]
  <2> HIDE DEF entry
  <2> QED BY <1>2, <1>5, <1>6
<1>11. TableTypeOK'  BY <1>1, <1>9, <1>10 DEF TableTypeOK
<1>12. Placed'  BY <1>1, <1>3, <1>8, <1>9, <1>11, PlacedKept
<1> QED BY <1>1, <1>3, <1>6, <1>7, <1>8, <1>9, <1>11, <1>12
LEMMA OpenNodeDoes ==
  ASSUME TableTypeOK, Placed, NEW t \in Callers, NEW n \in Inodes, NEW f \in OpenFiles, T!OpenNode(t, n, f)
  PROVE  /\ TableTypeOK' /\ Placed' /\ UNCHANGED <<table, taken, again>>
         /\ thr[t] = T!Idle /\ file[f].ref = 0 /\ file[f].node = None
         /\ file'[f].ref = 1 /\ file'[f].node = n /\ ~file'[f].moved
         /\ \A g \in OpenFiles : g # f => file'[g] = file[g]
         /\ \A m \in Inodes : opens'[m] = IF m = n THEN opens[m] + 1 ELSE opens[m]
         /\ thr'[t].h.file = f /\ thr'[t].op # "node" /\ \A s \in Callers \ {t} : thr'[s] = thr[s]
<1> DEFINE row == [T!Idle EXCEPT !.op = "place", !.h.file = f]
           entry == [T!Free EXCEPT !.node = n, !.ref = 1]
<1>1. /\ thr[t].op = "none" /\ file[f].ref = 0 /\ file[f].node = None /\ file' = [file EXCEPT ![f] = entry]
      /\ opens' = [opens EXCEPT ![n] = @ + 1] /\ thr' = [thr EXCEPT ![t] = row] /\ UNCHANGED <<table, taken, again>>
  BY DEF T!OpenNode, T!Calls
<1>2. /\ \A e \in CallType, g \in HandleType : [e EXCEPT !.op = "place", !.h = g] \in CallType
      /\ \A e \in CallType, g \in HandleType : [e EXCEPT !.op = "place", !.h = g].op = "place"
      /\ \A e \in CallType, g \in HandleType : [e EXCEPT !.op = "place", !.h = g].h = g
  BY DEF CallType, CallOps
<1>a. \A g \in HandleType : [g EXCEPT !.file = f] \in HandleType /\ [g EXCEPT !.file = f].file = f
  BY DEF HandleType
<1>3. row \in CallType /\ row.op = "place" /\ row.h.file = f
  <2> DEFINE h == [T!Idle.h EXCEPT !.file = f]
  <2>1. T!Idle \in CallType /\ T!Idle.h \in HandleType  BY TableBasics DEF CallType
  <2>2. h \in HandleType /\ h.file = f  BY <2>1, <1>a
  <2> HIDE DEF h
  <2>3. row = [T!Idle EXCEPT !.op = "place", !.h = h]  BY <2>1 DEF h, CallType
  <2> HIDE DEF row
  <2> QED BY <1>2, <2>1, <2>2, <2>3
<1>b. \A e \in OpenFileType : [e EXCEPT !.node = n, !.ref = 1] \in OpenFileType
  <2>1. \A e \in OpenFileType : [e EXCEPT !.node = n] \in OpenFileType  BY DEF OpenFileType
  <2>2. \A e \in OpenFileType : [e EXCEPT !.ref = 1] \in OpenFileType  BY DEF OpenFileType
  <2>3. \A e \in OpenFileType : [e EXCEPT !.node = n, !.ref = 1] = [[e EXCEPT !.node = n] EXCEPT !.ref = 1]
    OBVIOUS
  <2> QED BY <2>1, <2>2, <2>3
<1>4. entry \in OpenFileType
  <2>1. T!Free \in OpenFileType  BY TableBasics
  <2> QED BY <1>b, <2>1
<1>5. opens' = [opens EXCEPT ![n] = opens[n] + 1] /\ opens' \in [Inodes -> Int]  BY <1>1 DEF TableTypeOK
<1> HIDE DEF row, entry
<1>6. thr' \in [Callers -> CallType] /\ thr'[t] = row /\ \A s \in Callers \ {t} : thr'[s] = thr[s]
  BY <1>1, <1>3, CallMoves
<1>7. TableTypeOK'  BY <1>1, <1>4, <1>5, <1>6 DEF TableTypeOK
<1>8. f # None  BY TableAssumption
<1>9. Placed'  BY <1>1, <1>3, <1>6, <1>7, <1>8, PlacedKept
<1>10. thr[t] = T!Idle  BY <1>1 DEF Placed
<1>11. entry.ref = 1 /\ entry.node = n /\ ~entry.moved
  <2>1. \A e \in OpenFileType : LET z == [e EXCEPT !.node = n, !.ref = 1]
                                IN  z.ref = 1 /\ z.node = n /\ z.moved = e.moved
    BY DEF OpenFileType
  <2> QED BY <2>1, TableBasics DEF entry
<1>12. /\ file'[f] = entry /\ \A g \in OpenFiles : g # f => file'[g] = file[g]
  BY <1>1 DEF TableTypeOK
<1>13. \A m \in Inodes : opens'[m] = IF m = n THEN opens[m] + 1 ELSE opens[m]  BY <1>1 DEF TableTypeOK
<1> QED BY <1>1, <1>3, <1>6, <1>7, <1>9, <1>10, <1>11, <1>12, <1>13

LEMMA AllocateHandleDoes ==
  ASSUME TableTypeOK, Placed, NEW t \in Callers, T!AllocateHandle(t)
  PROVE  /\ TableTypeOK' /\ Placed' /\ UNCHANGED <<file, opens, taken, again>>
         /\ thr' = [thr EXCEPT ![t] = T!Idle]
         /\ \E tab \in Seq(HandleType) :
              /\ Len(tab) <= MaxHandles /\ table' = [table EXCEPT ![Own[t]] = tab]
              /\ \A f \in OpenFiles :
                   T!Count(tab, f) = T!Count(table[Own[t]], f) + If(thr[t].h.file = f)
<1> DEFINE tab == table[Own[t]]
           h == thr[t].h
           free == {i \in DOMAIN tab : tab[i].file = None}
           to == IF free = {} THEN Len(tab) + 1 ELSE CHOOSE i \in free : \A j \in free : i <= j
           new == IF free = {} THEN Append(tab, h) ELSE [tab EXCEPT ![to] = h]
<1>1. /\ thr[t].op = "place" /\ to <= MaxHandles /\ table' = [table EXCEPT ![Own[t]] = new]
      /\ T!Returns(t) /\ UNCHANGED <<file, opens, taken, again>>
  BY DEF T!AllocateHandle, T!Calls
<1>2. /\ tab \in Seq(HandleType) /\ Len(tab) <= MaxHandles /\ h \in HandleType /\ Own[t] \in Processes
      /\ MaxHandles \in Nat
  BY TableBasics, TableAssumption DEF TableTypeOK, CallType
<1>3. free # {} => to \in free
  <2>1. free \subseteq Nat /\ DOMAIN tab = 1 .. Len(tab)  BY <1>2
  <2>2. ASSUME free # {} PROVE \E i \in free : \A j \in free : i <= j
    BY <2>1, <2>2, LeastOf
  <2> QED BY <2>2
<1>4. /\ new \in Seq(HandleType) /\ Len(new) <= MaxHandles /\ DOMAIN tab \subseteq DOMAIN new
      /\ \A f \in OpenFiles : T!Count(new, f) = T!Count(tab, f) + If(h.file = f)
  <2>1. CASE free = {}
    <3>1. new = Append(tab, h) /\ Len(tab) + 1 <= MaxHandles  BY <1>1, <2>1, ZenonT(60)
    <3> HIDE DEF new, tab, h, free, to
    <3> QED BY <1>2, <3>1, CountAppend
  <2>2. CASE free # {}
    <3>1. new = [tab EXCEPT ![to] = h] /\ to \in DOMAIN tab /\ tab[to].file = None  BY <1>3, <2>2
    <3>2. new \in Seq(HandleType) /\ Len(new) = Len(tab) /\ DOMAIN new = DOMAIN tab
      <4> HIDE DEF new, to, tab, h, free
      <4> QED BY <1>2, <3>1
    <3>3. ASSUME NEW f \in OpenFiles PROVE T!Count(new, f) = T!Count(tab, f) + If(h.file = f)
      <4>1. T!Count(new, f) = T!Count(tab, f) - If(tab[to].file = f) + If(h.file = f)
        <5>1. \A i \in DOMAIN tab : T!Count([tab EXCEPT ![i] = h], f) = T!Count(tab, f) - If(tab[i].file = f) + If(h.file = f)
          BY <1>2, CountPut, SMTT(60)
        <5> HIDE DEF new, to, tab, h, free
        <5> QED BY <3>1, <5>1
      <4>2. If(tab[to].file = f) = 0  BY <3>1, TableAssumption DEF If
      <4>3. T!Count(tab, f) \in Nat /\ If(h.file = f) \in Nat  BY <1>2, CountIsNat DEF If
      <4> HIDE DEF new, to, tab, h, free
      <4> QED BY <4>1, <4>2, <4>3
    <3> QED BY <1>2, <3>2, <3>3
  <2> QED BY <2>1, <2>2
<1> HIDE DEF new
<1>5. /\ thr' = [thr EXCEPT ![t] = T!Idle] /\ thr' \in [Callers -> CallType] /\ thr'[t] = T!Idle
      /\ \A s \in Callers \ {t} : thr'[s] = thr[s]
  BY <1>1, ReturnsDoes
<1>6. TableTypeOK' /\ \A p \in Processes : DOMAIN table[p] \subseteq DOMAIN table'[p]
  BY <1>1, <1>2, <1>4, <1>5 DEF TableTypeOK
<1>7. Placed'  BY <1>5, <1>6, PlacedKept, TableBasics
<1> QED BY <1>1, <1>4, <1>5, <1>6, <1>7

(* Processes that start, are replaced and end.                             *)
LEMMA TablesReplaced ==
  ASSUME TableTypeOK, Placed, NEW p \in Processes, NEW tab \in Seq(HandleType), Len(tab) <= MaxHandles,
         table' = [table EXCEPT ![p] = tab], thr' = thr,
         NEW change \in [OpenFiles -> Int], T!Reference(file, change),
         DOMAIN table[p] \subseteq DOMAIN tab \/ \A s \in Callers : Own[s] = p => thr[s] = T!Idle
  PROVE  TableTypeOK' /\ Placed'
<1>1. /\ file' \in [OpenFiles -> OpenFileType] /\ opens' \in [Inodes -> Int]
      /\ taken' \in [OpenFiles -> SUBSET Int]
  BY ReferenceTypes DEF TableTypeOK
<1>2. TableTypeOK'  BY <1>1 DEF TableTypeOK
<1>3. ASSUME NEW s \in Callers PROVE thr[s] = T!Idle \/ DOMAIN table[Own[s]] \subseteq DOMAIN table'[Own[s]]
  <2>1. Own[s] \in Processes /\ table \in [Processes -> Seq(HandleType)]  BY TableBasics DEF TableTypeOK
  <2> QED BY <2>1
<1>4. Placed'  BY <1>3, TableBasics DEF Placed
<1> QED BY <1>2, <1>4

Inherits(q, old) ==
  \E tab \in Seq(HandleType), change \in [OpenFiles -> Int] :
    /\ Len(tab) <= MaxHandles /\ table' = [table EXCEPT ![q] = tab]
    /\ T!Reference(file, change) /\ \A f \in OpenFiles : change[f] = T!Count(tab, f)
    /\ \A i \in DOMAIN tab : i \in DOMAIN old /\ (tab[i] = old[i] \/ tab[i] = T!Null)

LEMMA ChildDoes ==
  ASSUME TableTypeOK, Placed, NEW t \in Callers, NEW q \in Processes, NEW whole \in BOOLEAN, T!Child(t, q, whole)
  PROVE  /\ TableTypeOK' /\ Placed' /\ thr' = thr /\ table[q] = <<>>
         /\ Inherits(q, table[Own[t]])
<1> DEFINE old == table[Own[t]]
           tab == [i \in DOMAIN old |-> IF whole \/ ~old[i].cloexec THEN old[i] ELSE T!Null]
           change == [f \in OpenFiles |-> T!Count(tab, f)]
<1>1. /\ table[q] = <<>> /\ (\A s \in Callers : Own[s] = q => thr[s] = T!Idle)
      /\ table' = [table EXCEPT ![q] = tab] /\ T!Reference(file, change) /\ thr' = thr
  BY DEF T!Child, T!Entry
<1>2. old \in Seq(HandleType) /\ Len(old) <= MaxHandles /\ T!Null \in HandleType
  BY TableBasics DEF TableTypeOK
<1>3. tab \in Seq(HandleType) /\ Len(tab) = Len(old) /\ DOMAIN tab = DOMAIN old
  <2>1. DOMAIN old = 1 .. Len(old) /\ Len(old) \in Nat /\ \A i \in 1 .. Len(old) : old[i] \in HandleType  BY <1>2
  <2>2. tab \in [1 .. Len(old) -> HandleType]  BY <1>2, <2>1
  <2> QED BY <2>1, <2>2
<1>4. \A i \in DOMAIN tab : i \in DOMAIN old /\ (tab[i] = old[i] \/ tab[i] = T!Null)  BY <1>3
<1> HIDE DEF tab
<1>5. change \in [OpenFiles -> Int]  BY <1>3, CountIsNat
<1>6. TableTypeOK' /\ Placed'
  <2> HIDE DEF change, old
  <2> QED BY <1>1, <1>2, <1>3, <1>5, TablesReplaced
<1>7. \A f \in OpenFiles : change[f] = T!Count(tab, f)  OBVIOUS
<1>8. Inherits(q, old)
  <2> HIDE DEF change, old
  <2> QED BY <1>1, <1>2, <1>3, <1>4, <1>5, <1>7 DEF Inherits
<1> QED BY <1>1, <1>6, <1>8

LEMMA ExecveDoes ==
  ASSUME TableTypeOK, Placed, NEW t \in Callers, T!Execve(t)
  PROVE  /\ TableTypeOK' /\ Placed' /\ thr' = thr
         /\ \E tab \in Seq(HandleType) :
              /\ Len(tab) <= MaxHandles /\ table' = [table EXCEPT ![Own[t]] = tab]
              /\ T!Reference(file, [f \in OpenFiles |-> T!Count(tab, f) - T!Count(table[Own[t]], f)])
              /\ \A f \in OpenFiles : T!Count(tab, f) <= T!Count(table[Own[t]], f)
<1> DEFINE old == table[Own[t]]
           tab == [i \in DOMAIN old |-> IF old[i].cloexec THEN T!Null ELSE old[i]]
           change == [f \in OpenFiles |-> T!Count(tab, f) - T!Count(old, f)]
<1>1. /\ table' = [table EXCEPT ![Own[t]] = tab] /\ T!Reference(file, change) /\ thr' = thr
  BY DEF T!Execve
<1>2. old \in Seq(HandleType) /\ Len(old) <= MaxHandles /\ T!Null \in HandleType /\ Own[t] \in Processes
  BY TableBasics DEF TableTypeOK
<1>3. tab \in Seq(HandleType) /\ Len(tab) = Len(old) /\ DOMAIN tab = DOMAIN old
  <2>1. DOMAIN old = 1 .. Len(old) /\ Len(old) \in Nat /\ \A i \in 1 .. Len(old) : old[i] \in HandleType  BY <1>2
  <2>2. tab \in [1 .. Len(old) -> HandleType]  BY <1>2, <2>1
  <2> QED BY <2>1, <2>2
<1>4. \A i \in DOMAIN tab : tab[i] = old[i] \/ tab[i] = T!Null  BY <1>3
<1> HIDE DEF tab
<1>5. \A f \in OpenFiles : T!Count(tab, f) <= T!Count(old, f)
  <2> SUFFICES ASSUME NEW f \in OpenFiles PROVE T!Count(tab, f) <= T!Count(old, f)  OBVIOUS
  <2> DEFINE s == {i \in DOMAIN old : old[i].file = f}
             z == {i \in DOMAIN tab : tab[i].file = f}
  <2>1. z \subseteq s  BY <1>3, <1>4, TableBasics, TableAssumption
  <2>2. IsFiniteSet(DOMAIN old)
    <3>1. DOMAIN old = 1 .. Len(old) /\ 1 \in Int /\ Len(old) \in Int  BY <1>2
    <3>2. IsFiniteSet(1 .. Len(old))  BY <3>1, FS_Interval
    <3> QED BY <3>1, <3>2
  <2>3. IsFiniteSet(s)  BY <2>2, FS_Subset
  <2>4. T!Count(tab, f) = Cardinality(z) /\ T!Count(old, f) = Cardinality(s)  BY Sizes DEF T!Count
  <2> HIDE DEF s, z
  <2> QED BY <2>1, <2>3, <2>4, FS_Subset
<1>6. change \in [OpenFiles -> Int]
  <2>1. \A f : T!Count(tab, f) \in Nat /\ T!Count(old, f) \in Nat  BY <1>2, <1>3, CountIsNat
  <2> QED BY <2>1
<1>7. TableTypeOK' /\ Placed'
  <2> HIDE DEF change
  <2> QED BY <1>1, <1>2, <1>3, <1>6, TablesReplaced
<1> QED BY <1>1, <1>2, <1>3, <1>5, <1>7

LEMMA ExitDoes ==
  ASSUME TableTypeOK, Placed, NEW t \in Callers, T!Exit(t)
  PROVE  /\ TableTypeOK' /\ Placed' /\ thr' = thr /\ table' = [table EXCEPT ![Own[t]] = <<>>]
         /\ T!Reference(file, [f \in OpenFiles |-> -T!Count(table[Own[t]], f)])
<1> DEFINE old == table[Own[t]]
           change == [f \in OpenFiles |-> -T!Count(old, f)]
<1>1. /\ table' = [table EXCEPT ![Own[t]] = <<>>] /\ T!Reference(file, change) /\ thr' = thr
      /\ \A s \in Callers : Own[s] = Own[t] => thr[s] = T!Idle
  BY DEF T!Exit
<1>2. old \in Seq(HandleType) /\ Own[t] \in Processes /\ MaxHandles \in Nat
  BY TableBasics, TableAssumption
<1>3. \A f : T!Count(old, f) \in Nat  BY <1>2, CountIsNat
<1>4. change \in [OpenFiles -> Int]  BY <1>3
<1>5. <<>> \in Seq(HandleType) /\ Len(<<>>) <= MaxHandles  BY <1>2
<1>6. TableTypeOK' /\ Placed'
  <2> HIDE DEF change, old
  <2> QED BY <1>1, <1>2, <1>4, <1>5, TablesReplaced
<1> QED BY <1>1, <1>6
-----------------------------------------------------------------------------
(* A step that counts references: who holds and who lists a file after it. *)
LEMMA CountableNext ==
  /\ \A f : IsFiniteSet(T!Holders(f)') /\ Held(f)' \in Nat
  /\ \A f : Listed(f)' \in Nat
<1>1. ASSUME NEW f PROVE IsFiniteSet(T!Holders(f)') /\ Held(f)' \in Nat
  <2>1. T!Holders(f)' \in SUBSET Callers  BY DEF T!Holders
  <2>2. IsFiniteSet(T!Holders(f)')  BY <2>1, FS_Subset, TableAssumption
  <2>3. Held(f)' = Cardinality(T!Holders(f)')  BY DEF Held
  <2> QED BY <2>2, <2>3, FS_CardinalityType
<1>2. ASSUME NEW f PROVE Listed(f)' \in Nat
  <2>1. IsFiniteSet(1 .. MaxHandles)  BY FS_Interval, TableAssumption
  <2>2. IsFiniteSet(Processes \X (1 .. MaxHandles))  BY <2>1, FS_Product, TableAssumption
  <2>3. T!Entries(f)' \in SUBSET (Processes \X (1 .. MaxHandles))  BY DEF T!Entries
  <2>4. Listed(f)' = Cardinality(T!Entries(f)')  BY DEF Listed
  <2> QED BY <2>2, <2>3, <2>4, FS_Subset, FS_CardinalityType
<1> QED BY <1>1, <1>2

LEMMA SameCounts ==
  ASSUME NEW f
  PROVE  (thr' = thr => Held(f)' = Held(f)) /\ (table' = table => Listed(f)' = Listed(f))
BY DEF Held, Listed, T!Holders, T!Entries

LEMMA SomeCounts ==
  ASSUME NEW S, IsFiniteSet(S), S # {}
  PROVE  Cardinality(S) > 0
<1>1. Cardinality(S) \in Nat /\ Cardinality(S) # 0  BY FS_CardinalityType, FS_EmptySet
<1> QED BY <1>1

(* Whatever holds or lists a file keeps it.                                *)
LEMMA HolderCounts ==
  ASSUME T!Referenced, NEW t \in Callers, thr[t].h.file \in OpenFiles
  PROVE  file[thr[t].h.file].ref > 0
<1> DEFINE f == thr[t].h.file
<1>1. file[f].ref = Held(f) + Listed(f) /\ Listed(f) \in Nat /\ IsFiniteSet(T!Holders(f))
  BY ReferencedMeans, Countable
<1>2. t \in T!Holders(f)  BY DEF T!Holders
<1>3. Held(f) > 0 /\ Held(f) \in Nat  BY <1>1, <1>2, SomeCounts, Countable DEF Held
<1> HIDE DEF f
<1>4. file[f].ref > 0  BY <1>1, <1>3
<1> QED BY <1>4 DEF f

LEMMA EntryCounts ==
  ASSUME TableTypeOK, T!Referenced, NEW p \in Processes, NEW i \in DOMAIN table[p], table[p][i].file \in OpenFiles
  PROVE  file[table[p][i].file].ref > 0
<1> DEFINE f == table[p][i].file
<1>1. file[f].ref = Held(f) + Listed(f) /\ Held(f) \in Nat /\ IsFiniteSet(T!Entries(f)) /\ Listed(f) \in Nat
  BY ReferencedMeans, Countable
<1>2. <<p, i>> \in T!Entries(f)
  <2>1. table[p] \in Seq(HandleType) /\ Len(table[p]) <= MaxHandles /\ MaxHandles \in Nat
    BY TableBasics, TableAssumption DEF TableTypeOK
  <2>2. i \in 1 .. MaxHandles  BY <2>1
  <2> QED BY <2>2 DEF T!Entries
<1>3. Listed(f) > 0  BY <1>1, <1>2, SomeCounts DEF Listed
<1> HIDE DEF f
<1>4. file[f].ref > 0  BY <1>1, <1>3
<1> QED BY <1>4 DEF f

Counts(fl, change) ==
  LET gone == {f \in OpenFiles : fl[f].ref > 0 /\ fl[f].ref + change[f] = 0}
  IN  /\ file' = [f \in OpenFiles |-> IF f \in gone THEN T!Free ELSE [fl[f] EXCEPT !.ref = @ + change[f]]]
      /\ opens' = [n \in Inodes |-> opens[n] - Cardinality({f \in gone : fl[f].node = n})]

LEMMA ReferenceCounts == \A fl, change : T!Reference(fl, change) => Counts(fl, change)
BY Sizes DEF T!Reference, Counts

(* Reference: each file counts on, and the node of one that goes is closed.*)
LEMMA ReferencedStep ==
  ASSUME TableTypeOK, T!Referenced, NEW fl \in [OpenFiles -> OpenFileType],
         \A f \in OpenFiles : fl[f].ref = file[f].ref /\ fl[f].node = file[f].node,
         NEW change \in [OpenFiles -> Int], Counts(fl, change),
         \A f \in OpenFiles : Held(f)' + Listed(f)' = Held(f) + Listed(f) + change[f],
         \A f \in OpenFiles : change[f] # 0 => file[f].ref > 0
  PROVE  T!Referenced'
<1> DEFINE gone == {f \in OpenFiles : fl[f].ref > 0 /\ fl[f].ref + change[f] = 0}
           shut(n) == {f \in gone : fl[f].node = n}
<1>1. /\ file' = [f \in OpenFiles |-> IF f \in gone THEN T!Free ELSE [fl[f] EXCEPT !.ref = @ + change[f]]]
      /\ \A n \in Inodes : opens'[n] = opens[n] - Cardinality(shut(n))
  BY DEF Counts
<1>2. \A f \in OpenFiles :
        /\ f \in gone => file'[f].ref = 0 /\ file'[f].node = None
        /\ f \notin gone => file'[f].ref = fl[f].ref + change[f] /\ file'[f].node = fl[f].node
  <2> SUFFICES ASSUME NEW f \in OpenFiles
               PROVE  /\ f \in gone => file'[f].ref = 0 /\ file'[f].node = None
                      /\ f \notin gone => file'[f].ref = fl[f].ref + change[f] /\ file'[f].node = fl[f].node
    OBVIOUS
  <2> HIDE DEF gone
  <2>1. f \in gone => file'[f] = T!Free  BY <1>1
  <2>2. f \notin gone => file'[f] = [fl[f] EXCEPT !.ref = @ + change[f]]  BY <1>1
  <2>3. fl[f] \in OpenFileType  OBVIOUS
  <2>4. [fl[f] EXCEPT !.ref = @ + change[f]].ref = fl[f].ref + change[f]
        /\ [fl[f] EXCEPT !.ref = @ + change[f]].node = fl[f].node
    BY <2>3 DEF OpenFileType
  <2> QED BY <2>1, <2>2, <2>4, TableBasics
<1>3. ASSUME NEW f \in OpenFiles
      PROVE  file'[f].ref = Held(f)' + Listed(f)' /\ (file'[f].ref > 0) = (file'[f].node # None)
  <2>1. /\ file[f].ref = Held(f) + Listed(f) /\ (file[f].ref > 0) = (file[f].node # None)
        /\ fl[f].ref = file[f].ref /\ fl[f].node = file[f].node
    BY ReferencedMeans
  <2>2. Held(f) \in Nat /\ Listed(f) \in Nat /\ Held(f)' \in Nat /\ Listed(f)' \in Nat /\ change[f] \in Int
    BY Countable, CountableNext
  <2>3. Held(f)' + Listed(f)' = Held(f) + Listed(f) + change[f] /\ (change[f] # 0 => file[f].ref > 0)
    OBVIOUS
  <2>4. CASE f \in gone  BY <1>2, <2>1, <2>2, <2>3, <2>4
  <2>5. CASE f \notin gone
    <3>1. ~(fl[f].ref > 0 /\ fl[f].ref + change[f] = 0)  BY <2>5
    <3>2. file'[f].ref = fl[f].ref + change[f] /\ file'[f].node = fl[f].node  BY <1>2, <2>5
    <3> HIDE DEF gone
    <3>3. CASE file[f].ref > 0  BY <2>1, <2>2, <2>3, <3>1, <3>2, <3>3
    <3>4. CASE ~(file[f].ref > 0)  BY <2>1, <2>2, <2>3, <3>1, <3>2, <3>4
    <3> QED BY <3>3, <3>4
  <2> QED BY <2>4, <2>5
<1>4. ASSUME NEW n \in Inodes PROVE opens'[n] = Cardinality(OpenOn(n)')
  <2>1. OpenOn(n) = OpenOn(n)' \cup shut(n)
    <3>1. n # None  BY TableAssumption
    <3> QED BY <1>2, <3>1 DEF OpenOn
  <2>2. OpenOn(n)' \cap shut(n) = {}
    <3>1. n # None  BY TableAssumption
    <3> QED BY <1>2, <3>1 DEF OpenOn
  <2>3. IsFiniteSet(OpenOn(n)') /\ IsFiniteSet(shut(n))
    <3>1. OpenOn(n)' \in SUBSET OpenFiles /\ shut(n) \in SUBSET OpenFiles  BY DEF OpenOn
    <3> QED BY <3>1, FS_Subset, TableAssumption
  <2> HIDE DEF shut, gone
  <2>4. Cardinality(OpenOn(n)') \in Nat /\ Cardinality(shut(n)) \in Nat  BY <2>3, FS_CardinalityType
  <2>5. Cardinality(OpenOn(n)' \cup shut(n)) = Cardinality(OpenOn(n)') + Cardinality(shut(n))
    BY <2>2, <2>3, TwoSets
  <2>6. opens[n] = Cardinality(OpenOn(n)) /\ opens'[n] = opens[n] - Cardinality(shut(n))  BY <1>1, ReferencedMeans
  <2> QED BY <2>1, <2>4, <2>5, <2>6
<1> QED BY <1>3, <1>4, ReferencedNext

(* The same when nothing is counted.                                       *)
LEMMA ReferencedStays ==
  ASSUME T!Referenced, UNCHANGED <<file, opens>>,
         \A f \in OpenFiles : Held(f)' + Listed(f)' = Held(f) + Listed(f)
  PROVE  T!Referenced'
<1>1. \A n : OpenOn(n)' = OpenOn(n)  BY DEF OpenOn
<1> QED BY <1>1, ReferencedMeans, ReferencedNext
(* Reference takes no position away from a file that stays.                *)
LEMMA DeliveredStep ==
  ASSUME TableInv, TableTypeOK', Placed', T!Referenced', NEW fl \in [OpenFiles -> OpenFileType],
         \A f \in OpenFiles : /\ fl[f].ref = file[f].ref /\ fl[f].node = file[f].node
                              /\ fl[f].lock = file[f].lock
                              /\ fl[f] = file[f] \/ (fl[f].moved /\ file[f].ref > 0),
         NEW change \in [OpenFiles -> Int], T!Reference(fl, change),
         \A f \in OpenFiles : change[f] # 0 => file[f].ref > 0,
         \A s \in Callers : thr'[s].op = "node" => thr'[s] = thr[s]
  PROVE  Delivered'
<1> DEFINE gone == {f \in OpenFiles : fl[f].ref > 0 /\ fl[f].ref + change[f] = 0}
<1>t. TableTypeOK /\ Placed /\ Delivered /\ T!Referenced  BY DEF TableInv
<1>1. /\ file' = [f \in OpenFiles |-> IF f \in gone THEN T!Free ELSE [fl[f] EXCEPT !.ref = @ + change[f]]]
      /\ taken' = [f \in OpenFiles |-> IF f \in gone THEN {} ELSE taken[f]]
  BY DEF T!Reference
<1>2. ASSUME NEW f \in OpenFiles
      PROVE  /\ f \in gone => file'[f] = T!Free /\ taken'[f] = {}
             /\ f \notin gone => /\ taken'[f] = taken[f] /\ file'[f].ref = fl[f].ref + change[f]
                                  /\ file'[f] = [fl[f] EXCEPT !.ref = fl[f].ref + change[f]]
                                  /\ file'[f].pos = fl[f].pos /\ file'[f].moved = fl[f].moved
                                  /\ file'[f].lock = fl[f].lock
  <2> HIDE DEF gone
  <2>1. f \in gone => file'[f] = T!Free /\ taken'[f] = {}  BY <1>1
  <2>2. f \notin gone => file'[f] = [fl[f] EXCEPT !.ref = fl[f].ref + change[f]] /\ taken'[f] = taken[f]  BY <1>1
  <2>3. fl[f] \in OpenFileType  OBVIOUS
  <2>4. LET e == [fl[f] EXCEPT !.ref = fl[f].ref + change[f]]
        IN  /\ e.ref = fl[f].ref + change[f] /\ e.pos = fl[f].pos /\ e.moved = fl[f].moved
            /\ e.lock = fl[f].lock
    BY <2>3 DEF OpenFileType
  <2> QED BY <2>1, <2>2, <2>4
<1>3. ASSUME NEW f \in OpenFiles
      PROVE  /\ file'[f].ref = 0 => file'[f] = T!Free /\ taken'[f] = {}
             /\ ~file'[f].moved => taken'[f] \subseteq 0 .. file'[f].pos - 1
  <2>1. /\ file[f].ref = 0 => file[f] = T!Free /\ taken[f] = {}
        /\ ~file[f].moved => taken[f] \subseteq 0 .. file[f].pos - 1
    BY <1>t DEF Delivered
  <2>2. CASE f \in gone  BY <1>2, <2>2
  <2>3. CASE f \notin gone
    <3>1. ASSUME file'[f].ref = 0 PROVE file'[f] = T!Free /\ taken'[f] = {}
      <4>1. file[f].ref \in Nat
        <5>1. file[f].ref = Held(f) + Listed(f)  BY <1>t, ReferencedMeans
        <5>2. Held(f) \in Nat /\ Listed(f) \in Nat  BY Countable
        <5> QED BY <5>1, <5>2
      <4>2. ~(fl[f].ref > 0 /\ fl[f].ref + change[f] = 0)  BY <2>3
      <4>3. fl[f].ref = file[f].ref /\ fl[f].ref + change[f] = 0 /\ change[f] \in Int  BY <1>2, <2>3, <3>1
      <4>4. file[f].ref = 0 /\ change[f] = 0  BY <4>1, <4>2, <4>3
      <4>5. fl[f] = file[f] /\ file[f] = T!Free /\ taken[f] = {}  BY <2>1, <4>4
      <4>6. file'[f] = [T!Free EXCEPT !.ref = 0] /\ taken'[f] = {}  BY <1>2, <2>3, <4>3, <4>5
      <4>7. [T!Free EXCEPT !.ref = 0] = T!Free
        <5>1. \A e \in OpenFileType : e.ref = 0 => [e EXCEPT !.ref = 0] = e  BY DEF OpenFileType
        <5> QED BY <1>t, <5>1, TableBasics
      <4> QED BY <4>6, <4>7
    <3>2. ASSUME ~file'[f].moved PROVE taken'[f] \subseteq 0 .. file'[f].pos - 1
      <4>1. ~fl[f].moved /\ taken'[f] = taken[f] /\ file'[f].pos = fl[f].pos  BY <1>2, <2>3, <3>2
      <4>2. fl[f] = file[f]  BY <4>1
      <4> QED BY <2>1, <4>1, <4>2
    <3> QED BY <3>1, <3>2
  <2> QED BY <2>2, <2>3
<1>4. ASSUME NEW s \in Callers, thr'[s].op = "node"
      PROVE  /\ file'[thr'[s].h.file].lock = s
             /\ ~file'[thr'[s].h.file].moved => thr'[s].at = file'[thr'[s].h.file].pos
  <2>1. thr'[s] = thr[s] /\ thr[s].op = "node"  BY <1>4
  <2>2. PICK f \in OpenFiles : f = thr[s].h.file
    <3>1. thr[s].h.file # None /\ thr[s] \in CallType  BY <1>t, <2>1, TableBasics DEF Placed
    <3> QED BY <3>1 DEF CallType, HandleType
  <2>3. file[f].lock = s /\ (~file[f].moved => thr[s].at = file[f].pos)  BY <1>t, <2>1, <2>2 DEF Delivered
  <2>4. f \notin gone
    <3>1. Held(f)' > 0 /\ Held(f)' \in Nat
      <4>1. s \in T!Holders(f)'  BY <2>1, <2>2 DEF T!Holders
      <4>2. IsFiniteSet(T!Holders(f)') /\ Held(f)' \in Nat  BY CountableNext
      <4>3. Held(f)' = Cardinality(T!Holders(f)')  BY DEF Held
      <4> QED BY <4>1, <4>2, <4>3, SomeCounts
    <3>2. file'[f].ref = Held(f)' + Listed(f)'  BY <2>2, ReferencedNext
    <3>3. Listed(f)' \in Nat  BY CountableNext
    <3>4. file'[f].ref # 0  BY <3>1, <3>2, <3>3
    <3> HIDE DEF gone
    <3> QED BY <1>2, <2>2, <3>4, <1>t, TableBasics
  <2>5. /\ file'[f].lock = fl[f].lock /\ file'[f].moved = fl[f].moved /\ file'[f].pos = fl[f].pos
        /\ fl[f].lock = file[f].lock /\ (fl[f] = file[f] \/ fl[f].moved)
    BY <1>2, <2>2, <2>4
  <2> QED BY <2>1, <2>2, <2>3, <2>5
<1> QED BY <1>3, <1>4 DEF Delivered

(* Both together, for the steps that count references...                   *)
LEMMA CountedStep ==
  ASSUME TableInv, TableTypeOK', Placed', NEW fl \in [OpenFiles -> OpenFileType],
         \A f \in OpenFiles : /\ fl[f].ref = file[f].ref /\ fl[f].node = file[f].node
                              /\ fl[f].lock = file[f].lock
                              /\ fl[f] = file[f] \/ (fl[f].moved /\ file[f].ref > 0),
         NEW change \in [OpenFiles -> Int], T!Reference(fl, change),
         \A f \in OpenFiles : Held(f)' + Listed(f)' = Held(f) + Listed(f) + change[f],
         \A f \in OpenFiles : change[f] # 0 => file[f].ref > 0,
         \A s \in Callers : thr'[s].op = "node" => thr'[s] = thr[s]
  PROVE  TableInv'
<1>1. TableTypeOK /\ T!Referenced  BY DEF TableInv
<1>2. T!Referenced'  BY <1>1, ReferencedStep, ReferenceCounts
<1>3. Delivered'  BY <1>2, DeliveredStep
<1> QED BY <1>2, <1>3 DEF TableInv

(* ... when only references change...                                      *)
LEMMA PlainStep ==
  ASSUME TableInv, TableTypeOK', Placed',
         NEW change \in [OpenFiles -> Int], T!Reference(file, change),
         \A f \in OpenFiles : Held(f)' + Listed(f)' = Held(f) + Listed(f) + change[f],
         \A f \in OpenFiles : change[f] # 0 => file[f].ref > 0,
         \A s \in Callers : thr'[s].op = "node" => thr'[s] = thr[s]
  PROVE  TableInv'
<1>1. file \in [OpenFiles -> OpenFileType]  BY DEF TableInv, TableTypeOK
<1> QED BY <1>1, CountedStep

(* ... and for those that only move one.                                   *)
LEMMA QuietStep ==
  ASSUME TableInv, TableTypeOK', Placed', UNCHANGED <<file, opens, taken>>,
         \A f \in OpenFiles : Held(f)' + Listed(f)' = Held(f) + Listed(f),
         \A s \in Callers : thr'[s].op = "node" => thr'[s] = thr[s]
  PROVE  TableInv'
<1>1. T!Referenced'  BY ReferencedStays DEF TableInv
<1>2. Delivered'
  <2>1. Delivered /\ file' = file /\ taken' = taken  BY DEF TableInv
  <2> QED BY <2>1 DEF Delivered
<1> QED BY <1>1, <1>2 DEF TableInv
-----------------------------------------------------------------------------
(* What one thread's step does to the counts.                              *)
LEMMA RowMoves ==
  ASSUME TableTypeOK, NEW t \in Callers, NEW row \in CallType, thr' = [thr EXCEPT ![t] = row], row.op # "node"
  PROVE  /\ \A f : Held(f)' = Held(f) - If(thr[t].h.file = f) + If(row.h.file = f)
         /\ \A s \in Callers : thr'[s].op = "node" => thr'[s] = thr[s]
<1>1. thr'[t] = row /\ \A s \in Callers \ {t} : thr'[s] = thr[s]  BY DEF TableTypeOK
<1>2. \A f : Held(f)' = Held(f) - If(thr[t].h.file = f) + If(row.h.file = f)
  <2> TAKE f
  <2>1. \A s \in Callers : s # t => thr'[s] = thr[s]  BY <1>1
  <2> QED BY <1>1, <2>1, HoldersMove
<1>3. \A s \in Callers : thr'[s].op = "node" => thr'[s] = thr[s]  BY <1>1
<1> QED BY <1>2, <1>3

LEMMA EntryMoves ==
  ASSUME TableTypeOK, NEW t \in Callers, NEW i \in DOMAIN table[Own[t]], NEW h \in HandleType, T!Put(t, i, h)
  PROVE  \A f : Listed(f)' = Listed(f) - If(table[Own[t]][i].file = f) + If(h.file = f)
<1> SUFFICES ASSUME NEW f
             PROVE  Listed(f)' = Listed(f) - If(table[Own[t]][i].file = f) + If(h.file = f)
  OBVIOUS
<1> DEFINE tab == table[Own[t]]
           new == [tab EXCEPT ![i] = h]
<1>1. table' = [table EXCEPT ![Own[t]] = new] /\ new \in Seq(HandleType) /\ Len(new) <= MaxHandles
  BY PutTypes
<1>2. Own[t] \in Processes /\ tab \in Seq(HandleType)  BY TableBasics
<1>3. T!Count(new, f) = T!Count(tab, f) - If(tab[i].file = f) + If(h.file = f)  BY <1>2, CountPut
<1> HIDE DEF new
<1>4. /\ Listed(f)' = Listed(f) - T!Count(tab, f) + T!Count(new, f)
      /\ T!Count(tab, f) \in Nat /\ T!Count(new, f) \in Nat
  BY <1>1, <1>2, EntriesMove
<1>5. Listed(f) \in Nat /\ If(tab[i].file = f) \in Nat /\ If(h.file = f) \in Nat  BY Countable DEF If
<1> HIDE DEF tab
<1>6. Listed(f)' = Listed(f) - If(tab[i].file = f) + If(h.file = f)  BY <1>3, <1>4, <1>5
<1> QED BY <1>6 DEF tab

LEMMA NoneIsNoFile == \A f \in OpenFiles : If(None = f) = 0 /\ If(T!Null.file = f) = 0 /\ If(T!Idle.h.file = f) = 0
<1>1. \A f \in OpenFiles : f # None  BY TableAssumption
<1>2. T!Null.file = None /\ T!Idle.h.file = None  BY DEF T!Null, T!Idle
<1> QED BY <1>1, <1>2 DEF If
-----------------------------------------------------------------------------
(* Every step keeps the table.                                             *)
LEMMA GetHandleKeeps ==
  ASSUME TableInv, NEW t \in Callers, NEW op \in {"transfer", "use", "dup", "cloexec"},
         NEW fd \in 1 .. MaxHandles, T!GetHandle(t, op, fd)
  PROVE  TableInv'
<1>1. TableTypeOK /\ Placed /\ T!Referenced  BY DEF TableInv
<1> DEFINE g == table[Own[t]][fd].file
<1>a. /\ TableTypeOK' /\ Placed' /\ table' = table /\ T!Reference(file, T!One(g, 1))
      /\ thr[t] = T!Idle /\ thr' = [thr EXCEPT ![t] = thr'[t]] /\ thr'[t].op # "node"
      /\ fd \in DOMAIN table[Own[t]] /\ g = thr'[t].h.file
  BY <1>1, GetHandleDoes
<1>3. PICK row \in CallType : row = thr'[t]  BY <1>a DEF TableTypeOK
<1>2. /\ TableTypeOK' /\ Placed' /\ table' = table /\ T!Reference(file, T!One(g, 1))
      /\ thr[t] = T!Idle /\ thr' = [thr EXCEPT ![t] = row] /\ row.op # "node"
      /\ fd \in DOMAIN table[Own[t]] /\ g = row.h.file
  BY <1>a, <1>3
<1>4. /\ \A f : Held(f)' = Held(f) - If(T!Idle.h.file = f) + If(g = f)
      /\ \A s \in Callers : thr'[s].op = "node" => thr'[s] = thr[s]
  <2>1. /\ \A f : Held(f)' = Held(f) - If(thr[t].h.file = f) + If(row.h.file = f)
        /\ \A s \in Callers : thr'[s].op = "node" => thr'[s] = thr[s]
    <3> HIDE DEF g
    <3> QED BY <1>1, <1>2, RowMoves
  <2> QED BY <1>2, <2>1
<1>5. T!One(g, 1) \in [OpenFiles -> Int] /\ \A f \in OpenFiles : T!One(g, 1)[f] = If(g = f)  BY OneType
<1>6. ASSUME NEW f \in OpenFiles
      PROVE  /\ Held(f)' + Listed(f)' = Held(f) + Listed(f) + T!One(g, 1)[f]
             /\ T!One(g, 1)[f] # 0 => file[f].ref > 0
  <2>1. Listed(f)' = Listed(f) /\ Listed(f) \in Nat /\ Held(f) \in Nat /\ If(g = f) \in Nat /\ If(T!Idle.h.file = f) = 0
    BY <1>2, SameCounts, Countable, NoneIsNoFile DEF If
  <2>2. T!One(g, 1)[f] # 0 => g = f  BY <1>5 DEF If
  <2>3. g = f => file[f].ref > 0
    <3>1. Own[t] \in Processes  BY <1>1, TableBasics
    <3> QED BY <1>1, <1>2, <3>1, EntryCounts
  <2>4. Held(f)' = Held(f) - If(T!Idle.h.file = f) + If(g = f)  BY <1>4
  <2> HIDE DEF g
  <2> QED BY <1>5, <2>1, <2>2, <2>3, <2>4
<1> HIDE DEF g
<1> QED BY <1>2, <1>4, <1>5, <1>6, PlainStep

LEMMA UseNodeKeeps ==
  ASSUME TableInv, NEW t \in Callers, T!UseNode(t)
  PROVE  TableInv'
<1>1. TableTypeOK /\ Placed /\ T!Referenced  BY DEF TableInv
<1> DEFINE g == thr[t].h.file
<1>2. /\ TableTypeOK' /\ Placed' /\ table' = table /\ T!Reference(file, T!One(g, -1))
      /\ thr' = [thr EXCEPT ![t] = T!Idle] /\ g # None
  BY <1>1, UseNodeDoes
<1>3. T!Idle \in CallType /\ T!Idle.op # "node"  BY <1>1, TableBasics
<1>4. /\ \A f : Held(f)' = Held(f) - If(g = f) + If(T!Idle.h.file = f)
      /\ \A s \in Callers : thr'[s].op = "node" => thr'[s] = thr[s]
  BY <1>1, <1>2, <1>3, RowMoves
<1>5. T!One(g, -1) \in [OpenFiles -> Int] /\ \A f \in OpenFiles : T!One(g, -1)[f] = -If(g = f)  BY OneType
<1>6. ASSUME NEW f \in OpenFiles
      PROVE  /\ Held(f)' + Listed(f)' = Held(f) + Listed(f) + T!One(g, -1)[f]
             /\ T!One(g, -1)[f] # 0 => file[f].ref > 0
  <2>1. Listed(f)' = Listed(f) /\ Listed(f) \in Nat /\ Held(f) \in Nat /\ If(g = f) \in Nat /\ If(T!Idle.h.file = f) = 0
    BY <1>2, SameCounts, Countable, NoneIsNoFile DEF If
  <2>2. T!One(g, -1)[f] # 0 => g = f  BY <1>5 DEF If
  <2>3. g = f => file[f].ref > 0  BY <1>1, HolderCounts
  <2>4. Held(f)' = Held(f) - If(g = f) + If(T!Idle.h.file = f)  BY <1>4
  <2> HIDE DEF g
  <2> QED BY <1>5, <2>1, <2>2, <2>3, <2>4
<1> HIDE DEF g
<1> QED BY <1>2, <1>4, <1>5, <1>6, PlainStep

LEMMA SeekKeeps ==
  ASSUME TableInv, NEW t \in Callers, NEW to \in 0 .. MaxPos, T!Seek(t, to)
  PROVE  TableInv'
<1>1. TableTypeOK /\ Placed /\ T!Referenced  BY DEF TableInv
<1> DEFINE g == thr[t].h.file
<1>2. /\ TableTypeOK' /\ Placed' /\ table' = table /\ g \in OpenFiles
      /\ thr' = [thr EXCEPT ![t] = T!Idle]
      /\ \E fl \in [OpenFiles -> OpenFileType] :
           /\ T!Reference(fl, T!One(g, -1))
           /\ \A f \in OpenFiles : (f # g => fl[f] = file[f])
                                   /\ (f = g => fl[f] = [file[f] EXCEPT !.pos = to, !.moved = TRUE])
  BY <1>1, SeekDoes
<1>a. PICK fl \in [OpenFiles -> OpenFileType] :
           /\ T!Reference(fl, T!One(g, -1))
           /\ \A f \in OpenFiles : (f # g => fl[f] = file[f])
                                   /\ (f = g => fl[f] = [file[f] EXCEPT !.pos = to, !.moved = TRUE])
  BY <1>2
<1>3. T!Idle \in CallType /\ T!Idle.op # "node"  BY <1>1, TableBasics
<1>4. /\ \A f : Held(f)' = Held(f) - If(g = f) + If(T!Idle.h.file = f)
      /\ \A s \in Callers : thr'[s].op = "node" => thr'[s] = thr[s]
  BY <1>1, <1>2, <1>3, RowMoves
<1>5. T!One(g, -1) \in [OpenFiles -> Int] /\ \A f \in OpenFiles : T!One(g, -1)[f] = -If(g = f)  BY OneType
<1>6. ASSUME NEW f \in OpenFiles
      PROVE  /\ Held(f)' + Listed(f)' = Held(f) + Listed(f) + T!One(g, -1)[f]
             /\ T!One(g, -1)[f] # 0 => file[f].ref > 0
             /\ g = f => file[f].ref > 0
  <2>1. Listed(f)' = Listed(f) /\ Listed(f) \in Nat /\ Held(f) \in Nat /\ If(g = f) \in Nat /\ If(T!Idle.h.file = f) = 0
    BY <1>2, SameCounts, Countable, NoneIsNoFile DEF If
  <2>2. T!One(g, -1)[f] # 0 => g = f  BY <1>5 DEF If
  <2>3. g = f => file[f].ref > 0  BY <1>1, HolderCounts
  <2>4. Held(f)' = Held(f) - If(g = f) + If(T!Idle.h.file = f)  BY <1>4
  <2> HIDE DEF g
  <2> QED BY <1>5, <2>1, <2>2, <2>3, <2>4
<1>7. ASSUME NEW f \in OpenFiles
      PROVE  /\ fl[f].ref = file[f].ref /\ fl[f].node = file[f].node /\ fl[f].lock = file[f].lock
             /\ fl[f] = file[f] \/ (fl[f].moved /\ file[f].ref > 0)
  <2>1. CASE f # g  BY <1>a, <2>1
  <2>2. CASE f = g
    <3>1. fl[f] = [file[f] EXCEPT !.pos = to, !.moved = TRUE] /\ file[f] \in OpenFileType
      BY <1>1, <1>a, <2>2, TableBasics
    <3>2. fl[f].ref = file[f].ref /\ fl[f].node = file[f].node /\ fl[f].lock = file[f].lock /\ fl[f].moved
      BY <3>1 DEF OpenFileType
    <3> QED BY <1>6, <2>2, <3>2
  <2> QED BY <2>1, <2>2
<1> DEFINE change == T!One(g, -1)
<1>8. change \in [OpenFiles -> Int] /\ T!Reference(fl, change)  BY <1>a, <1>5
<1>9. \A f \in OpenFiles : Held(f)' + Listed(f)' = Held(f) + Listed(f) + change[f]  BY <1>6
<1>10. \A f \in OpenFiles : change[f] # 0 => file[f].ref > 0  BY <1>6
<1>11. \A f \in OpenFiles : /\ fl[f].ref = file[f].ref /\ fl[f].node = file[f].node
                            /\ fl[f].lock = file[f].lock
                            /\ fl[f] = file[f] \/ (fl[f].moved /\ file[f].ref > 0)
  BY <1>7
<1> HIDE DEF g, change
<1> QED BY <1>2, <1>a, <1>4, <1>8, <1>9, <1>10, <1>11, CountedStep

LEMMA CloseKeeps ==
  ASSUME TableInv, NEW t \in Callers, NEW fd \in 1 .. MaxHandles, T!Close(t, fd)
  PROVE  TableInv'
<1>1. TableTypeOK /\ Placed /\ T!Referenced  BY DEF TableInv
<1> DEFINE g == table[Own[t]][fd].file
<1>2. /\ TableTypeOK' /\ Placed' /\ thr' = thr /\ fd \in DOMAIN table[Own[t]]
      /\ T!Put(t, fd, T!Null) /\ T!Reference(file, T!One(g, -1))
  BY <1>1, CloseDoes
<1>3. T!Null \in HandleType /\ Own[t] \in Processes  BY <1>1, TableBasics
<1>4. \A f : Listed(f)' = Listed(f) - If(g = f) + If(T!Null.file = f)  BY <1>1, <1>2, <1>3, EntryMoves
<1>5. T!One(g, -1) \in [OpenFiles -> Int] /\ \A f \in OpenFiles : T!One(g, -1)[f] = -If(g = f)  BY OneType
<1>6. ASSUME NEW f \in OpenFiles
      PROVE  /\ Held(f)' + Listed(f)' = Held(f) + Listed(f) + T!One(g, -1)[f]
             /\ T!One(g, -1)[f] # 0 => file[f].ref > 0
  <2>1. Held(f)' = Held(f) /\ Listed(f) \in Nat /\ Held(f) \in Nat /\ If(g = f) \in Nat /\ If(T!Null.file = f) = 0
    BY <1>2, SameCounts, Countable, NoneIsNoFile DEF If
  <2>2. T!One(g, -1)[f] # 0 => g = f  BY <1>5 DEF If
  <2>3. g = f => file[f].ref > 0  BY <1>1, <1>2, <1>3, EntryCounts
  <2>4. Listed(f)' = Listed(f) - If(g = f) + If(T!Null.file = f)  BY <1>4
  <2> HIDE DEF g
  <2> QED BY <1>5, <2>1, <2>2, <2>3, <2>4
<1> HIDE DEF g
<1> QED BY <1>2, <1>5, <1>6, PlainStep
LEMMA DupDestroyKeeps ==
  ASSUME TableInv, NEW t \in Callers, T!DupDestroy(t)
  PROVE  TableInv'
<1>1. TableTypeOK /\ Placed /\ T!Referenced  BY DEF TableInv
<1> DEFINE g == table[Own[t]][thr[t].at].file
<1>a. /\ TableTypeOK' /\ Placed' /\ thr[t].at \in DOMAIN table[Own[t]]
      /\ T!Put(t, thr[t].at, T!Null) /\ T!Reference(file, T!One(g, -1))
      /\ thr' = [thr EXCEPT ![t] = thr'[t]] /\ thr'[t].h = thr[t].h /\ thr'[t].op # "node"
  BY <1>1, DupDestroyDoes
<1>2. PICK row \in CallType : row = thr'[t]  BY <1>a DEF TableTypeOK
<1>3. T!Null \in HandleType /\ Own[t] \in Processes  BY <1>1, TableBasics
<1>4. \A f : Listed(f)' = Listed(f) - If(g = f) + If(T!Null.file = f)  BY <1>1, <1>a, <1>3, EntryMoves
<1>5. T!One(g, -1) \in [OpenFiles -> Int] /\ \A f \in OpenFiles : T!One(g, -1)[f] = -If(g = f)  BY OneType
<1>6. /\ \A f : Held(f)' = Held(f) - If(thr[t].h.file = f) + If(row.h.file = f)
      /\ \A s \in Callers : thr'[s].op = "node" => thr'[s] = thr[s]
  <2>1. thr' = [thr EXCEPT ![t] = row] /\ row.op # "node"  BY <1>a, <1>2
  <2> HIDE DEF g
  <2> QED BY <1>1, <2>1, RowMoves
<1>7. ASSUME NEW f \in OpenFiles
      PROVE  /\ Held(f)' + Listed(f)' = Held(f) + Listed(f) + T!One(g, -1)[f]
             /\ T!One(g, -1)[f] # 0 => file[f].ref > 0
  <2>1. /\ Listed(f) \in Nat /\ Held(f) \in Nat /\ If(g = f) \in Nat /\ If(T!Null.file = f) = 0
        /\ If(thr[t].h.file = f) \in Nat
    BY Countable, NoneIsNoFile DEF If
  <2>2. T!One(g, -1)[f] # 0 => g = f
    <3> HIDE DEF g
    <3>1. T!One(g, -1)[f] = -If(g = f)  BY <1>5, Zenon
    <3>2. g # f => If(g = f) = 0  BY DEF If
    <3> QED BY <3>1, <3>2
  <2>3. g = f => file[f].ref > 0  BY <1>1, <1>a, <1>3, EntryCounts
  <2>4. Listed(f)' = Listed(f) - If(g = f) + If(T!Null.file = f)  BY <1>4
  <2>5. Held(f)' = Held(f) - If(thr[t].h.file = f) + If(thr[t].h.file = f)  BY <1>a, <1>2, <1>6
  <2> HIDE DEF g
  <2> QED BY <1>5, <2>1, <2>2, <2>3, <2>4, <2>5
<1> HIDE DEF g
<1> QED BY <1>a, <1>5, <1>6, <1>7, PlainStep

LEMMA DupReplaceKeeps ==
  ASSUME TableInv, NEW t \in Callers, T!DupReplace(t)
  PROVE  TableInv'
<1>1. TableTypeOK /\ Placed /\ T!Referenced  BY DEF TableInv
<1> DEFINE g == table[Own[t]][thr[t].at].file
           h == thr[t].h
<1>a. /\ TableTypeOK' /\ Placed' /\ thr[t].at \in DOMAIN table[Own[t]]
      /\ T!Put(t, thr[t].at, h) /\ T!Reference(file, T!One(g, -1))
      /\ thr' = [thr EXCEPT ![t] = T!Idle] /\ h \in HandleType
  BY <1>1, DupReplaceDoes
<1>3. Own[t] \in Processes /\ T!Idle \in CallType /\ T!Idle.op # "node"  BY <1>1, TableBasics
<1>4. \A f : Listed(f)' = Listed(f) - If(g = f) + If(h.file = f)  BY <1>1, <1>a, <1>3, EntryMoves
<1>5. T!One(g, -1) \in [OpenFiles -> Int] /\ \A f \in OpenFiles : T!One(g, -1)[f] = -If(g = f)  BY OneType
<1>6. /\ \A f : Held(f)' = Held(f) - If(h.file = f) + If(T!Idle.h.file = f)
      /\ \A s \in Callers : thr'[s].op = "node" => thr'[s] = thr[s]
  BY <1>1, <1>a, <1>3, RowMoves
<1>7. ASSUME NEW f \in OpenFiles
      PROVE  /\ Held(f)' + Listed(f)' = Held(f) + Listed(f) + T!One(g, -1)[f]
             /\ T!One(g, -1)[f] # 0 => file[f].ref > 0
  <2>1. /\ Listed(f) \in Nat /\ Held(f) \in Nat /\ If(g = f) \in Nat /\ If(T!Idle.h.file = f) = 0
        /\ If(h.file = f) \in Nat
    BY Countable, NoneIsNoFile DEF If
  <2>2. T!One(g, -1)[f] # 0 => g = f
    <3> HIDE DEF g
    <3>1. T!One(g, -1)[f] = -If(g = f)  BY <1>5, Zenon
    <3>2. g # f => If(g = f) = 0  BY DEF If
    <3> QED BY <3>1, <3>2
  <2>3. g = f => file[f].ref > 0  BY <1>1, <1>a, <1>3, EntryCounts
  <2>4. Listed(f)' = Listed(f) - If(g = f) + If(h.file = f)  BY <1>4
  <2>5. Held(f)' = Held(f) - If(h.file = f) + If(T!Idle.h.file = f)  BY <1>6
  <2> HIDE DEF g, h
  <2> QED BY <1>5, <2>1, <2>2, <2>3, <2>4, <2>5
<1> HIDE DEF g, h
<1> QED BY <1>a, <1>5, <1>6, <1>7, PlainStep

LEMMA HandChanges ==
  ASSUME TableInv, NEW t \in Callers, TableTypeOK', Placed', UNCHANGED <<table, file, opens, taken>>,
         thr' = [thr EXCEPT ![t] = thr'[t]], thr'[t].h.file = thr[t].h.file, thr'[t].op # "node"
  PROVE  TableInv'
<1>1. TableTypeOK  BY DEF TableInv
<1>2. PICK row \in CallType : row = thr'[t]  BY DEF TableTypeOK
<1>3. thr' = [thr EXCEPT ![t] = row] /\ row.op # "node"  BY <1>2
<1>4. /\ \A f : Held(f)' = Held(f) - If(thr[t].h.file = f) + If(row.h.file = f)
      /\ \A s \in Callers : thr'[s].op = "node" => thr'[s] = thr[s]
  BY <1>1, <1>3, RowMoves
<1>5. ASSUME NEW f \in OpenFiles PROVE Held(f)' + Listed(f)' = Held(f) + Listed(f)
  <2>1. Held(f)' = Held(f) - If(thr[t].h.file = f) + If(thr[t].h.file = f)  BY <1>2, <1>4
  <2>2. Listed(f)' = Listed(f) /\ Listed(f) \in Nat /\ Held(f) \in Nat /\ If(thr[t].h.file = f) \in Nat
    BY SameCounts, Countable DEF If
  <2> QED BY <2>1, <2>2
<1> QED BY <1>4, <1>5, QuietStep

LEMMA DupKeeps ==
  ASSUME TableInv, NEW t \in Callers, NEW to \in 0 .. MaxHandles, NEW c \in BOOLEAN, T!Dup(t, to, c)
  PROVE  TableInv'
<1>1. TableTypeOK /\ Placed  BY DEF TableInv
<1> QED BY <1>1, DupDoes, HandChanges

LEMMA SetCloseOnExecKeeps ==
  ASSUME TableInv, NEW t \in Callers, NEW c \in BOOLEAN, T!SetCloseOnExec(t, c)
  PROVE  TableInv'
<1>1. TableTypeOK /\ Placed  BY DEF TableInv
<1> QED BY <1>1, SetCloseOnExecDoes, HandChanges

LEMMA AllocateHandleKeeps ==
  ASSUME TableInv, NEW t \in Callers, T!AllocateHandle(t)
  PROVE  TableInv'
<1>1. TableTypeOK /\ Placed  BY DEF TableInv
<1> DEFINE g == thr[t].h.file
           old == table[Own[t]]
<1>2. /\ TableTypeOK' /\ Placed' /\ UNCHANGED <<file, opens, taken>> /\ thr' = [thr EXCEPT ![t] = T!Idle]
      /\ \E tab \in Seq(HandleType) :
           /\ Len(tab) <= MaxHandles /\ table' = [table EXCEPT ![Own[t]] = tab]
           /\ \A f \in OpenFiles : T!Count(tab, f) = T!Count(old, f) + If(g = f)
  BY <1>1, AllocateHandleDoes
<1>3. PICK tab \in Seq(HandleType) :
           /\ Len(tab) <= MaxHandles /\ table' = [table EXCEPT ![Own[t]] = tab]
           /\ \A f \in OpenFiles : T!Count(tab, f) = T!Count(old, f) + If(g = f)
  BY <1>2
<1>4. Own[t] \in Processes /\ T!Idle \in CallType /\ T!Idle.op # "node"  BY <1>1, TableBasics
<1>5. /\ \A f : Held(f)' = Held(f) - If(g = f) + If(T!Idle.h.file = f)
      /\ \A s \in Callers : thr'[s].op = "node" => thr'[s] = thr[s]
  BY <1>1, <1>2, <1>4, RowMoves
<1>6. ASSUME NEW f \in OpenFiles PROVE Held(f)' + Listed(f)' = Held(f) + Listed(f)
  <2>1. /\ Listed(f)' = Listed(f) - T!Count(old, f) + T!Count(tab, f)
        /\ T!Count(old, f) \in Nat /\ T!Count(tab, f) \in Nat
    <3>1. Len(tab) <= MaxHandles /\ table' = [table EXCEPT ![Own[t]] = tab]  BY <1>3, Zenon
    <3> HIDE DEF g, old
    <3>2. Listed(f)' = Listed(f) - T!Count(table[Own[t]], f) + T!Count(tab, f)
          /\ T!Count(table[Own[t]], f) \in Nat /\ T!Count(tab, f) \in Nat
      BY <1>1, <1>4, <3>1, EntriesMove
    <3> QED BY <3>2 DEF old
  <2>2. T!Count(tab, f) = T!Count(old, f) + If(g = f)  BY <1>3
  <2>3. Held(f)' = Held(f) - If(g = f) + If(T!Idle.h.file = f)  BY <1>5
  <2>4. Listed(f) \in Nat /\ Held(f) \in Nat /\ If(g = f) \in Nat /\ If(T!Idle.h.file = f) = 0
    BY Countable, NoneIsNoFile DEF If
  <2> HIDE DEF g, old
  <2> QED BY <2>1, <2>2, <2>3, <2>4
<1> QED BY <1>2, <1>5, <1>6, QuietStep

(* A table that is replaced.                                               *)
LEMMA ReplacedKeeps ==
  ASSUME TableInv, NEW p \in Processes, NEW tab \in Seq(HandleType), Len(tab) <= MaxHandles,
         TableTypeOK', Placed', thr' = thr, table' = [table EXCEPT ![p] = tab],
         NEW change \in [OpenFiles -> Int], T!Reference(file, change),
         \A f \in OpenFiles : change[f] = T!Count(tab, f) - T!Count(table[p], f),
         \A f \in OpenFiles : change[f] # 0 => file[f].ref > 0
  PROVE  TableInv'
<1>1. TableTypeOK  BY DEF TableInv
<1>2. ASSUME NEW f \in OpenFiles PROVE Held(f)' + Listed(f)' = Held(f) + Listed(f) + change[f]
  <2>1. /\ Listed(f)' = Listed(f) - T!Count(table[p], f) + T!Count(tab, f)
        /\ T!Count(table[p], f) \in Nat /\ T!Count(tab, f) \in Nat
    BY <1>1, EntriesMove
  <2>2. Held(f)' = Held(f) /\ Listed(f) \in Nat /\ Held(f) \in Nat  BY SameCounts, Countable
  <2>3. change[f] = T!Count(tab, f) - T!Count(table[p], f)  OBVIOUS
  <2> QED BY <2>1, <2>2, <2>3
<1>3. \A s \in Callers : thr'[s].op = "node" => thr'[s] = thr[s]  OBVIOUS
<1> QED BY <1>2, <1>3, PlainStep

LEMMA CountedIsKept ==
  ASSUME TableInv, NEW p \in Processes, NEW f \in OpenFiles, T!Count(table[p], f) # 0
  PROVE  file[f].ref > 0
<1>1. TableTypeOK /\ T!Referenced  BY DEF TableInv
<1>2. table[p] \in Seq(HandleType)  BY <1>1, TableBasics
<1>3. T!Count(table[p], f) \in Nat /\ (T!Count(table[p], f) > 0 => \E i \in DOMAIN table[p] : table[p][i].file = f)
  BY <1>2, CountIsNat
<1>4. PICK i \in DOMAIN table[p] : table[p][i].file = f  BY <1>3
<1> QED BY <1>1, <1>4, EntryCounts

LEMMA ChildKeeps ==
  ASSUME TableInv, NEW t \in Callers, NEW q \in Processes, NEW whole \in BOOLEAN, T!Child(t, q, whole)
  PROVE  TableInv'
<1>1. TableTypeOK /\ Placed /\ T!Referenced  BY DEF TableInv
<1>3. TableTypeOK' /\ Placed' /\ thr' = thr /\ table[q] = <<>> /\ Inherits(q, table[Own[t]])
  BY <1>1, ChildDoes
<1>2. PICK tab \in Seq(HandleType), change \in [OpenFiles -> Int] :
        /\ Len(tab) <= MaxHandles /\ table' = [table EXCEPT ![q] = tab]
        /\ T!Reference(file, change) /\ \A f \in OpenFiles : change[f] = T!Count(tab, f)
        /\ \A i \in DOMAIN tab : i \in DOMAIN table[Own[t]]
                                 /\ (tab[i] = table[Own[t]][i] \/ tab[i] = T!Null)
  BY <1>3 DEF Inherits
<1>4. Own[t] \in Processes  BY <1>1, TableBasics
<1>5. \A f : T!Count(tab, f) \in Nat /\ (T!Count(tab, f) > 0 => \E i \in DOMAIN tab : tab[i].file = f)
  BY CountIsNat
<1>6. \A f \in OpenFiles : T!Count(table[q], f) = 0
  <2> TAKE f \in OpenFiles
  <2>1. <<>> \in Seq(HandleType) /\ DOMAIN <<>> = {}  OBVIOUS
  <2>2. T!Count(<<>>, f) \in Nat /\ ~(T!Count(<<>>, f) > 0)  BY <2>1, CountIsNat
  <2> QED BY <1>3, <2>2
<1>7. ASSUME NEW f \in OpenFiles
      PROVE  /\ change[f] = T!Count(tab, f) - T!Count(table[q], f)
             /\ change[f] # 0 => file[f].ref > 0
  <2>1. change[f] = T!Count(tab, f)  BY <1>2
  <2>2. ASSUME T!Count(tab, f) # 0 PROVE file[f].ref > 0
    <3>1. PICK i \in DOMAIN tab : tab[i].file = f  BY <1>5, <2>2
    <3>2. T!Null.file # f  BY TableAssumption DEF T!Null
    <3>3. i \in DOMAIN table[Own[t]] /\ table[Own[t]][i].file = f  BY <1>2, <3>1, <3>2
    <3> QED BY <1>1, <1>4, <3>3, EntryCounts
  <2> QED BY <1>5, <1>6, <2>1, <2>2
<1>8. Len(tab) <= MaxHandles /\ table' = [table EXCEPT ![q] = tab] /\ T!Reference(file, change)  BY <1>2
<1>9. TableTypeOK' /\ Placed' /\ thr' = thr  BY <1>3
<1>10. \A f \in OpenFiles : change[f] = T!Count(tab, f) - T!Count(table[q], f)  BY <1>7
<1>11. \A f \in OpenFiles : change[f] # 0 => file[f].ref > 0  BY <1>7
<1> QED BY <1>8, <1>9, <1>10, <1>11, ReplacedKeeps

LEMMA ExecveKeeps ==
  ASSUME TableInv, NEW t \in Callers, T!Execve(t)
  PROVE  TableInv'
<1>1. TableTypeOK /\ Placed  BY DEF TableInv
<1> DEFINE p == Own[t]
<1>2. PICK tab \in Seq(HandleType) :
        /\ Len(tab) <= MaxHandles /\ table' = [table EXCEPT ![p] = tab]
        /\ T!Reference(file, [f \in OpenFiles |-> T!Count(tab, f) - T!Count(table[p], f)])
        /\ \A f \in OpenFiles : T!Count(tab, f) <= T!Count(table[p], f)
  BY <1>1, ExecveDoes
<1>3. TableTypeOK' /\ Placed' /\ thr' = thr  BY <1>1, ExecveDoes
<1>4. p \in Processes /\ table[p] \in Seq(HandleType)  BY <1>1, TableBasics
<1>5. \A f : T!Count(tab, f) \in Nat /\ T!Count(table[p], f) \in Nat  BY <1>4, CountIsNat
<1> DEFINE change == [f \in OpenFiles |-> T!Count(tab, f) - T!Count(table[p], f)]
<1>7. ASSUME NEW f \in OpenFiles
      PROVE  /\ change[f] = T!Count(tab, f) - T!Count(table[p], f)
             /\ change[f] # 0 => file[f].ref > 0
  <2>1. change[f] = T!Count(tab, f) - T!Count(table[p], f)  OBVIOUS
  <2>2. T!Count(table[p], f) # 0 => file[f].ref > 0  BY <1>4, CountedIsKept
  <2>3. T!Count(tab, f) <= T!Count(table[p], f)  BY <1>2
  <2> HIDE DEF change, p
  <2> QED BY <1>5, <2>1, <2>2, <2>3
<1>8. change \in [OpenFiles -> Int] /\ T!Reference(file, change)  BY <1>2, <1>5
<1> HIDE DEF change, p
<1> QED BY <1>2, <1>3, <1>4, <1>7, <1>8, ReplacedKeeps

LEMMA ExitKeeps ==
  ASSUME TableInv, NEW t \in Callers, T!Exit(t)
  PROVE  TableInv'
<1>1. TableTypeOK /\ Placed  BY DEF TableInv
<1> DEFINE p == Own[t]
<1>2. /\ TableTypeOK' /\ Placed' /\ thr' = thr /\ table' = [table EXCEPT ![p] = <<>>]
      /\ T!Reference(file, [f \in OpenFiles |-> -T!Count(table[p], f)])
  BY <1>1, ExitDoes
<1>3. <<>> \in Seq(HandleType) /\ Len(<<>>) <= MaxHandles /\ DOMAIN <<>> = {}  BY TableAssumption
<1>4. p \in Processes /\ table[p] \in Seq(HandleType)  BY <1>1, TableBasics
<1>5. \A f : T!Count(<<>>, f) = 0 /\ T!Count(table[p], f) \in Nat
  <2> TAKE f
  <2>1. T!Count(<<>>, f) \in Nat /\ ~(T!Count(<<>>, f) > 0)  BY <1>3, CountIsNat
  <2>2. T!Count(table[p], f) \in Nat  BY <1>4, CountIsNat
  <2> QED BY <2>1, <2>2
<1> DEFINE change == [f \in OpenFiles |-> -T!Count(table[p], f)]
<1>7. ASSUME NEW f \in OpenFiles
      PROVE  /\ change[f] = T!Count(<<>>, f) - T!Count(table[p], f)
             /\ change[f] # 0 => file[f].ref > 0
  <2>1. change[f] = -T!Count(table[p], f)  OBVIOUS
  <2>2. T!Count(table[p], f) # 0 => file[f].ref > 0  BY <1>4, CountedIsKept
  <2> HIDE DEF change, p
  <2> QED BY <1>5, <2>1, <2>2
<1>8. change \in [OpenFiles -> Int] /\ T!Reference(file, change)  BY <1>2, <1>5
<1> HIDE DEF change, p
<1> QED BY <1>2, <1>3, <1>4, <1>7, <1>8, ReplacedKeeps
-----------------------------------------------------------------------------
(* The three steps that open a file and move its position under the lock.  *)
LEMMA OpenNodeKeeps ==
  ASSUME TableInv, NEW t \in Callers, NEW n \in Inodes, NEW f \in OpenFiles, T!OpenNode(t, n, f)
  PROVE  TableInv'
<1>1. TableTypeOK /\ Placed /\ Delivered /\ T!Referenced  BY DEF TableInv
<1>2. /\ TableTypeOK' /\ Placed' /\ UNCHANGED <<table, taken, again>>
      /\ thr[t] = T!Idle /\ file[f].ref = 0 /\ file[f].node = None
      /\ file'[f].ref = 1 /\ file'[f].node = n /\ ~file'[f].moved
      /\ \A g \in OpenFiles : g # f => file'[g] = file[g]
      /\ \A m \in Inodes : opens'[m] = IF m = n THEN opens[m] + 1 ELSE opens[m]
      /\ thr'[t].h.file = f /\ thr'[t].op # "node" /\ \A s \in Callers \ {t} : thr'[s] = thr[s]
  BY <1>1, OpenNodeDoes
<1>4. /\ \A g : Held(g)' = Held(g) - If(thr[t].h.file = g) + If(f = g)
      /\ \A s \in Callers : thr'[s].op = "node" => thr'[s] = thr[s]
  <2>1. PICK row \in CallType : row = thr'[t]  BY <1>2 DEF TableTypeOK
  <2>2. \A s \in Callers : s # t => thr'[s] = thr[s]  BY <1>2
  <2>3. \A g : Held(g)' = Held(g) - If(thr[t].h.file = g) + If(row.h.file = g)
    <3> TAKE g
    <3> QED BY <2>1, <2>2, HoldersMove
  <2> QED BY <1>2, <2>1, <2>2, <2>3
<1>7. n # None /\ n \in Inodes  BY TableAssumption
<1>8. ASSUME NEW g \in OpenFiles
      PROVE  file'[g].ref = Held(g)' + Listed(g)' /\ (file'[g].ref > 0) = (file'[g].node # None)
  <2>1. Held(g)' = Held(g) + If(f = g)
    <3>1. Held(g)' = Held(g) - If(T!Idle.h.file = g) + If(f = g)  BY <1>2, <1>4
    <3>2. If(T!Idle.h.file = g) = 0 /\ Held(g) \in Nat /\ If(f = g) \in Nat  BY NoneIsNoFile, Countable DEF If
    <3> QED BY <3>1, <3>2
  <2>2. /\ Listed(g)' = Listed(g) /\ Listed(g) \in Nat /\ Held(g) \in Nat
        /\ file[g].ref = Held(g) + Listed(g) /\ (file[g].ref > 0) = (file[g].node # None)
    BY <1>1, <1>2, SameCounts, Countable, ReferencedMeans
  <2>3. CASE g = f
    <3>1. If(f = g) = 1  BY <2>3 DEF If
    <3>2. Held(g) + Listed(g) = 0  BY <1>2, <2>2, <2>3
    <3> QED BY <1>2, <1>7, <2>1, <2>2, <2>3, <3>1, <3>2
  <2>4. CASE g # f
    <3>1. If(f = g) = 0  BY <2>4 DEF If
    <3> QED BY <1>2, <2>1, <2>2, <2>4, <3>1
  <2> QED BY <2>3, <2>4
<1>9. ASSUME NEW m \in Inodes PROVE opens'[m] = Cardinality(OpenOn(m)')
  <2>1. OpenOn(m)' = IF m = n THEN OpenOn(m) \cup {f} ELSE OpenOn(m)
    BY <1>2, <1>7, TableAssumption DEF OpenOn
  <2>2. f \notin OpenOn(m)
    <3>1. m # None  BY TableAssumption
    <3> QED BY <1>2, <3>1 DEF OpenOn
  <2>3. opens[m] = Cardinality(OpenOn(m)) /\ IsFiniteSet(OpenOn(m))  BY <1>1, ReferencedMeans, Countable
  <2>4. opens'[m] = IF m = n THEN opens[m] + 1 ELSE opens[m]  BY <1>1, <1>2 DEF TableTypeOK
  <2>5. Cardinality(OpenOn(m) \cup {f}) = Cardinality(OpenOn(m)) + 1  BY <2>2, <2>3, OneElement
  <2> QED BY <2>1, <2>3, <2>4, <2>5
<1>10. T!Referenced'  BY <1>8, <1>9, ReferencedNext
<1>11. ASSUME NEW g \in OpenFiles
       PROVE  /\ file'[g].ref = 0 => file'[g] = T!Free /\ taken'[g] = {}
              /\ ~file'[g].moved => taken'[g] \subseteq 0 .. file'[g].pos - 1
  <2>1. /\ file[g].ref = 0 => file[g] = T!Free /\ taken[g] = {}
        /\ ~file[g].moved => taken[g] \subseteq 0 .. file[g].pos - 1
    BY <1>1 DEF Delivered
  <2>2. CASE g = f
    <3>1. taken'[g] = {}  BY <1>2, <2>1, <2>2
    <3> QED BY <1>2, <2>2, <3>1
  <2> QED BY <1>2, <2>1, <2>2
<1>12. ASSUME NEW s \in Callers, thr'[s].op = "node"
       PROVE  /\ file'[thr'[s].h.file].lock = s
              /\ ~file'[thr'[s].h.file].moved => thr'[s].at = file'[thr'[s].h.file].pos
  <2>1. thr'[s] = thr[s]  BY <1>4, <1>12
  <2>2. PICK g \in OpenFiles : g = thr[s].h.file
    <3>1. thr[s].h.file # None /\ thr[s] \in CallType  BY <1>1, <1>12, <2>1, TableBasics DEF Placed
    <3> QED BY <3>1 DEF CallType, HandleType
  <2>3. file[g].ref > 0  BY <1>1, <2>2, HolderCounts
  <2>4. file'[g] = file[g]  BY <1>2, <2>3
  <2>5. file[g].lock = s /\ (~file[g].moved => thr[s].at = file[g].pos)  BY <1>1, <1>12, <2>1, <2>2 DEF Delivered
  <2> QED BY <2>1, <2>2, <2>4, <2>5
<1>13. Delivered'  BY <1>11, <1>12 DEF Delivered
<1> QED BY <1>2, <1>10, <1>13 DEF TableInv

LEMMA TransferBeginKeeps ==
  ASSUME TableInv, NEW t \in Callers, T!TransferBegin(t)
  PROVE  TableInv'
<1>1. TableTypeOK /\ Placed /\ Delivered /\ T!Referenced  BY DEF TableInv
<1>2. /\ TableTypeOK' /\ Placed' /\ UNCHANGED <<table, opens, taken>>
      /\ thr[t].h.file \in OpenFiles /\ file[thr[t].h.file].lock = None
      /\ file' = [file EXCEPT ![thr[t].h.file] = [file[thr[t].h.file] EXCEPT !.lock = t]]
      /\ thr' = [thr EXCEPT ![t] = thr'[t]] /\ thr'[t].h = thr[t].h
      /\ thr'[t].op = "node" /\ thr'[t].at = file[thr[t].h.file].pos
  BY <1>1, TransferBeginDoes
<1>3. PICK f \in OpenFiles : f = thr[t].h.file  BY <1>2
<1>4. \A s \in Callers : s # t => thr'[s] = thr[s]  BY <1>1, <1>2 DEF TableTypeOK
<1>5. \A g : T!Holders(g)' = T!Holders(g) /\ T!Entries(g)' = T!Entries(g)
  BY <1>2, <1>4 DEF T!Holders, T!Entries
<1>6. /\ file'[f].lock = t /\ file'[f].pos = file[f].pos /\ file'[f].moved = file[f].moved
      /\ file'[f].ref = file[f].ref /\ file'[f].node = file[f].node
      /\ \A g \in OpenFiles : g # f => file'[g] = file[g]
  <2>1. file \in [OpenFiles -> OpenFileType] /\ file[f] \in OpenFileType  BY <1>1, TableBasics DEF TableTypeOK
  <2>2. file'[f] = [file[f] EXCEPT !.lock = t] /\ \A g \in OpenFiles : g # f => file'[g] = file[g]
    BY <1>2, <1>3, <2>1
  <2> QED BY <2>1, <2>2 DEF OpenFileType
<1>7. T!Referenced'
  <2>1. \A g : Held(g)' = Held(g) /\ Listed(g)' = Listed(g)  BY <1>5 DEF Held, Listed
  <2>2. \A n : OpenOn(n)' = OpenOn(n)  BY <1>6 DEF OpenOn
  <2>3. \A g \in OpenFiles : file'[g].ref = file[g].ref /\ file'[g].node = file[g].node  BY <1>6, SMTT(60)
  <2>4. opens' = opens  BY <1>2
  <2>5. /\ \A g \in OpenFiles : file[g].ref = Held(g) + Listed(g) /\ (file[g].ref > 0) = (file[g].node # None)
        /\ \A n \in Inodes : opens[n] = Cardinality(OpenOn(n))
    BY <1>1, ReferencedMeans
  <2>6. \A g \in OpenFiles :
          file'[g].ref = Held(g)' + Listed(g)' /\ (file'[g].ref > 0) = (file'[g].node # None)
    BY <2>1, <2>3, <2>5
  <2>7. \A n \in Inodes : opens'[n] = Cardinality(OpenOn(n)')  BY <2>2, <2>4, <2>5
  <2> QED BY <2>6, <2>7, ReferencedNext
<1>8. ASSUME NEW g \in OpenFiles
      PROVE  /\ file'[g].ref = 0 => file'[g] = T!Free /\ taken'[g] = {}
             /\ ~file'[g].moved => taken'[g] \subseteq 0 .. file'[g].pos - 1
  <2>1. /\ file[g].ref = 0 => file[g] = T!Free /\ taken[g] = {}
        /\ ~file[g].moved => taken[g] \subseteq 0 .. file[g].pos - 1
    BY <1>1, ZenonT(60) DEF Delivered
  <2>2. taken'[g] = taken[g]  BY <1>2
  <2>3. CASE g = f
    <3>1. file[f].ref > 0  BY <1>1, <1>3, HolderCounts
    <3>2. file'[g].ref # 0 /\ file'[g].moved = file[g].moved /\ file'[g].pos = file[g].pos
      <4>1. file[f].ref # 0  BY <3>1
      <4> QED BY <1>6, <2>3, <4>1
    <3> QED BY <2>1, <2>2, <3>2
  <2>4. CASE g # f
    <3>1. file'[g] = file[g]  BY <1>6, <2>4
    <3> QED BY <2>1, <2>2, <3>1
  <2> QED BY <2>3, <2>4
<1>9. ASSUME NEW s \in Callers, thr'[s].op = "node"
      PROVE  /\ file'[thr'[s].h.file].lock = s
             /\ ~file'[thr'[s].h.file].moved => thr'[s].at = file'[thr'[s].h.file].pos
  <2>1. CASE s = t  BY <1>2, <1>3, <1>6, <2>1
  <2>2. CASE s # t
    <3>1. thr'[s] = thr[s]  BY <1>4, <2>2
    <3>2. PICK g \in OpenFiles : g = thr[s].h.file
      <4>1. thr[s].h.file # None /\ thr[s] \in CallType  BY <1>1, <1>9, <3>1, TableBasics DEF Placed
      <4> QED BY <4>1 DEF CallType, HandleType
    <3>3. file[g].lock = s /\ (~file[g].moved => thr[s].at = file[g].pos)  BY <1>1, <1>9, <3>1, <3>2 DEF Delivered
    <3>4. g # f  BY <1>2, <1>3, <3>3, TableAssumption
    <3> QED BY <1>6, <3>1, <3>2, <3>3, <3>4
  <2> QED BY <2>1, <2>2
<1>10. Delivered'  BY <1>8, <1>9, ZenonT(60) DEF Delivered
<1> QED BY <1>2, <1>7, <1>10 DEF TableInv
(* What the node moved lies where nobody has been, and the position passes *)
(* it before the lock is free.                                             *)
LEMMA TransferEndDoes ==
  ASSUME TableTypeOK, Placed, NEW t \in Callers, NEW k \in 0 .. 1, T!TransferEnd(t, k)
  PROVE  /\ TableTypeOK' /\ Placed' /\ table' = table /\ thr[t].op = "node" /\ thr[t].h.file \in OpenFiles
         /\ thr' = [thr EXCEPT ![t] = T!Idle]
         /\ LET f == thr[t].h.file
                span == thr[t].at .. thr[t].at + k - 1
            IN  /\ again' = IF span \cap taken[f] # {} /\ ~file[f].moved THEN again \cup {f} ELSE again
                /\ \A g \in OpenFiles : g # f => file'[g] = file[g] /\ taken'[g] = taken[g]
                /\ file[f].ref = 1 => /\ file'[f] = T!Free /\ taken'[f] = {}
                                      /\ opens' = [opens EXCEPT ![file[f].node] = @ - 1]
                /\ file[f].ref # 1 => /\ file'[f].pos = file[f].pos + k /\ file'[f].ref = file[f].ref - 1
                                      /\ file'[f].node = file[f].node /\ file'[f].moved = file[f].moved
                                      /\ taken'[f] = taken[f] \cup span /\ opens' = opens
<1> DEFINE f == thr[t].h.file
<1>1. f \in OpenFiles
  <2>1. thr[t].op = "node"  BY DEF T!TransferEnd, T!Calls
  <2>2. thr[t].h.file # None /\ thr[t] \in CallType  BY <2>1, TableBasics DEF Placed
  <2> QED BY <2>2 DEF CallType, HandleType
<1> DEFINE span == thr[t].at .. thr[t].at + k - 1
           e == [file[f] EXCEPT !.pos = @ + k, !.lock = None]
           gone == e.ref = 1
           z == IF gone THEN T!Free ELSE [e EXCEPT !.ref = e.ref - 1]
<1>2. /\ thr[t].op = "node" /\ T!Returns(t) /\ table' = table
      /\ again' = IF span \cap taken[f] # {} /\ ~file[f].moved THEN again \cup {f} ELSE again
  BY DEF T!TransferEnd, T!Calls
<1>a. /\ file' = [file EXCEPT ![f] = z]
      /\ opens' = IF gone THEN [opens EXCEPT ![e.node] = @ - 1] ELSE opens
  BY ZenonT(60) DEF T!TransferEnd
<1>b. taken' = [taken EXCEPT ![f] = IF gone THEN {} ELSE @ \cup span]
  BY DEF T!TransferEnd
<1> HIDE DEF f
<1>3. file \in [OpenFiles -> OpenFileType] /\ file[f] \in OpenFileType /\ taken \in [OpenFiles -> SUBSET Int]
      /\ opens \in [Inodes -> Int] /\ thr[t].at \in Nat /\ thr[t] \in CallType
  BY <1>1, TableBasics DEF TableTypeOK, CallType
<1>4. /\ e \in OpenFileType /\ e.pos = file[f].pos + k /\ e.ref = file[f].ref /\ e.node = file[f].node
      /\ e.moved = file[f].moved
  <2>1. file[f].pos + k \in Nat  BY <1>3 DEF OpenFileType
  <2> QED BY <1>3, <2>1 DEF OpenFileType
<1> HIDE DEF e
<1>7. /\ [e EXCEPT !.ref = e.ref - 1] \in OpenFileType /\ [e EXCEPT !.ref = e.ref - 1].ref = e.ref - 1
      /\ [e EXCEPT !.ref = e.ref - 1].pos = e.pos /\ [e EXCEPT !.ref = e.ref - 1].node = e.node
      /\ [e EXCEPT !.ref = e.ref - 1].moved = e.moved
  BY <1>4 DEF OpenFileType
<1>8. /\ file'[f] = IF gone THEN T!Free ELSE [e EXCEPT !.ref = e.ref - 1]
      /\ \A g \in OpenFiles : g # f => file'[g] = file[g]
      /\ file' \in [OpenFiles -> OpenFileType]
  <2>1. z \in OpenFileType  BY <1>7, TableBasics
  <2> HIDE DEF z
  <2>3. file'[f] = z /\ (\A g \in OpenFiles : g # f => file'[g] = file[g]) /\ file' \in [OpenFiles -> OpenFileType]
    BY <1>1, <1>3, <1>a, <2>1
  <2> QED BY <2>3 DEF z
<1>9. /\ taken'[f] = (IF gone THEN {} ELSE taken[f] \cup span) /\ taken' \in [OpenFiles -> SUBSET Int]
      /\ \A g \in OpenFiles : g # f => taken'[g] = taken[g]
  <2>1. span \subseteq Int  BY <1>3
  <2> HIDE DEF span, gone
  <2> QED BY <1>1, <1>b, <1>3, <2>1
<1>10. gone <=> file[f].ref = 1  BY <1>4
<1>11. opens' = (IF gone THEN [opens EXCEPT ![file[f].node] = @ - 1] ELSE opens) /\ opens' \in [Inodes -> Int]
  <2>1. opens' = IF gone THEN [opens EXCEPT ![file[f].node] = @ - 1] ELSE opens  BY <1>1, <1>a, <1>4
  <2>2. \A n : [opens EXCEPT ![n] = @ - 1] \in [Inodes -> Int]
    <3> TAKE n
    <3>1. CASE n \in Inodes  BY <1>3, <3>1
    <3>2. CASE n \notin Inodes
      <4>1. [opens EXCEPT ![n] = @ - 1] = opens  BY <1>3, <3>2
      <4> QED BY <1>3, <4>1
    <3> QED BY <3>1, <3>2
  <2> HIDE DEF gone
  <2> QED BY <1>3, <2>1, <2>2
<1> HIDE DEF gone, z
<1>12. TableTypeOK' /\ Placed'  BY <1>2, <1>8, <1>9, <1>11, CallEnds
<1>13. thr' = [thr EXCEPT ![t] = T!Idle]  BY <1>2, ReturnsDoes
<1>14. file[f].ref = 1 => /\ file'[f] = T!Free /\ taken'[f] = {}
                          /\ opens' = [opens EXCEPT ![file[f].node] = @ - 1]
  BY <1>8, <1>9, <1>10, <1>11
<1>15. file[f].ref # 1 => /\ file'[f].pos = file[f].pos + k /\ file'[f].ref = file[f].ref - 1
                          /\ file'[f].node = file[f].node /\ file'[f].moved = file[f].moved
                          /\ taken'[f] = taken[f] \cup span /\ opens' = opens
  BY <1>4, <1>7, <1>8, <1>9, <1>10, <1>11
<1> QED BY <1>1, <1>2, <1>8, <1>9, <1>12, <1>13, <1>14, <1>15 DEF f
LEMMA TransferEndKeeps ==
  ASSUME TableInv, NEW t \in Callers, NEW k \in 0 .. 1, T!TransferEnd(t, k)
  PROVE  TableInv' /\ again' = again
<1>1. TableTypeOK /\ Placed /\ Delivered /\ T!Referenced  BY ZenonT(60) DEF TableInv
<1>2. /\ TableTypeOK' /\ Placed' /\ table' = table /\ thr[t].op = "node" /\ thr[t].h.file \in OpenFiles
      /\ thr' = [thr EXCEPT ![t] = T!Idle]
  BY <1>1, TransferEndDoes
<1>3. PICK f \in OpenFiles : f = thr[t].h.file  BY <1>2, SMTT(60)
<1> DEFINE span == thr[t].at .. thr[t].at + k - 1
<1>4. /\ again' = IF span \cap taken[f] # {} /\ ~file[f].moved THEN again \cup {f} ELSE again
      /\ \A g \in OpenFiles : g # f => file'[g] = file[g] /\ taken'[g] = taken[g]
      /\ file[f].ref = 1 => /\ file'[f] = T!Free /\ taken'[f] = {}
                            /\ opens' = [opens EXCEPT ![file[f].node] = @ - 1]
      /\ file[f].ref # 1 => /\ file'[f].pos = file[f].pos + k /\ file'[f].ref = file[f].ref - 1
                            /\ file'[f].node = file[f].node /\ file'[f].moved = file[f].moved
                            /\ taken'[f] = taken[f] \cup span /\ opens' = opens
  BY <1>1, <1>3, TransferEndDoes
<1>5. /\ file[f].lock = t /\ (~file[f].moved => thr[t].at = file[f].pos)
      /\ ~file[f].moved => taken[f] \subseteq 0 .. file[f].pos - 1
  BY <1>1, <1>2, <1>3 DEF Delivered
<1>6. file[f].ref > 0 /\ file[f].pos \in Nat /\ thr[t].at \in Nat /\ file[f] \in OpenFileType
  <2>1. file[f].ref > 0  BY <1>1, <1>3, HolderCounts
  <2> QED BY <1>1, <2>1, TableBasics DEF OpenFileType, CallType
<1>7. again' = again
  <2>1. ~file[f].moved => span \cap taken[f] = {}  BY <1>5, <1>6
  <2> QED BY <1>4, <2>1
<1>8. /\ \A g : Held(g)' = Held(g) - If(f = g) + If(T!Idle.h.file = g)
      /\ \A s \in Callers : thr'[s].op = "node" => thr'[s] = thr[s]
  <2>1. T!Idle \in CallType /\ T!Idle.op # "node"  BY <1>1, TableBasics
  <2>2. /\ \A g : Held(g)' = Held(g) - If(thr[t].h.file = g) + If(T!Idle.h.file = g)
        /\ \A s \in Callers : thr'[s].op = "node" => thr'[s] = thr[s]
    BY <1>1, <1>2, <2>1, RowMoves
  <2> QED BY <1>3, <2>2
<1>9. ASSUME NEW g \in OpenFiles
      PROVE  file'[g].ref = Held(g)' + Listed(g)' /\ (file'[g].ref > 0) = (file'[g].node # None)
  <2>1. /\ Listed(g)' = Listed(g) /\ Listed(g) \in Nat /\ Held(g) \in Nat
        /\ file[g].ref = Held(g) + Listed(g) /\ (file[g].ref > 0) = (file[g].node # None)
    BY <1>1, <1>2, SameCounts, Countable, ReferencedMeans
  <2>2. Held(g)' = Held(g) - If(f = g)
    <3>1. Held(g)' = Held(g) - If(f = g) + If(T!Idle.h.file = g)  BY <1>8
    <3>2. If(T!Idle.h.file = g) = 0 /\ Held(g) \in Nat /\ If(f = g) \in Nat  BY NoneIsNoFile, Countable DEF If
    <3> QED BY <3>1, <3>2
  <2>3. CASE g = f /\ file[f].ref = 1
    <3>1. If(f = g) = 1  BY <2>3 DEF If
    <3>2. file'[g].ref = 0 /\ file'[g].node = None  BY <1>1, <1>4, <2>3, TableBasics
    <3> QED BY <2>1, <2>2, <2>3, <3>1, <3>2
  <2>4. CASE g = f /\ file[f].ref # 1
    <3>1. If(f = g) = 1  BY <2>4 DEF If
    <3>2. file'[g].ref = file[g].ref - 1 /\ file'[g].node = file[g].node  BY <1>4, <2>4
    <3> QED BY <1>6, <2>1, <2>2, <2>4, <3>1, <3>2
  <2>5. CASE g # f
    <3>1. If(f = g) = 0  BY <2>5 DEF If
    <3> QED BY <1>4, <2>1, <2>2, <2>5, <3>1
  <2> QED BY <2>3, <2>4, <2>5
<1>10. ASSUME NEW m \in Inodes PROVE opens'[m] = Cardinality(OpenOn(m)')
  <2>1. opens[m] = Cardinality(OpenOn(m)) /\ IsFiniteSet(OpenOn(m))  BY <1>1, ReferencedMeans, Countable
  <2>2. CASE file[f].ref = 1
    <3>1. file'[f].node = None /\ m # None  BY <1>1, <1>4, <2>2, TableBasics, TableAssumption
    <3>2. OpenOn(m)' = IF file[f].node = m THEN OpenOn(m) \ {f} ELSE OpenOn(m)
      BY <1>4, <3>1 DEF OpenOn
    <3>3. opens'[m] = IF file[f].node = m THEN opens[m] - 1 ELSE opens[m]
      BY <1>1, <1>4, <2>2 DEF TableTypeOK
    <3>4. file[f].node = m => f \in OpenOn(m)  BY DEF OpenOn
    <3>5. f \in OpenOn(m) => Cardinality(OpenOn(m) \ {f}) = Cardinality(OpenOn(m)) - 1
      BY <2>1, OneElement
    <3> QED BY <2>1, <3>2, <3>3, <3>4, <3>5
  <2>3. CASE file[f].ref # 1
    <3>1. OpenOn(m)' = OpenOn(m)  BY <1>4, <2>3 DEF OpenOn
    <3> QED BY <1>4, <2>1, <2>3, <3>1
  <2> QED BY <2>2, <2>3
<1>11. T!Referenced'  BY <1>9, <1>10, ReferencedNext
<1>12. ASSUME NEW g \in OpenFiles
       PROVE  /\ file'[g].ref = 0 => file'[g] = T!Free /\ taken'[g] = {}
              /\ ~file'[g].moved => taken'[g] \subseteq 0 .. file'[g].pos - 1
  <2>1. /\ file[g].ref = 0 => file[g] = T!Free /\ taken[g] = {}
        /\ ~file[g].moved => taken[g] \subseteq 0 .. file[g].pos - 1
    BY <1>1 DEF Delivered
  <2>2. CASE g = f /\ file[f].ref = 1  BY <1>4, <2>2
  <2>3. CASE g = f /\ file[f].ref # 1
    <3>1. file'[f].ref # 0  BY <1>4, <1>6, <2>3 DEF OpenFileType
    <3>2. ASSUME ~file'[f].moved PROVE taken'[f] \subseteq 0 .. file'[f].pos - 1
      <4>1. taken[f] \subseteq 0 .. file[f].pos - 1 /\ thr[t].at = file[f].pos  BY <1>4, <1>5, <2>3, <3>2
      <4>2. taken'[f] = taken[f] \cup span /\ file'[f].pos = file[f].pos + k  BY <1>4, <2>3
      <4> DEFINE top == file[f].pos + k
      <4>3. span \subseteq 0 .. top - 1  BY <1>6, <4>1
      <4>4. 0 .. file[f].pos - 1 \subseteq 0 .. top - 1  BY <1>6
      <4>5. file'[f].pos = top  BY <4>2
      <4> HIDE DEF span, top
      <4>6. taken'[f] \subseteq 0 .. top - 1  BY <4>1, <4>2, <4>3, <4>4
      <4> QED BY <4>5, <4>6
    <3> QED BY <2>3, <3>1, <3>2
  <2>4. CASE g # f  BY <1>4, <2>1, <2>4
  <2> QED BY <2>2, <2>3, <2>4
<1>13. ASSUME NEW s \in Callers, thr'[s].op = "node"
       PROVE  /\ file'[thr'[s].h.file].lock = s
              /\ ~file'[thr'[s].h.file].moved => thr'[s].at = file'[thr'[s].h.file].pos
  <2>1. thr'[s] = thr[s]  BY <1>8, <1>13
  <2>2. PICK g \in OpenFiles : g = thr[s].h.file
    <3>1. thr[s].h.file # None /\ thr[s] \in CallType  BY <1>1, <1>13, <2>1, TableBasics DEF Placed
    <3> QED BY <3>1 DEF CallType, HandleType
  <2>3. file[g].lock = s /\ (~file[g].moved => thr[s].at = file[g].pos)  BY <1>1, <1>13, <2>1, <2>2 DEF Delivered
  <2>4. s # t
    <3>1. thr'[t] = T!Idle /\ T!Idle.op = "none"  BY <1>1, <1>2, TableBasics DEF TableTypeOK
    <3> QED BY <1>13, <3>1
  <2>5. g # f  BY <1>5, <2>3, <2>4
  <2> QED BY <1>4, <2>1, <2>2, <2>3, <2>5
<1>14. Delivered'  BY <1>12, <1>13 DEF Delivered
<1> QED BY <1>2, <1>7, <1>11, <1>14 DEF TableInv
-----------------------------------------------------------------------------
LEMMA TableInit == T!Init => TableInv /\ T!PositionShared
<1> SUFFICES ASSUME T!Init PROVE TableInv /\ T!PositionShared  OBVIOUS
<1> DEFINE std == T!Std
           node0 == CHOOSE n \in Inodes : TRUE
           entry == [T!Free EXCEPT !.node = node0, !.ref = 1]
           tab == <<[file |-> std, cloexec |-> FALSE], T!Null>>
<1>1. /\ table = [p \in Processes |-> IF p = T!First THEN tab ELSE <<>>]
      /\ file = [f \in OpenFiles |-> IF f = std THEN entry ELSE T!Free]
      /\ opens = [n \in Inodes |-> T!Cardinality({f \in OpenFiles : file[f].node = n})]
      /\ thr = [t \in Callers |-> T!Idle] /\ taken = [f \in OpenFiles |-> {}] /\ again = {}
  BY DEF T!Init
<1>2. std \in OpenFiles /\ node0 \in Inodes /\ T!First \in Processes /\ None \notin OpenFiles \cup Inodes
  BY TableAssumption DEF T!Std, T!First
<1>3. /\ T!Null \in HandleType /\ T!Null.file = None
  BY DEF T!Null, HandleType
<1>4. /\ T!Idle \in CallType /\ T!Idle.op = "none" /\ T!Idle.h = T!Null
  <2> HIDE DEF T!Null
  <2> QED BY <1>3 DEF T!Idle, CallType, CallOps
<1>5. T!Free \in OpenFileType /\ T!Free.ref = 0 /\ T!Free.node = None /\ T!Free.pos = 0 /\ ~T!Free.moved
  BY DEF T!Free, OpenFileType
<1> HIDE DEF std, node0
<1>6. entry \in OpenFileType /\ entry.ref = 1 /\ entry.node = node0
  <2>1. \A e \in OpenFileType : [e EXCEPT !.node = node0] \in OpenFileType  BY <1>2 DEF OpenFileType
  <2>2. \A e \in OpenFileType : [e EXCEPT !.ref = 1] \in OpenFileType  BY DEF OpenFileType
  <2>3. \A e \in OpenFileType : [e EXCEPT !.node = node0, !.ref = 1] = [[e EXCEPT !.node = node0] EXCEPT !.ref = 1]
    OBVIOUS
  <2>4. \A e \in OpenFileType : [e EXCEPT !.node = node0, !.ref = 1].ref = 1 /\ [e EXCEPT !.node = node0, !.ref = 1].node = node0
    BY DEF OpenFileType
  <2> QED BY <1>5, <2>1, <2>2, <2>3, <2>4
<1>7. tab \in Seq(HandleType) /\ Len(tab) = 2 /\ DOMAIN tab = {1, 2} /\ tab[1].file = std /\ tab[2].file = None
  <2>1. [file |-> std, cloexec |-> FALSE] \in HandleType /\ [file |-> std, cloexec |-> FALSE].file = std
    BY <1>2 DEF HandleType
  <2> DEFINE h == [file |-> std, cloexec |-> FALSE]
  <2> HIDE DEF h
  <2>2. <<h, T!Null>> \in Seq(HandleType) /\ Len(<<h, T!Null>>) = 2 /\ DOMAIN <<h, T!Null>> = {1, 2}
        /\ <<h, T!Null>>[1] = h /\ <<h, T!Null>>[2] = T!Null
    <3>1. h \in HandleType  BY <2>1 DEF h
    <3>2. DOMAIN <<h, T!Null>> = 1 .. 2  OBVIOUS
    <3> QED BY <1>3, <3>1, <3>2
  <2> QED BY <1>3, <2>1, <2>2 DEF h
<1> HIDE DEF entry, tab
<1>8. TableTypeOK
  <2>1. table \in [Processes -> Seq(HandleType)] /\ \A p \in Processes : Len(table[p]) <= MaxHandles
    <3>1. <<>> \in Seq(HandleType) /\ Len(<<>>) <= MaxHandles /\ Len(tab) <= MaxHandles  BY <1>7, TableAssumption
    <3> DEFINE at(p) == IF p = T!First THEN tab ELSE <<>>
    <3>2. \A p \in Processes : at(p) \in Seq(HandleType) /\ Len(at(p)) <= MaxHandles  BY <1>7, <3>1
    <3>3. table = [p \in Processes |-> at(p)]  BY <1>1
    <3> HIDE DEF at
    <3> QED BY <3>2, <3>3
  <2>2. file \in [OpenFiles -> OpenFileType]  BY <1>1, <1>5, <1>6
  <2>3. opens \in [Inodes -> Int]
    <3>1. \A n \in Inodes : T!Cardinality({f \in OpenFiles : file[f].node = n}) \in Int
      BY Sizes, FS_Subset, FS_CardinalityType, TableAssumption
    <3> QED BY <1>1, <3>1
  <2>4. thr \in [Callers -> CallType] /\ taken \in [OpenFiles -> SUBSET Int]  BY <1>1, <1>4
  <2> QED BY <2>1, <2>2, <2>3, <2>4 DEF TableTypeOK
<1>9. Placed  BY <1>1, <1>4 DEF Placed
<1>10. Delivered  BY <1>1, <1>4, <1>5, <1>6 DEF Delivered
<1>11. T!Referenced
  <2>1. ASSUME NEW f \in OpenFiles
        PROVE  file[f].ref = Held(f) + Listed(f) /\ (file[f].ref > 0) = (file[f].node # None)
    <3>1. Held(f) = 0
      <4>1. T!Holders(f) = {}  BY <1>1, <1>2, <1>3, <1>4 DEF T!Holders
      <4> QED BY <4>1, FS_EmptySet DEF Held
    <3>2. T!Entries(f) = IF f = std THEN {<<T!First, 1>>} ELSE {}
      <4>1. 1 \in 1 .. MaxHandles  BY TableAssumption
      <4>2. table[T!First] = tab /\ \A p \in Processes : p # T!First => table[p] = <<>>  BY <1>1, <1>2
      <4>3. ASSUME NEW e \in T!Entries(f) PROVE f = std /\ e = <<T!First, 1>>
        <5>1. e \in Processes \X (1 .. MaxHandles) /\ e[2] \in DOMAIN table[e[1]] /\ table[e[1]][e[2]].file = f
          BY <4>3 DEF T!Entries
        <5>2. e[1] = T!First  BY <4>2, <5>1
        <5>3. e[2] \in {1, 2} /\ tab[e[2]].file = f  BY <1>7, <4>2, <5>1, <5>2
        <5>4. e[2] = 1  BY <1>2, <1>7, <5>3
        <5> QED BY <1>7, <5>1, <5>2, <5>3, <5>4
      <4>4. ASSUME f = std PROVE <<T!First, 1>> \in T!Entries(f)
        <5>1. <<T!First, 1>>[1] = T!First /\ <<T!First, 1>>[2] = 1 /\ <<T!First, 1>> \in Processes \X (1 .. MaxHandles)
          BY <1>2, <4>1
        <5> QED BY <1>7, <4>2, <4>4, <5>1 DEF T!Entries
      <4> QED BY <4>3, <4>4
    <3>3. Listed(f) = IF f = std THEN 1 ELSE 0
      <4>1. Cardinality({<<T!First, 1>>}) = 1 /\ Cardinality({}) = 0  BY FS_Singleton, FS_EmptySet
      <4> QED BY <3>2, <4>1 DEF Listed
    <3>4. file[f].ref = (IF f = std THEN 1 ELSE 0) /\ file[f].node = IF f = std THEN node0 ELSE None
      BY <1>1, <1>5, <1>6
    <3> QED BY <1>2, <3>1, <3>3, <3>4
  <2>2. ASSUME NEW n \in Inodes PROVE opens[n] = Cardinality(OpenOn(n))
    BY <1>1, Sizes DEF OpenOn
  <2> QED BY <2>1, <2>2, ReferencedMeans
<1> QED BY <1>1, <1>8, <1>9, <1>10, <1>11 DEF TableInv, T!PositionShared

LEMMA TableStep ==
  ASSUME TableInv, T!Next
  PROVE  TableInv' /\ again' = again
<1>1. PICK t \in Callers :
       \/ T!AllocateHandle(t) \/ T!TransferBegin(t) \/ T!UseNode(t) \/ T!DupDestroy(t) \/ T!DupReplace(t)
       \/ T!Execve(t) \/ T!Exit(t)
       \/ \E op \in {"transfer", "use", "dup", "cloexec"}, fd \in 1 .. MaxHandles : T!GetHandle(t, op, fd)
       \/ \E n \in Inodes, f \in OpenFiles : T!OpenNode(t, n, f)
       \/ \E fd \in 1 .. MaxHandles : T!Close(t, fd)
       \/ \E k \in 0 .. 1 : T!TransferEnd(t, k)
       \/ \E to \in 0 .. MaxPos : T!Seek(t, to)
       \/ \E to \in 0 .. MaxHandles, c \in BOOLEAN : T!Dup(t, to, c)
       \/ \E c \in BOOLEAN : T!SetCloseOnExec(t, c)
       \/ \E q \in Processes, whole \in BOOLEAN : T!Child(t, q, whole)
  BY ZenonT(60) DEF T!Next
<1>2. CASE T!AllocateHandle(t)  BY <1>2, AllocateHandleKeeps DEF T!AllocateHandle
<1>3. CASE T!TransferBegin(t)  BY <1>3, TransferBeginKeeps DEF T!TransferBegin
<1>4. CASE T!UseNode(t)  BY <1>4, UseNodeKeeps DEF T!UseNode
<1>5. CASE T!DupDestroy(t)  BY <1>5, DupDestroyKeeps DEF T!DupDestroy
<1>6. CASE T!DupReplace(t)  BY <1>6, DupReplaceKeeps DEF T!DupReplace, T!Replace
<1>7. CASE T!Execve(t)  BY <1>7, ExecveKeeps DEF T!Execve
<1>8. CASE T!Exit(t)  BY <1>8, ExitKeeps DEF T!Exit
<1>9. ASSUME NEW op \in {"transfer", "use", "dup", "cloexec"}, NEW fd \in 1 .. MaxHandles, T!GetHandle(t, op, fd)
      PROVE  TableInv' /\ again' = again
  BY <1>9, GetHandleKeeps DEF T!GetHandle
<1>10. ASSUME NEW n \in Inodes, NEW f \in OpenFiles, T!OpenNode(t, n, f) PROVE TableInv' /\ again' = again
  BY <1>10, OpenNodeKeeps DEF T!OpenNode
<1>11. ASSUME NEW fd \in 1 .. MaxHandles, T!Close(t, fd) PROVE TableInv' /\ again' = again
  BY <1>11, CloseKeeps DEF T!Close
<1>12. ASSUME NEW k \in 0 .. 1, T!TransferEnd(t, k) PROVE TableInv' /\ again' = again
  BY <1>12, TransferEndKeeps, ZenonT(60)
<1>13. ASSUME NEW to \in 0 .. MaxPos, T!Seek(t, to) PROVE TableInv' /\ again' = again
  BY <1>13, SeekKeeps DEF T!Seek
<1>14. ASSUME NEW to \in 0 .. MaxHandles, NEW c \in BOOLEAN, T!Dup(t, to, c) PROVE TableInv' /\ again' = again
  BY <1>14, DupKeeps DEF T!Dup
<1>15. ASSUME NEW c \in BOOLEAN, T!SetCloseOnExec(t, c) PROVE TableInv' /\ again' = again
  BY <1>15, SetCloseOnExecKeeps DEF T!SetCloseOnExec
<1>16. ASSUME NEW q \in Processes, NEW whole \in BOOLEAN, T!Child(t, q, whole) PROVE TableInv' /\ again' = again
  BY <1>16, ChildKeeps DEF T!Child
<1> QED BY <1>1, <1>2, <1>3, <1>4, <1>5, <1>6, <1>7, <1>8, <1>9, <1>10, <1>11, <1>12, <1>13, <1>14, <1>15, <1>16

LEMMA TableStutters == TableInv /\ UNCHANGED handles => TableInv'
<1> SUFFICES ASSUME TableInv, UNCHANGED handles PROVE TableInv'  OBVIOUS
<1>1. TableTypeOK /\ Placed /\ Delivered /\ T!Referenced /\ table' = table /\ file' = file /\ opens' = opens
      /\ thr' = thr /\ taken' = taken
  BY DEF TableInv, handles
<1>2. TableTypeOK' /\ Placed' /\ Delivered'  BY <1>1 DEF TableTypeOK, Placed, Delivered
<1>3. T!Referenced'
  <2>1. \A f \in OpenFiles : Held(f)' + Listed(f)' = Held(f) + Listed(f)  BY <1>1, SameCounts
  <2> QED BY <1>1, <2>1, ReferencedStays
<1> QED BY <1>2, <1>3 DEF TableInv
-----------------------------------------------------------------------------
(* The composition: the part that a behaviour is one of keeps its own.     *)
SharedInv == part = "table" => TableInv /\ T!PositionShared

(* UNIXOpenFile: whoever reads or writes through an open file gets bytes   *)
(* that nobody else got, and it is kept exactly as long as somebody can    *)
(* refer to it.                                                            *)
THEOREM OpenFilesShared == FilesSpec => []OpenFileShared
<1>1. FilesInit => SharedInv
  <2>1. T!Init => TableInv /\ T!PositionShared  BY TableInit
  <2> QED BY <2>1 DEF FilesInit, SharedInv
<1>2. SharedInv /\ [FilesNext]_files => SharedInv'
  <2> SUFFICES ASSUME SharedInv, [FilesNext]_files, part' = "table" PROVE TableInv' /\ T!PositionShared'
    BY DEF SharedInv
  <2>1. part = "table" /\ (T!Next \/ UNCHANGED handles)  BY Zenon DEF FilesNext, files
  <2>2. TableInv /\ again = {}  BY <2>1 DEF SharedInv, T!PositionShared
  <2>3. CASE T!Next
    <3>1. TableInv' /\ again' = again  BY <2>2, <2>3, TableStep
    <3> QED BY <2>2, <3>1 DEF T!PositionShared
  <2>4. CASE UNCHANGED handles
    <3>1. TableInv' /\ again' = again  BY <2>2, <2>4, TableStutters DEF handles
    <3> QED BY <2>2, <3>1 DEF T!PositionShared
  <2> QED BY <2>1, <2>3, <2>4
<1>3. SharedInv => OpenFileShared  BY DEF SharedInv, OpenFileShared, TableInv
<1> QED BY <1>1, <1>2, <1>3, PTL DEF FilesSpec
-----------------------------------------------------------------------------
(* TempNode                                                                *)
Readings == [pc : {"copy", "read"}, off : Nat, n : Nat, cut : BOOLEAN, fault : BOOLEAN]
Steps == {M!Idle, [pc |-> "last"]} \cup Readings
NodeType == [size : Nat, buffer : Seq(Data), nlink : Int, handleCount : Int, deleted : Nat]
TempTypeOK ==
  /\ temp \in NodeType
  /\ links \in SUBSET LinkNames
  /\ user \in [Users -> Steps]
  /\ told \in [M!Positions -> Data \cup {None}]

(* The counts, and who is about to look at them.                           *)
Lives ==
  /\ temp.nlink = Cardinality(links) /\ temp.handleCount >= 0
  /\ links # {} => temp.deleted = 0
  /\ links = {} /\ temp.handleCount = 0 /\ temp.deleted = 0 => \E t \in Users : user[t].pc = "last"
  /\ \A t \in Users : user[t].pc \in {"copy", "read"} => temp.handleCount > 0 /\ temp.deleted = 0

(* The buffer, and the reads that have their bounds.                       *)
Keeps ==
  /\ temp.deleted = 0 =>
       /\ temp.size <= Len(temp.buffer)
       /\ \A i \in M!Positions : told[i] # None => i < temp.size /\ temp.buffer[i + 1] = told[i]
  /\ \A t \in Users :
       /\ user[t].pc = "copy" /\ ~user[t].cut => user[t].off + user[t].n <= temp.size
       /\ user[t].pc = "read" /\ user[t].fault => user[t].cut
TempInv == TempTypeOK /\ Lives /\ Keeps
-----------------------------------------------------------------------------
LEMMA TempSizes == \A S : M!Cardinality(S) = Cardinality(S)
BY DEF M!Cardinality, Cardinality

LEMMA StepRows ==
  /\ M!Idle \in Steps /\ M!Idle.pc = "idle" /\ [pc |-> "last"] \in Steps
  /\ \A s \in Steps : s.pc = "idle" => s = M!Idle
  /\ \A s \in Steps : s.pc \in {"copy", "read"} => s \in Readings
  /\ \A s \in Steps : s.pc \in {"idle", "last", "copy", "read"}
BY DEF M!Idle, Steps, Readings

(* Sizes are rounded up to whole chunks.                                   *)
LEMMA RoundsUp == \A n \in Nat : M!RoundUp(n) \in Nat /\ M!RoundUp(n) >= n
<1> SUFFICES ASSUME NEW n \in Nat PROVE M!RoundUp(n) \in Nat /\ M!RoundUp(n) >= n  OBVIOUS
<1> DEFINE a == n + Chunk - 1
           q == a \div Chunk
<1>1. Chunk \in Nat /\ Chunk > 0 /\ a \in Nat  BY TempAssumption
<1>2. q \in Nat /\ Chunk * q <= a /\ a < Chunk * q + Chunk  BY <1>1
<1>3. q * Chunk = Chunk * q /\ Chunk * q \in Nat  BY <1>1, <1>2
<1>4. M!RoundUp(n) = q * Chunk  BY DEF M!RoundUp
<1> HIDE DEF q
<1> QED BY <1>1, <1>2, <1>3, <1>4

LEMMA BlockKeeps ==
  ASSUME NEW old \in Seq(Data), NEW length \in Nat, NEW kept \in Nat, kept <= Len(old)
  PROVE  /\ M!Block(old, length, kept) \in Seq(Data) /\ Len(M!Block(old, length, kept)) = length
         /\ \A i \in 1 .. length : i <= kept => M!Block(old, length, kept)[i] = old[i]
<1> DEFINE b(i) == IF i <= kept THEN old[i] ELSE M!Garbage
<1>1. M!Garbage \in Data  BY TempAssumption DEF M!Garbage
<1>2. \A i \in 1 .. length : b(i) \in Data  BY <1>1
<1>3. M!Block(old, length, kept) = [i \in 1 .. length |-> b(i)]  BY DEF M!Block
<1> HIDE DEF b
<1>4. [i \in 1 .. length |-> b(i)] \in Seq(Data) /\ Len([i \in 1 .. length |-> b(i)]) = length
  BY <1>2
<1>5. \A i \in 1 .. length : M!Block(old, length, kept)[i] = b(i)  BY <1>3
<1> QED BY <1>3, <1>4, <1>5 DEF b

(* ReallocateNode makes room and keeps what it is told to keep.            *)
LEMMA ReallocatedKeeps ==
  ASSUME NEW buffer \in Seq(Data), NEW size \in Nat, NEW oldSize \in Nat, oldSize <= Len(buffer)
  PROVE  /\ M!Reallocated(buffer, size, oldSize) \in Seq(Data)
         /\ size <= Len(M!Reallocated(buffer, size, oldSize))
         /\ \A i \in 1 .. size : i <= oldSize => M!Reallocated(buffer, size, oldSize)[i] = buffer[i]
<1> DEFINE length == M!RoundUp(size)
           kept == IF buffer = <<>> THEN 0 ELSE oldSize
<1>1. length \in Nat /\ size <= length  BY RoundsUp
<1>2. Len(buffer) \in Nat /\ (buffer = <<>> => oldSize = 0)  OBVIOUS
<1>3. kept = oldSize  BY <1>2
<1> HIDE DEF length, kept
<1>4. CASE length > Len(buffer)
  <2>1. M!Reallocated(buffer, size, oldSize) = M!Block(buffer, length, oldSize)
    BY <1>1, <1>2, <1>3, <1>4 DEF M!Reallocated, length, kept
  <2>2. /\ M!Block(buffer, length, oldSize) \in Seq(Data) /\ Len(M!Block(buffer, length, oldSize)) = length
        /\ \A i \in 1 .. length : i <= oldSize => M!Block(buffer, length, oldSize)[i] = buffer[i]
    BY <1>1, BlockKeeps
  <2> QED BY <1>1, <2>1, <2>2
<1>5. CASE length < Len(buffer)
  <2>1. M!Reallocated(buffer, size, oldSize) = M!Block(buffer, length, size)
    BY <1>1, <1>2, <1>5 DEF M!Reallocated, length
  <2>2. /\ M!Block(buffer, length, size) \in Seq(Data) /\ Len(M!Block(buffer, length, size)) = length
        /\ \A i \in 1 .. length : i <= size => M!Block(buffer, length, size)[i] = buffer[i]
    <3>1. size <= Len(buffer)  BY <1>1, <1>2, <1>5
    <3> QED BY <1>1, <3>1, BlockKeeps
  <2> QED BY <1>1, <2>1, <2>2
<1>6. CASE length = Len(buffer)
  <2>1. M!Reallocated(buffer, size, oldSize) = buffer
    BY <1>1, <1>2, <1>6 DEF M!Reallocated, length
  <2> QED BY <1>1, <1>6, <2>1
<1> QED BY <1>1, <1>2, <1>4, <1>5, <1>6
-----------------------------------------------------------------------------
LEMMA TempBasics ==
  ASSUME TempTypeOK
  PROVE  /\ temp.size \in Nat /\ temp.buffer \in Seq(Data) /\ temp.nlink \in Int /\ temp.handleCount \in Int
         /\ temp.deleted \in Nat /\ IsFiniteSet(links) /\ links \subseteq LinkNames
         /\ \A t \in Users : user[t] \in Steps
         /\ \A i \in M!Positions : told[i] \in Data \cup {None}
<1>1. temp \in NodeType  BY DEF TempTypeOK
<1>2. /\ temp.size \in Nat /\ temp.buffer \in Seq(Data) /\ temp.nlink \in Int /\ temp.handleCount \in Int
      /\ temp.deleted \in Nat
  BY <1>1 DEF NodeType
<1>3. IsFiniteSet(links)  BY FS_Subset, TempAssumption DEF TempTypeOK
<1> QED BY <1>2, <1>3 DEF TempTypeOK

(* A thread goes to its next place.                                        *)
LEMMA Goes ==
  ASSUME TempTypeOK, NEW t \in Users, NEW s \in Steps, M!Goes(t, s)
  PROVE  user' \in [Users -> Steps] /\ user'[t] = s /\ \A r \in Users \ {t} : user'[r] = user[r]
BY DEF TempTypeOK, M!Goes

(* What a step needs to show when it leaves the file alone.                *)
LEMMA SameFile ==
  ASSUME TempInv, user' \in [Users -> Steps], UNCHANGED <<temp, links, told>>,
         \A t \in Users : user[t].pc = "last" => user'[t].pc = "last",
         \A t \in Users : user'[t].pc \in {"copy", "read"} => temp.handleCount > 0 /\ temp.deleted = 0,
         \A t \in Users : user'[t].pc = "copy" /\ ~user'[t].cut => user'[t].off + user'[t].n <= temp.size,
         \A t \in Users : user'[t].pc = "read" /\ user'[t].fault => user'[t].cut
  PROVE  TempInv'
<1>1. TempTypeOK /\ Lives /\ Keeps  BY DEF TempInv
<1>2. TempTypeOK'  BY <1>1 DEF TempTypeOK
<1>3. Lives'  BY <1>1 DEF Lives
<1>4. Keeps'  BY <1>1 DEF Keeps
<1> QED BY <1>2, <1>3, <1>4 DEF TempInv
LEMMA ReadBoundsKeeps ==
  ASSUME TempInv, NEW t \in Users, NEW off \in M!Positions, NEW n \in 0 .. MaxSize, M!ReadBounds(t, off, n)
  PROVE  TempInv'
<1>1. TempTypeOK /\ Lives /\ Keeps  BY DEF TempInv
<1> DEFINE m == IF off + n > temp.size THEN temp.size - off ELSE n
           s == [pc |-> "copy", off |-> off, n |-> m, cut |-> FALSE, fault |-> FALSE]
<1>2. /\ user[t] = M!Idle /\ temp.handleCount > 0 /\ temp.deleted = 0 /\ off <= temp.size
      /\ M!Goes(t, s) /\ UNCHANGED <<temp, links, told>>
  BY DEF M!ReadBounds, M!Alive
<1>3. off \in Nat /\ n \in Nat /\ temp.size \in Nat  BY <1>1, TempBasics, TempAssumption DEF M!Positions
<1>4. m \in Nat /\ off + m <= temp.size  BY <1>2, <1>3
<1> HIDE DEF m
<1>5. s \in Readings /\ s.pc = "copy" /\ s.off = off /\ s.n = m  BY <1>3, <1>4 DEF Readings
<1> HIDE DEF s
<1>6. user' \in [Users -> Steps] /\ user'[t] = s /\ \A r \in Users \ {t} : user'[r] = user[r]
  BY <1>1, <1>2, <1>5, Goes DEF Steps
<1>7. user[t].pc = "idle"  BY <1>2, StepRows
<1>8. ASSUME NEW r \in Users
      PROVE  /\ user[r].pc = "last" => user'[r].pc = "last"
             /\ user'[r].pc \in {"copy", "read"} => temp.handleCount > 0 /\ temp.deleted = 0
             /\ user'[r].pc = "copy" /\ ~user'[r].cut => user'[r].off + user'[r].n <= temp.size
             /\ user'[r].pc = "read" /\ user'[r].fault => user'[r].cut
  <2>1. CASE r = t  BY <1>2, <1>4, <1>5, <1>6, <1>7, <2>1
  <2>2. CASE r # t
    <3>1. user'[r] = user[r]  BY <1>6, <2>2
    <3> QED BY <1>1, <3>1 DEF Lives, Keeps
  <2> QED BY <2>1, <2>2
<1> QED BY <1>2, <1>6, <1>8, SameFile

LEMMA ReadCopyKeeps ==
  ASSUME TempInv, NEW t \in Users, M!ReadCopy(t)
  PROVE  TempInv'
<1>1. TempTypeOK /\ Lives /\ Keeps  BY DEF TempInv
<1> DEFINE bad == user[t].n > 0 /\ user[t].off + user[t].n > Len(temp.buffer)
           s == [user[t] EXCEPT !.pc = "read", !.fault = bad]
<1>2. user[t].pc = "copy" /\ M!Goes(t, s) /\ UNCHANGED <<temp, links, told>>
  BY DEF M!ReadCopy
<1>3. user[t] \in Readings  BY <1>1, <1>2, TempBasics, StepRows
<1>4. ~user[t].cut => ~bad
  <2>1. temp.deleted = 0 /\ (~user[t].cut => user[t].off + user[t].n <= temp.size)
    BY <1>1, <1>2 DEF Lives, Keeps
  <2>2. temp.size <= Len(temp.buffer) /\ temp.size \in Nat /\ Len(temp.buffer) \in Nat
    BY <1>1, <2>1, TempBasics DEF Keeps
  <2>3. user[t].off \in Nat /\ user[t].n \in Nat  BY <1>3 DEF Readings
  <2> QED BY <2>1, <2>2, <2>3, SMTT(60)
<1>b. bad \in BOOLEAN  OBVIOUS
<1> HIDE DEF bad
<1>5. s \in Readings /\ s.pc = "read" /\ s.fault = bad /\ s.cut = user[t].cut  BY <1>3, <1>b DEF Readings
<1> HIDE DEF s
<1>6. user' \in [Users -> Steps] /\ user'[t] = s /\ \A r \in Users \ {t} : user'[r] = user[r]
  BY <1>1, <1>2, <1>5, Goes DEF Steps
<1>8. ASSUME NEW r \in Users
      PROVE  /\ user[r].pc = "last" => user'[r].pc = "last"
             /\ user'[r].pc \in {"copy", "read"} => temp.handleCount > 0 /\ temp.deleted = 0
             /\ user'[r].pc = "copy" /\ ~user'[r].cut => user'[r].off + user'[r].n <= temp.size
             /\ user'[r].pc = "read" /\ user'[r].fault => user'[r].cut
  <2>1. CASE r = t
    <3>1. temp.handleCount > 0 /\ temp.deleted = 0  BY <1>1, <1>2 DEF Lives
    <3> QED BY <1>2, <1>4, <1>5, <1>6, <2>1, <3>1
  <2>2. CASE r # t
    <3>1. user'[r] = user[r]  BY <1>6, <2>2
    <3> QED BY <1>1, <3>1 DEF Lives, Keeps
  <2> QED BY <2>1, <2>2
<1> QED BY <1>2, <1>6, <1>8, SameFile

LEMMA ReadReturnKeeps ==
  ASSUME TempInv, NEW t \in Users, M!ReadReturn(t)
  PROVE  TempInv'
<1>1. TempTypeOK /\ Lives /\ Keeps  BY DEF TempInv
<1>2. user[t].pc = "read" /\ M!Goes(t, M!Idle) /\ UNCHANGED <<temp, links, told>>
  BY DEF M!ReadReturn
<1>3. /\ user' \in [Users -> Steps] /\ user'[t] = M!Idle /\ M!Idle.pc = "idle"
      /\ \A r \in Users \ {t} : user'[r] = user[r]
  BY <1>1, <1>2, Goes, StepRows
<1>8. ASSUME NEW r \in Users
      PROVE  /\ user[r].pc = "last" => user'[r].pc = "last"
             /\ user'[r].pc \in {"copy", "read"} => temp.handleCount > 0 /\ temp.deleted = 0
             /\ user'[r].pc = "copy" /\ ~user'[r].cut => user'[r].off + user'[r].n <= temp.size
             /\ user'[r].pc = "read" /\ user'[r].fault => user'[r].cut
  <2>1. CASE r = t  BY <1>2, <1>3, <2>1
  <2>2. CASE r # t
    <3>1. user'[r] = user[r]  BY <1>3, <2>2
    <3> QED BY <1>1, <3>1 DEF Lives, Keeps
  <2> QED BY <2>1, <2>2
<1> QED BY <1>2, <1>3, <1>8, SameFile

(* A write: the buffer has room for it, and the rest stays where it was.   *)
LEMMA WriteKeeps ==
  ASSUME TempInv, NEW t \in Users, NEW off \in M!Positions, NEW n \in 0 .. MaxSize, NEW d \in Data,
         M!Write(t, off, n, d)
  PROVE  TempInv'
<1>1. TempTypeOK /\ Lives /\ Keeps  BY DEF TempInv
<1> DEFINE grows == temp.buffer = <<>> \/ off + n > temp.size
           size == IF grows THEN off + n ELSE temp.size
           buffer == IF grows /\ size >= Len(temp.buffer) THEN M!Reallocated(temp.buffer, size, temp.size)
                     ELSE temp.buffer
           now == [i \in 1 .. Len(buffer) |-> IF i \in off + 1 .. off + n THEN d ELSE buffer[i]]
<1>2. /\ temp.deleted = 0 /\ temp.handleCount > 0 /\ n > 0 /\ off + n <= MaxSize
      /\ temp' = [temp EXCEPT !.size = size, !.buffer = now]
      /\ told' = [i \in M!Positions |-> IF i \in off .. off + n - 1 THEN d ELSE told[i]]
      /\ UNCHANGED <<links, user>>
  BY DEF M!Write, M!Alive
<1>3. /\ off \in Nat /\ n \in Nat /\ temp.size \in Nat /\ temp.buffer \in Seq(Data) /\ MaxSize \in Nat
      /\ temp \in NodeType /\ Len(temp.buffer) \in Nat
  BY <1>1, TempBasics, TempAssumption DEF M!Positions, TempTypeOK
<1>4. temp.size <= Len(temp.buffer)  BY <1>1, <1>2 DEF Keeps
<1>5. size \in Nat /\ temp.size <= size /\ off + n <= size
  <2>1. temp.buffer = <<>> => temp.size = 0  BY <1>3, <1>4
  <2> QED BY <1>3, <2>1
<1>6. /\ buffer \in Seq(Data) /\ size <= Len(buffer)
      /\ \A i \in 1 .. temp.size : buffer[i] = temp.buffer[i]
  <2>1. CASE grows /\ size >= Len(temp.buffer)
    <3>1. buffer = M!Reallocated(temp.buffer, size, temp.size)  BY <2>1
    <3> HIDE DEF buffer, size, grows
    <3>2. /\ M!Reallocated(temp.buffer, size, temp.size) \in Seq(Data)
          /\ size <= Len(M!Reallocated(temp.buffer, size, temp.size))
          /\ \A i \in 1 .. size : i <= temp.size => M!Reallocated(temp.buffer, size, temp.size)[i] = temp.buffer[i]
      BY <1>3, <1>4, <1>5, ReallocatedKeeps
    <3>3. \A i \in 1 .. temp.size : i \in 1 .. size /\ i <= temp.size  BY <1>3, <1>5
    <3> QED BY <3>1, <3>2, <3>3
  <2>2. CASE ~(grows /\ size >= Len(temp.buffer))
    <3>1. buffer = temp.buffer  BY <2>2
    <3>2. size <= Len(temp.buffer)  BY <1>3, <1>4, <2>2
    <3> HIDE DEF buffer
    <3> QED BY <1>3, <3>1, <3>2
  <2> QED BY <2>1, <2>2
<1> HIDE DEF buffer, size, grows
<1>7. now \in Seq(Data) /\ Len(now) = Len(buffer)
      /\ \A i \in 1 .. Len(buffer) : now[i] = IF i \in off + 1 .. off + n THEN d ELSE buffer[i]
  <2> DEFINE b(i) == IF i \in off + 1 .. off + n THEN d ELSE buffer[i]
  <2>1. \A i \in 1 .. Len(buffer) : b(i) \in Data  BY <1>6
  <2>2. now = [i \in 1 .. Len(buffer) |-> b(i)]  OBVIOUS
  <2>3. Len(buffer) \in Nat  BY <1>6
  <2> HIDE DEF b, now
  <2>4. now \in Seq(Data) /\ Len(now) = Len(buffer) /\ \A i \in 1 .. Len(buffer) : now[i] = b(i)
    BY <2>1, <2>2, <2>3
  <2> QED BY <2>4 DEF b
<1> HIDE DEF now
<1>8. /\ temp' \in NodeType /\ temp'.size = size /\ temp'.buffer = now /\ temp'.deleted = temp.deleted
      /\ temp'.nlink = temp.nlink /\ temp'.handleCount = temp.handleCount
  BY <1>2, <1>3, <1>5, <1>7 DEF NodeType
<1>9. TempTypeOK'
  <2>1. told' \in [M!Positions -> Data \cup {None}]  BY <1>1, <1>2 DEF TempTypeOK
  <2> QED BY <1>1, <1>2, <1>8, <2>1 DEF TempTypeOK
<1>10. Lives'  BY <1>1, <1>2, <1>8 DEF Lives
<1>11. ASSUME NEW i \in M!Positions, told'[i] # None
       PROVE  i < temp'.size /\ temp'.buffer[i + 1] = told'[i]
  <2>1. i \in Nat /\ Len(buffer) \in Nat  BY <1>3, <1>6 DEF M!Positions
  <2>2. CASE i \in off .. off + n - 1
    <3>1. told'[i] = d  BY <1>2, <2>2
    <3>2. i < size /\ i + 1 \in 1 .. Len(buffer) /\ i + 1 \in off + 1 .. off + n
      BY <1>3, <1>5, <1>6, <2>1, <2>2
    <3> QED BY <1>7, <1>8, <3>1, <3>2
  <2>3. CASE i \notin off .. off + n - 1
    <3>1. told'[i] = told[i] /\ told[i] # None  BY <1>2, <1>11, <2>3
    <3>2. i < temp.size /\ temp.buffer[i + 1] = told[i]  BY <1>1, <1>2, <3>1 DEF Keeps
    <3>3. i < size /\ i + 1 \in 1 .. Len(buffer) /\ i + 1 \notin off + 1 .. off + n /\ i + 1 \in 1 .. temp.size
      BY <1>3, <1>5, <1>6, <2>1, <2>3, <3>2, SMTT(60)
    <3>4. now[i + 1] = buffer[i + 1] /\ buffer[i + 1] = temp.buffer[i + 1]  BY <1>6, <1>7, <3>3
    <3> QED BY <1>8, <3>1, <3>2, <3>3, <3>4
  <2> QED BY <2>2, <2>3
<1>12. Keeps'
  <2>1. temp'.size <= Len(temp'.buffer)  BY <1>6, <1>7, <1>8
  <2>2. ASSUME NEW r \in Users
        PROVE  /\ user'[r].pc = "copy" /\ ~user'[r].cut => user'[r].off + user'[r].n <= temp'.size
               /\ user'[r].pc = "read" /\ user'[r].fault => user'[r].cut
    <3>1. user'[r] = user[r]  BY <1>2
    <3>2. /\ user[r].pc = "copy" /\ ~user[r].cut => user[r].off + user[r].n <= temp.size
          /\ user[r].pc = "read" /\ user[r].fault => user[r].cut
      BY <1>1 DEF Keeps
    <3>3. user[r].pc = "copy" => user[r].off \in Nat /\ user[r].n \in Nat
      BY <1>1, TempBasics, StepRows DEF Readings
    <3>4. ASSUME user[r].pc = "copy", ~user[r].cut PROVE user[r].off + user[r].n <= size
      <4>1. user[r].off + user[r].n <= temp.size /\ user[r].off \in Nat /\ user[r].n \in Nat  BY <3>2, <3>3, <3>4
      <4> QED BY <1>3, <1>5, <4>1
    <3> QED BY <1>8, <3>1, <3>2, <3>4
  <2> QED BY <1>11, <2>1, <2>2 DEF Keeps
<1> QED BY <1>9, <1>10, <1>12 DEF TempInv
(* A truncation marks the reads that it overtakes.                         *)
LEMMA OvertakenDoes ==
  ASSUME TempTypeOK
  PROVE  /\ M!Overtaken \in [Users -> Steps]
         /\ \A t \in Users : /\ M!Overtaken[t].pc = user[t].pc
                             /\ user[t].pc # "copy" => M!Overtaken[t] = user[t]
                             /\ user[t].pc = "copy" => M!Overtaken[t].cut
<1> DEFINE o(t) == IF user[t].pc = "copy" THEN [user[t] EXCEPT !.cut = TRUE] ELSE user[t]
<1>1. M!Overtaken = [t \in Users |-> o(t)]  BY DEF M!Overtaken
<1>2. ASSUME NEW t \in Users
      PROVE  /\ o(t) \in Steps /\ o(t).pc = user[t].pc
             /\ user[t].pc # "copy" => o(t) = user[t]
             /\ user[t].pc = "copy" => o(t).cut
  <2>1. user[t] \in Steps  BY TempBasics
  <2>2. CASE user[t].pc = "copy"
    <3>1. user[t] \in Readings  BY <2>1, <2>2, StepRows
    <3>2. [user[t] EXCEPT !.cut = TRUE] \in Readings /\ [user[t] EXCEPT !.cut = TRUE].pc = user[t].pc
          /\ [user[t] EXCEPT !.cut = TRUE].cut
      BY <3>1 DEF Readings
    <3> QED BY <2>2, <3>2 DEF Steps
  <2> QED BY <2>1, <2>2
<1> HIDE DEF o
<1> QED BY <1>1, <1>2

LEMMA TruncateKeeps ==
  ASSUME TempInv, NEW t \in Users, NEW length \in 0 .. MaxSize, M!Truncate(t, length)
  PROVE  TempInv'
<1>1. TempTypeOK /\ Lives /\ Keeps  BY DEF TempInv
<1> DEFINE now == M!Reallocated(temp.buffer, length, temp.size)
<1>2. /\ temp.deleted = 0 /\ temp.handleCount > 0
      /\ temp' = [temp EXCEPT !.size = length, !.buffer = now]
      /\ user' = M!Overtaken /\ UNCHANGED links
      /\ told' = [i \in M!Positions |-> IF i < length /\ i < temp.size THEN told[i] ELSE None]
  BY DEF M!Truncate, M!Alive
<1>3. /\ length \in Nat /\ temp.size \in Nat /\ temp.buffer \in Seq(Data)
      /\ temp \in NodeType /\ Len(temp.buffer) \in Nat
  BY <1>1, TempBasics, TempAssumption DEF TempTypeOK
<1>4. temp.size <= Len(temp.buffer)  BY <1>1, <1>2 DEF Keeps
<1>5. /\ now \in Seq(Data) /\ length <= Len(now)
      /\ \A i \in 1 .. length : i <= temp.size => now[i] = temp.buffer[i]
  BY <1>3, <1>4, ReallocatedKeeps
<1> HIDE DEF now
<1>6. /\ temp' \in NodeType /\ temp'.size = length /\ temp'.buffer = now /\ temp'.deleted = temp.deleted
      /\ temp'.nlink = temp.nlink /\ temp'.handleCount = temp.handleCount
  BY <1>2, <1>3, <1>5 DEF NodeType
<1>7. /\ user' \in [Users -> Steps]
      /\ \A r \in Users : /\ user'[r].pc = user[r].pc
                          /\ user[r].pc # "copy" => user'[r] = user[r]
                          /\ user[r].pc = "copy" => user'[r].cut
  BY <1>1, <1>2, OvertakenDoes
<1>8. TempTypeOK'
  <2>1. told' \in [M!Positions -> Data \cup {None}]  BY <1>1, <1>2 DEF TempTypeOK
  <2> QED BY <1>1, <1>2, <1>6, <1>7, <2>1 DEF TempTypeOK
<1>9. Lives'
  <2>1. temp'.nlink = Cardinality(links') /\ temp'.handleCount >= 0 /\ (links' # {} => temp'.deleted = 0)
    BY <1>1, <1>2, <1>6 DEF Lives
  <2>2. \A r \in Users : user'[r].pc \in {"copy", "read"} => temp'.handleCount > 0 /\ temp'.deleted = 0
    BY <1>2, <1>6
  <2>3. temp'.handleCount # 0  BY <1>1, <1>2, <1>6, TempBasics
  <2> QED BY <2>1, <2>2, <2>3 DEF Lives
<1>10. Keeps'
  <2>1. temp'.size <= Len(temp'.buffer)  BY <1>5, <1>6
  <2>2. ASSUME NEW i \in M!Positions, told'[i] # None
        PROVE  i < temp'.size /\ temp'.buffer[i + 1] = told'[i]
    <3>1. i < length /\ i < temp.size /\ told'[i] = told[i]  BY <1>2, <2>2
    <3>2. temp.buffer[i + 1] = told[i]  BY <1>1, <1>2, <2>2, <3>1 DEF Keeps
    <3>3. i + 1 \in 1 .. length /\ i + 1 <= temp.size  BY <1>3, <3>1 DEF M!Positions
    <3> QED BY <1>5, <1>6, <3>1, <3>2, <3>3
  <2>3. ASSUME NEW r \in Users
        PROVE  /\ user'[r].pc = "copy" /\ ~user'[r].cut => user'[r].off + user'[r].n <= temp'.size
               /\ user'[r].pc = "read" /\ user'[r].fault => user'[r].cut
    <3>1. user[r].pc = "read" => user'[r] = user[r]  BY <1>7
    <3> QED BY <1>1, <1>7, <3>1 DEF Keeps
  <2> QED BY <2>1, <2>2, <2>3, ZenonT(60) DEF Keeps
<1> QED BY <1>8, <1>9, <1>10 DEF TempInv
-----------------------------------------------------------------------------
(* What a step of the counts needs to show.                                *)
LEMMA CountStep ==
  ASSUME TempInv, temp' \in NodeType, links' \in SUBSET LinkNames, user' \in [Users -> Steps],
         UNCHANGED told, temp'.size = temp.size, temp'.buffer = temp.buffer, temp'.deleted = temp.deleted,
         temp'.nlink = Cardinality(links'), temp'.handleCount >= 0,
         links' # {} => links # {},
         links' = {} /\ temp'.handleCount = 0 => \E t \in Users : user'[t].pc = "last",
         \A t \in Users : user'[t] = user[t] \/ user'[t].pc = "last",
         \A t \in Users : user'[t].pc \in {"copy", "read"} => temp'.handleCount > 0
  PROVE  TempInv'
<1>1. TempTypeOK /\ Lives /\ Keeps  BY DEF TempInv
<1>2. TempTypeOK'  BY <1>1 DEF TempTypeOK
<1>3. \A t \in Users : user'[t].pc \in {"copy", "read"} => user'[t] = user[t]
  <2> TAKE t \in Users
  <2>1. user'[t].pc = "last" => user'[t].pc \notin {"copy", "read"}  OBVIOUS
  <2> QED BY <2>1
<1>4. Lives'
  <2>1. links' # {} => temp'.deleted = 0  BY <1>1 DEF Lives
  <2>2. \A t \in Users : user'[t].pc \in {"copy", "read"} => temp'.deleted = 0  BY <1>1, <1>3 DEF Lives
  <2> QED BY <2>1, <2>2 DEF Lives
<1>5. Keeps'
  <2>1. ASSUME NEW t \in Users
        PROVE  /\ user'[t].pc = "copy" /\ ~user'[t].cut => user'[t].off + user'[t].n <= temp'.size
               /\ user'[t].pc = "read" /\ user'[t].fault => user'[t].cut
    <3>1. user'[t].pc = "copy" \/ user'[t].pc = "read" => user'[t] = user[t]  BY <1>3
    <3> QED BY <1>1, <3>1 DEF Keeps
  <2> QED BY <1>1, <2>1 DEF Keeps
<1> QED BY <1>2, <1>4, <1>5 DEF TempInv

LEMMA LinkKeeps ==
  ASSUME TempInv, NEW t \in Users, NEW c \in LinkNames, M!Link(t, c)
  PROVE  TempInv'
<1>1. TempTypeOK /\ Lives  BY DEF TempInv
<1>2. /\ links # {} /\ c \notin links /\ temp' = [temp EXCEPT !.nlink = temp.nlink + 1]
      /\ links' = links \cup {c} /\ UNCHANGED <<user, told>>
  BY DEF M!Link
<1>3. /\ temp' \in NodeType /\ temp'.nlink = temp.nlink + 1 /\ temp'.handleCount = temp.handleCount
      /\ temp'.size = temp.size /\ temp'.buffer = temp.buffer /\ temp'.deleted = temp.deleted
  <2>1. temp \in NodeType /\ temp.nlink + 1 \in Int  BY <1>1, TempBasics DEF TempTypeOK
  <2> QED BY <1>2, <2>1 DEF NodeType
<1>4. temp'.nlink = Cardinality(links')
  <2>1. IsFiniteSet(links)  BY <1>1, TempBasics
  <2>2. Cardinality(links \cup {c}) = Cardinality(links) + 1  BY <1>2, <2>1, OneElement
  <2> QED BY <1>1, <1>2, <1>3, <2>2 DEF Lives
<1>5. user' \in [Users -> Steps] /\ links' \in SUBSET LinkNames  BY <1>1, <1>2 DEF TempTypeOK
<1>6. \A r \in Users : user'[r].pc \in {"copy", "read"} => temp'.handleCount > 0  BY <1>1, <1>2, <1>3 DEF Lives
<1>7. temp'.handleCount >= 0 /\ links' # {}  BY <1>1, <1>2, <1>3 DEF Lives
<1> QED BY <1>2, <1>3, <1>4, <1>5, <1>6, <1>7, CountStep

LEMMA OpenKeeps ==
  ASSUME TempInv, NEW t \in Users, M!Open(t)
  PROVE  TempInv'
<1>1. TempTypeOK /\ Lives  BY DEF TempInv
<1>2. /\ links # {} /\ temp' = [temp EXCEPT !.handleCount = temp.handleCount + 1] /\ UNCHANGED <<links, user, told>>
  BY DEF M!Open
<1>3. /\ temp' \in NodeType /\ temp'.nlink = temp.nlink /\ temp'.handleCount = temp.handleCount + 1
      /\ temp'.size = temp.size /\ temp'.buffer = temp.buffer /\ temp'.deleted = temp.deleted
  <2>1. temp \in NodeType /\ temp.handleCount + 1 \in Int  BY <1>1, TempBasics DEF TempTypeOK
  <2> QED BY <1>2, <2>1 DEF NodeType
<1>4. temp'.handleCount > 0 /\ temp'.handleCount >= 0 /\ temp'.nlink = Cardinality(links')
  <2>1. temp.handleCount \in Int /\ temp.handleCount >= 0 /\ temp.nlink = Cardinality(links)  BY <1>1, TempBasics DEF Lives
  <2> QED BY <1>2, <1>3, <2>1
<1>5. user' \in [Users -> Steps] /\ links' \in SUBSET LinkNames  BY <1>1, <1>2 DEF TempTypeOK
<1> QED BY <1>2, <1>3, <1>4, <1>5, CountStep

LEMMA UnlinkKeeps ==
  ASSUME TempInv, NEW t \in Users, NEW c \in LinkNames, M!Unlink(t, c)
  PROVE  TempInv'
<1>1. TempTypeOK /\ Lives  BY DEF TempInv
<1>2. /\ user[t] = M!Idle /\ c \in links /\ temp' = [temp EXCEPT !.nlink = temp.nlink - 1]
      /\ links' = links \ {c} /\ M!Goes(t, [pc |-> "last"]) /\ UNCHANGED told
  BY DEF M!Unlink
<1>3. /\ temp' \in NodeType /\ temp'.nlink = temp.nlink - 1 /\ temp'.handleCount = temp.handleCount
      /\ temp'.size = temp.size /\ temp'.buffer = temp.buffer /\ temp'.deleted = temp.deleted
  <2>1. temp \in NodeType /\ temp.nlink - 1 \in Int  BY <1>1, TempBasics DEF TempTypeOK
  <2> QED BY <1>2, <2>1 DEF NodeType
<1>4. temp'.nlink = Cardinality(links')
  <2>1. IsFiniteSet(links)  BY <1>1, TempBasics
  <2>2. Cardinality(links \ {c}) = Cardinality(links) - 1  BY <1>2, <2>1, OneElement
  <2> QED BY <1>1, <1>2, <1>3, <2>2 DEF Lives
<1>5. /\ user' \in [Users -> Steps] /\ user'[t].pc = "last" /\ \A r \in Users \ {t} : user'[r] = user[r]
  <2>1. [pc |-> "last"] \in Steps /\ [pc |-> "last"].pc = "last"  BY StepRows
  <2> QED BY <1>1, <1>2, <2>1, Goes
<1>6. \A r \in Users : user'[r].pc \in {"copy", "read"} => temp'.handleCount > 0
  <2> TAKE r \in Users
  <2>1. CASE r = t  BY <1>5, <2>1
  <2>2. CASE r # t  BY <1>1, <1>3, <1>5, <2>2 DEF Lives
  <2> QED BY <2>1, <2>2
<1>7. temp'.handleCount >= 0 /\ links' \in SUBSET LinkNames /\ (links' # {} => links # {})
  BY <1>1, <1>2, <1>3 DEF Lives, TempTypeOK
<1>8. \A r \in Users : user'[r] = user[r] \/ user'[r].pc = "last"  BY <1>5
<1> QED BY <1>2, <1>3, <1>4, <1>5, <1>6, <1>7, <1>8, CountStep

LEMMA CloseKeepsTemp ==
  ASSUME TempInv, NEW t \in Users, M!Close(t)
  PROVE  TempInv'
<1>1. TempTypeOK /\ Lives  BY DEF TempInv
<1> DEFINE readers == {s \in Users : user[s].pc \in {"copy", "read"}}
<1>2. /\ user[t] = M!Idle /\ temp.handleCount > Cardinality(readers)
      /\ temp' = [temp EXCEPT !.handleCount = temp.handleCount - 1]
      /\ M!Goes(t, [pc |-> "last"]) /\ UNCHANGED <<links, told>>
  BY TempSizes DEF M!Close
<1>3. /\ temp' \in NodeType /\ temp'.nlink = temp.nlink /\ temp'.handleCount = temp.handleCount - 1
      /\ temp'.size = temp.size /\ temp'.buffer = temp.buffer /\ temp'.deleted = temp.deleted
  <2>1. temp \in NodeType /\ temp.handleCount - 1 \in Int  BY <1>1, TempBasics DEF TempTypeOK
  <2> QED BY <1>2, <2>1 DEF NodeType
<1>4. /\ user' \in [Users -> Steps] /\ user'[t].pc = "last" /\ \A r \in Users \ {t} : user'[r] = user[r]
  <2>1. [pc |-> "last"] \in Steps /\ [pc |-> "last"].pc = "last"  BY StepRows
  <2> QED BY <1>1, <1>2, <2>1, Goes
<1>5. IsFiniteSet(readers) /\ Cardinality(readers) \in Nat  BY FS_Subset, FS_CardinalityType, TempAssumption
<1>6. \A r \in Users : user'[r].pc \in {"copy", "read"} => temp'.handleCount > 0
  <2> TAKE r \in Users
  <2>1. CASE r = t  BY <1>4, <2>1
  <2>2. CASE r # t
    <3>1. ASSUME user'[r].pc \in {"copy", "read"} PROVE temp'.handleCount > 0
      <4>1. r \in readers  BY <1>4, <2>2, <3>1
      <4>2. Cardinality(readers) > 0  BY <1>5, <4>1, SomeCounts
      <4>3. temp.handleCount \in Int  BY <1>1, TempBasics
      <4> HIDE DEF readers
      <4> QED BY <1>2, <1>3, <1>5, <4>2, <4>3
    <3> QED BY <3>1
  <2> QED BY <2>1, <2>2
<1>7. temp'.handleCount >= 0
  <2>1. temp.handleCount \in Int  BY <1>1, TempBasics
  <2> HIDE DEF readers
  <2> QED BY <1>2, <1>3, <1>5, <2>1
<1>8. temp'.nlink = Cardinality(links') /\ links' \in SUBSET LinkNames  BY <1>1, <1>2, <1>3 DEF Lives, TempTypeOK
<1>9. \A r \in Users : user'[r] = user[r] \/ user'[r].pc = "last"  BY <1>4
<1> HIDE DEF readers
<1> QED BY <1>2, <1>3, <1>4, <1>6, <1>7, <1>8, <1>9, CountStep

(* Whoever finds both counts at zero deletes.                              *)
LEMMA DeleteIfLastKeeps ==
  ASSUME TempInv, NEW t \in Users, M!DeleteIfLast(t)
  PROVE  TempInv'
<1>1. TempTypeOK /\ Lives /\ Keeps  BY DEF TempInv
<1>2. /\ user[t].pc = "last" /\ M!Goes(t, M!Idle) /\ UNCHANGED <<links, told>>
      /\ temp' = IF temp.nlink <= 0 /\ temp.handleCount <= 0
                 THEN [temp EXCEPT !.deleted = temp.deleted + 1, !.buffer = <<>>, !.size = 0] ELSE temp
  BY DEF M!DeleteIfLast
<1>3. /\ user' \in [Users -> Steps] /\ user'[t].pc = "idle" /\ \A r \in Users \ {t} : user'[r] = user[r]
  BY <1>1, <1>2, Goes, StepRows
<1>4. /\ temp \in NodeType /\ temp.nlink \in Int /\ temp.handleCount \in Int /\ temp.deleted \in Nat
      /\ IsFiniteSet(links) /\ temp.nlink = Cardinality(links) /\ temp.handleCount >= 0
  BY <1>1, TempBasics DEF TempTypeOK, Lives
<1>5. links = {} <=> temp.nlink = 0  BY <1>4, FS_EmptySet
<1>6. temp.nlink >= 0  BY <1>4, FS_CardinalityType
<1>7. CASE temp.nlink <= 0 /\ temp.handleCount <= 0
  <2>1. links = {} /\ temp.handleCount = 0  BY <1>4, <1>5, <1>6, <1>7
  <2>2. /\ temp' \in NodeType /\ temp'.deleted = temp.deleted + 1 /\ temp'.nlink = temp.nlink
        /\ temp'.handleCount = temp.handleCount
    <3>1. temp' = [temp EXCEPT !.deleted = temp.deleted + 1, !.buffer = <<>>, !.size = 0]  BY <1>2, <1>7
    <3>2. <<>> \in Seq(Data) /\ temp.deleted + 1 \in Nat  BY <1>4
    <3> QED BY <1>4, <3>1, <3>2 DEF NodeType
  <2>3. temp'.deleted # 0  BY <1>4, <2>2
  <2>4. \A r \in Users : user'[r].pc \notin {"copy", "read"}
    <3> TAKE r \in Users
    <3>1. CASE r = t  BY <1>3, <3>1
    <3>2. CASE r # t  BY <1>1, <1>3, <2>1, <3>2 DEF Lives
    <3> QED BY <3>1, <3>2
  <2>5. TempTypeOK'  BY <1>1, <1>2, <1>3, <2>2 DEF TempTypeOK
  <2>6. Lives'  BY <1>2, <1>4, <2>1, <2>2, <2>3, <2>4 DEF Lives
  <2>7. Keeps'  BY <2>3, <2>4 DEF Keeps
  <2> QED BY <2>5, <2>6, <2>7 DEF TempInv
<1>8. CASE ~(temp.nlink <= 0 /\ temp.handleCount <= 0)
  <2>1. temp' = temp /\ ~(links = {} /\ temp.handleCount = 0)  BY <1>2, <1>4, <1>5, <1>8
  <2>2. TempTypeOK'  BY <1>1, <1>2, <1>3, <2>1 DEF TempTypeOK
  <2>3. \A r \in Users : user'[r].pc \in {"copy", "read"} => user'[r] = user[r]
    <3> TAKE r \in Users
    <3>1. CASE r = t  BY <1>3, <3>1
    <3> QED BY <1>3, <3>1
  <2>4. Lives'  BY <1>1, <1>2, <2>1, <2>3 DEF Lives
  <2>5. Keeps'
    <3>1. ASSUME NEW r \in Users
          PROVE  /\ user'[r].pc = "copy" /\ ~user'[r].cut => user'[r].off + user'[r].n <= temp'.size
                 /\ user'[r].pc = "read" /\ user'[r].fault => user'[r].cut
      <4>1. user'[r].pc = "copy" \/ user'[r].pc = "read" => user'[r] = user[r]  BY <2>3
      <4> QED BY <1>1, <2>1, <4>1 DEF Keeps
    <3> QED BY <1>1, <1>2, <2>1, <3>1 DEF Keeps
  <2> QED BY <2>2, <2>4, <2>5 DEF TempInv
<1> QED BY <1>7, <1>8
-----------------------------------------------------------------------------
LEMMA TempInit == M!Init => TempInv
<1> SUFFICES ASSUME M!Init PROVE TempInv  OBVIOUS
<1>1. PICK c \in LinkNames : links = {c}  BY DEF M!Init, M!Create
<1>2. /\ temp = [size |-> 0, buffer |-> <<>>, nlink |-> 1, handleCount |-> 0, deleted |-> 0]
      /\ user = [t \in Users |-> M!Idle] /\ told = [i \in M!Positions |-> None]
  BY DEF M!Init, M!Create
<1>3. temp \in NodeType /\ temp.size = 0 /\ temp.buffer = <<>> /\ temp.nlink = 1 /\ temp.handleCount = 0 /\ temp.deleted = 0
  BY <1>2 DEF NodeType
<1>4. \A t \in Users : user[t] = M!Idle /\ M!Idle.pc = "idle" /\ M!Idle \in Steps  BY <1>2, StepRows
<1>5. TempTypeOK  BY <1>1, <1>2, <1>3, <1>4 DEF TempTypeOK
<1>6. Lives
  <2>1. Cardinality(links) = 1  BY <1>1, FS_Singleton
  <2> QED BY <1>1, <1>3, <1>4, <2>1 DEF Lives
<1>7. Keeps
  <2>1. temp.size <= Len(temp.buffer)  BY <1>3
  <2>2. \A i \in M!Positions : told[i] = None  BY <1>2
  <2> QED BY <1>4, <2>1, <2>2 DEF Keeps
<1> QED BY <1>5, <1>6, <1>7 DEF TempInv

LEMMA TempStep ==
  ASSUME TempInv, M!Next
  PROVE  TempInv'
<1>1. PICK t \in Users :
       \/ M!ReadCopy(t) \/ M!ReadReturn(t) \/ M!Open(t) \/ M!Close(t) \/ M!DeleteIfLast(t)
       \/ \E c \in LinkNames : M!Link(t, c) \/ M!Unlink(t, c)
       \/ \E n \in 0 .. MaxSize :
             \/ M!Truncate(t, n)
             \/ \E off \in M!Positions : M!ReadBounds(t, off, n) \/ \E d \in Data : M!Write(t, off, n, d)
  BY DEF M!Next
<1>2. CASE M!ReadCopy(t)  BY <1>2, ReadCopyKeeps
<1>3. CASE M!ReadReturn(t)  BY <1>3, ReadReturnKeeps
<1>4. CASE M!Open(t)  BY <1>4, OpenKeeps
<1>5. CASE M!Close(t)  BY <1>5, CloseKeepsTemp
<1>6. CASE M!DeleteIfLast(t)  BY <1>6, DeleteIfLastKeeps
<1>7. ASSUME NEW c \in LinkNames, M!Link(t, c) \/ M!Unlink(t, c) PROVE TempInv'
  BY <1>7, LinkKeeps, UnlinkKeeps
<1>8. ASSUME NEW n \in 0 .. MaxSize, M!Truncate(t, n) PROVE TempInv'
  BY <1>8, TruncateKeeps
<1>9. ASSUME NEW n \in 0 .. MaxSize, NEW off \in M!Positions, M!ReadBounds(t, off, n) PROVE TempInv'
  BY <1>9, ReadBoundsKeeps
<1>10. ASSUME NEW n \in 0 .. MaxSize, NEW off \in M!Positions, NEW d \in Data, M!Write(t, off, n, d) PROVE TempInv'
  BY <1>10, WriteKeeps
<1> QED BY <1>1, <1>2, <1>3, <1>4, <1>5, <1>6, <1>7, <1>8, <1>9, <1>10

LEMMA TempPromises == TempInv => M!KeepsBytes /\ M!LastOneDeletes
<1> SUFFICES ASSUME TempInv PROVE M!KeepsBytes /\ M!LastOneDeletes  OBVIOUS
<1>1. TempTypeOK /\ Lives /\ Keeps  BY DEF TempInv
<1>2. M!KeepsBytes
  <2>1. temp.deleted = 0 =>
          /\ temp.size <= Len(temp.buffer)
          /\ \A i \in M!Positions : i < temp.size /\ told[i] # None => temp.buffer[i + 1] = told[i]
    BY <1>1 DEF Keeps
  <2>2. \A t \in Users : user[t].pc = "read" /\ user[t].fault => user[t].cut  BY <1>1 DEF Keeps
  <2> QED BY <2>1, <2>2 DEF M!KeepsBytes
<1>3. M!LastOneDeletes
  <2>1. (\A t \in Users : user[t] = M!Idle) => ~ \E t \in Users : user[t].pc = "last"  BY StepRows
  <2>2. temp.deleted \in Nat  BY <1>1, TempBasics
  <2> QED BY <1>1, <2>1, <2>2 DEF Lives, M!LastOneDeletes
<1> QED BY <1>2, <1>3

LEMMA TempStutters == TempInv /\ UNCHANGED memory => TempInv'
<1> SUFFICES ASSUME TempInv, UNCHANGED memory PROVE TempInv'  OBVIOUS
<1>1. TempTypeOK /\ Lives /\ Keeps /\ temp' = temp /\ links' = links /\ user' = user /\ told' = told
  BY DEF TempInv, memory
<1>2. TempTypeOK' /\ Keeps'  BY <1>1 DEF TempTypeOK, Keeps
<1>3. Lives'
  <2>1. Cardinality(links') = Cardinality(links)  BY <1>1
  <2> QED BY <1>1, <2>1 DEF Lives
<1> QED BY <1>2, <1>3 DEF TempInv

(* The composition: while the part is the node, the node has its invariant. *)
LivesInv == part = "memory" => TempInv

(* TempFSNode: what was written is read back until it is cut off, a read   *)
(* leaves the buffer only when a truncation overtakes it, and the buffer   *)
(* goes, once, when the last name and the last handle have gone.           *)
THEOREM TempFileLives == FilesSpec => []FileLives
<1>1. FilesInit => LivesInv
  <2>1. M!Init => TempInv  BY TempInit
  <2> QED BY <2>1 DEF FilesInit, LivesInv
<1>2. LivesInv /\ [FilesNext]_files => LivesInv'
  <2> SUFFICES ASSUME LivesInv, [FilesNext]_files, part' = "memory" PROVE TempInv'
    BY DEF LivesInv
  <2>1. part = "memory" /\ (M!Next \/ UNCHANGED memory)  BY Zenon DEF FilesNext, files
  <2> QED BY <2>1, TempStep, TempStutters DEF LivesInv
<1>3. LivesInv => FileLives  BY TempPromises DEF LivesInv, FileLives
<1> QED BY <1>1, <1>2, <1>3, PTL DEF FilesSpec
=============================================================================
