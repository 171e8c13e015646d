---------------------------- MODULE ReadersWriter ----------------------------
(***************************************************************************)
(* What a lock that admits many readers or one writer promises, whatever   *)
(* it is made of: the abstract specification ReadWriteLock implements.     *)
(***************************************************************************)
CONSTANT Threads

VARIABLES readers,   \* threads inside AcquireRead .. ReleaseRead
          writers    \* threads inside AcquireWrite .. ReleaseWrite

rwVars == <<readers, writers>>

RWInit == readers = {} /\ writers = {}

BeginRead(t) == /\ writers = {}
                /\ t \notin readers
                /\ readers' = readers \cup {t}
                /\ UNCHANGED writers

EndRead(t) == /\ t \in readers
              /\ readers' = readers \ {t}
              /\ UNCHANGED writers

BeginWrite(t) == /\ readers = {} /\ writers = {}
                 /\ writers' = {t}
                 /\ UNCHANGED readers

EndWrite(t) == /\ t \in writers
               /\ writers' = writers \ {t}
               /\ UNCHANGED readers

RWNext == \E t \in Threads :
             BeginRead(t) \/ EndRead(t) \/ BeginWrite(t) \/ EndWrite(t)

RWSpec == RWInit /\ [][RWNext]_rwVars
=============================================================================
