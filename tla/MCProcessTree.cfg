SPECIFICATION FairSpec
CONSTANTS
  root = root
  a = a
  b = b
  worker = worker
  None = None
  Root = root
  Procs <- MCProcs
  Workers <- MCWorkers
  Calls <- MCCalls
  Victims <- MCVictims
CHECK_DEADLOCK FALSE
INVARIANTS
  FamilyTies
  NoChildLeft
PROPERTIES
  WaitEnds
  DieEnds
