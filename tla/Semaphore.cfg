\* Two waiters, a poster and a signal.
CONSTANTS
  Waiters = {w1, w2}
  Posters = {p1}
  Killers = {k1}
  InitialValue = 0
  MaxWaits = 2
  MaxPosts = 2
  MaxKills = 1
SPECIFICATION FairSpec
CHECK_DEADLOCK FALSE
INVARIANTS
  AdmissionHasPermit
  OnlySignalLoses

  
