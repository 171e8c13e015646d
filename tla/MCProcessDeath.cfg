\* Two processors, a main thread, a worker and a thread of another process.
CONSTANTS
  c1 = c1
  c2 = c2
  m = m
  w1 = w1
  f = f
  Idle = Idle
  CPUs <- TwoCPUs
  Main = m
  Workers <- OneWorker
  Others <- OneOther
SPECIFICATION FairSpec
CHECK_DEADLOCK FALSE
INVARIANTS
  OneProcessor
  
PROPERTIES
  NoneRevived
  
