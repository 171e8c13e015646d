\* Any operation, any timeout; nobody, the sleeper or the killer on the boot processor.
CONSTANTS
  s = s
  p1 = p1
  k1 = k1
  Sleeper = s
  Wakers <- OneWaker
  Killers <- OneKiller
  Placements <- AnyPlacement
  Operations <- Both
  ShortTimeouts = TRUE
  MaxCalls = 2
SPECIFICATION FairSpec
CHECK_DEADLOCK FALSE
INVARIANTS
  SleepNotCut
  ResultTrue
PROPERTIES
  CallEnds
