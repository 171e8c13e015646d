\* A blocker is removed from the list twice.
CONSTANTS
  Waiters = {w1}
  Posters = {p1}
  Killers = {}
  InitialValue = 0
  MaxWaits = 2
  MaxPosts = 2
  MaxKills = 0
SPECIFICATION Spec
CHECK_DEADLOCK FALSE
INVARIANT ListIntact
