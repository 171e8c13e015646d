\* Three events, delays of none, one or three ticks, up to two ticks while a thread holds the lock.
CONSTANTS
  Events = {e1, e2, e3}
  Delays = {0, 1, 3}
  MaxPending = 2
SPECIFICATION FairSpec
INVARIANTS
  OnTime
PROPERTIES
  Implements
  EventRings
