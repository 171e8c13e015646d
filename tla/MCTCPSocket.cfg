CONSTANTS
  s = s
  Users <- MCUsers
  Senders <- MCSenders
  PeerBytes = 2
  UserBytes = 1
  MaxLength = 2
  MaxFlight = 1
SPECIFICATION Spec
CHECK_DEADLOCK FALSE
INVARIANTS
  AcknowledgedKept
  NoLostWake
  FreedUnused
PROPERTIES
  Implements
