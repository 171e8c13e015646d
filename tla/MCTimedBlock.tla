---------------------------- MODULE MCTimedBlock ----------------------------
(* Model-checking instances of TimedBlock.                                 *)
EXTENDS TimedBlock

CONSTANTS s, p1, k1

OneWaker == {p1}
OneKiller == {k1}
None == {}
AnyPlacement == {{}, {s}, {k1}}
Both == {"sleep", "block"}
=============================================================================
