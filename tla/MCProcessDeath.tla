--------------------------- MODULE MCProcessDeath ---------------------------
(* Model-checking instances of ProcessDeath.                               *)
EXTENDS ProcessDeath

CONSTANTS c1, c2, m, w1, f

TwoCPUs == {c1, c2}
OneWorker == {w1}
OneOther == {f}
None == {}
=============================================================================
