----------------------------- MODULE MCTCPSocket -----------------------------
(* A socket with one thread: what it may miss comes from the interface thread. *)
EXTENDS TCPSocket

CONSTANT s

MCUsers == {s}
MCSenders == {s}
=============================================================================
