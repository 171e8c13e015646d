---------------------------- MODULE MCProcessTree ----------------------------
(* Root with one worker, and two processes to be its children or           *)
(* grandchild.                                                             *)
EXTENDS ProcessTree

CONSTANTS root, a, b, worker

MCProcs == {root, a, b}
MCWorkers == {worker}
MCCalls == [t \in MCProcs \cup MCWorkers |->
  CASE t = worker -> {"scan", "fork"} [] t = root -> {"find"}
    [] t \in {a, b} -> {"exec"}]
MCVictims == {root}
=============================================================================
