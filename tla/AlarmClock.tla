---------------------------- MODULE AlarmClock ----------------------------
(***************************************************************************)
(* What Kernel/src/Arch/x86_64/Timer.cpp promises: an alarm is set for a   *)
(* number of ticks, every tick that passes counts for every alarm that is  *)
(* set, and an alarm rings exactly when none of its ticks is left, before  *)
(* any other tick passes.                                                  *)
(***************************************************************************)
EXTENDS Integers

CONSTANTS Alarms, Delays  \* delays are integers

VARIABLES alarm, \* "unset", "set", "rung" or "gone"
          togo   \* the ticks an alarm that is set has yet to wait
vars == <<alarm, togo>>

TypeOK == /\ alarm \in [Alarms -> {"unset", "set", "rung", "gone"}]
          /\ togo \in [Alarms -> Nat]

Init == alarm = [e \in Alarms |-> "unset"] /\ togo = [e \in Alarms |-> 0]

RingAtOnce(e) == /\ alarm[e] = "unset"
                 /\ alarm' = [alarm EXCEPT ![e] = "rung"] /\ UNCHANGED togo

Set(e) == /\ alarm[e] = "unset"
          /\ alarm' = [alarm EXCEPT ![e] = "set"]
          /\ \E n \in Delays : n > 0 /\ togo' = [togo EXCEPT ![e] = n]

Pass == /\ \A e \in Alarms : alarm[e] = "set" => togo[e] > 0
        /\ togo' = [e \in Alarms |-> IF alarm[e] = "set" THEN togo[e] - 1 ELSE togo[e]]
        /\ UNCHANGED alarm

Ring(e) == /\ alarm[e] = "set" /\ togo[e] = 0
           /\ alarm' = [alarm EXCEPT ![e] = "rung"] /\ UNCHANGED togo

Cancel(e) == /\ alarm[e] \in {"set", "rung"}
             /\ alarm' = [alarm EXCEPT ![e] = "gone"]
             /\ togo' = [togo EXCEPT ![e] = 0]

Next == Pass \/ \E e \in Alarms : RingAtOnce(e) \/ Set(e) \/ Ring(e) \/ Cancel(e)
Spec == Init /\ [][Next]_vars
=============================================================================
