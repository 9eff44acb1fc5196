------------------------------- MODULE Clock -------------------------------
(* The wall clock of the cloud's processes, in steps long enough for a      *)
(* handler to finish within one.                                            *)
EXTENDS Naturals

CONSTANT MaxTime    \* bound

ASSUME ClockAssumption == MaxTime \in Nat

VARIABLE now

Times == 0..MaxTime

Pass == now < MaxTime /\ now' = now + 1
=============================================================================
