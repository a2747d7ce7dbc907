---------------------------- MODULE MCReconcile ----------------------------
(***************************************************************************)
(* Instances of Reconcile for TLC: schedules that turn the pump on, turn   *)
(* it off, and never change within the horizon.                            *)
(***************************************************************************)
EXTENDS Reconcile

Rising  == [t \in Time |-> IF t = 0 THEN "off" ELSE "on"]
Falling == [t \in Time |-> IF t = 0 THEN "on" ELSE "off"]
AlwaysOff == [t \in Time |-> "off"]

TwoPlans == {Rising, Falling}
OnePlan  == {AlwaysOff}
=============================================================================
