---------------------------- MODULE MCTimerTable ----------------------------
(***************************************************************************)
(* Instances of TimerTable for TLC: two slots, so that a table is empty,   *)
(* partly filled or full.  Two timers of the app use ids of their own.     *)
(***************************************************************************)
EXTENDS TimerTable

Timer(id, on, off) == [id |-> id, on |-> on, off |-> off]
Span(on, off) == [on |-> on, off |-> off]

FullTable == {<<Timer(1, 1, 2), Timer(0, 3, 4)>>}

OnePlan == {<<Span(5, 6)>>}
=============================================================================
