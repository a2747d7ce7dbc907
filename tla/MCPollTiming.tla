---------------------------- MODULE MCPollTiming ----------------------------
(***************************************************************************)
(* Instances of PollTiming for TLC: a week of two days of four minutes.    *)
(* The schedules have a window across midnight and the end of the week, a  *)
(* window on both days, two that overlap, and none.                        *)
(***************************************************************************)
EXTENDS PollTiming

Night == NewWindow(3, 1, {1})
Noon  == NewWindow(1, 2, {})
Long  == NewWindow(0, 3, {0})

SomeSchedules == {{Night}, {Noon}, {Night, Long}, {}}

Plain  == [change |-> 0, before |-> 4, after |-> 4]
Spring == [change |-> 6, before |-> 4, after |-> 5]
Autumn == [change |-> 6, before |-> 5, after |-> 4]

SomeZones == {Plain, Spring, Autumn}
=============================================================================
