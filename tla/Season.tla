------------------------------- MODULE Season -------------------------------
(***************************************************************************)
(* The winter season of season.rs as pure definitions: a start day and an  *)
(* optional end day, the first day on which normal operation resumes.      *)
(* Days are numbered; only their order is ever compared by the program.    *)
(***************************************************************************)
EXTENDS Naturals

CONSTANTS
    None,       \* the absent Option: no season, or a season without an end
    MaxDay      \* bound: the last day a behaviour reaches

ASSUME DayAssumption == MaxDay \in Nat

Day == 0 .. MaxDay

ASSUME NoneAssumption == None \notin Day

\* Season::new refuses an end on or before the start.
ValidRange(start, end) == end = None \/ end > start

Season == {s \in [start : Day, end : Day \union {None}] : ValidRange(s.start, s.end)}

ASSUME NoSeasonAssumption == None \notin Season

IsActive(s, today) == today >= s.start /\ (s.end = None \/ today < s.end)

IsOver(s, today) == s.end # None /\ today >= s.end
=============================================================================
