------------------------------ MODULE Schedule ------------------------------
(***************************************************************************)
(* The weekly schedule of schedule.rs as pure definitions: windows that    *)
(* may cross midnight, in a timezone whose offset may change, and the      *)
(* search for the next change of the desired state.                        *)
(*                                                                         *)
(* A minute is counted from an instant fixed once; the timezone maps it to *)
(* a local minute, and the local minute to a weekday and a minute of it.   *)
(* The lengths of day and week are parameters.                             *)
(***************************************************************************)
EXTENDS Integers, FiniteSetsExt

CONSTANTS
    None,
    DayMinutes,     \* DAY_MINUTES
    WeekDays        \* seven

ASSUME CalendarAssumption == DayMinutes \in Nat \ {0} /\ WeekDays \in Nat \ {0}

MinuteOfDay == 0 .. DayMinutes - 1
Weekday == 0 .. WeekDays - 1

\* A window on no day in particular is one on all days.
NewWindow(start, end, days) ==
    [start |-> start, end |-> end, days |-> IF days = {} THEN Weekday ELSE days]

\* Window::new refuses an empty window.
Window == {w \in [start : MinuteOfDay, end : MinuteOfDay, days : SUBSET Weekday] :
             w.start # w.end /\ w.days # {}}

Pred(day) == (day + WeekDays - 1) % WeekDays

CrossesMidnight(w) == w.end < w.start

ContainsToday(w, day, minute) ==    \* mutant: the morning counts for the same day
    /\ day \in w.days
    /\ IF CrossesMidnight(w) THEN minute >= w.start \/ minute < w.end
       ELSE minute >= w.start /\ minute < w.end
Contains(w, day, minute) ==
    IF CrossesMidnight(w)
    THEN \/ day \in w.days /\ minute >= w.start
         \/ Pred(day) \in w.days /\ minute < w.end
    ELSE day \in w.days /\ minute >= w.start /\ minute < w.end

-----------------------------------------------------------------------------
(* A timezone: the offset of its local time, and the minute it changes.    *)

Zone == [change : Nat, before : Nat, after : Nat]

Local(zone, m) == m + IF m < zone.change THEN zone.before ELSE zone.after
\* The zone observes daylight saving while its offset is the larger of the two.
DstActive(zone, m) ==
    zone.before # zone.after /\ (m < zone.change) = (zone.before > zone.after)
DayOf(local)    == (local \div DayMinutes) % WeekDays
MinuteIn(local) == local % DayMinutes

Desired(zone, windows, m) ==
    LET local == Local(zone, m)
    IN  \E w \in windows : Contains(w, DayOf(local), MinuteIn(local))

LookaheadDays == WeekDays + 1

NextTransition(zone, windows, m) ==
    LET changes == {t \in m + 1 .. m + LookaheadDays * DayMinutes :
                      Desired(zone, windows, t) # Desired(zone, windows, m)}
    IN  IF changes = {} THEN None ELSE Min(changes)

\* The minutes at which a local date and time of day come, none when skipped.
MinutesOf(zone, date, minute) ==
    {m \in {date * DayMinutes + minute - zone.before, date * DayMinutes + minute - zone.after} :
       Local(zone, m) = date * DayMinutes + minute}

TwoDays == 0 .. 1       \* mutant: one day too few is tried
DaysTried == 0 .. 2

\* The command line's "--until HH:MM": the first such time after now, taking
\* of two in one day the earlier; None stands for the panic when none is found.
NextOccurrence(zone, m, minute) ==
    LET today == Local(zone, m) \div DayMinutes
        Earliest(k) == MinutesOf(zone, today + k, minute)
        good == {k \in DaysTried : Earliest(k) # {} /\ Min(Earliest(k)) > m}
    IN  IF good = {} THEN None ELSE Min(Earliest(Min(good)))

-----------------------------------------------------------------------------
\* What a window means: from its start on one of its days until its end next comes.
Occurs(w, local) ==
    \E d \in {local \div DayMinutes - 1, local \div DayMinutes} :
      /\ d % WeekDays \in w.days
      /\ local >= d * DayMinutes + w.start
      /\ local < d * DayMinutes + w.end + IF w.end < w.start THEN DayMinutes ELSE 0
=============================================================================
