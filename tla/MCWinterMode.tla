---------------------------- MODULE MCWinterMode ----------------------------
(***************************************************************************)
(* Instances of WinterMode for TLC.  Three windows are enough for a config *)
(* that fits, one that differs from it and one the plug cannot store;   *)
(* three days for a season, its end, and one with another start.           *)
(***************************************************************************)
EXTENDS WinterMode

CONSTANTS w1, w2, w3

AllWindows == {w1, w2, w3}

AnyConfig     == {{w1}, {w1, w2}, {w1, w2, w3}, {}}
FittingConfig == {{w1}, {w1, w2}}
OneConfig     == {{w1, w2}}

Range(start, end) == [start |-> start, end |-> end]

SomeSeasons == {Range(0, 1), Range(1, 2), Range(0, None)}
TwoStarts   == {Range(0, None), Range(1, 2)}
OneSeason   == {Range(0, 1)}

WinterEndpoints == {"PostWinter", "DeleteWinter"}
=============================================================================
