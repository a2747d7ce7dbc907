---------------------------- MODULE MCCommandLine ---------------------------
(***************************************************************************)
(* Instances of CommandLine for TLC.                                       *)
(***************************************************************************)
EXTENDS CommandLine

CONSTANTS u1, u2

TwoUsers == {u1, u2}

Timer(id, on, off) == [id |-> id, on |-> on, off |-> off]
Span(on, off) == [on |-> on, off |-> off]

\* A full table, whose last end is cut off when it is read.
FullTable == {<<Timer(1, 1, 2), Timer(0, 3, 4)>>}

\* A configuration that fills the plug, and one with a window too many.
TwoPlans == {<<Span(5, 6), Span(7, 8)>>, <<Span(5, 6), Span(7, 8), Span(9, 10)>>}

\* `status` is the first half of a dated command, and LoopCancels does what `cancel` does.
SomeCommands ==
    [verb : {"start"}, date : {0}] \union [verb : {"end"}, date : {1}]
      \union [verb : {"show", "sync"}, date : {None}]
=============================================================================
