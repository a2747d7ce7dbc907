---------------------------- MODULE PlugCommand ----------------------------
(***************************************************************************)
(* What the UDP client promises its callers, as if there were no network:  *)
(* one call at a time; a call may fail, with or without effect; a call     *)
(* that succeeds says what is so.                                          *)
(*                                                                         *)
(* WinterMode and Reconcile take commands to the plug this way.            *)
(***************************************************************************)

CONSTANTS
    None,
    Failed,     \* the answer of a call that failed
    Tables      \* the timer tables the plug may hold

Power == {"on", "off"}

\* A call with the value it writes: set_state confirms, the last three are vendor commands.
Call ==
    [op : {"GET", "GETALL"}, to : {None}]
        \union [op : {"SET"}, to : Power] \union [op : {"ADD", "DELETE"}, to : Tables]

VARIABLES
    relay,      \* the relay in the plug
    timers,     \* the timer table in the plug
    call,       \* the last call made, None before the first
    busy,       \* it is still under way
    had,        \* the states the relay has had since it was made
    answer      \* what the last finished call returned

vars == <<relay, timers, call, busy, had, answer>>

Init ==
    /\ relay \in Power /\ timers \in Tables
    /\ call = None /\ busy = FALSE /\ had = {relay} /\ answer = None

Begin(c) ==
    /\ ~busy
    /\ call' = c /\ busy' = TRUE /\ had' = {relay}
    /\ UNCHANGED <<relay, timers, answer>>

\* A write takes effect, if at all, before the next call begins, and possibly
\* after it was answered or given up, or twice.
TakeEffect ==
    /\ \/ call \in [op : {"SET"}, to : Power] /\ relay' = call.to /\ UNCHANGED timers
       \/ call \in [op : {"ADD", "DELETE"}, to : Tables] /\ timers' = call.to /\ UNCHANGED relay
    /\ had' = had \union {relay'}
    /\ UNCHANGED <<call, busy, answer>>

Button ==
    /\ relay' \in Power \ {relay}
    /\ had' = had \union {relay'}
    /\ UNCHANGED <<timers, call, busy, answer>>

Truthful(v) ==
    CASE call.op = "GET"    -> v \in had
      [] call.op = "SET"    -> v = call.to /\ v \in had
      [] call.op = "GETALL" -> v = timers
      [] OTHER              -> v = call.to /\ v = timers

Return(v) ==
    /\ busy
    /\ v = Failed \/ Truthful(v)
    /\ answer' = v /\ busy' = FALSE
    /\ UNCHANGED <<relay, timers, call, had>>

Next ==
    \/ \E c \in Call : Begin(c)
    \/ TakeEffect
    \/ Button
    \/ \E v \in Power \union Tables \union {Failed} : Return(v)

Spec == Init /\ [][Next]_vars
=============================================================================
