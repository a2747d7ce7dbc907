----------------------------- MODULE PollTiming -----------------------------
(***************************************************************************)
(* When the loop looks at the plug: the wait after a pass, shortened to    *)
(* the next transition of the schedule, the backoff while the plug does    *)
(* not answer, the clock that runs on during every exchange, and the check *)
(* of the plug's daylight-saving flag that some turns end with.            *)
(*                                                                         *)
(* Time is counted in units of TRANSITION_MARGIN or less; a minute has     *)
(* MinuteUnits of them.  What the loop does to the relay is in Reconcile.  *)
(***************************************************************************)
EXTENDS Schedule

CONSTANTS
    MinuteUnits,    \* units of a minute
    Margin,         \* TRANSITION_MARGIN
    MaxBackoff,     \* MAX_BACKOFF
    Polls,          \* the poll intervals a configuration may hold
    Schedules,      \* the sets of windows it may hold
    Zones,          \* the timezones it may hold
    DstEvery,       \* DST_CHECK_EVERY
    MaxExchange,    \* the longest an exchange with the plug takes
    Horizon         \* bound: the last instant

ASSUME UnitAssumption ==
    /\ MinuteUnits \in Nat \ {0} /\ Margin \in Nat
    /\ MaxBackoff \in Nat \ {0} /\ Polls \subseteq Nat \ {0} /\ Polls # {}
    /\ DstEvery \in Nat /\ MaxExchange \in Nat /\ Horizon \in Nat

ASSUME ScheduleAssumption ==
    /\ Schedules \subseteq SUBSET Window /\ Schedules # {}
    /\ Zones \subseteq Zone /\ Zones # {}
    /\ None \notin Nat

VARIABLES
    now,        \* the clock
    config,     \* Shared.config: poll interval, windows and timezone
    lpc,        \* where the loop is: "status", "poll", "dst", "set" or "sleep"
    next,       \* st.next
    wait,       \* how long the loop is going to sleep
    backoff,    \* Outage.backoff
    flag,       \* the plug's daylight-saving flag
    since,      \* the time since last_dst_check, up to DstEvery, or None
    want,       \* the flag the last check wanted
    touched,    \* history: it failed, or a client has set the flag since it began
    overtaken,  \* history: st.next was past when the wait was computed
    spent,      \* history: what the DST check took after that
    asked       \* history: the minute of the last status

dst  == <<flag, want, touched>>
vars == <<now, config, lpc, next, wait, backoff, dst, since, overtaken, spent, asked>>

Config == [poll : Polls, windows : Schedules, zone : Zones]

Init ==
    /\ now = 0
    /\ config \in Config
    /\ lpc = "status" /\ next = None /\ wait = 0 /\ backoff = None
    /\ flag \in BOOLEAN /\ since = None /\ want = FALSE /\ touched = FALSE
    /\ overtaken = FALSE /\ spent = 0 /\ asked = 0

MinuteNow == now \div MinuteUnits   \* next_transition truncates to the minute
At(minute) == minute * MinuteUnits

Least(a, b) == IF a <= b THEN a ELSE b
Most(a, b)  == IF a >= b THEN a ELSE b

\* The clock runs on while the loop waits, here for an answer of the plug.
Takes(d) == now + d <= Horizon /\ now' = now + d
Ages(d)  == since' = IF since = None THEN None ELSE Least(since + d, DstEvery)

-----------------------------------------------------------------------------
\* As a function, of which each value is computed once.
NextOf == [zone \in Zones |-> [windows \in Schedules |-> [minute \in 0 .. Horizon |->
             NextTransition(zone, windows, minute)]]]

\* A pending reload, and the status with the next transition.
Status ==
    /\ lpc = "status"
    /\ config' \in {config} \union Config
    /\ next' = NextOf[config'.zone][config'.windows][MinuteNow]
    /\ lpc' = "poll"
    /\ overtaken' = FALSE /\ spent' = 0 /\ asked' = MinuteNow
    /\ UNCHANGED <<now, wait, backoff, dst, since>>

DoubleOrPoll ==     \* mutant: the poll interval is no lower bound
    Least(IF backoff = None THEN config.poll ELSE 2 * backoff, MaxBackoff)
NextBackoff ==
    Least(Most(IF backoff = None THEN config.poll ELSE Least(2 * backoff, MaxBackoff),
               config.poll), MaxBackoff)

Unclamped(w, t) == w    \* mutant
ClampAlways(w, t) ==    \* mutant: also to a transition that is past
    IF next # None THEN Least(w, At(next) - t + Margin) ELSE w
ClampToTransition(w, t) ==
    IF next # None /\ At(next) >= t THEN Least(w, At(next) - t + Margin) ELSE w

Clamp(w) ==
    /\ wait' = ClampToTransition(w, now')
    /\ overtaken' = (next # None /\ At(next) < now')

CheckOnce == since' = None  \* mutant: only at the start
CheckDue  == since' = None \/ since' = DstEvery

\* get_state answers, and set_state too if it was called, whether or not it succeeds.
Answered ==
    /\ lpc = "poll"
    /\ \E d \in 0 .. MaxExchange : Takes(d) /\ Ages(d)
    /\ backoff' = None
    /\ Clamp(config.poll)
    /\ lpc' = IF CheckDue THEN "dst" ELSE "sleep"
    /\ UNCHANGED <<config, next, dst, spent, asked>>

\* get_state fails.
Unanswered ==
    /\ lpc = "poll"
    /\ \E d \in 0 .. MaxExchange : Takes(d) /\ Ages(d)
    /\ backoff' = NextBackoff
    /\ Clamp(NextBackoff)
    /\ lpc' = "sleep"
    /\ UNCHANGED <<config, next, dst, spent, asked>>

\* sync_dst comes after the wait was computed; it reads the plug's clock and, when the
\* flag is not what it wants, sets it in a second exchange.
DstRead ==
    /\ lpc = "dst"
    /\ want' = DstActive(config.zone, MinuteNow)
    /\ \E d \in 0 .. MaxExchange :
         Takes(d) /\ since' = Least(d, DstEvery) /\ spent' = d
    /\ \/ lpc' = (IF flag = want' THEN "sleep" ELSE "set") /\ touched' = FALSE
       \/ lpc' = "sleep" /\ touched' = TRUE
    /\ UNCHANGED <<config, next, wait, backoff, flag, overtaken, asked>>

DstSet ==
    /\ lpc = "set"
    /\ \E d \in 0 .. MaxExchange : Takes(d) /\ Ages(d) /\ spent' = spent + d
    /\ \/ flag' = want /\ UNCHANGED touched
       \/ flag' \in {flag, want} /\ touched' = TRUE
    /\ lpc' = "sleep"
    /\ UNCHANGED <<config, next, wait, backoff, want, overtaken, asked>>

\* POST /clock/dst, which takes the plug lock like the loop's exchanges.
ClientSetsDst ==
    /\ flag' \in BOOLEAN /\ touched' = TRUE
    /\ UNCHANGED <<now, config, lpc, next, wait, backoff, since, want, overtaken, spent, asked>>

SleepEnds(d) ==
    /\ lpc = "sleep"
    /\ Takes(d) /\ Ages(d)
    /\ lpc' = "status"
    /\ wait' = 0
    /\ UNCHANGED <<config, next, backoff, dst, overtaken, spent, asked>>

Slept == SleepEnds(wait)
Woken == \E d \in 0 .. wait : SleepEnds(d)

Next ==
    \/ Status \/ Answered \/ Unanswered \/ DstRead \/ DstSet
    \/ Slept \/ Woken
    \/ ClientSetsDst

Spec == Init /\ [][Next]_vars

-----------------------------------------------------------------------------
(* Every variable keeps its type.                                          *)
TypeOK ==
    /\ now \in 0 .. Horizon /\ config \in Config
    /\ lpc \in {"status", "poll", "dst", "set", "sleep"}
    /\ next \in Nat \union {None} /\ wait \in Nat
    /\ backoff \in (Nat \ {0}) \union {None}
    /\ flag \in BOOLEAN /\ want \in BOOLEAN /\ touched \in BOOLEAN
    /\ since \in (0 .. DstEvery) \union {None}
    /\ overtaken \in BOOLEAN /\ spent \in 0 .. 2 * MaxExchange
    /\ asked \in 0 .. Horizon

(* A window is in force from its start on each of its days until its end   *)
(* next comes, also across midnight, the end of the week, and a change of  *)
(* the offset of local time.                                               *)
WindowsAsMeant ==
    lpc = "status" =>
    LET local == Local(config.zone, MinuteNow)
    IN  Desired(config.zone, config.windows, MinuteNow)
          = \E w \in config.windows : Occurs(w, local)

(* A time of day given on the command line comes within the days tried, so *)
(* that the "unreachable" is, also next to a day that skips it.            *)
OccurrenceFound ==
    lpc = "status" =>
    \A minute \in MinuteOfDay : NextOccurrence(config.zone, MinuteNow, minute) # None

Wanted(minute) == Desired(config.zone, config.windows, minute)

(* The loop does not sleep through a change of the desired state: its next *)
(* turn starts at most Margin after it, and the time of a DST check that   *)
(* ran after the wait was computed ("so the loop wakes right after next if *)
(* that comes first").  It is not so when the next transition passed       *)
(* during the exchange itself.                                             *)
WakesForTransition ==
    [][lpc = "sleep" /\ lpc' = "status" /\ ~overtaken =>
         \A minute \in asked + 1 .. MinuteNow' :
           At(minute) + Margin + spent < now' => Wanted(minute) = Wanted(asked)]_vars

(* While the plug does not answer it is asked no more often than while it  *)
(* does, up to the longest backoff, and never more rarely than that.       *)
BackoffBounded ==
    lpc = "sleep" /\ backoff # None =>
      backoff >= Least(config.poll, MaxBackoff) /\ backoff <= MaxBackoff

(* While the plug answers, its flag is what the timezone says at every     *)
(* sleep, unless a client has set it or the check failed, or local time    *)
(* has changed since the check began: that was less than an hour ago, or   *)
(* is with this very turn.                                                 *)
FlagFollowsZone ==
    lpc = "sleep" /\ backoff = None =>
      LET right == DstActive(config.zone, MinuteNow)
      IN  flag = right \/ touched \/ (want # right /\ (since < DstEvery \/ spent > 0))
=============================================================================
