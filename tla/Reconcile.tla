------------------------------ MODULE Reconcile ------------------------------
(***************************************************************************)
(* The relay: the loop that compares it with the desired state and         *)
(* corrects it, the override that takes precedence over the schedule and   *)
(* its file, the direct switch of winter mode, and the wake-up between the *)
(* API thread and the sleeping loop.                                       *)
(*                                                                         *)
(* Every action is one section under the state lock or one command under   *)
(* the plug lock; the other thread may run between any two.  Winter mode   *)
(* appears only as "active" or not; WinterMode has the rest of it.         *)
(***************************************************************************)
EXTENDS Naturals, FiniteSetsExt

CONSTANTS
    None,
    Torn,           \* an override file cut short, which overrides::read ignores
    Plans,          \* the schedules a configuration may hold
    Asked,          \* the powers clients ask for in this instance
    Minute,         \* how long a hold lasts at least, in instants
    Fallback,       \* SET_FALLBACK, in instants
    MaxTime,        \* bound: the last instant
    MaxCalls,       \* bound: requests the API serves
    MaxFails,       \* bound: plug commands and file operations that fail
    MaxTurns,       \* bound: midnights at which a season begins or ends
    MaxEvents       \* bound: presses of the button, reloads and restarts together

Power == {"on", "off"}
Time == 0 .. MaxTime
Never == MaxTime + 1        \* an instant past every behaviour

ASSUME BoundAssumption ==
    /\ MaxTime \in Nat /\ MaxCalls \in Nat /\ MaxFails \in Nat
    /\ MaxTurns \in Nat /\ MaxEvents \in Nat

ASSUME HoldAssumption == Minute \in Nat \ {0} /\ Fallback \in Nat \ {0}

ASSUME PlanAssumption == Plans \subseteq [Time -> Power] /\ Plans # {} /\ Asked \subseteq Power

Override == [power : Power, until : 1 .. Never]

ASSUME SentinelAssumption ==
    None \notin Override \union Power /\ Torn \notin Override /\ Torn # None

VARIABLES
    now,            \* the wall clock
    plan,           \* Shared.config: the power the windows ask for at each time
    override,       \* Shared.override
    file,           \* what the override file holds
    winter,         \* State::winter_active
    wake,           \* Shared.wake
    actual,         \* Shared.actual
    reachable,      \* Shared.reachable
    relay,          \* the relay in the plug
    lpc,            \* where the loop is
    handsOff,       \* the loop's hands_off
    desired,        \* the loop's st.desired
    seen,           \* what the loop's get_state returned, None when it failed
    ticked,         \* the loop's current one-second wait has run its time
    apc,            \* where the API thread is in its request
    arg,            \* the override or direct switch it is carrying out
    used,           \* how much of each bound was used
    unread,         \* history: the override file could not be read at the start
    unseen,         \* history: an override change the loop has neither read nor slept through
    ordered,        \* history: the last direct switch of this winter, if it stands
    strays          \* history: commands the loop sent since this winter began

memory  == <<plan, override, winter, wake, actual, reachable>>
pass    == <<lpc, handsOff, desired, seen, ticked>>
request == <<apc, arg>>
history == <<unread, unseen, ordered, strays>>
vars    == <<now, memory, file, relay, pass, request, used, history>>

Bounds == [calls |-> MaxCalls, fails |-> MaxFails, turns |-> MaxTurns,
           presses |-> MaxEvents, reloads |-> MaxEvents, restarts |-> MaxEvents]

Use(kind) ==
    /\ used[kind] < Bounds[kind]
    /\ kind \in {"presses", "reloads", "restarts"} =>
         used["presses"] + used["reloads"] + used["restarts"] < MaxEvents
    /\ used' = [used EXCEPT ![kind] = @ + 1]
Fault     == Use("fails")
NoFault   == UNCHANGED used

Init ==
    /\ now = 0
    /\ plan \in Plans
    /\ override = None /\ file = None
    /\ winter = FALSE /\ wake = FALSE /\ actual = None /\ reachable = FALSE
    /\ relay \in Power
    /\ lpc = "gate" /\ handsOff = FALSE /\ desired = "off" /\ seen = None /\ ticked = FALSE
    /\ apc = "idle" /\ arg = None
    /\ used = [kind \in DOMAIN Bounds |-> 0]
    /\ unread = FALSE /\ unseen = FALSE /\ ordered = None /\ strays = 0

-----------------------------------------------------------------------------
(* The override and the desired state.                                     *)

IsExpired(o) == now >= o.until
Live(o) == o \notin {None, Torn} /\ ~IsExpired(o)

Wanted == IF Live(override) THEN override.power ELSE plan[now]

Transitions == {t \in Time : t > now /\ plan[t] # plan[now]}
NextTransition == Min(Transitions)

\* How long POST /set holds: to the next transition, if there is one.
HoldOrZero == IF Transitions = {} THEN 0 ELSE NextTransition    \* mutant: no fallback
HoldUntil  == IF Transitions = {} THEN now + Fallback ELSE Max({NextTransition, now + Minute})
HoldEnd == IF HoldUntil < Never THEN HoldUntil ELSE Never

OutdatedEarly == override # None /\ now + 1 >= override.until   \* mutant
OutdatedNever == FALSE                                          \* mutant
Outdated      == override # None /\ IsExpired(override)

\* active_override: an expired override goes, its file too if it can be removed.
DropExpired ==
    \/ /\ Outdated
       /\ override' = None
       /\ \/ NoFault /\ file' = None
          \/ Fault /\ UNCHANGED file
    \/ ~Outdated /\ UNCHANGED <<override, file, used>>

-----------------------------------------------------------------------------
(* One turn of the loop.                                                   *)

\* winter_pass cancels a season that is over, or one just set in its place; the
\* wake-up is for the loop itself.
CancelSeason ==
    /\ winter' = FALSE
    /\ ordered' = None
    /\ strays' = 0
    /\ wake' = TRUE

\* A pending reload, then the season as winter_pass leaves it.
LoopGate ==
    /\ lpc = "gate"
    /\ \/ UNCHANGED <<plan, used>>
       \/ Use("reloads") /\ plan' \in Plans
    /\ CancelSeason \/ UNCHANGED <<winter, ordered, strays, wake>>
    /\ handsOff' = winter'
    /\ lpc' = "status"
    /\ UNCHANGED <<now, override, file, actual, reachable, relay, desired, seen, ticked,
                   request, unread, unseen>>

LoopStatus ==
    /\ lpc = "status"
    /\ DropExpired
    /\ desired' = IF override' # None THEN override'.power ELSE plan[now]
    /\ unseen' = FALSE
    /\ lpc' = "poll"
    /\ UNCHANGED <<now, plan, winter, wake, actual, reachable, relay, handsOff, seen,
                   ticked, request, unread, ordered, strays>>

LoopPoll ==
    /\ lpc = "poll"
    /\ \/ NoFault /\ seen' = relay /\ lpc' = "correct"
       \/ Fault /\ seen' = None /\ lpc' = "publish"
    /\ UNCHANGED <<now, memory, file, relay, handsOff, desired, ticked, request, history>>

InSync          == seen = desired   \* mutant: winter is not looked at
NothingToCorrect == handsOff \/ seen = desired

LoopLeave ==
    /\ lpc = "correct"
    /\ NothingToCorrect
    /\ lpc' = "publish"
    /\ UNCHANGED <<now, memory, file, relay, handsOff, desired, seen, ticked, request,
                   used, history>>

\* set_state.  When it fails the command may have been carried out all the same.
LoopCorrect ==
    /\ lpc = "correct"
    /\ ~NothingToCorrect
    /\ \/ NoFault /\ relay' = desired /\ seen' = desired
       \/ Fault /\ relay' \in {relay, desired} /\ UNCHANGED seen
    /\ strays' = IF winter THEN strays + 1 ELSE strays
    /\ lpc' = "publish"
    /\ UNCHANGED <<now, memory, file, handsOff, desired, ticked, request, unread, unseen,
                   ordered>>

\* The locals of a turn end with it.
NoLocals == handsOff' = FALSE /\ desired' = "off" /\ seen' = None

Aimed    == desired     \* mutant: what was wanted, not what was seen
Observed == seen

LoopPublish ==
    /\ lpc = "publish"
    /\ \/ seen = None /\ reachable' = FALSE /\ UNCHANGED actual
       \/ seen # None /\ reachable' = TRUE /\ actual' = Observed
    /\ lpc' = "sleep"
    /\ ticked' = FALSE
    /\ NoLocals
    /\ UNCHANGED <<now, plan, override, file, winter, wake, relay, request, used, history>>

Pass == LoopGate \/ LoopStatus \/ LoopPoll \/ LoopLeave \/ LoopCorrect \/ LoopPublish

\* The second is over, though the loop has yet to get the state lock back.
TickElapses ==
    /\ lpc = "sleep"
    /\ ~ticked
    /\ ticked' = TRUE
    /\ UNCHANGED <<now, memory, file, relay, lpc, handsOff, desired, seen, request, used,
                   history>>

\* State::wait takes the wake-up; sleep_interruptible tells by the clock alone
\* whether there was one, and sleeps on when it came as the second ended.
WaitReturns ==
    /\ lpc = "sleep"
    /\ wake \/ ticked
    /\ wake' = FALSE
    /\ lpc' = IF ticked THEN "sleep" ELSE "gate"
    /\ ticked' = FALSE
    /\ unseen' = (unseen /\ ~(wake /\ ticked))
    /\ UNCHANGED <<now, plan, override, file, winter, actual, reachable, relay, handsOff,
                   desired, seen, request, used, unread, ordered, strays>>

\* The poll interval has passed, or a signal ended the sleep.
SleepOver ==
    /\ lpc = "sleep"
    /\ wake' = FALSE
    /\ lpc' = "gate"
    /\ ticked' = FALSE
    /\ UNCHANGED <<now, plan, override, file, winter, actual, reachable, relay, handsOff,
                   desired, seen, request, used, history>>

-----------------------------------------------------------------------------
(* The API thread.                                                         *)

Accept ==
    /\ apc = "idle"
    /\ Use("calls")
    /\ UNCHANGED <<now, memory, file, relay, pass, history>>

\* Refused while winter mode is active, and for a time that is past.
PostOverride ==
    /\ Accept
    /\ ~winter
    /\ \E p \in Asked, u \in now + 1 .. Never : arg' = [power |-> p, until |-> u]
    /\ apc' = "install"

DeleteOverride == Accept /\ arg' = None /\ apc' = "install"

\* POST /set: a direct switch in winter, otherwise a hold to the next transition.
PostSet ==
    /\ Accept
    /\ \E p \in Asked : arg' = [power |-> p, until |-> Never]
    /\ apc' = IF winter THEN "switch" ELSE "hold"

Hold ==
    /\ apc = "hold"
    /\ DropExpired
    /\ arg' = [arg EXCEPT !.until = HoldEnd]
    /\ apc' = "install"
    /\ UNCHANGED <<now, plan, winter, wake, actual, reachable, relay, pass, history>>

\* A write that fails may leave the file cut short, a removal leaves it alone.
Spoiled == IF arg = None THEN {file} ELSE {file, Torn}

\* mutant: the memory before the file
InstallMemoryFirst ==
    Fault /\ file' \in Spoiled /\ override' = arg /\ apc' = "idle" /\ UNCHANGED <<unseen, unread>>

InstallFails ==
    Fault /\ file' \in Spoiled /\ apc' = "idle" /\ UNCHANGED <<override, unseen, unread>>

Installed == NoFault /\ file' = arg /\ override' = arg /\ unseen' = TRUE /\ unread' = FALSE

InstallQuietly  == Installed /\ apc' = "answer"     \* mutant: the loop is not woken
InstallSucceeds == Installed /\ apc' = "wake"

\* set_override: the file first; when that fails the memory stays as it was.
Install ==
    /\ apc = "install"
    /\ InstallSucceeds \/ InstallFails
    /\ arg' = None
    /\ UNCHANGED <<now, plan, winter, wake, actual, reachable, relay, pass, ordered, strays>>

Wake ==
    /\ apc = "wake"
    /\ wake' = TRUE
    /\ apc' = "answer"
    /\ UNCHANGED <<now, plan, override, file, winter, actual, reachable, relay, pass, arg,
                   used, history>>

\* set_now: the command, then the publication of what was switched.
Switch ==
    /\ apc = "switch"
    /\ \/ /\ NoFault
          /\ relay' = arg.power /\ apc' = "record"
          /\ ordered' = IF winter THEN arg.power ELSE None
          /\ UNCHANGED arg
       \/ /\ Fault
          /\ relay' \in {relay, arg.power} /\ apc' = "idle"
          /\ ordered' = None
          /\ arg' = None
    /\ UNCHANGED <<now, memory, file, pass, unread, unseen, strays>>

Record ==
    /\ apc = "record"
    /\ actual' = arg.power
    /\ apc' = "answer"
    /\ arg' = None
    /\ UNCHANGED <<now, plan, override, file, winter, wake, reachable, relay, pass, used,
                   history>>

\* A season beginning or ending: no direct switch is in force, none has been undone.
WinterTurns ==
    /\ winter' = ~winter
    /\ ordered' = None
    /\ strays' = 0

\* POST /winter and DELETE /winter; a season that changes nothing today only wakes.
PostWinter ==
    /\ apc = "idle"
    /\ Use("calls")
    /\ WinterTurns \/ UNCHANGED <<winter, ordered, strays>>
    /\ apc' = "wake"
    /\ UNCHANGED <<now, plan, override, file, wake, actual, reachable, relay, pass, arg,
                   unread, unseen>>

\* Every good answer carries a status, which drops an expired override.
Answer ==
    /\ apc = "answer"
    /\ DropExpired
    /\ apc' = "idle"
    /\ UNCHANGED <<now, plan, winter, wake, actual, reachable, relay, pass, arg, history>>

Call  == PostOverride \/ DeleteOverride \/ PostSet \/ PostWinter
Serve == Hold \/ Install \/ Wake \/ Switch \/ Record \/ Answer

-----------------------------------------------------------------------------
(* The world outside.                                                      *)

TimePasses ==
    /\ now < MaxTime
    /\ now' = now + 1
    /\ UNCHANGED <<memory, file, relay, pass, request, used, history>>

Button ==
    /\ Use("presses")
    /\ relay' \in Power \ {relay}
    /\ ordered' = None
    /\ UNCHANGED <<now, memory, file, pass, request, unread, unseen, strays>>

Midnight ==
    /\ Use("turns")
    /\ WinterTurns
    /\ UNCHANGED <<now, plan, override, file, wake, actual, reachable, relay, pass, request,
                   unread, unseen>>

\* The process is stopped at any point and started again.  overrides::read takes
\* a torn file for none and removes an expired one; a file it cannot read or
\* remove stays, and the daemon starts without an override.
ReadFile(old) ==
    \/ /\ override' = IF Live(old) THEN old ELSE None
       /\ file' = IF old = Torn THEN Torn ELSE override'
       /\ unread' = FALSE
    \/ /\ old # None
       /\ override' = None /\ file' = old /\ unread' = TRUE

StartAgain(old) ==
    /\ Use("restarts")
    /\ ReadFile(old)
    /\ wake' = FALSE /\ actual' = None /\ reachable' = FALSE
    /\ lpc' = "gate" /\ ticked' = FALSE /\ NoLocals
    /\ apc' = "idle" /\ arg' = None
    /\ unseen' = FALSE
    /\ plan' \in Plans
    /\ UNCHANGED <<now, winter, relay, ordered, strays>>

Restart == StartAgain(file)

\* overrides::write truncates the file before it writes it.
CrashInWrite == apc = "install" /\ arg # None /\ StartAgain(Torn)

Environment == TimePasses \/ Button \/ Midnight \/ Restart \/ CrashInWrite

-----------------------------------------------------------------------------
Next == Pass \/ TickElapses \/ WaitReturns \/ SleepOver \/ Call \/ Serve \/ Environment

Spec == Init /\ [][Next]_vars

\* The loop's pass runs on and its sleep ends, and a request is carried through.
Fairness == WF_vars(Pass \/ SleepOver) /\ WF_vars(Serve)

FairSpec == Spec /\ Fairness

-----------------------------------------------------------------------------
(* Every variable keeps its type: neither the relay nor an override is     *)
(* ever commanded to anything but on or off, and a file read back at the   *)
(* start is a well-formed override or none.                                *)
TypeOK ==
    /\ now \in Time /\ plan \in Plans
    /\ override \in Override \union {None} /\ file \in Override \union {None, Torn}
    /\ winter \in BOOLEAN /\ wake \in BOOLEAN /\ reachable \in BOOLEAN
    /\ actual \in Power \union {None} /\ relay \in Power
    /\ lpc \in {"gate", "status", "poll", "correct", "publish", "sleep"}
    /\ handsOff \in BOOLEAN /\ desired \in Power /\ seen \in Power \union {None}
    /\ ticked \in BOOLEAN
    /\ apc \in {"idle", "hold", "install", "wake", "switch", "record", "answer"}
    /\ arg \in Override \union {None}
    /\ used \in [DOMAIN Bounds -> Nat]
    /\ \A kind \in DOMAIN Bounds : used[kind] <= Bounds[kind]
    /\ unread \in BOOLEAN /\ unseen \in BOOLEAN /\ ordered \in Power \union {None}
    /\ strays \in Nat

(* An override in force would survive a restart, and none that was cleared *)
(* or replaced would come back.  About set_override and active_override    *)
(* changing memory and file together, whichever of the two fails; a failed *)
(* write may leave a file that reads as none, a file that was not readable *)
(* at the start may hold an override the daemon does not know of.          *)
OverrideDurable ==
    /\ Live(override) => file \in {override, Torn}
    /\ Live(file) => file = override \/ unread

IfLive(o) == IF Live(o) THEN o ELSE None

Cell == INSTANCE DurableCell WITH
    Values <- Override, mem <- IfLive(override), stored <- IfLive(file), starts <- used["restarts"]

(* The override is a durable cell whose setting ends by itself: expiry and *)
(* its cleaning up, in either thread and at any time, torn files, failed   *)
(* removals and restarts show as nothing else.                             *)
KeepsOverride == Cell!Spec

(* An override in force is given up only on a client's request, or by a    *)
(* restart that could not read it back: nothing the loop or a status       *)
(* request does ends it early, also when one override replaces another     *)
(* between two steps of theirs.                                            *)
LiveOverrideKept ==
    [][Live(override) /\ override' # override =>
         (apc = "install" /\ apc' = "wake") \/ file' = Torn \/ unread']_vars

(* In one stretch of winter the loop sends the relay at most one command,  *)
(* that of the pass under way when winter began: from the next pass on it  *)
(* only observes.                                                          *)
AtMostOneStray == strays <= 1

(* Once the world stands still the relay is in the desired state, or it is *)
(* winter: after missed packets, button presses, restarts, a file torn by  *)
(* a failed write, and wake-ups the loop slept through.                    *)
Converges == <>[](winter \/ relay = Wanted)

(* Once the world stands still the daemon reports the relay as it is, also *)
(* in winter, and also after a direct switch raced with a poll.            *)
ReportsRelay == <>[](reachable /\ actual = relay)

(* A direct switch in winter stands until the next one or a press of the   *)
(* button ("on and off still switch the relay directly", and the daemon    *)
(* "only observes").                                                       *)
DirectSwitchHolds == winter /\ ordered # None => relay = ordered

(* The loop does not sleep on an override change: it has read it, or the   *)
(* wake-up is on its way or there to be taken ("Set by the API to make the *)
(* loop re-evaluate immediately"), wherever in its pass or its sleep the   *)
(* loop was.  The one exception is a wake-up taken just as a second of the *)
(* sleep ended.                                                            *)
WakeNotLost == lpc = "sleep" /\ unseen => wake \/ apc = "wake"
=============================================================================
