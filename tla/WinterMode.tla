----------------------------- MODULE WinterMode -----------------------------
(***************************************************************************)
(* Winter mode of the daemon: the season and its two flags in the memory   *)
(* the loop and the API thread share, the season file, and the plug's own  *)
(* timer table that a season empties and its end fills again.              *)
(*                                                                         *)
(* The loop thread runs winter_pass over and over, one action for each     *)
(* section it runs under the state lock and one for each command it sends  *)
(* to the plug; the API thread serves one request at a time.  Both reach   *)
(* the timer table through the procedures of TimerSet.                     *)
(***************************************************************************)
EXTENDS Season, TimerSet

CONSTANTS
    Requests,       \* the seasons POST /winter may carry
    Endpoints,      \* which requests, named by their action, clients make
    Torn,           \* a season file cut short, which season::read ignores
    MaxCalls,       \* bound: requests the API serves
    MaxFails,       \* bound: plug commands and file operations that fail
    MaxRestarts     \* bound: times the process is stopped and started again

AllEndpoints ==
    {"PostWinter", "DeleteWinter", "PostSync", "DeleteSchedule"}

ASSUME ConfigAssumption  == Configs # {}
ASSUME RequestAssumption == Requests \subseteq Season /\ Endpoints \subseteq AllEndpoints
ASSUME TornAssumption    == Torn \notin Season /\ Torn # None
ASSUME BoundAssumption   == MaxCalls \in Nat /\ MaxFails \in Nat /\ MaxRestarts \in Nat

VARIABLES
    today,          \* the date in the configured timezone
    config,         \* Shared.config: its windows
    winter,         \* Shared.winter
    timersCleared,  \* Shared.winter_timers_cleared
    restorePending, \* Shared.timers_restore_pending
    seasonFile,     \* what the season file holds
    lpc,            \* where the loop is in winter_pass
    passDay,        \* winter_pass's `today`, read once for the whole pass
    calls,
    fails,
    restarts,
    unread,         \* history: the season file could not be read at the start
    taken,          \* history: the loop removed timers nobody has put back
    forgotten,      \* history: what made the daemon forget that it owes them
    renewed         \* history: a season was set after the loop found one over

shared  == <<config, winter, timersCleared, restorePending, seasonFile, unread>>
bounds  == <<calls, fails, restarts>>
history == <<taken, forgotten, renewed>>
vars    == <<today, shared, timers, lpc, passDay, proc, bounds, history>>

Init ==
    /\ today = 0
    /\ config \in Configs
    /\ winter = None
    /\ timersCleared = FALSE
    /\ restorePending = FALSE
    /\ seasonFile = None
    /\ unread = FALSE
    /\ timers \in SUBSET Windows
    /\ lpc = "top"
    /\ passDay = 0
    /\ NoProcedures
    /\ calls = 0
    /\ fails = 0
    /\ restarts = 0
    /\ taken = FALSE
    /\ forgotten = {}
    /\ renewed = FALSE

Fault == fails < MaxFails /\ fails' = fails + 1
NoFault == UNCHANGED fails

-----------------------------------------------------------------------------
(* A step of a procedure.  Timers the loop deletes in a clearing are taken *)
(* until a sync has put the configured ones there; that makes good what    *)
(* was forgotten, unless the loop is about to take them again.             *)

ClearDue == lpc \in {"flag", "clearing"}

PutBack == taken' = FALSE /\ forgotten' = IF ClearDue THEN forgotten ELSE {}

PlugStep(t) ==
    /\ Edit(t)
    /\ IF pc'[t] = "err" THEN Fault ELSE NoFault
    /\ IF op[t] = "sync" /\ pc'[t] = "ok"
       THEN PutBack
       ELSE /\ taken' = (taken \/ (t = "loop" /\ op[t] = "clear" /\ timers' # timers))
            /\ UNCHANGED forgotten
    /\ UNCHANGED <<today, shared, lpc, passDay, calls, restarts, renewed>>

-----------------------------------------------------------------------------
(* set_winter and cancel_winter: one section under the state lock, the     *)
(* file first; a file error leaves the memory as it was.  The one forgets  *)
(* that the timers were cleared when it moves the start of the season, the *)
(* other knows nothing of a clearing that is still under way.              *)

SameSeason(s) == winter = s     \* mutant: another end counts as another season
SameStart(s)  == winter # None /\ winter.start = s.start

ForgetIf(what, condition) ==
    forgotten' = IF condition THEN forgotten \union {what} ELSE forgotten

\* Timers known to be cleared for a season are owed again.
ForgetNothing == forgotten' = IF winter = None THEN forgotten ELSE {}

SetWinter(s) ==
    \/ /\ NoFault
       /\ seasonFile' = s
       /\ timersCleared' = (timersCleared /\ SameStart(s))
       /\ winter' = s
       /\ unread' = FALSE
       /\ ForgetIf("moved", timersCleared /\ winter # None /\ winter.start # s.start)
       /\ renewed' = (lpc = "cancel")
       /\ UNCHANGED <<config, restorePending>>
    \/ /\ Fault
       /\ seasonFile' \in {seasonFile, Torn}
       /\ UNCHANGED <<config, winter, timersCleared, restorePending, unread, forgotten, renewed>>

CancelWinter ==
    \/ /\ NoFault
       /\ seasonFile' = None
       /\ winter' = None
       /\ restorePending' = (restorePending \/ timersCleared)
       /\ timersCleared' = FALSE
       /\ unread' = FALSE
       /\ ForgetIf("raced", ClearDue /\ ~restorePending')
       /\ UNCHANGED config
    \/ Fault /\ UNCHANGED <<shared, forgotten>>

-----------------------------------------------------------------------------
(* The loop: a reload of the config, then winter_pass.                     *)

SeasonActive(day)   == winter # None /\ IsActive(winter, day)

SeasonInactive(day) == winter # None /\ ~IsActive(winter, day)   \* mutant: also one to come
SeasonOverLate(day) == winter # None /\ winter.end # None /\ day > winter.end     \* mutant
SeasonOver(day)     == winter # None /\ IsOver(winter, day)

\* Another config may have another timezone, where it is the day before or after.
Reload ==
    /\ config' \in Configs
    /\ today' \in {day \in Day : day <= today + 1 /\ today <= day + 1}

\* A pending reload, and the day the whole pass goes by.
PassStart ==
    /\ lpc = "top"
    /\ Reload \/ UNCHANGED <<config, today>>
    /\ passDay' = today'
    /\ lpc' = "over"
    /\ UNCHANGED <<winter, timersCleared, restorePending, seasonFile, unread,
                   timers, proc, bounds, history>>

LoopOver ==
    /\ lpc = "over"
    /\ lpc' = IF SeasonOver(passDay) THEN "cancel" ELSE "restore"
    /\ UNCHANGED <<today, shared, timers, passDay, proc, bounds, history>>

\* Cancels whatever season is set by now, not the one found to be over.
LoopCancel ==
    /\ lpc = "cancel"
    /\ CancelWinter
    /\ lpc' = "restore"
    /\ renewed' = FALSE
    /\ UNCHANGED <<today, timers, passDay, proc, calls, restarts, taken>>

LoopRestore ==
    /\ lpc = "restore"
    /\ \/ restorePending /\ lpc' = "syncing" /\ BeginSync("loop", config)
       \/ ~restorePending /\ lpc' = "gate" /\ UNCHANGED proc
    /\ UNCHANGED <<today, shared, timers, passDay, bounds, history>>

RestoreForgotten == FALSE           \* mutant: a failed sync also counts
RestoreStillDue  == restorePending /\ pc["loop"] = "err"

LoopSyncEnd ==
    /\ lpc = "syncing"
    /\ restorePending' = RestoreStillDue
    /\ lpc' = "gate"
    /\ Return("loop")
    /\ UNCHANGED <<today, config, winter, timersCleared, seasonFile, unread, timers,
                   passDay, bounds, history>>

HandsOffLate == SeasonActive(passDay) /\ passDay > winter.start   \* mutant
HandsOff     == SeasonActive(passDay)

LoopGate ==
    /\ lpc = "gate"
    /\ lpc' = IF HandsOff THEN "flag" ELSE "rest"
    /\ UNCHANGED <<today, shared, timers, passDay, proc, bounds, history>>

LoopFlag ==
    /\ lpc = "flag"
    /\ \/ ~timersCleared /\ lpc' = "clearing" /\ BeginRead("loop", "clear")
       \/ timersCleared /\ lpc' = "rest" /\ UNCHANGED proc
    /\ UNCHANGED <<today, shared, timers, passDay, bounds, history>>

LoopClearEnd ==
    /\ lpc = "clearing"
    /\ timersCleared' = (timersCleared \/ pc["loop"] = "ok")
    /\ lpc' = "rest"
    /\ IF pc["loop"] = "err" THEN ForgetIf("failed", taken) ELSE ForgetNothing
    /\ Return("loop")
    /\ UNCHANGED <<today, config, winter, restorePending, seasonFile, unread, timers,
                   passDay, bounds, taken, renewed>>

\* The rest of the pass and the sleep touch nothing modelled here.
LoopRest ==
    /\ lpc = "rest"
    /\ lpc' = "top"
    /\ UNCHANGED <<today, shared, timers, passDay, proc, bounds, history>>

Loop ==
    \/ PassStart
    \/ LoopOver
    \/ LoopCancel
    \/ LoopRestore
    \/ LoopSyncEnd
    \/ LoopGate
    \/ LoopFlag
    \/ LoopClearEnd
    \/ LoopRest
    \/ PlugStep("loop")

-----------------------------------------------------------------------------
(* The API thread: a request is accepted only when the previous one has    *)
(* been answered.                                                          *)

Accept(endpoint) ==
    /\ endpoint \in Endpoints
    /\ pc["api"] = "idle"
    /\ calls < MaxCalls
    /\ calls' = calls + 1

PostWinter(s) ==
    /\ Accept("PostWinter")
    /\ SetWinter(s)
    /\ UNCHANGED <<today, timers, lpc, passDay, proc, restarts, taken>>

DeleteWinter ==
    /\ Accept("DeleteWinter")
    /\ CancelWinter
    /\ UNCHANGED <<today, timers, lpc, passDay, proc, restarts, taken, renewed>>

PostSync ==
    /\ Accept("PostSync")
    /\ BeginSync("api", config)
    /\ UNCHANGED <<today, shared, timers, lpc, passDay, fails, restarts, history>>

DeleteSchedule ==
    /\ Accept("DeleteSchedule")
    /\ BeginRead("api", "clear")
    /\ UNCHANGED <<today, shared, timers, lpc, passDay, fails, restarts, history>>

\* Timers a user deletes are the user's to put back.
Answer ==
    /\ IF op["api"] = "clear" /\ pc["api"] = "ok" THEN PutBack ELSE UNCHANGED <<taken, forgotten>>
    /\ Return("api")
    /\ UNCHANGED <<today, shared, timers, lpc, passDay, bounds, renewed>>

Serve == PlugStep("api") \/ Answer

Request ==
    \/ \E s \in Requests : PostWinter(s)
    \/ DeleteWinter
    \/ PostSync
    \/ DeleteSchedule

-----------------------------------------------------------------------------
(* The world outside: the calendar, and the process stopped at any point   *)
(* (a crash, a power cut, SIGTERM) and started again by its supervisor.    *)

NextDay ==
    /\ today < MaxDay
    /\ today' = today + 1
    /\ UNCHANGED <<shared, timers, lpc, passDay, proc, bounds, history>>

ReadAsIs(file)   == file    \* mutant: a torn file is taken for a season
ReadNothing(file) == None   \* mutant: the file is never read
ReadSeason(file) == IF file = Torn THEN None ELSE file

StartAgain ==
    /\ restarts < MaxRestarts
    /\ restarts' = restarts + 1
    /\ Reload
    /\ \/ NoFault /\ unread' = FALSE /\ winter' = ReadSeason(seasonFile')
       \/ Fault /\ unread' = TRUE /\ winter' = None
    /\ timersCleared' = FALSE
    /\ restorePending' = FALSE
    /\ lpc' = "top"
    /\ passDay' = 0
    /\ ForgetIf("restarted", taken)
    /\ renewed' = FALSE
    /\ pc' = [t \in Thread |-> "idle"]
    /\ op' = [t \in Thread |-> "none"]
    /\ table' = NoTables
    /\ want' = NoTables
    /\ UNCHANGED <<timers, taken>>

Restart == seasonFile' = seasonFile /\ StartAgain /\ UNCHANGED calls

\* season::write truncates the file before it writes it.
CrashInWrite == Accept("PostWinter") /\ seasonFile' = Torn /\ StartAgain

Environment == NextDay \/ Restart \/ CrashInWrite

-----------------------------------------------------------------------------
Next == Loop \/ Serve \/ Request \/ Environment

Spec == Init /\ [][Next]_vars

\* The loop keeps running and an accepted request is carried through; nothing
\* makes a client call, the day end, or the process restart.
Fairness == WF_vars(Loop) /\ WF_vars(Serve)

FairSpec == Spec /\ Fairness

(* Clients that call only while the loop sleeps, for runs that show what   *)
(* goes wrong without any race.                                            *)
BetweenPasses == calls' # calls => lpc = "rest"
SerialSpec == Init /\ [][Next /\ BetweenPasses]_vars

-----------------------------------------------------------------------------
SharedTypeOK ==
    /\ config \in SUBSET Windows
    /\ winter \in Season \union {None}
    /\ seasonFile \in Season \union {None, Torn}
    /\ timersCleared \in BOOLEAN /\ restorePending \in BOOLEAN /\ unread \in BOOLEAN

PassTypeOK ==
    /\ today \in Day /\ passDay \in Day
    /\ lpc \in {"top", "over", "cancel", "restore", "syncing", "gate", "flag", "clearing", "rest"}
    /\ timers \in SUBSET Windows
    /\ taken \in BOOLEAN /\ renewed \in BOOLEAN
    /\ forgotten \subseteq {"moved", "raced", "failed", "restarted"}

ProcTypeOK ==
    /\ pc \in [Thread -> {"idle", "get", "del", "gap", "add", "ok", "err"}]
    /\ op \in [Thread -> {"none", "clear", "sync"}]
    /\ table \in [Thread -> SUBSET Windows]
    /\ want \in [Thread -> SUBSET Windows]

BoundsOK ==
    calls \in 0 .. MaxCalls /\ fails \in 0 .. MaxFails /\ restarts \in 0 .. MaxRestarts

(* Every variable keeps its type: a season read back from the file is      *)
(* well formed, and no timer but a configured window is ever in the plug.  *)
TypeOK == SharedTypeOK /\ PassTypeOK /\ ProcTypeOK /\ BoundsOK

(* The season a client was told is set is the one a restart reads back,    *)
(* and a season cancelled or over never comes back; after a failed or      *)
(* interrupted write nothing is left to read.  About set_winter and        *)
(* cancel_winter changing the file before the memory, and about every path *)
(* that ends a season.  A file that could not be read at the start may     *)
(* still hold a season the daemon does not know of.                        *)
SeasonDurable == seasonFile \in {winter, Torn} \/ (unread /\ winter = None)

Stored == IF seasonFile = Torn THEN None ELSE seasonFile

Cell == INSTANCE DurableCell WITH
    Values <- Season, mem <- winter, stored <- Stored, starts <- restarts

(* The season is a durable cell: torn files, failed removals and restarts  *)
(* show as nothing but a setting that is lost when its write failed, and   *)
(* none is replaced or comes back.                                         *)
KeepsSeason == Cell!Spec

(* Two procedures never talk to the plug at once, and the table one of     *)
(* them believes in is the table in the plug: nothing it sends can bring   *)
(* back an entry another request removed.  The exception is the gap of     *)
(* sync_plug_schedule between its two uses of the lock.                    *)
LocalTableCurrent ==
    /\ \A t, u \in Thread : HoldsPlug(t) /\ HoldsPlug(u) => t = u
    /\ \A t \in Thread :
         pc[t] = "del" \/ (pc[t] = "add" /\ table[t] # {}) => table[t] = timers

(* The inductive strengthening of LocalTableCurrent: an addition is made   *)
(* only by a sync, which enters its additions with an empty local table.   *)
SectionInv ==
    /\ LocalTableCurrent
    /\ \A t \in Thread :
         /\ pc[t] = "gap" => table[t] = {}
         /\ pc[t] \in {"gap", "add"} => op[t] = "sync"
         /\ pc[t] # "idle" => op[t] # "none"

(* What the loop's restore relies on: the procedure it runs there is a     *)
(* sync, and by the time that succeeded the removed timers are back.       *)
RestoreInv ==
    lpc = "syncing" => op["loop"] = "sync" /\ (pc["loop"] = "ok" => ~taken)

(* A clear that reports success leaves the plug without timers, and a sync *)
(* that reports success leaves it with the windows it read, whatever       *)
(* another request did to the table in the gap between its clearing and    *)
(* its additions.  A sync of no windows has nothing to send after the gap  *)
(* and promises nothing.                                                   *)
SuccessIsTrue ==
    [][\A t \in Thread :
         pc[t] # "ok" /\ pc'[t] = "ok" =>
           IF op[t] = "clear" THEN timers' = {} ELSE timers' = want[t] \/ want[t] = {}]_vars

(* The loop forgets that timers are to be restored only once they were put *)
(* back, or when the process dies.  About timers_restore_pending being     *)
(* cleared after a successful sync only.                                   *)
PendingUntilRestored ==
    [][restorePending /\ ~restorePending' => ~taken' \/ restarts' # restarts]_vars

(* A season set by a client is given up only on a client's request, once   *)
(* it is over, or by a restart, whatever fails and however requests come   *)
(* between the steps of a pass: only one set after the loop found another  *)
(* over, and before it cancelled that, is lost.                            *)
SeasonNotDropped ==
    [][winter # None /\ winter' = None =>
         IsOver(winter, today) \/ renewed \/ calls' # calls \/ restarts' # restarts]_vars

(* With no season set, timers the daemon removed are back or known to be   *)
(* missing, whatever fails, races or is cut short, but for four events: a  *)
(* restart while they are gone, a season whose start is moved after its    *)
(* timers were cleared, one cancelled while they are being cleared, and a  *)
(* clearing that failed half-way and was not made up for.                  *)
NothingForgotten == taken /\ winter = None => restorePending \/ forgotten # {}

(* The same without the four, as the documentation has it ("nothing to     *)
(* restore by hand in spring"), between passes.                            *)
NothingToRestoreByHand == lpc = "rest" /\ taken /\ winter = None => restorePending

(* While the daemon believes it cleared the timers for the season, the     *)
(* plug has none ("Set once the on-device timers were cleared for the      *)
(* active season"), when no client edits the table itself.                 *)
WinterTimersStayCleared == lpc = "rest" /\ timersCleared => timers = {}

(* A pending restore is carried out: the plug gets the configured timers   *)
(* unless a new season is set first.                                       *)
RestoreCompletes ==
    (restorePending /\ winter = None) ~> (timers = config \/ winter # None)

(* An active season gets the timers cleared, however often the plug fails  *)
(* to answer first.                                                        *)
ClearCompletes == SeasonActive(today) ~> (timersCleared \/ ~SeasonActive(today))

(* A season that is over is removed.                                       *)
OverSeasonEnds ==
    (winter # None /\ IsOver(winter, today)) ~> ~(winter # None /\ IsOver(winter, today))
=============================================================================
