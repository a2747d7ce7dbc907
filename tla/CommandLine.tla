----------------------------- MODULE CommandLine ----------------------------
(***************************************************************************)
(* Users at the command line, the daemon's API that serves their requests  *)
(* one at a time, and the loop beside it.                                  *)
(*                                                                         *)
(* A command is one request, or two: `winter start` and `winter end` read  *)
(* the status and post a whole season.  A client that has heard nothing    *)
(* for five seconds gives up, but its request stays where it is and is     *)
(* carried out in its turn.  A request to the plug keeps those behind it   *)
(* waiting for as long as the editing of the timers takes (TimerTable).    *)
(***************************************************************************)
EXTENDS Season, TimerTable

CONSTANTS
    Users,
    Commands,       \* the commands they run
    MaxRuns,        \* bound: commands run
    MaxPasses,      \* bound: passes of the loop that edit the timers
    MaxRestarts     \* bound: crashes and restarts of the daemon

Dated == {"start", "end"}           \* the two commands that keep the season's other date
Plug  == {"show", "clear", "sync"}  \* show: also power and clock, which only read
Plain == {"status", "cancel"}

ASSUME CommandAssumption ==
    Commands \subseteq [verb : Dated, date : Day] \union [verb : Plug \union Plain, date : {None}]

ASSUME NoCommandAssumption == None \notin Commands

VARIABLES
    today,
    winter,     \* Shared.winter
    stored,     \* the season in its file, or None
    over,       \* the loop saw a season that is over and is about to cancel
    cmd,        \* per user, the command they run, or None
    stage,      \* per user: waiting for an answer, read (the status), done, failed
    seen,       \* per user, the season in the status they read
    moved,      \* history: per user, whether the season changed since they read it
    queue,      \* the requests the API has not taken up, oldest first
    serving,    \* the one it serves, or None
    used        \* how often each bounded event has happened

users     == <<cmd, stage, seen>>
lineVars  == <<today, winter, stored, over, users, moved, queue, serving, used, tableVars>>

\* POST /winter carries a whole season; it is not yet checked.
Request == [from : Users, verb : Dated \union Plug \union Plain,
            season : [start : Day, end : Day \union {None}] \union {None},
            waited : BOOLEAN, ok : BOOLEAN]

ASSUME NoRequestAssumption == None \notin Request

Limit == [runs |-> MaxRuns, passes |-> MaxPasses, restarts |-> MaxRestarts]
Use(event) == used[event] < Limit[event] /\ used' = [used EXCEPT ![event] = @ + 1]

Init ==
    /\ InitTable
    /\ today = 0 /\ winter = None /\ stored = None /\ over = FALSE
    /\ cmd = [u \in Users |-> None] /\ stage = [u \in Users |-> "done"]
    /\ seen = [u \in Users |-> None] /\ moved = [u \in Users |-> FALSE]
    /\ queue = <<>> /\ serving = None
    /\ used = [event \in DOMAIN Limit |-> 0]

Becomes(season) ==
    /\ winter' = season
    /\ moved' = [u \in Users |-> moved[u] \/ season # winter]

Install(season) == Becomes(season) /\ stored' = season

-----------------------------------------------------------------------------
(* The client.                                                             *)

Send(u, verb, season) ==
    /\ stage' = [stage EXCEPT ![u] = "waiting"]
    /\ queue' = Append(queue, [from |-> u, verb |-> verb, season |-> season,
                               waited |-> TRUE, ok |-> TRUE])

Run(u) ==
    /\ cmd[u] = None
    /\ Use("runs")
    /\ \E c \in Commands :
         /\ cmd' = [cmd EXCEPT ![u] = c]
         /\ Send(u, IF c.verb \in Dated THEN "status" ELSE c.verb, None)
    /\ UNCHANGED <<today, winter, stored, over, seen, moved, serving, tableVars>>

StartOnly(u) == [start |-> cmd[u].date, end |-> None]   \* mutant: the end is not carried over
StartKeepingEnd(u) ==
    [start |-> cmd[u].date, end |-> IF seen[u] = None THEN None ELSE seen[u].end]
EndKeepingStart(u) ==
    [start |-> IF seen[u] = None THEN today ELSE seen[u].start, end |-> cmd[u].date]

Post(u) ==
    /\ stage[u] = "read"
    /\ Send(u, cmd[u].verb, IF cmd[u].verb = "start" THEN StartKeepingEnd(u) ELSE EndKeepingStart(u))
    /\ UNCHANGED <<today, winter, stored, over, cmd, seen, moved, serving, used, tableVars>>

Ended(u, how) ==
    /\ stage' = [stage EXCEPT ![u] = how]
    /\ cmd' = [cmd EXCEPT ![u] = None]
    /\ seen' = [seen EXCEPT ![u] = None]

\* The request of a client that has left: nobody reads its answer.
Left(r, u) == IF r.from = u THEN [r EXCEPT !.waited = FALSE] ELSE r

GiveUp(u) ==
    /\ stage[u] = "waiting"
    /\ Ended(u, "failed")
    /\ queue' = [i \in DOMAIN queue |-> Left(queue[i], u)]
    /\ serving' = IF serving = None THEN None ELSE Left(serving, u)
    /\ UNCHANGED <<today, winter, stored, over, moved, used, tableVars>>

-----------------------------------------------------------------------------
(* The API: one thread, one request after the other.                       *)

AnyTurn(i) == TRUE      \* mutant: whichever request is picked up first
InTurn(i)  == i = 1

Take(i) ==
    /\ serving = None
    /\ InTurn(i)
    /\ queue' = RemoveAt(queue, i)

\* Season::new checks the range of what is posted; a cancel carries no season.
AcceptedAny(season) == TRUE     \* mutant: it refuses nothing
Accepted(season)    == season \in Season \union {None}

TakeStatus(i) ==
    /\ Take(i)
    /\ queue[i].verb = "status"
    /\ serving' = queue[i]
    /\ UNCHANGED <<today, winter, stored, over, users, moved, used, tableVars>>

\* What a write of the season file that fails or is cut off leaves; a removal leaves all.
Spoiled(r) == IF r.verb \in Dated /\ Accepted(r.season) THEN {stored, None} ELSE {stored}

\* POST and DELETE /winter: Season::new, then the file, then the memory.
TakeWinter(i) ==
    /\ Take(i)
    /\ queue[i].verb \in Dated \union {"cancel"}
    /\ \/ /\ NoFault
          /\ Accepted(queue[i].season)
          /\ serving' = queue[i]
          /\ Install(queue[i].season)
       \/ /\ \/ NoFault /\ ~Accepted(queue[i].season) /\ UNCHANGED stored
             \/ Fault /\ Accepted(queue[i].season) /\ stored' \in Spoiled(queue[i])
          /\ serving' = [queue[i] EXCEPT !.ok = FALSE]
          /\ UNCHANGED <<winter, moved>>
    /\ UNCHANGED <<today, over, users, used, timers, first, proc>>

TakePlug(i) ==
    /\ Take(i)
    /\ queue[i].verb \in Plug
    /\ serving' = queue[i]
    /\ \/ queue[i].verb # "sync" /\ BeginRead("api", queue[i].verb)
       \/ queue[i].verb = "sync" /\ \E plan \in Plans : BeginSync("api", plan)
    /\ UNCHANGED <<today, winter, stored, over, users, moved, used, timers, first, fails>>

\* The answer reads the status again, in a section of its own.
Deliver(r, ok) ==
    \/ ~r.waited /\ UNCHANGED <<users, moved>>
    \/ r.waited /\ ~ok /\ Ended(r.from, "failed") /\ UNCHANGED moved
    \/ /\ r.waited /\ ok /\ r.verb = "status" /\ cmd[r.from].verb \in Dated
       /\ stage' = [stage EXCEPT ![r.from] = "read"]
       /\ seen' = [seen EXCEPT ![r.from] = winter]
       /\ moved' = [moved EXCEPT ![r.from] = FALSE]
       /\ UNCHANGED cmd
    \/ /\ r.waited /\ ok /\ (r.verb = "status" => cmd[r.from].verb = "status")
       /\ Ended(r.from, "done")
       /\ UNCHANGED moved

AnswerShared ==
    /\ serving # None /\ serving.verb \notin Plug
    /\ Deliver(serving, serving.ok)
    /\ serving' = None
    /\ UNCHANGED <<today, winter, stored, over, queue, used, tableVars>>

AnsweredIfOk == pc["api"] = "ok"        \* mutant: an error ends the procedure, not the request
Answered     == Returned("api")

AnswerPlug ==
    /\ serving # None /\ serving.verb \in Plug
    /\ Answered
    /\ Deliver(serving, pc["api"] = "ok")
    /\ serving' = None
    /\ Return("api")
    /\ UNCHANGED <<today, winter, stored, over, queue, used>>

-----------------------------------------------------------------------------
(* The loop and the world.                                                 *)

\* winter_pass edits the timers (when it does: WinterMode).
LoopBegins ==
    /\ pc["loop"] = "idle"
    /\ Use("passes")
    /\ BeginRead("loop", "clear") \/ \E plan \in Plans : BeginSync("loop", plan)
    /\ UNCHANGED <<today, winter, stored, over, users, moved, queue, serving, timers, first, fails>>

LoopSeesEnd ==
    /\ pc["loop"] = "idle" /\ ~over
    /\ winter # None /\ IsOver(winter, today)
    /\ over' = TRUE
    /\ UNCHANGED <<today, winter, stored, users, moved, queue, serving, used, tableVars>>

LoopCancels ==
    /\ over
    /\ over' = FALSE
    /\ \/ NoFault /\ Install(None)
       \/ Fault /\ UNCHANGED <<winter, stored, moved>>
    /\ UNCHANGED <<today, users, queue, serving, used, timers, first, proc>>

PlugMoves(t) ==
    /\ PlugStep(t) \/ (t = "loop" /\ Return(t))
    /\ UNCHANGED <<today, winter, stored, over, users, moved, queue, serving, used>>

NextDay ==
    /\ today < MaxDay
    /\ today' = today + 1
    /\ UNCHANGED <<winter, stored, over, users, moved, queue, serving, used, tableVars>>

\* The file as a restart finds it: the write of the request in turn may have been cut off.
Found == IF serving = None /\ queue # <<>> THEN Spoiled(Head(queue)) ELSE {stored}

\* The connections break with the daemon; the season is read back from its file, if it can be.
DaemonRestart ==
    /\ Use("restarts")
    /\ stored' \in Found
    /\ \/ NoFault /\ Becomes(stored')
       \/ Fault /\ Becomes(None)
    /\ queue' = <<>> /\ serving' = None /\ over' = FALSE
    /\ stage' = [u \in Users |-> IF stage[u] = "waiting" THEN "failed" ELSE stage[u]]
    /\ cmd' = [u \in Users |-> IF stage[u] = "waiting" THEN None ELSE cmd[u]]
    /\ seen' = [u \in Users |-> IF stage[u] = "waiting" THEN None ELSE seen[u]]
    /\ pc' = [t \in Thread |-> "idle"] /\ op' = [t \in Thread |-> "none"]
    /\ table' = [t \in Thread |-> <<>>] /\ want' = [t \in Thread |-> <<>>]
    /\ UNCHANGED <<today, timers, first>>

Serve ==
    \/ \E i \in DOMAIN queue : TakeStatus(i) \/ TakeWinter(i) \/ TakePlug(i)
    \/ AnswerShared
    \/ AnswerPlug
    \/ PlugMoves("api")

Next ==
    \/ \E u \in Users : Run(u) \/ Post(u) \/ GiveUp(u)
    \/ Serve
    \/ LoopBegins \/ LoopSeesEnd \/ LoopCancels \/ PlugMoves("loop")
    \/ NextDay
    \/ DaemonRestart

Spec == Init /\ [][Next]_lineVars

\* Both threads of the daemon go on when they can; of the clients nothing is asked.
Fairness == WF_lineVars(Serve) /\ WF_lineVars(PlugMoves("loop"))

FairSpec == Spec /\ Fairness

-----------------------------------------------------------------------------
LineTypeOK ==
    /\ today \in Day /\ over \in BOOLEAN
    /\ winter \in Season \union {None} /\ stored \in Season \union {None}
    /\ cmd \in [Users -> Commands \union {None}]
    /\ stage \in [Users -> {"waiting", "read", "done", "failed"}]
    /\ seen \in [Users -> Season \union {None}] /\ moved \in [Users -> BOOLEAN]
    /\ queue \in Seq(Request) /\ serving \in Request \union {None}

(* Every variable keeps its type: the daemon accepts no season that ends   *)
(* before it starts, whatever two dates a client puts together.            *)
TypeOK ==
    /\ LineTypeOK /\ TableTypeOK
    /\ used \in [DOMAIN Limit -> Nat]

(* A command that reports success is the last word of its user: what they  *)
(* gave up on before was carried out before it, or died with the daemon,   *)
(* and none of it comes after, however late it was.                        *)
LastWord ==
    \A u \in Users :
      stage[u] = "done" =>
        /\ \A i \in DOMAIN queue : queue[i].from # u
        /\ serving = None \/ serving.from # u

(* `winter start` and `winter end` change one date of the season that is   *)
(* set and keep the other, also when they are carried out long after their *)
(* user gave up, unless somebody else changed the season in between.       *)
KeepsOtherDate ==
    [][\A u \in Users :
         serving' # serving /\ serving' # None /\ serving'.from = u /\ serving'.ok
           /\ serving'.verb \in Dated /\ serving = None /\ ~moved[u] =>
             IF serving'.verb = "start"
             THEN winter'.end = (IF winter = None THEN None ELSE winter.end)
             ELSE winter # None => winter'.start = winter.start]_lineVars

(* Every request is answered in the end, those nobody waits for included,  *)
(* however the plug fails while it serves one of them.                     *)
AllServed == <>[](queue = <<>> /\ serving = None)
=============================================================================
