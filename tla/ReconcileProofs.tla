-------------------------- MODULE ReconcileProofs --------------------------
(***************************************************************************)
(* Theorems about the loop and the override, for every horizon, every set  *)
(* of schedules, and any number of calls, faults, presses, reloads,        *)
(* restarts and turns of the season.                                       *)
(***************************************************************************)
EXTENDS Reconcile, LeastNatural

UsedOK == used \in [DOMAIN Bounds -> Nat] /\ \A kind \in DOMAIN Bounds : used[kind] <= Bounds[kind]

LEMMA UseKeepsBounds ==
    ASSUME UsedOK, NEW kind \in DOMAIN Bounds, Use(kind) \/ NoFault
    PROVE  UsedOK'
<1> DEFINE D == {"calls", "fails", "turns", "presses", "reloads", "restarts"}
<1>1. DOMAIN Bounds = D /\ \A k \in D : Bounds[k] \in Nat
  BY BoundAssumption DEF Bounds
<1>2. CASE NoFault
  BY <1>2 DEF NoFault, UsedOK
<1>3. CASE Use(kind)
  <2>1. used[kind] < Bounds[kind] /\ used' = [used EXCEPT ![kind] = @ + 1]
    BY <1>3 DEF Use
  <2> QED
    BY <1>1, <2>1 DEF UsedOK
<1> QED
  BY <1>2, <1>3

LEMMA KindsOfUse ==
    /\ "calls" \in DOMAIN Bounds /\ "fails" \in DOMAIN Bounds /\ "turns" \in DOMAIN Bounds
    /\ "presses" \in DOMAIN Bounds /\ "reloads" \in DOMAIN Bounds
    /\ "restarts" \in DOMAIN Bounds
BY DEF Bounds

LEMMA LaterOfTwo == ASSUME NEW i \in Nat, NEW j \in Nat PROVE Max({i, j}) \in {i, j} /\ Max({i, j}) >= j
BY DEF Max

LEMMA HoldEndsLater == ASSUME now \in Time PROVE HoldEnd \in 1 .. Never
<1>1. now \in Nat /\ Never \in Nat \ {0}
  BY BoundAssumption DEF Time, Never
<1>2. HoldUntil \in Nat /\ HoldUntil > now
  <2>1. CASE Transitions = {}
    BY <1>1, <2>1, HoldAssumption DEF HoldUntil
  <2>2. CASE Transitions # {}
    <3>1. Transitions \subseteq Nat
      BY DEF Transitions, Time
    <3>2. NextTransition \in Nat /\ now + Minute \in Nat /\ now + Minute > now
      <4> HIDE DEF Transitions
      <4>1. NextTransition \in Nat
        BY <2>2, <3>1, LeastIsNatural DEF NextTransition
      <4> QED
        BY <1>1, <4>1, HoldAssumption
    <3> HIDE DEF NextTransition
    <3>3. /\ Max({NextTransition, now + Minute}) \in {NextTransition, now + Minute}
          /\ Max({NextTransition, now + Minute}) >= now + Minute
      BY <3>2, LaterOfTwo
    <3>4. HoldUntil = Max({NextTransition, now + Minute})
      BY <2>2 DEF HoldUntil
    <3> QED
      BY <1>1, <3>2, <3>3, <3>4
  <2> QED
    BY <2>1, <2>2
<1> HIDE DEF HoldUntil
<1> QED
  BY <1>1, <1>2 DEF HoldEnd

-----------------------------------------------------------------------------
(* Types.                                                                  *)

LEMMA InitTypes == Init => TypeOK
<1> SUFFICES ASSUME Init PROVE TypeOK
  OBVIOUS
<1>1. used \in [DOMAIN Bounds -> Nat] /\ \A kind \in DOMAIN Bounds : used[kind] <= Bounds[kind]
  BY BoundAssumption DEF Init, Bounds
<1>2. now \in Time
  BY BoundAssumption DEF Init, Time
<1> QED
  BY <1>1, <1>2 DEF Init, TypeOK, Power

\* The Boolean variables, and the others.
Flags ==
    /\ winter \in BOOLEAN /\ wake \in BOOLEAN /\ reachable \in BOOLEAN
    /\ handsOff \in BOOLEAN /\ ticked \in BOOLEAN /\ unread \in BOOLEAN /\ unseen \in BOOLEAN

Rest ==
    /\ now \in Time /\ plan \in Plans
    /\ override \in Override \union {None} /\ file \in Override \union {None, Torn}
    /\ actual \in Power \union {None} /\ relay \in Power
    /\ lpc \in {"gate", "status", "poll", "correct", "publish", "sleep"}
    /\ desired \in Power /\ seen \in Power \union {None}
    /\ apc \in {"idle", "hold", "install", "wake", "switch", "record", "answer"}
    /\ arg \in Override \union {None}
    /\ ordered \in Power \union {None} /\ strays \in Nat

LEMMA FlagsStay == Flags /\ [Next]_vars => Flags'
<1> SUFFICES ASSUME Flags, [Next]_vars PROVE Flags'
  OBVIOUS
<1> USE DEF Flags, memory, pass, request, history
<1>1. CASE LoopGate
  BY <1>1 DEF LoopGate, CancelSeason
<1>2. CASE LoopStatus
  BY <1>2 DEF LoopStatus
<1>3. CASE LoopPoll \/ LoopLeave \/ LoopCorrect \/ LoopPublish
  BY <1>3 DEF LoopPoll, LoopLeave, LoopCorrect, LoopPublish, NoLocals
<1>4. CASE TickElapses \/ WaitReturns \/ SleepOver
  BY <1>4 DEF TickElapses, WaitReturns, SleepOver
<1>5. CASE PostOverride \/ DeleteOverride \/ PostSet
  BY <1>5 DEF PostOverride, DeleteOverride, PostSet, Accept
<1>6. CASE PostWinter \/ Midnight
  BY <1>6 DEF PostWinter, Midnight, WinterTurns
<1>7. CASE Hold \/ Wake \/ Switch \/ Record \/ Answer
  BY <1>7 DEF Hold, Wake, Switch, Record, Answer
<1>8. CASE Install
  BY <1>8 DEF Install, InstallSucceeds, Installed, InstallFails
<1>9. CASE TimePasses \/ Button
  BY <1>9 DEF TimePasses, Button
<1>10. CASE Restart \/ CrashInWrite
  BY <1>10 DEF Restart, CrashInWrite, StartAgain, ReadFile, NoLocals
<1>11. CASE UNCHANGED vars
  BY <1>11 DEF vars
<1> QED
  BY <1>1, <1>2, <1>3, <1>4, <1>5, <1>6, <1>7, <1>8, <1>9, <1>10, <1>11
  DEF Next, Pass, Call, Serve, Environment

LEMMA UsedStays == UsedOK /\ [Next]_vars => UsedOK'
<1> SUFFICES ASSUME UsedOK, [Next]_vars PROVE UsedOK'
  OBVIOUS
<1> DEFINE Counts == Use("reloads") \/ Use("fails") \/ Use("calls") \/ Use("turns")
                       \/ Use("presses") \/ Use("restarts") \/ NoFault
<1>1. ASSUME Pass PROVE Counts
  BY <1>1 DEF Pass, LoopGate, LoopStatus, LoopPoll, LoopLeave, LoopCorrect, LoopPublish,
              DropExpired, NoFault, Fault
<1>2. ASSUME TickElapses \/ WaitReturns \/ SleepOver \/ UNCHANGED vars PROVE Counts
  BY <1>2 DEF TickElapses, WaitReturns, SleepOver, vars, NoFault
<1>3. ASSUME Call PROVE Counts
  BY <1>3 DEF Call, PostOverride, DeleteOverride, PostSet, PostWinter, Accept
<1>4. ASSUME Serve PROVE Counts
  BY <1>4 DEF Serve, Hold, Install, InstallSucceeds, Installed, InstallFails, Wake, Switch,
              Record, Answer, DropExpired, NoFault, Fault
<1>5. ASSUME Environment PROVE Counts
  BY <1>5 DEF Environment, TimePasses, Button, Midnight, Restart, CrashInWrite, StartAgain,
              NoFault
<1>6. Counts
  BY <1>1, <1>2, <1>3, <1>4, <1>5 DEF Next
<1> QED
  BY <1>6, KindsOfUse, UseKeepsBounds

\* The overrides clients ask for, and what is left after one has expired.
LEMMA AskedIsOverride ==
    ASSUME now \in Time, NEW p \in Asked, NEW u \in (now + 1 .. Never) \union {Never}
    PROVE  [power |-> p, until |-> u] \in Override
<1>1. u \in 1 .. Never
  BY BoundAssumption DEF Time, Never
<1> QED
  BY <1>1, PlanAssumption DEF Override

LEMMA DroppedIsTyped ==
    ASSUME Rest, DropExpired
    PROVE  override' \in Override \union {None} /\ file' \in Override \union {None, Torn}
BY DEF Rest, DropExpired

LEMMA PassKeepsRest == Rest /\ Pass => Rest'
<1> SUFFICES ASSUME Rest, Pass PROVE Rest'
  OBVIOUS
<1> USE DEF Rest, memory, pass, request, history
<1>1. CASE LoopGate
  BY <1>1 DEF LoopGate, CancelSeason
<1>2. CASE LoopStatus
  <2>1. override' \in Override \union {None} /\ file' \in Override \union {None, Torn}
    BY <1>2, DroppedIsTyped DEF LoopStatus
  <2>2. desired' \in Power
    <3>1. plan[now] \in Power
      BY PlanAssumption
    <3> QED
      BY <1>2, <2>1, <3>1 DEF LoopStatus, Override
  <2> QED
    BY <1>2, <2>1, <2>2 DEF LoopStatus
<1>3. CASE LoopPoll
  BY <1>3 DEF LoopPoll
<1>4. CASE LoopLeave
  BY <1>4 DEF LoopLeave
<1>5. CASE LoopCorrect
  BY <1>5 DEF LoopCorrect
<1>6. CASE LoopPublish
  BY <1>6 DEF LoopPublish, NoLocals, Observed, Power
<1> QED
  BY <1>1, <1>2, <1>3, <1>4, <1>5, <1>6 DEF Pass

LEMMA CallKeepsRest == Rest /\ Call => Rest'
<1> SUFFICES ASSUME Rest, Call PROVE Rest'
  OBVIOUS
<1> USE DEF Rest, memory, pass, request, history
<1>1. CASE PostOverride
  <2>1. arg' \in Override
    BY <1>1, AskedIsOverride DEF PostOverride
  <2> QED
    BY <1>1, <2>1 DEF PostOverride, Accept
<1>2. CASE DeleteOverride
  BY <1>2 DEF DeleteOverride, Accept
<1>3. CASE PostSet
  <2>1. arg' \in Override
    BY <1>3, AskedIsOverride DEF PostSet
  <2> QED
    BY <1>3, <2>1 DEF PostSet, Accept
<1>4. CASE PostWinter
  BY <1>4 DEF PostWinter, WinterTurns
<1> QED
  BY <1>1, <1>2, <1>3, <1>4 DEF Call

\* The thread is carrying something out only where it has something to carry out.
ArgOK == apc \in {"hold", "switch", "record"} => arg \in [power : Asked, until : 1 .. Never]

LEMMA ServeKeepsRest == Rest /\ ArgOK /\ Serve => Rest'
<1> SUFFICES ASSUME Rest, ArgOK, Serve PROVE Rest'
  OBVIOUS
<1> USE DEF Rest, memory, pass, request, history
<1>1. CASE Hold
  <2>1. arg' \in Override
    <3>1. arg \in [power : Asked, until : 1 .. Never] /\ arg' = [arg EXCEPT !.until = HoldEnd]
      BY <1>1 DEF Hold, ArgOK
    <3>2. arg' \in [power : Asked, until : 1 .. Never]
      BY <3>1, HoldEndsLater
    <3> QED
      BY <3>2, PlanAssumption DEF Override
  <2>2. override' \in Override \union {None} /\ file' \in Override \union {None, Torn}
    BY <1>1, DroppedIsTyped DEF Hold
  <2> QED
    BY <1>1, <2>1, <2>2 DEF Hold
<1>2. CASE Install
  BY <1>2 DEF Install, InstallSucceeds, Installed, InstallFails, Spoiled
<1>3. CASE Wake
  BY <1>3 DEF Wake
<1>4. CASE Switch
  <2>1. arg.power \in Power
    BY <1>4, PlanAssumption DEF Switch, ArgOK
  <2> QED
    BY <1>4, <2>1 DEF Switch
<1>5. CASE Record
  <2>1. arg.power \in Power
    BY <1>5, PlanAssumption DEF Record, ArgOK
  <2> QED
    BY <1>5, <2>1 DEF Record
<1>6. CASE Answer
  BY <1>6, DroppedIsTyped DEF Answer
<1> QED
  BY <1>1, <1>2, <1>3, <1>4, <1>5, <1>6 DEF Serve

LEMMA EnvironmentKeepsRest == Rest /\ Environment => Rest'
<1> SUFFICES ASSUME Rest, Environment PROVE Rest'
  OBVIOUS
<1> USE DEF Rest, memory, pass, request, history
<1>1. CASE TimePasses
  BY <1>1, BoundAssumption DEF TimePasses, Time
<1>2. CASE Button
  BY <1>2 DEF Button
<1>3. CASE Midnight
  BY <1>3 DEF Midnight, WinterTurns
<1>4. ASSUME NEW old \in Override \union {None, Torn}, StartAgain(old)
      PROVE  Rest'
  <2>1. override' \in Override \union {None} /\ file' \in Override \union {None, Torn}
    BY <1>4 DEF StartAgain, ReadFile, Live
  <2> QED
    BY <1>4, <2>1 DEF StartAgain, NoLocals, Power
<1>5. CASE Restart \/ CrashInWrite
  BY <1>4, <1>5 DEF Restart, CrashInWrite
<1> QED
  BY <1>1, <1>2, <1>3, <1>5 DEF Environment

LEMMA ArgStays == Rest /\ ArgOK /\ [Next]_vars => ArgOK'
<1> SUFFICES ASSUME Rest, ArgOK, [Next]_vars PROVE ArgOK'
  OBVIOUS
<1> USE DEF ArgOK, request
<1>1. CASE Pass \/ TickElapses \/ WaitReturns \/ SleepOver \/ UNCHANGED vars
  BY <1>1 DEF Pass, LoopGate, LoopStatus, LoopPoll, LoopLeave, LoopCorrect, LoopPublish,
              TickElapses, WaitReturns, SleepOver, vars
<1>2. CASE PostSet
  <2>1. Never \in 1 .. Never
    BY BoundAssumption DEF Never
  <2> QED
    BY <1>2, <2>1 DEF PostSet
<1>3. CASE PostOverride \/ DeleteOverride \/ PostWinter
  BY <1>3 DEF PostOverride, DeleteOverride, PostWinter
<1>4. CASE Serve
  BY <1>4 DEF Serve, Hold, Install, InstallSucceeds, Installed, InstallFails, Wake, Switch,
              Record, Answer
<1>5. CASE Environment
  BY <1>5 DEF Environment, TimePasses, Button, Midnight, Restart, CrashInWrite, StartAgain
<1> QED
  BY <1>1, <1>2, <1>3, <1>4, <1>5 DEF Next, Call

(* Every variable keeps its type, whatever fails and whenever the process  *)
(* stops.                                                                  *)
THEOREM TypesHold == Spec => []TypeOK
<1>1. Init => TypeOK /\ ArgOK
  BY InitTypes DEF Init, ArgOK
<1>2. TypeOK /\ ArgOK /\ [Next]_vars => (TypeOK /\ ArgOK)'
  <2> SUFFICES ASSUME Flags, Rest, UsedOK, ArgOK, [Next]_vars
               PROVE  Flags' /\ Rest' /\ UsedOK' /\ ArgOK'
    BY DEF TypeOK, Flags, Rest, UsedOK
  <2>1. Flags' /\ UsedOK' /\ ArgOK'
    BY FlagsStay, UsedStays, ArgStays
  <2>2. CASE TickElapses \/ WaitReturns \/ SleepOver \/ UNCHANGED vars
    BY <2>1, <2>2
    DEF Rest, TickElapses, WaitReturns, SleepOver, vars, memory, pass, request, history
  <2> QED
    BY <2>1, <2>2, PassKeepsRest, CallKeepsRest, ServeKeepsRest, EnvironmentKeepsRest DEF Next
<1> QED
  BY <1>1, <1>2, PTL DEF Spec

-----------------------------------------------------------------------------
(* Winter.                                                                 *)

\* The pass under way has sent nothing yet, if it would still send something.
StrayInv ==
    /\ AtMostOneStray
    /\ lpc \in {"status", "poll", "correct"} /\ winter /\ ~handsOff => strays = 0

(* In one stretch of winter the loop sends the relay at most one command,  *)
(* however often winter begins or ends, and however many requests, faults  *)
(* and restarts there are.                                                 *)
THEOREM LoopKeepsHandsOff == Spec => []AtMostOneStray
<1>1. Init => StrayInv
  BY DEF Init, StrayInv, AtMostOneStray
<1>2. StrayInv /\ [Next]_vars => StrayInv'
  <2> SUFFICES ASSUME StrayInv, [Next]_vars PROVE StrayInv'
    OBVIOUS
  <2> USE DEF StrayInv, AtMostOneStray, memory, pass, request, history
  <2>1. CASE LoopGate \/ LoopStatus \/ LoopPoll \/ LoopLeave
    BY <2>1 DEF LoopGate, CancelSeason, LoopStatus, LoopPoll, LoopLeave
  <2>2. CASE LoopCorrect
    BY <2>2 DEF LoopCorrect, NothingToCorrect
  <2>3. CASE LoopPublish \/ TickElapses \/ WaitReturns \/ SleepOver \/ UNCHANGED vars
    BY <2>3 DEF LoopPublish, TickElapses, WaitReturns, SleepOver, vars
  <2>4. CASE PostOverride \/ DeleteOverride \/ PostSet
    BY <2>4 DEF PostOverride, DeleteOverride, PostSet, Accept
  <2>5. CASE PostWinter \/ Midnight
    BY <2>5 DEF PostWinter, Midnight, WinterTurns
  <2>6. CASE Serve
    BY <2>6 DEF Serve, Hold, Install, Wake, Switch, Record, Answer
  <2>7. CASE TimePasses \/ Button \/ Restart \/ CrashInWrite
    BY <2>7 DEF TimePasses, Button, Restart, CrashInWrite, StartAgain
  <2> QED
    BY <2>1, <2>2, <2>3, <2>4, <2>5, <2>6, <2>7 DEF Next, Pass, Call, Environment
<1>3. StrayInv => AtMostOneStray
  BY DEF StrayInv
<1> QED
  BY <1>1, <1>2, <1>3, PTL DEF Spec

-----------------------------------------------------------------------------
(* The wake-up.                                                            *)

\* A change the pass under way came too late for has its wake-up before it.
WakeInv == lpc \notin {"gate", "status"} /\ unseen => wake \/ apc = "wake"

(* The loop does not sleep on an override change, wherever in its pass or  *)
(* its sleep it comes, unless it took the wake-up as a second ended.       *)
THEOREM WakeUpIsKept == Spec => []WakeNotLost
<1>1. Init => WakeInv
  BY DEF Init, WakeInv
<1>2. WakeInv /\ [Next]_vars => WakeInv'
  <2> SUFFICES ASSUME WakeInv, [Next]_vars PROVE WakeInv'
    OBVIOUS
  <2> USE DEF WakeInv, memory, pass, request, history
  <2>1. CASE Pass
    BY <2>1 DEF Pass, LoopGate, LoopStatus, LoopPoll, LoopLeave, LoopCorrect, LoopPublish
  <2>2. CASE TickElapses \/ WaitReturns \/ SleepOver \/ UNCHANGED vars
    BY <2>2 DEF TickElapses, WaitReturns, SleepOver, vars
  <2>3. CASE Call
    BY <2>3 DEF Call, PostOverride, DeleteOverride, PostSet, PostWinter, Accept
  <2>4. CASE Serve
    BY <2>4 DEF Serve, Hold, Install, InstallSucceeds, Installed, InstallFails, Wake, Switch,
                Record, Answer
  <2>5. CASE Environment
    BY <2>5 DEF Environment, TimePasses, Button, Midnight, Restart, CrashInWrite, StartAgain
  <2> QED
    BY <2>1, <2>2, <2>3, <2>4, <2>5 DEF Next
<1>3. WakeInv => WakeNotLost
  BY DEF WakeInv, WakeNotLost
<1> QED
  BY <1>1, <1>2, <1>3, PTL DEF Spec

-----------------------------------------------------------------------------
(* The override in memory and in its file.                                 *)

\* Of the steps that touch neither: what was in force may end by itself.
LEMMA LivenessOnlyEnds ==
    ASSUME Rest, now' \in Time, now' >= now, UNCHANGED <<override, file>>
    PROVE  /\ Live(override)' => Live(override)
           /\ Live(file)' => Live(file)
BY SentinelAssumption DEF Rest, Live, IsExpired, Override, Time

LEMMA DroppingKeepsDurable ==
    ASSUME Rest, OverrideDurable, DropExpired, UNCHANGED <<now, unread>>
    PROVE  OverrideDurable'
BY SentinelAssumption DEF Rest, OverrideDurable, DropExpired, Outdated, Live, IsExpired

LEMMA InstallingKeepsDurable ==
    ASSUME Rest, OverrideDurable, Install
    PROVE  OverrideDurable'
BY SentinelAssumption
DEF Rest, OverrideDurable, Install, InstallSucceeds, Installed, InstallFails, Spoiled, Live,
    IsExpired

LEMMA StartingKeepsDurable ==
    ASSUME Rest, NEW old \in Override \union {None, Torn}, StartAgain(old)
    PROVE  OverrideDurable'
BY SentinelAssumption
DEF Rest, OverrideDurable, StartAgain, ReadFile, Live, IsExpired

\* What every other step leaves of them.
LEMMA OthersLeaveOverride ==
    ASSUME \/ LoopGate \/ LoopPoll \/ LoopLeave \/ LoopCorrect \/ LoopPublish
           \/ TickElapses \/ WaitReturns \/ SleepOver \/ Call \/ Wake \/ Switch \/ Record
           \/ TimePasses \/ Button \/ Midnight \/ UNCHANGED vars
    PROVE  UNCHANGED <<override, file, unread>>
BY DEF LoopGate, LoopPoll, LoopLeave, LoopCorrect, LoopPublish, TickElapses, WaitReturns,
       SleepOver, Call, PostOverride, DeleteOverride, PostSet, PostWinter, Accept, Wake,
       Switch, Record, TimePasses, Button, Midnight, vars, memory, history

(* An override in force would survive a restart, and none that was cleared *)
(* or replaced would come back.                                            *)
THEOREM OverrideIsDurable == Spec => []OverrideDurable
<1>1. Init => OverrideDurable
  BY DEF Init, OverrideDurable, Live
<1>2. TypeOK /\ TypeOK' /\ OverrideDurable /\ [Next]_vars => OverrideDurable'
  <2> SUFFICES ASSUME Rest, Rest', OverrideDurable, [Next]_vars PROVE OverrideDurable'
    BY DEF TypeOK, Rest
  <2>1. CASE LoopStatus \/ Hold \/ Answer
    BY <2>1, DroppingKeepsDurable DEF LoopStatus, Hold, Answer, history
  <2>2. CASE Install
    BY <2>2, InstallingKeepsDurable
  <2>3. CASE Restart \/ CrashInWrite
    BY <2>3, StartingKeepsDurable DEF Restart, CrashInWrite, Rest
  <2>4. ASSUME UNCHANGED <<override, file, unread>>, now' >= now
        PROVE  OverrideDurable'
    BY <2>4, LivenessOnlyEnds DEF OverrideDurable, Rest
  <2>5. now' >= now
    <3>1. now' = now \/ now' = now + 1
      BY DEF Next, Pass, LoopGate, LoopStatus, LoopPoll, LoopLeave, LoopCorrect, LoopPublish,
             TickElapses, WaitReturns, SleepOver, Call, PostOverride, DeleteOverride, PostSet,
             PostWinter, Accept, Serve, Hold, Install, Wake, Switch, Record, Answer,
             Environment, TimePasses, Button, Midnight, Restart, CrashInWrite, StartAgain, vars
    <3> QED
      BY <3>1 DEF Rest, Time
  <2> QED
    BY <2>1, <2>2, <2>3, <2>4, <2>5, OthersLeaveOverride DEF Next, Pass, Serve, Environment
<1> QED
  BY <1>1, <1>2, TypesHold, PTL DEF Spec

(* An override in force is given up only on a client's request, or by a    *)
(* restart that could not read it back.                                    *)
THEOREM OverrideIsKept == Spec => LiveOverrideKept
<1> DEFINE Kept == Live(override) /\ override' # override =>
                     (apc = "install" /\ apc' = "wake") \/ file' = Torn \/ unread'
<1>1. TypeOK /\ OverrideDurable /\ [Next]_vars => [Kept]_vars
  <2> SUFFICES ASSUME TypeOK, OverrideDurable, Next PROVE Kept
    BY DEF vars
  <2>1. CASE LoopStatus \/ Hold \/ Answer
    BY <2>1 DEF LoopStatus, Hold, Answer, DropExpired, Outdated, Live, IsExpired
  <2>2. CASE Install
    BY <2>2 DEF Install, InstallSucceeds, Installed, InstallFails
  <2>3. ASSUME NEW old, StartAgain(old), old = file \/ old = Torn
        PROVE  Kept
    BY <2>3 DEF StartAgain, ReadFile, OverrideDurable, Live, IsExpired
  <2>4. CASE Restart \/ CrashInWrite
    BY <2>3, <2>4 DEF Restart, CrashInWrite
  <2> QED
    BY <2>1, <2>2, <2>4, OthersLeaveOverride DEF Next, Pass, Serve, Environment
<1> QED
  BY <1>1, TypesHold, OverrideIsDurable, PTL DEF Spec, LiveOverrideKept

-----------------------------------------------------------------------------
(* The override as a durable cell.                                         *)

\* What a restart would find, and how often there was one.
LEMMA RestartsCounted ==
    ASSUME UsedOK, NEW kind \in DOMAIN Bounds, Use(kind) \/ NoFault
    PROVE  used'["restarts"] = IF kind = "restarts" /\ ~NoFault THEN used["restarts"] + 1
                                                              ELSE used["restarts"]
<1>1. CASE NoFault
  BY <1>1 DEF NoFault
<1>2. CASE Use(kind)
  <2>1. used \in [DOMAIN Bounds -> Nat] /\ used' = [used EXCEPT ![kind] = @ + 1]
    BY <1>2 DEF Use, UsedOK
  <2>2. used'[kind] = used[kind] + 1 /\ used[kind] \in Nat
    BY <2>1
  <2>3. ~NoFault
    BY <2>2 DEF NoFault
  <2> QED
    BY <2>1, <2>2, <2>3, KindsOfUse
<1> QED
  BY <1>1, <1>2

LEMMA ExpiryLapses ==
    ASSUME Rest, Rest', OverrideDurable, UNCHANGED <<override, file, unread, used>>, now' >= now
    PROVE  [Cell!Next]_(Cell!vars)
<1>1. Live(override)' => Live(override)
  BY LivenessOnlyEnds DEF Rest
<1>2. Live(file)' => Live(file)
  BY LivenessOnlyEnds DEF Rest
<1>3. CASE Live(override)' <=> Live(override)
  <2>1. IfLive(override)' = IfLive(override)
    BY <1>3 DEF IfLive
  <2>2. IfLive(file)' = IfLive(file) \/ IfLive(file)' = None
    BY <1>2 DEF IfLive
  <2> QED
    BY <2>1, <2>2 DEF Cell!Next, Cell!StoreFails, Cell!vars
<1>4. CASE Live(override) /\ ~Live(override)'
  <2>1. ~Live(file)'
    BY <1>4, SentinelAssumption DEF OverrideDurable, Live
  <2>2. IfLive(override)' = None /\ IfLive(file)' = None
    BY <1>4, <2>1 DEF IfLive
  <2> QED
    BY <2>2 DEF Cell!Next, Cell!Lapse
<1> QED
  BY <1>1, <1>3, <1>4

LEMMA DroppingIsUnseen ==
    ASSUME Rest, UsedOK, DropExpired, UNCHANGED <<now, unread>>
    PROVE  [Cell!Next]_(Cell!vars)
<1>1. IfLive(override)' = IfLive(override)
  BY DEF DropExpired, Outdated, Live, IsExpired, IfLive
<1>2. IfLive(file)' = IfLive(file) \/ IfLive(file)' = None
  BY DEF DropExpired, Live, IsExpired, IfLive
<1>3. used'["restarts"] = used["restarts"]
  BY KindsOfUse, RestartsCounted DEF DropExpired, Fault, NoFault
<1> QED
  BY <1>1, <1>2, <1>3 DEF Cell!Next, Cell!StoreFails, Cell!vars

LEMMA InstallingStores ==
    ASSUME Rest, UsedOK, Install
    PROVE  [Cell!Next]_(Cell!vars)
<1>1. now' = now /\ used'["restarts"] = used["restarts"]
  BY KindsOfUse, RestartsCounted
  DEF Install, InstallSucceeds, Installed, InstallFails, Fault, NoFault
<1>2. CASE InstallSucceeds
  <2>1. IfLive(override)' = IfLive(arg) /\ IfLive(file)' = IfLive(arg) /\ unread' = FALSE
    BY <1>1, <1>2 DEF InstallSucceeds, Installed, IfLive, Live, IsExpired
  <2>2. IfLive(arg) \in Cell!Cell
    BY DEF Rest, IfLive, Live, Cell!Cell
  <2> QED
    BY <1>1, <2>1, <2>2 DEF Cell!Next, Cell!Store
<1>3. CASE InstallFails
  <2>1. IfLive(override)' = IfLive(override) /\ unread' = unread
    BY <1>1, <1>3 DEF InstallFails, IfLive, Live, IsExpired
  <2>2. IfLive(file)' = IfLive(file) \/ IfLive(file)' = None
    BY <1>1, <1>3 DEF InstallFails, Spoiled, IfLive, Live, IsExpired
  <2> QED
    BY <1>1, <2>1, <2>2 DEF Cell!Next, Cell!StoreFails, Cell!vars
<1> QED
  BY <1>2, <1>3 DEF Install

LEMMA StartingReads ==
    ASSUME Rest, UsedOK, NEW old, old = file \/ old = Torn, StartAgain(old)
    PROVE  Cell!Restart
<1>1. now' = now /\ used'["restarts"] = used["restarts"] + 1
  <2>1. Use("restarts") /\ ~NoFault
    <3>1. Use("restarts")
      BY DEF StartAgain
    <3>2. used["restarts"] \in Nat /\ used'["restarts"] = used["restarts"] + 1
      BY <3>1, KindsOfUse DEF Use, UsedOK
    <3> QED
      BY <3>1, <3>2 DEF NoFault
  <2> QED
    BY <2>1, KindsOfUse, RestartsCounted DEF StartAgain
<1>2. IfLive(old) = IfLive(file) \/ IfLive(old) = None
  BY DEF IfLive, Live
<1>3. CASE /\ override' = IF Live(old) THEN old ELSE None
           /\ file' = IF old = Torn THEN Torn ELSE override'
           /\ unread' = FALSE
  <2>1. IfLive(override)' = IfLive(old)
    BY <1>1, <1>3 DEF IfLive, Live, IsExpired
  <2>2. IfLive(file)' = IfLive(old)
    BY <1>1, <1>3 DEF IfLive, Live, IsExpired
  <2> QED
    BY <1>1, <1>2, <1>3, <2>1, <2>2 DEF Cell!Restart
<1>4. CASE override' = None /\ file' = old /\ unread' = TRUE
  <2>1. IfLive(override)' = None /\ IfLive(file)' = IfLive(old)
    BY <1>1, <1>4 DEF IfLive, Live, IsExpired
  <2> QED
    BY <1>1, <1>2, <1>4, <2>1 DEF Cell!Restart
<1> QED
  BY <1>3, <1>4 DEF StartAgain, ReadFile

(* The override is a durable cell whose setting ends by itself.            *)
THEOREM OverrideIsDurableCell == Spec => KeepsOverride
<1>1. Init => Cell!Init
  BY DEF Init, Cell!Init, IfLive, Live, Bounds
<1>2. TypeOK /\ TypeOK' /\ OverrideDurable /\ [Next]_vars => [Cell!Next]_(Cell!vars)
  <2> SUFFICES ASSUME Rest, Rest', UsedOK, OverrideDurable, [Next]_vars
               PROVE  [Cell!Next]_(Cell!vars)
    BY DEF TypeOK, Rest, UsedOK
  <2>1. CASE LoopStatus \/ Hold \/ Answer
    BY <2>1, DroppingIsUnseen DEF LoopStatus, Hold, Answer, history
  <2>2. CASE Install
    BY <2>2, InstallingStores
  <2>3. CASE Restart \/ CrashInWrite
    BY <2>3, StartingReads DEF Restart, CrashInWrite, Cell!Next
  <2>4. CASE TimePasses \/ UNCHANGED vars
    <3>1. now' >= now /\ UNCHANGED <<override, file, unread, used>>
      BY <2>4 DEF TimePasses, vars, memory, history, Rest, Time
    <3> QED
      BY <3>1, ExpiryLapses
  <2>5. ASSUME UNCHANGED <<now, override, file, unread>>, used'["restarts"] = used["restarts"]
        PROVE  UNCHANGED Cell!vars
    BY <2>5 DEF Cell!vars, IfLive, Live, IsExpired
  <2>6. CASE LoopGate \/ LoopPoll \/ LoopLeave \/ LoopCorrect \/ LoopPublish
    <3>1. now' = now /\ (Use("reloads") \/ Use("fails") \/ NoFault)
      BY <2>6 DEF LoopGate, LoopPoll, LoopLeave, LoopCorrect, LoopPublish, Fault, NoFault
    <3> QED
      BY <2>5, <2>6, <3>1, OthersLeaveOverride, KindsOfUse, RestartsCounted
  <2>7. CASE TickElapses \/ WaitReturns \/ SleepOver \/ Wake \/ Record
    <3>1. UNCHANGED <<now, used>>
      BY <2>7 DEF TickElapses, WaitReturns, SleepOver, Wake, Record
    <3> QED
      BY <2>5, <2>7, <3>1, OthersLeaveOverride
  <2>8. CASE Call \/ Switch \/ Button \/ Midnight
    <3>1. now' = now /\ (Use("calls") \/ Use("fails") \/ Use("presses") \/ Use("turns") \/ NoFault)
      BY <2>8 DEF Call, PostOverride, DeleteOverride, PostSet, PostWinter, Accept, Switch,
                  Button, Midnight, Fault
    <3> QED
      BY <2>5, <2>8, <3>1, OthersLeaveOverride, KindsOfUse, RestartsCounted
  <2> QED
    BY <2>1, <2>2, <2>3, <2>4, <2>6, <2>7, <2>8 DEF Next, Pass, Serve, Environment
<1> QED
  BY <1>1, <1>2, TypesHold, OverrideIsDurable, PTL DEF Spec, KeepsOverride, Cell!Spec
=============================================================================
