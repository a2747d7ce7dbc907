-------------------------- MODULE WinterModeProofs --------------------------
(***************************************************************************)
(* Theorems about WinterMode, for every set of windows, every number of    *)
(* slots, and every bound on calls, faults and restarts.                   *)
(***************************************************************************)
EXTENDS WinterMode, TLAPS

(* The first day is a day: where time starts, and where a pass that has    *)
(* not begun has its date.                                                 *)
LEMMA DayZero == 0 \in Day
  BY DayAssumption DEF Day

(* Every variable keeps its type: the plug, both threads' local tables and *)
(* the season stay within the windows and seasons of the configuration.    *)
THEOREM TypeCorrect == Spec => []TypeOK
<1>1. Init => TypeOK
  <2> SUFFICES ASSUME Init PROVE TypeOK
    OBVIOUS
  <2>1. SharedTypeOK
    BY WindowAssumption DEF Init, NoProcedures, SharedTypeOK
  <2>2. PassTypeOK
    BY DayZero DEF Init, NoProcedures, PassTypeOK
  <2>3. ProcTypeOK
    BY DEF Init, NoProcedures, ProcTypeOK, NoTables, Thread
  <2>4. BoundsOK
    BY BoundAssumption DEF Init, NoProcedures, BoundsOK
  <2>5. QED
    BY <2>1, <2>2, <2>3, <2>4 DEF TypeOK
<1>2. TypeOK /\ [Next]_vars => TypeOK'
  <2> SUFFICES ASSUME TypeOK, [Next]_vars PROVE TypeOK'
    OBVIOUS
  <2> USE WindowAssumption, RequestAssumption, BoundAssumption, DayAssumption
        DEF TypeOK, SharedTypeOK, PassTypeOK, ProcTypeOK, BoundsOK,
            history, PutBack, ForgetIf, ForgetNothing, Reload
  <2>1. ASSUME NEW t \in Thread, PlugStep(t) PROVE TypeOK'
    <3>a. taken' \in BOOLEAN /\ forgotten' \subseteq {"moved", "raced", "failed", "restarted"}
      BY <2>1 DEF PlugStep
    <3>b. SharedTypeOK' /\ BoundsOK' /\ UNCHANGED <<today, passDay, lpc, renewed>>
      BY <2>1 DEF PlugStep, Fault, NoFault, shared
    <3>1. SharedTypeOK' /\ BoundsOK' /\ (timers' \in SUBSET Windows => PassTypeOK')
      BY <3>a, <3>b
    <3>2. CASE GetTable(t)
      BY <3>1, <3>2 DEF GetTable, Goto
    <3>3. CASE DeleteEntry(t)
      BY <3>1, <3>3 DEF DeleteEntry, SendTable, Goto
    <3>4. CASE ClearDone(t)
      BY <3>1, <3>4 DEF ClearDone, Goto
    <3>5. CASE BeginAdd(t)
      BY <3>1, <3>5 DEF BeginAdd, Goto
    <3>6. CASE AddEntry(t)
      BY <3>1, <3>6 DEF AddEntry, SendTable, Goto
    <3>7. CASE AddDone(t)
      BY <3>1, <3>7 DEF AddDone, Goto
    <3>8. QED
      BY <2>1, <3>2, <3>3, <3>4, <3>5, <3>6, <3>7 DEF PlugStep, Edit
  <2>2. CASE PassStart
    BY <2>2 DEF PassStart, proc, bounds
  <2>3. CASE LoopCancel
    <3>1. SharedTypeOK' /\ PassTypeOK'
      BY <2>3 DEF LoopCancel, CancelWinter, Fault, NoFault, shared, proc
    <3>2. ProcTypeOK'
      BY <2>3 DEF LoopCancel, CancelWinter, Fault, NoFault, shared, proc
    <3>3. BoundsOK'
      BY <2>3 DEF LoopCancel, CancelWinter, Fault, NoFault, shared, proc
    <3>4. QED
      BY <3>1, <3>2, <3>3
  <2>4. CASE LoopRestore
    BY <2>4 DEF LoopRestore, BeginSync, Goto, shared, proc, bounds, Thread
  <2>5. CASE LoopSyncEnd
    BY <2>5 DEF LoopSyncEnd, RestoreStillDue, Return, bounds, Thread
  <2>6. CASE LoopOver \/ LoopGate
    BY <2>6 DEF LoopOver, LoopGate, shared, proc, bounds
  <2>7. CASE LoopFlag
    BY <2>7 DEF LoopFlag, BeginRead, Goto, shared, proc, bounds, Thread
  <2>8. CASE LoopClearEnd
    BY <2>8 DEF LoopClearEnd, Return, bounds, Thread
  <2>9. CASE LoopRest
    BY <2>9 DEF LoopRest, shared, proc, bounds
  <2>10. CASE Answer
    BY <2>10 DEF Answer, Return, shared, bounds, Thread
  <2>11. ASSUME NEW s \in Requests, PostWinter(s) PROVE TypeOK'
    <3>1. SharedTypeOK' /\ PassTypeOK'
      BY <2>11 DEF PostWinter, Accept, SetWinter, Fault, NoFault, proc
    <3>2. ProcTypeOK'
      BY <2>11 DEF PostWinter, Accept, SetWinter, Fault, NoFault, proc
    <3>3. BoundsOK'
      BY <2>11 DEF PostWinter, Accept, SetWinter, Fault, NoFault, proc
    <3>4. QED
      BY <3>1, <3>2, <3>3
  <2>12. CASE DeleteWinter
    <3>1. SharedTypeOK' /\ PassTypeOK'
      BY <2>12 DEF DeleteWinter, Accept, CancelWinter, Fault, NoFault, shared, proc
    <3>2. ProcTypeOK'
      BY <2>12 DEF DeleteWinter, Accept, CancelWinter, Fault, NoFault, shared, proc
    <3>3. BoundsOK'
      BY <2>12 DEF DeleteWinter, Accept, CancelWinter, Fault, NoFault, shared, proc
    <3>4. QED
      BY <3>1, <3>2, <3>3
  <2>13. CASE PostSync
    BY <2>13 DEF PostSync, Accept, BeginSync, Goto, shared, Thread
  <2>14. CASE DeleteSchedule
    BY <2>14 DEF DeleteSchedule, Accept, BeginRead, Goto, shared, Thread
  <2>15. CASE NextDay
    BY <2>15 DEF NextDay, Day, shared, proc, bounds
  <2>16. CASE Restart
    <3>1. SharedTypeOK'
      BY <2>16 DEF Restart, StartAgain, ReadSeason, Fault, NoFault
    <3>2. PassTypeOK'
      BY <2>16, DayZero DEF Restart, StartAgain
    <3>3. ProcTypeOK'
      BY <2>16 DEF Restart, StartAgain, NoTables, Thread
    <3>4. BoundsOK'
      BY <2>16 DEF Restart, StartAgain, Fault, NoFault
    <3>5. QED
      BY <3>1, <3>2, <3>3, <3>4
  <2>17. CASE CrashInWrite
    <3>1. SharedTypeOK'
      BY <2>17 DEF CrashInWrite, Accept, StartAgain, ReadSeason, Fault, NoFault
    <3>2. PassTypeOK'
      BY <2>17, DayZero DEF CrashInWrite, Accept, StartAgain
    <3>3. ProcTypeOK'
      BY <2>17 DEF CrashInWrite, Accept, StartAgain, NoTables, Thread
    <3>4. BoundsOK'
      BY <2>17 DEF CrashInWrite, Accept, StartAgain, Fault, NoFault
    <3>5. QED
      BY <3>1, <3>2, <3>3, <3>4
  <2>18. CASE UNCHANGED vars
    BY <2>18 DEF vars, shared, proc, bounds
  <2>19. QED
    BY <2>1, <2>2, <2>3, <2>4, <2>5, <2>6, <2>7, <2>8, <2>9, <2>10, <2>11, <2>12,
       <2>13, <2>14, <2>15, <2>16, <2>17, <2>18
    DEF Next, Loop, Serve, Request, Environment, Thread
<1>3. QED
  BY <1>1, <1>2, PTL DEF Spec

-----------------------------------------------------------------------------
(* The season file holds the season in memory, was cut short by a write    *)
(* that failed or was interrupted, or could not be read at the start: a    *)
(* season set is never replaced by another, and a season ended stays so.   *)
THEOREM SeasonIsDurable == Spec => []SeasonDurable
<1>1. Init => SeasonDurable
  BY DEF Init, NoProcedures, SeasonDurable
<1>2. SeasonDurable /\ [Next]_vars => SeasonDurable'
  <2> SUFFICES ASSUME SeasonDurable, [Next]_vars PROVE SeasonDurable'
    OBVIOUS
  <2> USE DEF SeasonDurable
  <2>1. ASSUME NEW t \in Thread, PlugStep(t) PROVE SeasonDurable'
    BY <2>1 DEF PlugStep, shared
  <2>2. CASE PassStart \/ LoopOver \/ LoopRestore \/ LoopSyncEnd \/ LoopGate \/ LoopFlag
               \/ LoopClearEnd \/ LoopRest
    BY <2>2 DEF PassStart, LoopOver, LoopRestore, LoopSyncEnd, LoopGate, LoopFlag, LoopClearEnd,
                LoopRest, shared
  <2>3. CASE LoopCancel
    BY <2>3 DEF LoopCancel, CancelWinter, shared
  <2>4. CASE Answer \/ PostSync \/ DeleteSchedule
    BY <2>4 DEF Answer, PostSync, DeleteSchedule, shared
  <2>5. ASSUME NEW s \in Requests, PostWinter(s) PROVE SeasonDurable'
    BY <2>5 DEF PostWinter, SetWinter
  <2>6. CASE DeleteWinter
    BY <2>6 DEF DeleteWinter, CancelWinter, shared
  <2>7. CASE NextDay \/ UNCHANGED vars
    BY <2>7 DEF NextDay, shared, vars
  <2>8. CASE Restart \/ CrashInWrite
    BY <2>8 DEF Restart, CrashInWrite, StartAgain, ReadSeason
  <2>9. QED
    BY <2>1, <2>2, <2>3, <2>4, <2>5, <2>6, <2>7, <2>8
    DEF Next, Loop, Serve, Request, Environment, Thread
<1>3. QED
  BY <1>1, <1>2, PTL DEF Spec

-----------------------------------------------------------------------------
(* A step that leaves the season and its file alone is a stutter of the    *)
(* durable cell.                                                           *)
LEMMA OtherStepsSpareCell ==
  ASSUME UNCHANGED <<winter, seasonFile, unread, restarts>> PROVE UNCHANGED Cell!vars
  BY DEF Cell!vars, Stored

(* set_winter and cancel_winter are a change of the cell, or a failed one. *)
LEMMA SettingKeepsCell ==
  ASSUME TypeOK, restarts' = restarts,
         CancelWinter \/ \E s \in Requests : SetWinter(s)
  PROVE  [Cell!Next]_(Cell!vars)
<1>1. ASSUME NEW s \in Requests, SetWinter(s) PROVE [Cell!Next]_(Cell!vars)
  <2>1. CASE seasonFile' = s /\ winter' = s /\ ~unread'
    <3>1. s \in Cell!Cell /\ Stored' = s
      BY <1>1, <2>1, RequestAssumption, TornAssumption DEF Cell!Cell, Stored
    <3>2. QED
      BY <1>1, <2>1, <3>1, RequestAssumption DEF Cell!Next, Cell!Store, TypeOK, SharedTypeOK
  <2>2. CASE seasonFile' \in {seasonFile, Torn} /\ UNCHANGED <<winter, unread>>
    BY <2>2 DEF Cell!Next, Cell!StoreFails, Cell!vars, Stored
  <2>3. QED
    BY <1>1, <2>1, <2>2 DEF SetWinter, TypeOK, SharedTypeOK
<1>2. CASE CancelWinter
  <2>1. CASE seasonFile' = None /\ winter' = None /\ ~unread'
    BY <1>2, <2>1, TornAssumption DEF Cell!Next, Cell!Store, Cell!Cell, Stored, CancelWinter
  <2>2. CASE UNCHANGED shared
    BY <2>2, OtherStepsSpareCell DEF shared
  <2>3. QED
    BY <1>2, <2>1, <2>2 DEF CancelWinter
<1>3. QED
  BY <1>1, <1>2

(* A start reads the file, or knows that it could not.                     *)
LEMMA StartingKeepsCell ==
  ASSUME TypeOK, StartAgain, seasonFile' \in {seasonFile, Torn} PROVE Cell!Next
  BY TornAssumption
  DEF StartAgain, ReadSeason, Cell!Next, Cell!Restart, Stored, TypeOK, SharedTypeOK, BoundsOK

(* Winter mode keeps its season as a durable cell does.                    *)
THEOREM SeasonIsDurableCell == Spec => KeepsSeason
<1>1. Init => Cell!Init
  BY TornAssumption DEF Init, NoProcedures, Cell!Init, Stored
<1>2. TypeOK /\ [Next]_vars => [Cell!Next]_(Cell!vars)
  <2> SUFFICES ASSUME TypeOK, [Next]_vars PROVE [Cell!Next]_(Cell!vars)
    OBVIOUS
  <2>1. ASSUME NEW t \in Thread, PlugStep(t) PROVE UNCHANGED <<winter, seasonFile, unread, restarts>>
    BY <2>1 DEF PlugStep, shared, bounds
  <2>2. CASE PassStart \/ LoopOver \/ LoopRestore \/ LoopSyncEnd \/ LoopGate \/ LoopFlag
               \/ LoopClearEnd \/ LoopRest
    BY <2>2, OtherStepsSpareCell
    DEF PassStart, LoopOver, LoopRestore, LoopSyncEnd, LoopGate, LoopFlag, LoopClearEnd,
        LoopRest, shared, bounds
  <2>3. CASE Answer \/ PostSync \/ DeleteSchedule \/ NextDay \/ UNCHANGED vars
    BY <2>3, OtherStepsSpareCell
    DEF Answer, PostSync, DeleteSchedule, NextDay, vars, shared, bounds
  <2>4. CASE LoopCancel \/ DeleteWinter \/ \E s \in Requests : PostWinter(s)
    BY <2>4, SettingKeepsCell DEF LoopCancel, DeleteWinter, PostWinter
  <2>5. CASE Restart \/ CrashInWrite
    BY <2>5, StartingKeepsCell DEF Restart, CrashInWrite
  <2>6. QED
    BY <2>1, <2>2, <2>3, <2>4, <2>5, OtherStepsSpareCell
    DEF Next, Loop, Serve, Request, Environment, Thread
<1>3. QED
  BY <1>1, <1>2, TypeCorrect, PTL DEF Spec, KeepsSeason, Cell!Spec

-----------------------------------------------------------------------------
(* Starting or leaving clear_plug_schedule or sync_plug_schedule takes a   *)
(* thread outside the plug lock.                                           *)
LEMMA OutsideKeepsSection ==
  ASSUME SectionInv, NEW t \in Thread,
         pc'[t] \in {"idle", "get", "err"}, pc'[t] = "idle" \/ op'[t] # "none",
         \A u \in Thread : u # t =>
           pc'[u] = pc[u] /\ op'[u] = op[u] /\ table'[u] = table[u],
         timers' = timers
  PROVE  SectionInv'
  BY DEF SectionInv, LocalTableCurrent, HoldsPlug

(* A step that leaves the procedures and the plug alone.                   *)
LEMMA IdleKeepsSection ==
  ASSUME SectionInv, UNCHANGED <<proc, timers>> PROVE SectionInv'
  BY DEF SectionInv, LocalTableCurrent, HoldsPlug, proc

(* Each step of the two procedures keeps a thread's local table equal to   *)
(* the plug's while the thread holds the plug lock.                        *)
LEMMA EditKeepsSection ==
  ASSUME TypeOK, SectionInv, NEW t \in Thread, Edit(t) PROVE SectionInv'
<1> USE DEF TypeOK, ProcTypeOK, SectionInv, LocalTableCurrent, HoldsPlug, Goto
<1>1. CASE GetTable(t)
  BY <1>1 DEF GetTable, PlugFree
<1>2. CASE DeleteEntry(t)
  BY <1>2 DEF DeleteEntry, SendTable
<1>3. CASE ClearDone(t)
  BY <1>3 DEF ClearDone
<1>4. CASE BeginAdd(t)
  BY <1>4 DEF BeginAdd, PlugFree
<1>5. CASE AddEntry(t)
  BY <1>5 DEF AddEntry, SendTable
<1>6. CASE AddDone(t)
  BY <1>6 DEF AddDone
<1>7. QED
  BY <1>1, <1>2, <1>3, <1>4, <1>5, <1>6 DEF Edit

(* Every step of the daemon keeps the strengthened invariant.              *)
LEMMA StepKeepsSection ==
  ASSUME TypeOK, SectionInv, [Next]_vars PROVE SectionInv'
<1>1. ASSUME NEW t \in Thread, PlugStep(t) PROVE SectionInv'
  BY <1>1, EditKeepsSection DEF PlugStep
<1>2. CASE PassStart \/ LoopOver \/ LoopCancel \/ LoopGate \/ LoopRest \/ DeleteWinter
             \/ NextDay \/ UNCHANGED vars
  BY <1>2, IdleKeepsSection
  DEF PassStart, LoopOver, LoopCancel, LoopGate, LoopRest, DeleteWinter, NextDay, vars
<1>3. ASSUME NEW s \in Requests, PostWinter(s) PROVE SectionInv'
  BY <1>3, IdleKeepsSection DEF PostWinter
<1>4. ASSUME NEW t \in Thread, timers' = timers,
             BeginSync(t, config) \/ BeginRead(t, "clear") \/ Return(t)
      PROVE  SectionInv'
  BY <1>4, OutsideKeepsSection
  DEF BeginSync, BeginRead, Return, Goto, TypeOK, ProcTypeOK
<1>5. CASE LoopRestore \/ LoopFlag
  <2>1. CASE UNCHANGED proc
    BY <1>5, <2>1, IdleKeepsSection DEF LoopRestore, LoopFlag
  <2>2. CASE BeginSync("loop", config) \/ BeginRead("loop", "clear")
    BY <1>4, <1>5, <2>2 DEF LoopRestore, LoopFlag, Thread
  <2>3. QED
    BY <1>5, <2>1, <2>2 DEF LoopRestore, LoopFlag
<1>6. CASE LoopSyncEnd \/ LoopClearEnd
  BY <1>4, <1>6 DEF LoopSyncEnd, LoopClearEnd, Thread
<1>7. CASE PostSync \/ DeleteSchedule \/ Answer
  BY <1>4, <1>7 DEF PostSync, DeleteSchedule, Answer, Thread
<1>8. CASE Restart \/ CrashInWrite
  BY <1>8 DEF Restart, CrashInWrite, StartAgain, SectionInv,
              LocalTableCurrent, HoldsPlug
<1>9. QED
  BY <1>1, <1>2, <1>3, <1>5, <1>6, <1>7, <1>8
  DEF Next, Loop, Serve, Request, Environment, Thread

LEMMA SectionInvariant == Spec => []SectionInv
<1>1. Init => SectionInv
  BY DEF Init, NoProcedures, SectionInv, LocalTableCurrent, HoldsPlug
<1>2. QED
  BY <1>1, StepKeepsSection, TypeCorrect, PTL DEF Spec

(* No two threads talk to the plug at once, and what a thread believes the *)
(* timer table to be is what it is.                                        *)
THEOREM LocalTableIsCurrent == Spec => []LocalTableCurrent
  BY SectionInvariant, PTL DEF SectionInv

(* A procedure that reports success tells the truth about the timer table, *)
(* whatever requests run beside it.                                        *)
THEOREM SuccessTold == Spec => SuccessIsTrue
<1> DEFINE Told(t) == pc[t] # "ok" /\ pc'[t] = "ok" =>
      IF op[t] = "clear" THEN timers' = {} ELSE timers' = want[t] \/ want[t] = {}
<1>1. TypeOK /\ SectionInv /\ [Next]_vars => [\A t \in Thread : Told(t)]_vars
  <2> SUFFICES ASSUME TypeOK, SectionInv, Next, NEW t \in Thread PROVE Told(t)
    BY DEF vars
  <2> USE DEF TypeOK, ProcTypeOK
  <2>1. ASSUME NEW u \in Thread, PlugStep(u) PROVE Told(t)
    <3>1. CASE ClearDone(u)
      BY <3>1 DEF ClearDone, Goto, SectionInv, LocalTableCurrent
    <3>2. CASE AddDone(u)
      BY <3>2 DEF AddDone, Goto, SectionInv, LocalTableCurrent
    <3>3. CASE GetTable(u) \/ DeleteEntry(u) \/ BeginAdd(u) \/ AddEntry(u)
      BY <3>3 DEF GetTable, DeleteEntry, BeginAdd, AddEntry, SendTable, Goto
    <3>4. QED
      BY <2>1, <3>1, <3>2, <3>3 DEF PlugStep, Edit
  <2>2. CASE PassStart \/ LoopOver \/ LoopCancel \/ LoopRestore \/ LoopGate \/ LoopFlag \/ LoopRest
    BY <2>2 DEF PassStart, LoopOver, LoopCancel, LoopRestore, LoopGate, LoopFlag, LoopRest,
                BeginSync, BeginRead, Goto, proc
  <2>3. CASE LoopSyncEnd \/ LoopClearEnd \/ Answer
    BY <2>3 DEF LoopSyncEnd, LoopClearEnd, Answer, Return
  <2>4. CASE DeleteWinter \/ PostSync \/ DeleteSchedule \/ \E s \in Requests : PostWinter(s)
    BY <2>4 DEF DeleteWinter, PostSync, DeleteSchedule, PostWinter, BeginSync, BeginRead,
                Goto, proc
  <2>5. CASE Environment
    BY <2>5 DEF Environment, NextDay, Restart, CrashInWrite, StartAgain, proc
  <2>6. QED
    BY <2>1, <2>2, <2>3, <2>4, <2>5 DEF Next, Loop, Serve, Request, Thread
<1>2. QED
  BY <1>1, TypeCorrect, SectionInvariant, PTL DEF Spec, SuccessIsTrue

-----------------------------------------------------------------------------
(* Seen through their effect on the plug, winter_pass and the requests     *)
(* only begin, carry on and leave the procedures of TimerSet.              *)

\* The loop begins a procedure from outside it, with the windows of a configuration.
OutsideInv ==
    /\ config \in Configs
    /\ lpc \notin {"syncing", "clearing"} => pc["loop"] = "idle"

LEMMA OutsideInvariant == Spec => []OutsideInv
<1>1. Init => OutsideInv
  BY DEF Init, NoProcedures, OutsideInv, Thread
<1>2. TypeOK /\ OutsideInv /\ [Next]_vars => OutsideInv'
  <2> SUFFICES ASSUME TypeOK, OutsideInv, [Next]_vars PROVE OutsideInv'
    OBVIOUS
  <2> USE DEF OutsideInv, TypeOK, ProcTypeOK, Thread
  <2>1. CASE PlugStep("loop")
    <3>1. pc["loop"] # "idle" /\ lpc' = lpc /\ config' = config
      BY <2>1 DEF PlugStep, Edit, GetTable, DeleteEntry, ClearDone, BeginAdd, AddEntry, AddDone,
                  shared
    <3> QED
      BY <3>1
  <2>2. CASE Serve \/ PostSync \/ DeleteSchedule
    BY <2>2 DEF Serve, Answer, PostSync, DeleteSchedule, PlugStep, Edit, GetTable, DeleteEntry,
                ClearDone, BeginAdd, AddEntry, AddDone, SendTable, Return, BeginSync, BeginRead,
                Goto, shared
  <2>3. CASE PassStart \/ LoopOver \/ LoopCancel \/ LoopGate \/ LoopRest
    BY <2>3 DEF PassStart, Reload, LoopOver, LoopCancel, CancelWinter, LoopGate, LoopRest, shared, proc
  <2>4. CASE LoopRestore \/ LoopFlag
    BY <2>4 DEF LoopRestore, LoopFlag, shared, proc
  <2>5. CASE LoopSyncEnd \/ LoopClearEnd
    BY <2>5 DEF LoopSyncEnd, LoopClearEnd, Return
  <2>6. CASE DeleteWinter \/ \E s \in Requests : PostWinter(s)
    BY <2>6 DEF DeleteWinter, PostWinter, CancelWinter, SetWinter, shared, proc
  <2>7. CASE NextDay \/ UNCHANGED vars
    BY <2>7 DEF NextDay, vars, shared, proc
  <2>8. CASE Restart \/ CrashInWrite
    BY <2>8 DEF Restart, CrashInWrite, StartAgain, Reload
  <2> QED
    BY <2>1, <2>2, <2>3, <2>4, <2>5, <2>6, <2>7, <2>8
    DEF Next, Loop, Serve, Request, Environment
<1> QED
  BY <1>1, <1>2, TypeCorrect, PTL DEF Spec

(* Winter mode implements TimerSet, as the table with its ids does: what   *)
(* either does to the plug's timers it does through the three procedures,  *)
(* begun by an idle thread with the windows of one configuration.          *)
THEOREM WinterEditsSet == Spec => SetSpec
<1>1. Init => timers \in SUBSET Windows /\ NoProcedures
  BY WindowAssumption DEF Init
<1>2. TypeOK /\ OutsideInv /\ [Next]_vars => [SetNext]_setVars
  <2> SUFFICES ASSUME TypeOK, OutsideInv, [Next]_vars PROVE SetNext \/ UNCHANGED setVars
    OBVIOUS
  <2>1. ASSUME NEW t \in Thread, PlugStep(t) PROVE SetNext
    BY <2>1 DEF PlugStep, SetNext, Moves
  <2>2. ASSUME NEW t \in Thread, pc[t] = "idle", timers' = timers,
               BeginSync(t, config) \/ BeginRead(t, "clear")
        PROVE  SetNext
    BY <2>2 DEF OutsideInv, SetNext, Moves, Start
  <2>3. ASSUME NEW t \in Thread, timers' = timers, Return(t) PROVE SetNext
    BY <2>3 DEF SetNext, Moves
  <2>4. CASE PassStart \/ LoopOver \/ LoopCancel \/ LoopGate \/ LoopRest \/ DeleteWinter
               \/ NextDay \/ UNCHANGED vars \/ \E s \in Requests : PostWinter(s)
    BY <2>4 DEF PassStart, LoopOver, LoopCancel, LoopGate, LoopRest, DeleteWinter, PostWinter,
                NextDay, vars, setVars
  <2>5. CASE LoopRestore \/ LoopFlag
    <3>1. pc["loop"] = "idle" /\ timers' = timers
      BY <2>5 DEF LoopRestore, LoopFlag, OutsideInv
    <3>2. CASE UNCHANGED proc
      BY <3>1, <3>2 DEF setVars
    <3>3. CASE BeginSync("loop", config) \/ BeginRead("loop", "clear")
      BY <2>2, <3>1, <3>3 DEF Thread
    <3> QED
      BY <2>5, <3>2, <3>3 DEF LoopRestore, LoopFlag
  <2>6. CASE LoopSyncEnd \/ LoopClearEnd \/ Answer
    BY <2>3, <2>6 DEF LoopSyncEnd, LoopClearEnd, Answer, Thread
  <2>7. CASE PostSync \/ DeleteSchedule
    BY <2>2, <2>7 DEF PostSync, DeleteSchedule, Accept, Thread
  <2>8. CASE Restart \/ CrashInWrite
    BY <2>8 DEF Restart, CrashInWrite, StartAgain, NoProcedures, SetNext, Stop
  <2> QED
    BY <2>1, <2>4, <2>5, <2>6, <2>7, <2>8 DEF Next, Loop, Serve, Request, Environment, Thread
<1> QED
  BY <1>1, <1>2, TypeCorrect, OutsideInvariant, PTL DEF Spec, SetSpec

-----------------------------------------------------------------------------
(* By the time the loop's restore has succeeded the timers are back.       *)
LEMMA RestoreInvariant == Spec => []RestoreInv
<1>1. Init => RestoreInv
  BY DEF Init, NoProcedures, RestoreInv
<1>2. TypeOK /\ RestoreInv /\ [Next]_vars => RestoreInv'
  <2> SUFFICES ASSUME TypeOK, RestoreInv, [Next]_vars PROVE RestoreInv'
    OBVIOUS
  <2> USE DEF TypeOK, ProcTypeOK, RestoreInv, history, PutBack
  <2>1. CASE PlugStep("loop")
    <3>1. CASE DeleteEntry("loop")
      BY <2>1, <3>1 DEF PlugStep, DeleteEntry, SendTable, Goto, Thread
    <3>2. CASE AddEntry("loop")
      BY <2>1, <3>2 DEF PlugStep, AddEntry, SendTable, Goto, Thread
    <3>3. CASE GetTable("loop") \/ ClearDone("loop") \/ BeginAdd("loop") \/ AddDone("loop")
      BY <2>1, <3>3 DEF PlugStep, GetTable, ClearDone, BeginAdd, AddDone, Goto, Thread
    <3>4. QED
      BY <2>1, <3>1, <3>2, <3>3 DEF PlugStep, Edit
  <2>2. CASE PlugStep("api")
    BY <2>2 DEF PlugStep, Edit, GetTable, DeleteEntry, ClearDone, BeginAdd, AddEntry, AddDone,
                SendTable, Goto, Thread
  <2>3. CASE PassStart \/ LoopOver \/ LoopCancel \/ LoopGate \/ LoopFlag \/ LoopRest
             \/ LoopSyncEnd \/ LoopClearEnd
    BY <2>3 DEF PassStart, LoopOver, LoopCancel, LoopGate, LoopFlag, LoopRest, LoopSyncEnd, LoopClearEnd
  <2>4. CASE LoopRestore
    BY <2>4 DEF LoopRestore, BeginSync, Goto, Thread
  <2>5. CASE Answer
    BY <2>5 DEF Answer, Return, Thread
  <2>6. CASE DeleteWinter \/ PostSync \/ DeleteSchedule \/ \E s \in Requests : PostWinter(s)
    BY <2>6 DEF DeleteWinter, PostSync, DeleteSchedule, PostWinter, BeginSync, BeginRead,
                Goto, proc, Thread
  <2>7. CASE Environment \/ UNCHANGED vars
    BY <2>7 DEF Environment, NextDay, Restart, CrashInWrite, StartAgain, proc, vars
  <2>8. QED
    BY <2>1, <2>2, <2>3, <2>4, <2>5, <2>6, <2>7 DEF Next, Loop, Serve, Request
<1>3. QED
  BY <1>1, <1>2, TypeCorrect, PTL DEF Spec

(* The loop forgets a pending restore only when the removed timers are     *)
(* back in the plug, or the process dies.                                  *)
THEOREM PendingIsKept == Spec => PendingUntilRestored
<1> DEFINE Kept == restorePending /\ ~restorePending' => ~taken' \/ restarts' # restarts
<1>1. TypeOK /\ RestoreInv /\ [Next]_vars => [Kept]_vars
  <2> SUFFICES ASSUME TypeOK, RestoreInv, Next PROVE Kept
    BY DEF vars
  <2>1. ASSUME NEW t \in Thread, PlugStep(t) PROVE restorePending' = restorePending
    BY <2>1 DEF PlugStep, shared
  <2>2. CASE LoopSyncEnd
    BY <2>2 DEF LoopSyncEnd, RestoreStillDue, Return, Returned, RestoreInv, history
  <2>3. CASE LoopCancel \/ DeleteWinter
    BY <2>3 DEF LoopCancel, DeleteWinter, CancelWinter, shared
  <2>4. CASE PassStart \/ LoopOver \/ LoopRestore \/ LoopGate \/ LoopFlag \/ LoopRest \/ LoopClearEnd
    BY <2>4 DEF PassStart, LoopOver, LoopRestore, LoopGate, LoopFlag, LoopRest, LoopClearEnd, shared
  <2>5. CASE Answer \/ PostSync \/ DeleteSchedule \/ \E s \in Requests : PostWinter(s)
    BY <2>5 DEF Answer, PostSync, DeleteSchedule, PostWinter, SetWinter, shared
  <2>6. CASE NextDay
    BY <2>6 DEF NextDay, shared
  <2>7. CASE Restart \/ CrashInWrite
    BY <2>7 DEF Restart, CrashInWrite, StartAgain, TypeOK, BoundsOK
  <2>8. QED
    BY <2>1, <2>2, <2>3, <2>4, <2>5, <2>6, <2>7 DEF Next, Loop, Serve, Request, Environment, Thread
<1>2. QED
  BY <1>1, TypeCorrect, RestoreInvariant, PTL DEF Spec, PendingUntilRestored

-----------------------------------------------------------------------------
(* The timers the loop took are owed.                                      *)

\* Outside its two procedures the loop is in none, and a clearing is a clear.
PlaceInv ==
    /\ OutsideInv
    /\ lpc = "clearing" => op["loop"] = "clear"
    /\ lpc = "syncing" => op["loop"] = "sync"

\* Where what is owed is written down: in a flag, in the clearing under way, or nowhere.
OwedInv ==
    /\ taken /\ lpc # "clearing" => timersCleared \/ restorePending \/ forgotten # {}
    /\ winter = None /\ ClearDue => restorePending \/ forgotten # {}
    /\ winter = None /\ timersCleared /\ taken => restorePending \/ forgotten # {}

LEMMA PlaceKept == ASSUME TypeOK, PlaceInv, OutsideInv', [Next]_vars PROVE PlaceInv'
<1> USE DEF PlaceInv, OutsideInv, TypeOK, ProcTypeOK, Thread
<1>1. ASSUME NEW t \in Thread, PlugStep(t) PROVE PlaceInv'
  BY <1>1 DEF PlugStep, Edit, GetTable, DeleteEntry, ClearDone, BeginAdd, AddEntry, AddDone, SendTable
<1>2. CASE PassStart \/ LoopOver \/ LoopCancel \/ LoopGate \/ LoopRest
  BY <1>2 DEF PassStart, LoopOver, LoopCancel, LoopGate, LoopRest
<1>3. CASE LoopRestore
  BY <1>3 DEF LoopRestore, BeginSync
<1>4. CASE LoopFlag
  BY <1>4 DEF LoopFlag, BeginRead
<1>5. CASE LoopSyncEnd \/ LoopClearEnd
  BY <1>5 DEF LoopSyncEnd, LoopClearEnd
<1>6. CASE Answer
  BY <1>6 DEF Answer, Return
<1>7. CASE PostSync \/ DeleteSchedule
  BY <1>7 DEF PostSync, DeleteSchedule, BeginSync, BeginRead
<1>8. CASE DeleteWinter \/ NextDay \/ UNCHANGED vars \/ \E s \in Requests : PostWinter(s)
  BY <1>8 DEF DeleteWinter, PostWinter, NextDay, vars, proc
<1>9. CASE Restart \/ CrashInWrite
  BY <1>9 DEF Restart, CrashInWrite, StartAgain
<1> QED
  BY <1>1, <1>2, <1>3, <1>4, <1>5, <1>6, <1>7, <1>8, <1>9
  DEF Next, Loop, Serve, Request, Environment

LEMMA PlaceInvariant == Spec => []PlaceInv
<1>1. Init => PlaceInv
  BY DEF Init, NoProcedures, PlaceInv, OutsideInv, Thread
<1> QED
  BY <1>1, PlaceKept, TypeCorrect, OutsideInvariant, PTL DEF Spec

\* cancel_winter hands the flag on, or leaves a clearing that is under way behind.
LEMMA CancelKeepsOwed ==
    ASSUME TypeOK, OwedInv, CancelWinter, UNCHANGED taken,
           lpc' = lpc \/ (lpc = "cancel" /\ lpc' = "restore")
    PROVE  OwedInv'
BY DEF OwedInv, CancelWinter, ForgetIf, ClearDue, shared, TypeOK, SharedTypeOK

\* set_winter keeps the flag, or starts a season anew.
LEMMA SetKeepsOwed ==
    ASSUME TypeOK, OwedInv, NEW s \in Requests, SetWinter(s), UNCHANGED <<taken, lpc>>
    PROVE  OwedInv'
<1>1. s # None
  BY RequestAssumption, NoSeasonAssumption
<1>2. CASE UNCHANGED <<winter, timersCleared, restorePending, forgotten>>
  BY <1>2 DEF OwedInv, ClearDue
<1>3. CASE /\ winter' = s /\ timersCleared' = (timersCleared /\ SameStart(s))
           /\ ForgetIf("moved", timersCleared /\ winter # None /\ winter.start # s.start)
           /\ UNCHANGED restorePending
  BY <1>1, <1>3 DEF OwedInv, ClearDue, ForgetIf, SameStart
<1> QED
  BY <1>2, <1>3 DEF SetWinter

LEMMA OwedKept ==
    ASSUME TypeOK, RestoreInv, PlaceInv, OwedInv, [Next]_vars
    PROVE  OwedInv'
<1> USE DEF OwedInv, ClearDue
<1>1. ASSUME NEW t \in Thread, PlugStep(t) PROVE OwedInv'
  <2>1. UNCHANGED <<lpc, winter, timersCleared, restorePending>>
    BY <1>1 DEF PlugStep, shared
  <2>2. CASE op[t] = "sync" /\ pc'[t] = "ok"
    BY <1>1, <2>1, <2>2 DEF PlugStep, PutBack
  <2>3. CASE ~(op[t] = "sync" /\ pc'[t] = "ok") /\ taken' = taken
    BY <1>1, <2>1, <2>3 DEF PlugStep
  <2>4. CASE taken' # taken /\ t = "loop" /\ op[t] = "clear" /\ UNCHANGED forgotten
    <3>1. pc["loop"] # "idle"
      BY <1>1, <2>4 DEF PlugStep, Edit, GetTable, DeleteEntry, ClearDone, BeginAdd, AddEntry, AddDone
    <3>2. lpc = "clearing"
      BY <2>4, <3>1 DEF PlaceInv, OutsideInv
    <3> QED
      BY <2>1, <2>4, <3>2
  <2> QED
    BY <1>1, <2>2, <2>3, <2>4 DEF PlugStep, TypeOK, PassTypeOK
<1>2. CASE PassStart \/ LoopOver \/ LoopRest
  BY <1>2 DEF PassStart, LoopOver, LoopRest, shared, history
<1>3. CASE LoopCancel
  BY <1>3, CancelKeepsOwed DEF LoopCancel
<1>4. CASE LoopRestore
  BY <1>4 DEF LoopRestore, shared, history
<1>5. CASE LoopGate
  BY <1>5 DEF LoopGate, HandsOff, SeasonActive, shared, history
<1>6. CASE LoopFlag
  BY <1>6 DEF LoopFlag, shared, history
<1>7. CASE LoopSyncEnd
  BY <1>7 DEF LoopSyncEnd, RestoreStillDue, Return, Returned, RestoreInv, history
<1>8. CASE LoopClearEnd
  BY <1>8 DEF LoopClearEnd, Return, Returned, ForgetIf, ForgetNothing
<1>9. CASE Answer
  BY <1>9 DEF Answer, PutBack, shared
<1>10. CASE DeleteWinter
  BY <1>10, CancelKeepsOwed DEF DeleteWinter
<1>11. ASSUME NEW s \in Requests, PostWinter(s) PROVE OwedInv'
  BY <1>11, SetKeepsOwed DEF PostWinter
<1>12. CASE PostSync \/ DeleteSchedule \/ NextDay \/ UNCHANGED vars
  BY <1>12 DEF PostSync, DeleteSchedule, NextDay, vars, shared, history
<1>13. CASE Restart \/ CrashInWrite
  BY <1>13 DEF Restart, CrashInWrite, StartAgain, ForgetIf
<1> QED
  BY <1>1, <1>2, <1>3, <1>4, <1>5, <1>6, <1>7, <1>8, <1>9, <1>10, <1>11, <1>12, <1>13
  DEF Next, Loop, Serve, Request, Environment, Thread

(* Timers the loop removed are back by the time no season is set, or known *)
(* to be missing, in every behaviour: what fails, races or is cut short    *)
(* makes the daemon forget them in the four named events and no other.     *)
THEOREM NothingElseForgotten == Spec => []NothingForgotten
<1>1. Init => OwedInv
  BY DEF Init, NoProcedures, OwedInv, ClearDue
<1>2. OwedInv => NothingForgotten
  BY DEF OwedInv, NothingForgotten, ClearDue
<1> QED
  BY <1>1, <1>2, OwedKept, TypeCorrect, RestoreInvariant, PlaceInvariant, PTL DEF Spec

-----------------------------------------------------------------------------
(* What the loop found to be over is what it cancels, or a season has been *)
(* set since; and it is over by the date of now, too.                      *)
OverInv ==
    /\ passDay <= today
    /\ lpc = "cancel" /\ ~renewed => winter = None \/ IsOver(winter, today)

LEMMA OverKept == ASSUME TypeOK, OverInv, [Next]_vars PROVE OverInv'
<1> USE DEF OverInv
<1>1. today \in Nat /\ passDay \in Nat /\ Day \subseteq Nat
  BY DayAssumption DEF TypeOK, PassTypeOK, Day
<1>2. winter # None => winter.end \in Nat \union {None}
  BY DayAssumption DEF TypeOK, SharedTypeOK, Season, Day
<1>3. ASSUME NEW t \in Thread, PlugStep(t) PROVE OverInv'
  BY <1>3 DEF PlugStep, shared
<1>4. CASE PassStart
  <2>1. today' \in Nat /\ passDay' = today' /\ lpc' = "over"
    BY <1>1, <1>4 DEF PassStart, Reload
  <2> QED
    BY <2>1
<1>5. CASE LoopOver
  BY <1>1, <1>2, <1>5 DEF LoopOver, SeasonOver, IsOver, shared, history
<1>6. CASE LoopCancel \/ LoopRestore \/ LoopSyncEnd \/ LoopGate \/ LoopFlag \/ LoopClearEnd
             \/ LoopRest
  BY <1>6 DEF LoopCancel, LoopRestore, LoopSyncEnd, LoopGate, LoopFlag, LoopClearEnd, LoopRest
<1>7. CASE Answer \/ PostSync \/ DeleteSchedule \/ UNCHANGED vars
  BY <1>7 DEF Answer, PostSync, DeleteSchedule, vars, shared, history
<1>8. CASE DeleteWinter
  BY <1>8 DEF DeleteWinter, CancelWinter, shared
<1>9. ASSUME NEW s \in Requests, PostWinter(s) PROVE OverInv'
  <2>1. UNCHANGED <<today, passDay, lpc>>
    BY <1>9 DEF PostWinter
  <2>2. CASE UNCHANGED <<winter, renewed>>
    BY <2>1, <2>2
  <2>3. CASE lpc # "cancel" \/ renewed'
    BY <2>1, <2>3
  <2> QED
    BY <1>9, <2>2, <2>3 DEF PostWinter, SetWinter
<1>10. CASE NextDay
  BY <1>1, <1>2, <1>10 DEF NextDay, IsOver, shared, history
<1>11. CASE Restart \/ CrashInWrite
  <2>1. today' \in Day /\ passDay' = 0 /\ lpc' = "top"
    BY <1>11 DEF Restart, CrashInWrite, StartAgain, Reload
  <2>2. today' >= 0
    BY <1>1, <2>1
  <2> QED
    BY <2>1, <2>2
<1> QED
  BY <1>3, <1>4, <1>5, <1>6, <1>7, <1>8, <1>9, <1>10, <1>11
  DEF Next, Loop, Serve, Request, Environment, Thread

(* A season is given up on a client's request, once it is over, or by a    *)
(* restart, in every behaviour; one set between the loop's two looks at    *)
(* the season is the only other that is lost.                              *)
THEOREM SeasonIsNotDropped == Spec => SeasonNotDropped
<1>1. Init => OverInv
  BY DEF Init, NoProcedures, OverInv
<1> DEFINE Kept ==
      winter # None /\ winter' = None =>
        IsOver(winter, today) \/ renewed \/ calls' # calls \/ restarts' # restarts
<1>2. TypeOK /\ OverInv /\ [Next]_vars => [Kept]_vars
  <2> SUFFICES ASSUME TypeOK, OverInv, Next PROVE Kept
    BY DEF vars
  <2>1. ASSUME NEW t \in Thread, PlugStep(t) PROVE Kept
    BY <2>1 DEF PlugStep, shared
  <2>2. CASE LoopCancel
    BY <2>2 DEF LoopCancel, OverInv
  <2>3. CASE PassStart \/ LoopOver \/ LoopRestore \/ LoopSyncEnd \/ LoopGate \/ LoopFlag
               \/ LoopClearEnd \/ LoopRest \/ Answer \/ NextDay
    BY <2>3 DEF PassStart, LoopOver, LoopRestore, LoopSyncEnd, LoopGate, LoopFlag, LoopClearEnd,
                LoopRest, Answer, NextDay, shared
  <2>4. CASE Request
    BY <2>4 DEF Request, DeleteWinter, PostSync, DeleteSchedule, PostWinter, Accept, TypeOK, BoundsOK
  <2>5. CASE Restart \/ CrashInWrite
    BY <2>5 DEF Restart, CrashInWrite, StartAgain, TypeOK, BoundsOK
  <2> QED
    BY <2>1, <2>2, <2>3, <2>4, <2>5 DEF Next, Loop, Serve, Environment, Thread
<1> QED
  BY <1>1, <1>2, OverKept, TypeCorrect, PTL DEF Spec, SeasonNotDropped
=============================================================================
