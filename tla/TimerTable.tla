----------------------------- MODULE TimerTable -----------------------------
(***************************************************************************)
(* The plug's timer table as proto.rs and api.rs edit it: entries with the *)
(* ids they are deleted by, in the order they are sent, every command      *)
(* carrying the whole table, and a reply that has no room for the end of   *)
(* the last one.                                                           *)
(*                                                                         *)
(* Two threads run clear_plug_schedule, sync_plug_schedule and             *)
(* plug_schedule.  TimerSet has the same procedures with a timer for an    *)
(* element of a set; here it is the table itself that matters.             *)
(***************************************************************************)
EXTENDS Naturals, SequencesExt

CONSTANTS
    Slots,          \* SCHEDULE_SLOTS
    Plans,          \* the sequences of windows a configuration may hold
    Tables,         \* the tables the plug may hold at first
    MaxFails        \* bound: commands to the plug, and other operations, that fail

Window == [on : Nat, off : Nat]
Entry  == [id : Nat, on : Nat, off : Nat]

ASSUME SlotAssumption == Slots \in Nat \ {0} /\ MaxFails \in Nat
ASSUME PlanAssumption == Plans \subseteq Seq(Window)

\* The app gives every timer an id of its own.
ASSUME TableAssumption ==
    \A entries \in Tables :
      /\ entries \in Seq(Entry) /\ Len(entries) <= Slots
      /\ \A i, j \in DOMAIN entries : entries[i].id = entries[j].id => i = j

Thread == {"loop", "api"}

VARIABLES
    timers,         \* the table in the plug
    first,          \* history: the table it held at first
    pc,             \* per thread, where it is in its procedure
    op,             \* per thread, which one it runs
    table,          \* per thread, its local copy of the table
    want,           \* per thread, the windows sync_plug_schedule read
    fails

proc      == <<pc, op, table, want>>
tableVars == <<timers, first, proc, fails>>

InitTable ==
    /\ timers \in Tables /\ first = timers
    /\ pc = [t \in Thread |-> "idle"] /\ op = [t \in Thread |-> "none"]
    /\ table = [t \in Thread |-> <<>>] /\ want = [t \in Thread |-> <<>>]
    /\ fails = 0

Fault   == fails < MaxFails /\ fails' = fails + 1
NoFault == UNCHANGED fails

-----------------------------------------------------------------------------
(* Entries and tables on the wire.                                         *)

\* Only the times are told apart; type, mode, days and status are the same for all.
Weekly(id, w) == [id |-> id, on |-> w.on, off |-> w.off]

Swapped(entries) ==     \* mutant: the two times are read from each other's place
    [i \in DOMAIN entries |-> [entries[i] EXCEPT !.on = entries[i].off, !.off = entries[i].on]]
\* ScheduleTable::from_bytes of a reply of 512 bytes: those of a full table end before the
\* off time of its last entry, and missing bytes are zero.
Received(entries) ==
    IF Len(entries) = Slots THEN [entries EXCEPT ![Slots].off = 0] ELSE entries

Ids(entries) == {entries[i].id : i \in DOMAIN entries}

AllIds(entries)  == 0 .. Slots - 1              \* mutant: the ids in use are not left out
FreeIds(entries) == (0 .. Slots - 1) \ Ids(entries)
FreeId(entries)  == CHOOSE id \in FreeIds(entries) : \A other \in FreeIds(entries) : id <= other

\* Vec::retain, as a function that can be reasoned about.
Without(id, entries) ==
    LET kept[n \in 0 .. Len(entries)] ==
          IF n = 0 THEN <<>>
          ELSE IF entries[n].id = id THEN kept[n - 1] ELSE Append(kept[n - 1], entries[n])
    IN  kept[Len(entries)]

-----------------------------------------------------------------------------
(* The procedures.                                                         *)

HoldsPlug(t) == pc[t] \in {"del", "add"}
PlugUnlocked == TRUE    \* mutant: the procedures run without the plug lock
PlugFree     == \A t \in Thread : ~HoldsPlug(t)

Goto(t, label) == pc' = [pc EXCEPT ![t] = label]

BeginRead(t, name) ==
    /\ op' = [op EXCEPT ![t] = name]
    /\ Goto(t, "get")
    /\ UNCHANGED <<table, want>>

FitsAlways(plan) == TRUE    \* mutant: the windows are not counted
Fits(plan) == Len(plan) <= Slots

BeginSync(t, plan) ==
    /\ op' = [op EXCEPT ![t] = "sync"]
    /\ want' = [want EXCEPT ![t] = plan]
    /\ Goto(t, IF Fits(plan) THEN "get" ELSE "err")
    /\ UNCHANGED table

GetTable(t) ==
    /\ pc[t] = "get"
    /\ PlugFree
    /\ \/ /\ NoFault
          /\ table' = [table EXCEPT ![t] = Received(timers)]
          /\ Goto(t, IF op[t] = "show" THEN "ok" ELSE "del")
       \/ Fault /\ Goto(t, "err") /\ UNCHANGED table
    /\ UNCHANGED <<timers, first, op, want>>

\* When no good answer comes the command may have been carried out all the same.
SendTable(t, entries) ==
    /\ table' = [table EXCEPT ![t] = entries]
    /\ \/ NoFault /\ timers' = entries /\ UNCHANGED pc
       \/ Fault /\ timers' \in {timers, entries} /\ Goto(t, "err")
    /\ UNCHANGED <<first, op, want>>

DeleteFirst(t) ==
    /\ pc[t] = "del"
    /\ table[t] # <<>>
    /\ SendTable(t, Without(Head(table[t]).id, table[t]))

ClearDone(t) ==
    /\ pc[t] = "del"
    /\ table[t] = <<>>
    /\ Goto(t, IF op[t] = "clear" THEN "ok" ELSE "gap")
    /\ UNCHANGED <<timers, first, op, table, want, fails>>

BeginAdd(t) ==
    /\ pc[t] = "gap"
    /\ PlugFree
    /\ Goto(t, "add")
    /\ UNCHANGED <<timers, first, op, table, want, fails>>

\* The local table was empty at the first addition: its length tells which window is next.
AddNext(t) ==
    /\ pc[t] = "add"
    /\ Len(table[t]) < Len(want[t])
    /\ LET w == want[t][Len(table[t]) + 1]
       IN  SendTable(t, Append(table[t], Weekly(FreeId(table[t]), w)))

AddDone(t) ==
    /\ pc[t] = "add"
    /\ Len(table[t]) = Len(want[t])
    /\ Goto(t, "ok")
    /\ UNCHANGED <<timers, first, op, table, want, fails>>

PlugStep(t) ==
    \/ GetTable(t)
    \/ DeleteFirst(t)
    \/ ClearDone(t)
    \/ BeginAdd(t)
    \/ AddNext(t)
    \/ AddDone(t)

Returned(t) == pc[t] \in {"ok", "err"}

Return(t) ==
    /\ Returned(t)
    /\ pc' = [pc EXCEPT ![t] = "idle"]
    /\ op' = [op EXCEPT ![t] = "none"]
    /\ table' = [table EXCEPT ![t] = <<>>]
    /\ want' = [want EXCEPT ![t] = <<>>]
    /\ UNCHANGED <<timers, first, fails>>

-----------------------------------------------------------------------------
(* The table by itself: either thread begins a procedure at any time.      *)

Start(t) ==
    /\ pc[t] = "idle"
    /\ \/ BeginRead(t, "clear")
       \/ BeginRead(t, "show")
       \/ \E plan \in Plans : BeginSync(t, plan)
    /\ UNCHANGED <<timers, first, fails>>

TableNext == \E t \in Thread : Start(t) \/ PlugStep(t) \/ Return(t)

TableSpec == InitTable /\ [][TableNext]_tableVars

-----------------------------------------------------------------------------
TableTypeOK ==
    /\ timers \in Seq(Entry) /\ first \in Tables
    /\ pc \in [Thread -> {"idle", "get", "del", "gap", "add", "ok", "err"}]
    /\ op \in [Thread -> {"none", "clear", "sync", "show"}]
    /\ table \in [Thread -> Seq(Entry)]
    /\ want \in [Thread -> Plans \union {<<>>}]
    /\ fails \in 0 .. MaxFails

SlotFree ==
    \A t \in Thread : pc[t] = "add" /\ Len(table[t]) < Len(want[t]) => FreeIds(table[t]) # {}

(* An addition finds a free id and a free slot: the two errors the code    *)
(* has for that are never reported, nor can a table outgrow the plug.      *)
SlotFound == SlotFree /\ Len(timers) <= Slots

Programme(plan) == [i \in DOMAIN plan |-> Weekly(i - 1, plan[i])]

(* A sync that reports success has left exactly the configured windows in  *)
(* the plug, in their order and in the first slots, whatever timers it     *)
(* found there and whatever the other thread did in its gap.               *)
SyncedExactly ==
    [][\A t \in Thread :
         op[t] = "sync" /\ want[t] # <<>> /\ pc[t] # "ok" /\ pc'[t] = "ok" =>
           timers' = Programme(want[t])]_tableVars

Given == ToSet(first) \union UNION {ToSet(Programme(plan)) : plan \in Plans}

(* No two timers in the plug ever have the same id: the id that an added   *)
(* timer gets is free in the plug, not only in the table it was looked up  *)
(* in, and a deletion by id takes one timer.                               *)
IdsDistinct == \A i, j \in DOMAIN timers : timers[i].id = timers[j].id => i = j

(* "Deletes every on-device timer, one at a time": whatever a deletion     *)
(* meets, the plug loses no other timer while the table is cleared, and    *)
(* the other thread adds none that the clearing would not see.             *)
DeletesOne ==
    [][\A t \in Thread : pc[t] = "del" /\ table[t] # <<>> =>
         Ids(timers') \in {Ids(timers), Ids(timers) \ {Head(table[t]).id}}]_tableVars

(* However its editing is interrupted, the plug never holds a timer that   *)
(* nobody asked for, except that the last of a full table may have lost    *)
(* its end: it was cut off when the table was read, and is written back.   *)
OnlyLastEndLost ==
    \A e \in ToSet(timers) :
      e \in Given \/ (e.off = 0 /\ \E g \in Given : e = [g EXCEPT !.off = 0])

Places(plan) == 0 .. Len(plan) - 1      \* the ids that its windows get
Held  == [t \in Thread |-> Ids(table[t])]
Asked == [t \in Thread |-> Places(want[t])]

Set == INSTANCE TimerSet WITH
    Windows <- Nat, Configs <- {Places(plan) : plan \in Plans},
    timers <- Ids(timers), table <- Held, want <- Asked

(* By their ids the timers are the set that WinterMode takes them for:     *)
(* every step of the procedures is one of TimerSet's, whatever is cut off  *)
(* a reply, wherever an entry stands in the table, and whatever ids the    *)
(* app has used.                                                           *)
EditsSet == Set!SetSpec

(* Deleting one timer leaves the others as they are ("Deletes the entry    *)
(* with `id`, sending the table without it"): when the threads rest again, *)
(* the plug holds none but the timers it held and those it was given.      *)
OthersLeftAlone ==
    (\A t \in Thread : pc[t] = "idle") => ToSet(timers) \subseteq Given
=============================================================================
