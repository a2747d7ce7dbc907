------------------------------ MODULE TimerSet ------------------------------
(***************************************************************************)
(* The three procedures of api.rs on the plug's timer table, which two     *)
(* threads run: plug_schedule ("show") reads it, clear_plug_schedule       *)
(* empties it, sync_plug_schedule empties it and fills it again.           *)
(*                                                                         *)
(* The plug lock is held from the read of the table to the last deletion,  *)
(* and again from the first addition to the last: not in between.  Any     *)
(* command may fail.  A timer is an element of a set; its id, its place    *)
(* and what the plug's replies cut off are in TimerTable, which implements *)
(* this module.  WinterMode says who runs the procedures and when.         *)
(***************************************************************************)
EXTENDS Naturals, FiniteSets

CONSTANTS
    Windows,        \* every timer there may be, named for the window it is made from
    Configs,        \* the sets of windows a configuration may hold
    Slots           \* timers the plug stores (SCHEDULE_SLOTS)

ASSUME WindowAssumption == Configs \subseteq SUBSET Windows /\ Slots \in Nat

Thread == {"loop", "api"}

VARIABLES
    timers,         \* the timer table in the plug
    pc,             \* per thread, where it is in its procedure
    op,             \* per thread, which one it runs
    table,          \* per thread, its local copy of the table
    want            \* per thread, the windows sync_plug_schedule read at its start

proc    == <<pc, op, table, want>>
setVars == <<timers, proc>>

NoTables == [t \in Thread |-> {}]

NoProcedures ==
    /\ pc = [t \in Thread |-> "idle"] /\ op = [t \in Thread |-> "none"]
    /\ table = NoTables /\ want = NoTables

-----------------------------------------------------------------------------
HoldsPlug(t) == pc[t] \in {"del", "add"}

PlugUnlocked == TRUE    \* mutant: the procedures run without the plug lock
PlugFree == \A t \in Thread : ~HoldsPlug(t)

Goto(t, label) == pc' = [pc EXCEPT ![t] = label]

BeginRead(t, name) ==
    /\ op' = [op EXCEPT ![t] = name]
    /\ Goto(t, "get")
    /\ UNCHANGED <<table, want>>

\* The windows are read once, here; more than the plug stores is an error.
BeginSync(t, windows) ==
    /\ op' = [op EXCEPT ![t] = "sync"]
    /\ want' = [want EXCEPT ![t] = windows]
    /\ Goto(t, IF Cardinality(windows) > Slots THEN "err" ELSE "get")
    /\ UNCHANGED table

GetTable(t) ==
    /\ pc[t] = "get"
    /\ PlugFree
    /\ \/ /\ table' = [table EXCEPT ![t] = timers]
          /\ Goto(t, IF op[t] = "show" THEN "ok" ELSE "del")
       \/ Goto(t, "err") /\ UNCHANGED table
    /\ UNCHANGED <<timers, op, want>>

\* A command carries the whole table and the plug replaces its own with it.
\* When no good answer comes the command may have been carried out all the same.
SendTable(t, entries) ==
    /\ table' = [table EXCEPT ![t] = entries]
    /\ \/ timers' = entries /\ UNCHANGED pc
       \/ timers' \in {timers, entries} /\ Goto(t, "err")
    /\ UNCHANGED <<op, want>>

DeleteEntry(t) ==
    /\ pc[t] = "del"
    /\ \E e \in table[t] : SendTable(t, table[t] \ {e})

ClearDone(t) ==
    /\ pc[t] = "del"
    /\ table[t] = {}
    /\ Goto(t, IF op[t] = "clear" THEN "ok" ELSE "gap")
    /\ UNCHANGED <<timers, op, table, want>>

BeginAdd(t) ==
    /\ pc[t] = "gap"
    /\ PlugFree
    /\ Goto(t, "add")
    /\ UNCHANGED <<timers, op, table, want>>

AddEntry(t) ==
    /\ pc[t] = "add"
    /\ \E w \in want[t] \ table[t] : SendTable(t, table[t] \union {w})

AddDone(t) ==
    /\ pc[t] = "add"
    /\ table[t] = want[t]
    /\ Goto(t, "ok")
    /\ UNCHANGED <<timers, op, table, want>>

Edit(t) ==
    \/ GetTable(t)
    \/ DeleteEntry(t)
    \/ ClearDone(t)
    \/ BeginAdd(t)
    \/ AddEntry(t)
    \/ AddDone(t)

Returned(t) == pc[t] \in {"ok", "err"}

Return(t) ==
    /\ Returned(t)
    /\ pc' = [pc EXCEPT ![t] = "idle"]
    /\ op' = [op EXCEPT ![t] = "none"]
    /\ table' = [table EXCEPT ![t] = {}]
    /\ want' = [want EXCEPT ![t] = {}]

-----------------------------------------------------------------------------
(* The procedures by themselves: begun at any time by either thread, and   *)
(* abandoned when the process stops.                                       *)

Start(t) ==
    /\ pc[t] = "idle"
    /\ \/ BeginRead(t, "clear")
       \/ BeginRead(t, "show")
       \/ \E windows \in Configs : BeginSync(t, windows)

Stop == NoProcedures' /\ UNCHANGED timers

Moves(t) == Edit(t) \/ ((Start(t) \/ Return(t)) /\ UNCHANGED timers)

SetNext == Stop \/ \E t \in Thread : Moves(t)

SetSpec == timers \in SUBSET Windows /\ NoProcedures /\ [][SetNext]_setVars
=============================================================================
