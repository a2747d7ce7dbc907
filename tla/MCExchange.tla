----------------------------- MODULE MCExchange -----------------------------
(***************************************************************************)
(* Instances of Exchange for TLC: one call of every kind, and a second one *)
(* that writes another value.                                              *)
(***************************************************************************)
EXTENDS Exchange

CONSTANTS t0, t1

TwoTables == {t0, t1}

GetState       == [op |-> "GET", to |-> None]
SetState(p)    == [op |-> "SET", to |-> p]
GetSchedule    == [op |-> "GETALL", to |-> None]
AddEntry(t)    == [op |-> "ADD", to |-> t]
DeleteEntry(t) == [op |-> "DELETE", to |-> t]

OneOfEach == {GetState, SetState("on"), SetState("off"), GetSchedule, AddEntry(t0), DeleteEntry(t1)}
=============================================================================
