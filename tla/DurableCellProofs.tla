-------------------------- MODULE DurableCellProofs --------------------------
(***************************************************************************)
(* What follows from being a durable cell, for every set of settings.      *)
(***************************************************************************)
EXTENDS DurableCell, TLAPS

(* Memory and file never hold two settings, and a setting that was taken   *)
(* back is in neither: so for the season and for the override, whose       *)
(* modules implement the cell.                                             *)
THEOREM CellAgrees == Spec => []Agreement
<1>1. Init => Agreement
  BY DEF Init, Agreement
<1>2. Agreement /\ [Next]_vars => Agreement'
  <2> SUFFICES ASSUME Agreement, [Next]_vars PROVE Agreement'
    OBVIOUS
  <2>1. CASE \E v \in Cell : Store(v)
    BY <2>1 DEF Store, Agreement
  <2>2. CASE StoreFails \/ Lapse
    BY <2>2 DEF StoreFails, Lapse, Agreement
  <2>3. CASE Restart
    BY <2>3 DEF Restart, Agreement
  <2>4. CASE UNCHANGED vars
    BY <2>4 DEF vars, Agreement
  <2>5. QED
    BY <2>1, <2>2, <2>3, <2>4 DEF Next
<1>3. QED
  BY <1>1, <1>2, PTL DEF Spec
=============================================================================
