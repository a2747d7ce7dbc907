----------------------------- MODULE DurableCell -----------------------------
(***************************************************************************)
(* What a setting that is kept in memory and in a file promises: a client  *)
(* that was told of a change finds it after a restart, a setting that was  *)
(* taken back does not return, and the two disagree only after a write     *)
(* that failed, or a file that could not be read.                          *)
(*                                                                         *)
(* The season of WinterMode and the override of Reconcile are such cells.  *)
(***************************************************************************)
EXTENDS Naturals

CONSTANTS
    None,       \* no setting
    Values      \* the settings there are

VARIABLES
    mem,        \* the setting in memory
    stored,     \* the setting a restart would find
    unread,     \* the file could not be read when the process started
    starts      \* how often it was started again

vars == <<mem, stored, unread, starts>>

Cell == Values \union {None}

Init == mem = None /\ stored = None /\ unread = FALSE /\ starts = 0

\* A change, or a removal: both or neither, and from here on both are known.
Store(v) ==
    /\ mem' = v /\ stored' = v
    /\ unread' = FALSE
    /\ UNCHANGED starts

\* A failed write keeps the setting in memory; the file may be lost.
StoreFails ==
    /\ stored' = None
    /\ UNCHANGED <<mem, unread, starts>>

\* A setting that ends by itself ends in both.
Lapse ==
    /\ mem' = None /\ stored' = None
    /\ UNCHANGED <<unread, starts>>

\* The process starts again, perhaps in the middle of a write, and reads the file,
\* or knows that it could not.
Restart ==
    /\ starts' = starts + 1
    /\ stored' \in {stored, None}
    /\ \/ unread' = FALSE /\ mem' = stored'
       \/ unread' = TRUE /\ mem' = None

Next == (\E v \in Cell : Store(v)) \/ StoreFails \/ Lapse \/ Restart

Spec == Init /\ [][Next]_vars

(* Memory and file agree, but for a file that holds nothing any more; a    *)
(* file that could not be read leaves the process without a setting.  What *)
(* clients of the season and of the override may rely on.                  *)
Agreement == IF unread THEN mem = None ELSE stored \in {mem, None}
=============================================================================
