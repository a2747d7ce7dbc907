-------------------------- MODULE TimerTableProofs --------------------------
(***************************************************************************)
(* What the procedures do to the timers, that they are those of TimerSet,  *)
(* and how long they may take, for any number of slots, any configuration  *)
(* and any table in the plug before them.                                  *)
(***************************************************************************)
EXTENDS TimerTable, LeastNatural, SequenceTheorems, FiniteSetTheorems, TLAPS

(***************************************************************************)
(* What is left of a table when the timers with an id are taken out.       *)
(***************************************************************************)

\* The recursion of Without defines a function.
LEMMA WithoutByRecursion ==
    ASSUME NEW id, NEW entries, Len(entries) \in Nat
    PROVE  \E kept :
             /\ Without(id, entries) = kept[Len(entries)]
             /\ kept[0] = <<>>
             /\ \A n \in 1 .. Len(entries) :
                  kept[n] = IF entries[n].id = id THEN kept[n - 1]
                            ELSE Append(kept[n - 1], entries[n])
<1> DEFINE L == Len(entries)
           Next1(f, n) == IF n = 0 THEN <<>>
                         ELSE IF entries[n].id = id THEN f[n - 1] ELSE Append(f[n - 1], entries[n])
           Defined == {k \in 0 .. L : \E f : f = [n \in 0 .. k |-> Next1(f, n)]}
           kept == CHOOSE f : f = [n \in 0 .. L |-> Next1(f, n)]
<1>1. 0 \in Defined
  <2> DEFINE f == [n \in 0 .. 0 |-> <<>>]
  <2>1. \A n \in 0 .. 0 : Next1(f, n) = <<>>
    OBVIOUS
  <2> HIDE DEF Next1
  <2>2. f = [n \in 0 .. 0 |-> Next1(f, n)]
    BY <2>1
  <2> QED
    BY <2>2
<1>2. ASSUME NEW k \in 1 .. L, k - 1 \in Defined PROVE k \in Defined
  <2>1. PICK g : g = [n \in 0 .. k - 1 |-> Next1(g, n)]
    BY <1>2
  <2> DEFINE f == [n \in 0 .. k |-> Next1(g, n)]
  <2>2. \A n \in 0 .. k - 1 : f[n] = g[n]
    <3> HIDE DEF Next1
    <3>1. \A n \in 0 .. k - 1 : n \in 0 .. k
      OBVIOUS
    <3> QED
      BY <2>1, <3>1
  <2>3. \A n \in 0 .. k : Next1(f, n) = Next1(g, n)
    <3> HIDE DEF f
    <3> SUFFICES ASSUME NEW n \in 0 .. k PROVE Next1(f, n) = Next1(g, n)
      OBVIOUS
    <3>1. CASE n = 0
      BY <3>1
    <3>2. CASE n # 0
      <4>1. n - 1 \in 0 .. k - 1
        BY <3>2
      <4> QED
        BY <2>2, <3>2, <4>1
    <3> QED
      BY <3>1, <3>2
  <2>4. f = [n \in 0 .. k |-> Next1(f, n)]
    <3> HIDE DEF Next1
    <3> QED
      BY <2>3
  <2> HIDE DEF f, Next1
  <2> QED
    BY <2>4
<1>3. L \in Defined
  <2> HIDE DEF Defined
  <2>1. \A n \in 0 .. L : n \in Defined
    BY <1>1, <1>2, UpTo
  <2> QED
    BY <2>1
<1>4. kept = [n \in 0 .. L |-> Next1(kept, n)]
  <2> HIDE DEF Next1
  <2> QED
    BY <1>3
<1>5. Without(id, entries) = kept[L]
  BY DEF Without
<1>6. \A n \in 0 .. L : kept[n] = Next1(kept, n)
  <2> HIDE DEF Next1, kept
  <2> QED
    BY <1>4
<1> HIDE DEF kept
<1>7. kept[0] = <<>>
  BY <1>6
<1>8. \A n \in 1 .. L : kept[n] = IF entries[n].id = id THEN kept[n - 1]
                                  ELSE Append(kept[n - 1], entries[n])
  BY <1>6
<1> QED
  BY <1>5, <1>7, <1>8

\* No two entries with the same id.
Distinct(entries) ==
    \A i, j \in 1 .. Len(entries) : entries[i].id = entries[j].id => i = j

\* Both tables have the same entries, but those with this id.
SameButFor(id, left, entries) ==
    /\ \A i \in 1 .. Len(left) :
         \E j \in 1 .. Len(entries) : left[i] = entries[j] /\ entries[j].id # id
    /\ \A j \in 1 .. Len(entries) :
         entries[j].id # id => \E i \in 1 .. Len(left) : left[i] = entries[j]

\* What is kept: the entries with other ids, and none of them twice that was there once.
LEMMA WhatIsKept ==
    ASSUME NEW S, NEW entries \in Seq(S), NEW id, NEW left, left = Without(id, entries)
    PROVE  /\ left \in Seq(S) /\ Len(left) \in 0 .. Len(entries)
           /\ SameButFor(id, left, entries)
           /\ Distinct(entries) => Distinct(left)
           /\ (\E j \in 1 .. Len(entries) : entries[j].id = id) => Len(left) < Len(entries)
<1> DEFINE L == Len(entries)
<1>1. L \in Nat /\ \A n \in 1 .. L : entries[n] \in S
  BY ElementOfSeq, LenProperties
<1>2. PICK kept :
             /\ Without(id, entries) = kept[L]
             /\ kept[0] = <<>>
             /\ \A n \in 1 .. L :
                  kept[n] = IF entries[n].id = id THEN kept[n - 1]
                            ELSE Append(kept[n - 1], entries[n])
  BY <1>1, WithoutByRecursion
<1> DEFINE From(n) ==
             /\ kept[n] \in Seq(S) /\ Len(kept[n]) \in 0 .. n
             /\ \A i \in 1 .. Len(kept[n]) :
                  \E j \in 1 .. n : kept[n][i] = entries[j] /\ entries[j].id # id
             /\ \A j \in 1 .. n :
                  entries[j].id # id => \E i \in 1 .. Len(kept[n]) : kept[n][i] = entries[j]
             /\ Distinct(entries) => Distinct(kept[n])
             /\ (\E j \in 1 .. n : entries[j].id = id) => Len(kept[n]) < n
           Good == {n \in 0 .. L : From(n)}
<1>3. 0 \in Good
  <2>1. kept[0] \in Seq(S) /\ Len(kept[0]) = 0
    BY <1>2, EmptySeq
  <2> HIDE DEF L
  <2>2. From(0)
    BY <2>1 DEF Distinct
  <2> QED
    BY <1>1, <2>2
<1>4. ASSUME NEW n \in 1 .. L, n - 1 \in Good PROVE n \in Good
  <2>1. From(n - 1) /\ n \in Int /\ n \in 0 .. L
    <3>1. n \in Int /\ n \in 0 .. L
      BY <1>1
    <3>2. From(n - 1)
      <4> HIDE DEF From
      <4> QED
        BY <1>4
    <3> QED
      BY <3>1, <3>2
  <2>2. CASE entries[n].id = id
    <3>1. kept[n] = kept[n - 1]
      BY <1>2, <2>2
    <3>2. /\ 0 .. n - 1 \subseteq 0 .. n /\ 1 .. n - 1 \subseteq 1 .. n
          /\ \A j \in 1 .. n : j # n => j \in 1 .. n - 1
      BY <2>1
    <3>3. Len(kept[n]) < n
      BY <2>1, <3>1
    <3>4. From(n)
      BY <2>1, <2>2, <3>1, <3>2, <3>3
    <3> QED
      BY <2>1, <3>4
  <2>3. CASE entries[n].id # id
    <3> DEFINE before == kept[n - 1]
               k == Len(before)
    <3>1. kept[n] = Append(before, entries[n])
      BY <1>2, <2>3
    <3>2. before \in Seq(S) /\ k \in 0 .. n - 1 /\ entries[n] \in S
      BY <1>1, <2>1
    <3> HIDE DEF From
    <3>3. /\ kept[n] \in Seq(S) /\ Len(kept[n]) = k + 1 /\ kept[n][k + 1] = entries[n]
          /\ \A i \in 1 .. k : kept[n][i] = before[i]
      BY <3>1, <3>2, AppendProperties
    <3>4. \A i \in 1 .. k :
            \E j \in 1 .. n - 1 : kept[n][i] = entries[j] /\ entries[j].id # id
      BY <2>1, <3>3 DEF From
    <3>5. \A i \in 1 .. k + 1 :
            \E j \in 1 .. n : kept[n][i] = entries[j] /\ entries[j].id # id
      <4> SUFFICES ASSUME NEW i \in 1 .. k + 1
                   PROVE  \E j \in 1 .. n : kept[n][i] = entries[j] /\ entries[j].id # id
        OBVIOUS
      <4>1. CASE i = k + 1
        BY <2>1, <2>3, <3>2, <3>3, <4>1
      <4>2. CASE i # k + 1
        <5>1. i \in 1 .. k
          BY <3>2, <4>2
        <5>2. PICK j \in 1 .. n - 1 : kept[n][i] = entries[j] /\ entries[j].id # id
          BY <3>4, <5>1
        <5>3. j \in 1 .. n
          BY <2>1
        <5> QED
          BY <5>2, <5>3
      <4> QED
        BY <4>1, <4>2
    <3>6. Distinct(entries) => Distinct(kept[n])
      <4> SUFFICES ASSUME Distinct(entries), NEW i \in 1 .. k + 1, NEW m \in 1 .. k + 1,
                          kept[n][i].id = kept[n][m].id
                   PROVE  i = m
        BY <3>3 DEF Distinct
      <4>1. \A p \in 1 .. k : kept[n][p].id # entries[n].id
        <5> SUFFICES ASSUME NEW p \in 1 .. k PROVE kept[n][p].id # entries[n].id
          OBVIOUS
        <5>1. PICK j \in 1 .. n - 1 : kept[n][p] = entries[j]
          BY <3>4
        <5>2. j \in 1 .. L /\ j # n
          BY <1>1, <2>1
        <5> QED
          BY <5>1, <5>2 DEF Distinct
      <4>2. Distinct(before)
        BY <2>1 DEF From
      <4>3. k \in Nat
        BY <3>2
      <4>4. CASE i \in 1 .. k /\ m \in 1 .. k
        BY <3>3, <4>2, <4>4 DEF Distinct
      <4>5. CASE i = k + 1 \/ m = k + 1
        <5> HIDE DEF k
        <5> QED
          BY <3>3, <4>1, <4>3, <4>5
      <4> QED
        BY <4>3, <4>4, <4>5
    <3>7. k + 1 \in 0 .. n
      BY <2>1, <3>2
    <3>8. \A j \in 1 .. n :
            entries[j].id # id => \E i \in 1 .. k + 1 : kept[n][i] = entries[j]
      <4> SUFFICES ASSUME NEW j \in 1 .. n, entries[j].id # id
                   PROVE  \E i \in 1 .. k + 1 : kept[n][i] = entries[j]
        OBVIOUS
      <4>1. CASE j = n
        BY <3>2, <3>3, <4>1
      <4>2. CASE j # n
        <5>1. j \in 1 .. n - 1
          BY <2>1, <4>2
        <5>2. PICK i \in 1 .. k : before[i] = entries[j]
          BY <2>1, <5>1 DEF From
        <5>3. i \in 1 .. k + 1
          BY <3>2
        <5> QED
          BY <3>3, <5>2, <5>3
      <4> QED
        BY <4>1, <4>2
    <3>9. (\E j \in 1 .. n : entries[j].id = id) => k + 1 < n
      <4> SUFFICES ASSUME NEW j \in 1 .. n, entries[j].id = id PROVE k + 1 < n
        OBVIOUS
      <4>1. j \in 1 .. n - 1
        BY <2>1, <2>3
      <4>2. k < n - 1
        BY <2>1, <4>1 DEF From
      <4> QED
        BY <2>1, <3>2, <4>2
    <3>10. From(n)
      BY <3>3, <3>5, <3>6, <3>7, <3>8, <3>9 DEF From
    <3> QED
      BY <2>1, <3>10
  <2> QED
    BY <2>2, <2>3
<1>5. L \in Good
  <2> HIDE DEF Good
  <2>1. \A n \in 0 .. L : n \in Good
    BY <1>1, <1>3, <1>4, UpTo
  <2> QED
    BY <1>1, <2>1
<1>6. From(L)
  BY <1>5
<1> QED
  BY <1>2, <1>6 DEF SameButFor

-----------------------------------------------------------------------------
(* The procedures.                                                         *)

Labels == {"idle", "get", "del", "gap", "add", "ok", "err"}
Names  == {"none", "clear", "sync", "show"}

\* What a synchronisation that is adding windows has added, if it has added any.
Added(t) ==
    /\ table[t] \in Seq(Entry) /\ Len(table[t]) <= Len(want[t])
    /\ \A i \in 1 .. Len(table[t]) : table[t][i] = Weekly(i - 1, want[t][i])
    /\ table[t] # <<>> => timers = table[t]

\* One thread at a time holds the plug; a synchronisation past its check fits into it.
TableInv ==
    /\ pc \in [Thread -> Labels] /\ op \in [Thread -> Names]
    /\ want \in [Thread -> Plans \union {<<>>}] /\ DOMAIN table = Thread
    /\ \A t, u \in Thread : HoldsPlug(t) /\ HoldsPlug(u) => t = u
    /\ \A t \in Thread :
         /\ pc[t] \in {"get", "del", "gap", "add"} /\ op[t] = "sync" => Len(want[t]) <= Slots
         /\ pc[t] = "get" => op[t] \in {"clear", "sync", "show"}
         /\ pc[t] = "del" => op[t] \in {"clear", "sync"}
         /\ pc[t] \in {"gap", "add"} => op[t] = "sync"
         /\ pc[t] = "gap" => table[t] = <<>>
         /\ pc[t] = "add" => Added(t)

\* A thread that begins or leaves a procedure, and so lets go of the plug.
LEMMA OutsideKeepsTable ==
    ASSUME TableInv, NEW t \in Thread, timers' = timers,
           NEW label \in {"idle", "get", "err", "ok"}, pc' = [pc EXCEPT ![t] = label],
           NEW name \in Names, op' = [op EXCEPT ![t] = name],
           NEW plan \in Plans \union {<<>>}, want' = [want EXCEPT ![t] = plan],
           NEW entries, table' = table \/ table' = [table EXCEPT ![t] = entries],
           label = "get" => name # "none" /\ (name = "sync" => Len(plan) <= Slots)
    PROVE  TableInv'
<1>1. /\ pc'[t] = label /\ op'[t] = name /\ want'[t] = plan
      /\ \A u \in Thread : u # t => /\ pc'[u] = pc[u] /\ op'[u] = op[u] /\ want'[u] = want[u]
                                    /\ table'[u] = table[u]
      /\ pc' \in [Thread -> Labels] /\ op' \in [Thread -> Names]
      /\ want' \in [Thread -> Plans \union {<<>>}] /\ DOMAIN table' = Thread
  BY DEF TableInv, Labels
<1>2. \A u, v \in Thread : HoldsPlug(u)' /\ HoldsPlug(v)' => u = v
  BY <1>1 DEF TableInv, HoldsPlug
<1>3. \A u \in Thread :
         /\ pc'[u] \in {"get", "del", "gap", "add"} /\ op'[u] = "sync" => Len(want'[u]) <= Slots
         /\ pc'[u] = "get" => op'[u] \in {"clear", "sync", "show"}
         /\ pc'[u] = "del" => op'[u] \in {"clear", "sync"}
         /\ pc'[u] \in {"gap", "add"} => op'[u] = "sync"
         /\ pc'[u] = "gap" => table'[u] = <<>>
         /\ pc'[u] = "add" => Added(u)'
  BY <1>1 DEF TableInv, Names, Added
<1> QED
  BY <1>1, <1>2, <1>3 DEF TableInv

LEMMA BeginningKeepsTable ==
    ASSUME TableInv, NEW t \in Thread, timers' = timers,
           BeginRead(t, "clear") \/ BeginRead(t, "show") \/ \E plan \in Plans : BeginSync(t, plan)
    PROVE  TableInv'
<1>1. ASSUME NEW name \in {"clear", "show"}, BeginRead(t, name) PROVE TableInv'
  <2>1. want' = [want EXCEPT ![t] = want[t]] /\ want[t] \in Plans \union {<<>>}
    BY <1>1 DEF BeginRead, TableInv
  <2> QED
    BY <1>1, <2>1, OutsideKeepsTable DEF BeginRead, Goto, Names
<1>2. ASSUME NEW plan \in Plans, BeginSync(t, plan) PROVE TableInv'
  BY <1>2, OutsideKeepsTable DEF BeginSync, Goto, Names, Fits
<1> QED
  BY <1>1, <1>2

LEMMA ReturningKeepsTable ==
    ASSUME TableInv, NEW t \in Thread, Return(t)
    PROVE  TableInv'
BY OutsideKeepsTable DEF Return, Names

LEMMA TableStutters == TableInv /\ UNCHANGED <<timers, proc>> => TableInv'
BY DEF TableInv, HoldsPlug, Added, proc

-----------------------------------------------------------------------------
(* The steps of the procedures.                                            *)

\* The ids of the windows added so far are their numbers.
LEMMA IdsOfAdded ==
    ASSUME NEW t \in Thread, Added(t), want[t] \in Seq(Window)
    PROVE  Ids(table[t]) = 0 .. Len(table[t]) - 1
<1> DEFINE n == Len(table[t])
<1>1. n \in Nat /\ DOMAIN table[t] = 1 .. n
  BY LenProperties DEF Added
<1>2. \A i \in 1 .. n : table[t][i].id = i - 1
  <2> SUFFICES ASSUME NEW i \in 1 .. n PROVE table[t][i].id = i - 1
    OBVIOUS
  <2>1. table[t][i] = Weekly(i - 1, want[t][i])
    BY DEF Added
  <2> QED
    BY <2>1 DEF Weekly
<1> HIDE DEF n
<1>3. \A k \in 0 .. n - 1 : k + 1 \in 1 .. n /\ table[t][k + 1].id = k
  BY <1>1, <1>2
<1>4. ASSUME NEW id \in Ids(table[t]) PROVE id \in 0 .. n - 1
  <2>1. PICK i \in 1 .. n : id = table[t][i].id
    BY <1>1 DEF Ids
  <2> QED
    BY <1>1, <1>2, <2>1
<1>5. ASSUME NEW id \in 0 .. n - 1 PROVE id \in Ids(table[t])
  BY <1>1, <1>3 DEF Ids
<1> QED
  BY <1>4, <1>5 DEF n

\* The ids in use are those of the windows added so far: the next is their number.
LEMMA NextIdIsFree ==
    ASSUME TableInv, NEW t \in Thread, pc[t] = "add", Len(table[t]) < Len(want[t])
    PROVE  /\ FreeIds(table[t]) # {} /\ FreeId(table[t]) = Len(table[t])
           /\ Len(table[t]) \notin Ids(table[t])
           /\ Len(table[t]) \in Nat /\ Len(want[t]) \in Nat /\ want[t] \in Seq(Window)
<1> DEFINE n == Len(table[t])
<1>1. Added(t) /\ Len(want[t]) <= Slots
  BY DEF TableInv
<1>2. want[t] \in Seq(Window)
  BY PlanAssumption, EmptySeq DEF TableInv
<1>3. n \in Nat /\ DOMAIN table[t] = 1 .. n /\ Len(want[t]) \in Nat
  BY <1>1, <1>2, LenProperties DEF Added
<1>4. Ids(table[t]) = 0 .. n - 1
  BY <1>1, <1>2, IdsOfAdded
<1>5. FreeIds(table[t]) = n .. Slots - 1 /\ n \in FreeIds(table[t]) /\ n \notin Ids(table[t])
  BY <1>1, <1>3, <1>4, SlotAssumption DEF FreeIds
<1>6. FreeId(table[t]) = n
  BY <1>3, <1>5, SlotAssumption DEF FreeId
<1> QED
  BY <1>2, <1>3, <1>5, <1>6

\* Of a step of one thread, what the other one keeps.
LEMMA OthersKeep ==
    ASSUME TableInv, NEW t \in Thread, NEW u \in Thread, u # t, UNCHANGED <<op, want>>,
           pc'[u] = pc[u], table'[u] = table[u], timers' = timers \/ HoldsPlug(t)
    PROVE  /\ pc'[u] \in {"get", "del", "gap", "add"} /\ op'[u] = "sync" => Len(want'[u]) <= Slots
           /\ pc'[u] = "get" => op'[u] \in {"clear", "sync", "show"}
           /\ pc'[u] = "del" => op'[u] \in {"clear", "sync"}
           /\ pc'[u] \in {"gap", "add"} => op'[u] = "sync"
           /\ pc'[u] = "gap" => table'[u] = <<>>
           /\ pc'[u] = "add" => Added(u)'
BY DEF TableInv, HoldsPlug, Added

LEMMA StepKeepsTable ==
    ASSUME TableInv, NEW t \in Thread, PlugStep(t)
    PROVE  TableInv'
<1> USE DEF TableInv, Goto
<1>1. CASE GetTable(t)
  <2>1. CASE pc'[t] = "del"
    <3>1. /\ pc[t] = "get" /\ PlugFree /\ pc' = [pc EXCEPT ![t] = "del"] /\ op[t] # "show"
          /\ UNCHANGED <<timers, op, want>> /\ table' = [table EXCEPT ![t] = Received(timers)]
      BY <1>1, <2>1 DEF GetTable
    <3>2. \A u, v \in Thread : HoldsPlug(u)' /\ HoldsPlug(v)' => u = v
      BY <3>1 DEF PlugFree, HoldsPlug
    <3> QED
      BY <3>1, <3>2, OthersKeep DEF Labels
  <2>2. CASE pc'[t] # "del"
    <3>1. PICK label \in {"ok", "err"} :
            /\ pc' = [pc EXCEPT ![t] = label]
            /\ table' = table \/ table' = [table EXCEPT ![t] = Received(timers)]
      BY <1>1, <2>2 DEF GetTable
    <3>2. /\ op' = [op EXCEPT ![t] = op[t]] /\ op[t] \in Names
          /\ want' = [want EXCEPT ![t] = want[t]] /\ want[t] \in Plans \union {<<>>}
          /\ timers' = timers
      BY <1>1 DEF GetTable
    <3> HIDE DEF TableInv
    <3> QED
      BY <3>1, <3>2, OutsideKeepsTable
  <2> QED
    BY <2>1, <2>2
<1>2. CASE DeleteFirst(t)
  <2>1. pc[t] = "del" /\ HoldsPlug(t) /\ UNCHANGED <<op, want>>
    BY <1>2 DEF DeleteFirst, SendTable, HoldsPlug
  <2>2. /\ DOMAIN table' = Thread /\ \A u \in Thread : u # t => table'[u] = table[u]
        /\ pc' = pc \/ pc' = [pc EXCEPT ![t] = "err"]
    BY <1>2 DEF DeleteFirst, SendTable
  <2>3. /\ pc' \in [Thread -> Labels] /\ pc'[t] \in {"del", "err"}
        /\ \A u \in Thread : u # t => pc'[u] = pc[u]
    BY <2>1, <2>2 DEF Labels
  <2>4. \A u, v \in Thread : HoldsPlug(u)' /\ HoldsPlug(v)' => u = v
    BY <2>1, <2>3 DEF HoldsPlug
  <2> QED
    BY <2>1, <2>2, <2>3, <2>4, OthersKeep
<1>3. CASE ClearDone(t)
  <2>1. /\ pc[t] = "del" /\ table[t] = <<>> /\ UNCHANGED <<timers, op, table, want>>
        /\ pc' = [pc EXCEPT ![t] = IF op[t] = "clear" THEN "ok" ELSE "gap"]
    BY <1>3 DEF ClearDone
  <2>2. \A u, v \in Thread : HoldsPlug(u)' /\ HoldsPlug(v)' => u = v
    BY <2>1 DEF HoldsPlug
  <2> QED
    BY <2>1, <2>2, OthersKeep DEF Labels
<1>4. CASE BeginAdd(t)
  <2>1. /\ pc[t] = "gap" /\ PlugFree /\ UNCHANGED <<timers, op, table, want>>
        /\ pc' = [pc EXCEPT ![t] = "add"]
    BY <1>4 DEF BeginAdd
  <2>2. \A u, v \in Thread : HoldsPlug(u)' /\ HoldsPlug(v)' => u = v
    BY <2>1 DEF HoldsPlug, PlugFree
  <2>3. Added(t)'
    <3>1. table'[t] = <<>> /\ Len(<<>>) = 0 /\ <<>> \in Seq(Entry)
      BY <2>1, EmptySeq
    <3>2. want[t] \in Seq(Window)
      BY PlanAssumption, EmptySeq
    <3> QED
      BY <2>1, <3>1, <3>2, LenProperties DEF Added
  <2> QED
    BY <2>1, <2>2, <2>3, OthersKeep DEF Labels
<1>5. CASE AddNext(t)
  <2> DEFINE n == Len(table[t])
             e == Weekly(n, want[t][n + 1])
  <2>1. /\ pc[t] = "add" /\ n < Len(want[t]) /\ n \in Nat /\ Len(want[t]) \in Nat
        /\ want[t] \in Seq(Window) /\ FreeId(table[t]) = n
    BY <1>5, NextIdIsFree DEF AddNext
  <2>2. e \in Entry
    <3>1. want[t][n + 1] \in Window
      BY <2>1, ElementOfSeq
    <3> QED
      BY <2>1, <3>1 DEF Weekly, Window, Entry
  <2>3. SendTable(t, Append(table[t], e))
    BY <1>5, <2>1 DEF AddNext
  <2>4. Added(t)
    BY <2>1
  <2> HIDE DEF e, n
  <2>5. /\ Append(table[t], e) \in Seq(Entry) /\ Len(Append(table[t], e)) = n + 1
        /\ \A i \in 1 .. n : Append(table[t], e)[i] = table[t][i]
        /\ Append(table[t], e)[n + 1] = e
    BY <2>2, <2>4, AppendProperties DEF Added, n
  <2>6. /\ DOMAIN table' = Thread /\ table'[t] = Append(table[t], e) /\ UNCHANGED <<op, want>>
        /\ \A u \in Thread : u # t => table'[u] = table[u]
        /\ (pc' = pc /\ timers' = Append(table[t], e)) \/ pc' = [pc EXCEPT ![t] = "err"]
    BY <2>3 DEF SendTable
  <2>7. /\ pc' \in [Thread -> Labels] /\ pc'[t] \in {"add", "err"}
        /\ \A u \in Thread : u # t => pc'[u] = pc[u]
    BY <2>1, <2>6 DEF Labels
  <2>8. \A u, v \in Thread : HoldsPlug(u)' /\ HoldsPlug(v)' => u = v
    BY <2>1, <2>7 DEF HoldsPlug
  <2>9. pc'[t] = "add" => Added(t)'
    <3> SUFFICES ASSUME pc'[t] = "add" PROVE Added(t)'
      OBVIOUS
    <3>1. timers' = table'[t]
      BY <2>6
    <3>2. \A i \in 1 .. n + 1 : table'[t][i] = Weekly(i - 1, want'[t][i])
      <4> SUFFICES ASSUME NEW i \in 1 .. n + 1
                   PROVE  Append(table[t], e)[i] = Weekly(i - 1, want[t][i])
        BY <2>6
      <4>1. CASE i = n + 1
        BY <4>1, <2>1, <2>5 DEF e
      <4>2. CASE i # n + 1
        BY <4>2, <2>1, <2>4, <2>5 DEF Added, n
      <4> QED
        BY <4>1, <4>2
    <3> QED
      BY <2>1, <2>5, <2>6, <3>1, <3>2 DEF Added
  <2>10. HoldsPlug(t)
    BY <2>1 DEF HoldsPlug
  <2> QED
    BY <2>1, <2>6, <2>7, <2>8, <2>9, <2>10, OthersKeep
<1>6. CASE AddDone(t)
  <2>1. /\ op' = [op EXCEPT ![t] = op[t]] /\ op[t] \in Names /\ timers' = timers
        /\ want' = [want EXCEPT ![t] = want[t]] /\ want[t] \in Plans \union {<<>>}
        /\ pc' = [pc EXCEPT ![t] = "ok"] /\ table' = table
    BY <1>6 DEF AddDone
  <2> QED
    BY <2>1, OutsideKeepsTable
<1> QED
  BY <1>1, <1>2, <1>3, <1>4, <1>5, <1>6 DEF PlugStep

LEMMA InitTableInv == InitTable => TableInv
BY DEF InitTable, TableInv, HoldsPlug, Labels, Names, Thread

-----------------------------------------------------------------------------
(* What a success says.                                                    *)

Synced(t) ==
    op[t] = "sync" /\ want[t] # <<>> /\ pc[t] # "ok" /\ pc'[t] = "ok" =>
      timers' = Programme(want[t])

LEMMA StepTellsTruth ==
    ASSUME TableInv, NEW u \in Thread, PlugStep(u), NEW t \in Thread
    PROVE  Synced(t)
<1> USE DEF TableInv, Goto, Synced
<1>1. CASE AddDone(u)
  <2> SUFFICES ASSUME t = u, want[t] # <<>>
               PROVE  timers' = Programme(want[t])
    BY <1>1 DEF AddDone
  <2>1. Added(t) /\ Len(table[t]) = Len(want[t]) /\ timers' = timers
    BY <1>1 DEF AddDone
  <2>2. want[t] \in Seq(Window) /\ table[t] \in Seq(Entry)
    BY <2>1, PlanAssumption, EmptySeq DEF Added
  <2>3. Len(want[t]) \in Nat /\ Len(want[t]) # 0
    BY <2>2, EmptySeq, LenProperties
  <2>4. table[t] # <<>>
    BY <2>1, <2>3, EmptySeq
  <2>5. timers = table[t] /\ \A i \in 1 .. Len(want[t]) : table[t][i] = Weekly(i - 1, want[t][i])
    BY <2>1, <2>4 DEF Added
  <2>6. DOMAIN want[t] = 1 .. Len(want[t]) /\ table[t] = [i \in 1 .. Len(want[t]) |-> table[t][i]]
    BY <2>1, <2>2, LenProperties
  <2> QED
    BY <2>1, <2>5, <2>6 DEF Programme
<1>2. CASE GetTable(u)
  BY <1>2 DEF GetTable
<1>3. CASE ClearDone(u)
  BY <1>3 DEF ClearDone
<1>4. CASE DeleteFirst(u) \/ BeginAdd(u) \/ AddNext(u)
  BY <1>4 DEF DeleteFirst, BeginAdd, AddNext, SendTable
<1> QED
  BY <1>1, <1>2, <1>3, <1>4 DEF PlugStep

LEMMA BeginningTellsNothing ==
    ASSUME TableInv, NEW u \in Thread, NEW t \in Thread,
           Return(u) \/ BeginRead(u, "clear") \/ BeginRead(u, "show") \/ \E plan \in Plans : BeginSync(u, plan)
    PROVE  Synced(t)
BY DEF TableInv, Synced, Return, BeginRead, BeginSync, Goto

-----------------------------------------------------------------------------
(* What a table holds, in the plug and in a thread's copy of it.           *)

\* A timer that somebody asked for, or one whose end was cut off.
Known(e) == e \in Given \/ (e.off = 0 /\ \E g \in Given : e = [g EXCEPT !.off = 0])

Proper(entries) ==
    /\ entries \in Seq(Entry) /\ Len(entries) <= Slots
    /\ Distinct(entries)
    /\ \A i \in 1 .. Len(entries) : Known(entries[i])

\* A thread that clears the table has a copy of what is left in the plug.
ContentInv ==
    /\ table \in [Thread -> Seq(Entry)]
    /\ Proper(timers) /\ \A t \in Thread : Proper(table[t])
    /\ \A t \in Thread : pc[t] = "del" => Ids(table[t]) = Ids(timers)

LEMMA EmptyIsProper == Proper(<<>>)
<1>1. <<>> \in Seq(Entry) /\ Len(<<>>) = 0
  BY EmptySeq
<1> QED
  BY <1>1, SlotAssumption DEF Proper, Distinct

LEMMA KnownLater == ASSUME first' = first PROVE \A e : Known(e)' <=> Known(e)
BY DEF Known, Given

LEMMA LengthOfProper ==
    ASSUME NEW entries, Proper(entries)
    PROVE  Len(entries) \in Nat /\ DOMAIN entries = 1 .. Len(entries)
BY LenProperties DEF Proper

LEMMA ReceivedIsProper ==
    ASSUME NEW entries, Proper(entries)
    PROVE  Proper(Received(entries)) /\ Ids(Received(entries)) = Ids(entries)
<1>1. entries \in Seq(Entry) /\ Len(entries) \in Nat /\ DOMAIN entries = 1 .. Len(entries)
  BY LengthOfProper DEF Proper
<1>2. CASE Len(entries) # Slots
  BY <1>2 DEF Received
<1>3. CASE Len(entries) = Slots
  <2> DEFINE cut == Received(entries)
             last == [entries[Slots] EXCEPT !.off = 0]
  <2>1. Slots \in 1 .. Len(entries) /\ cut = [entries EXCEPT ![Slots] = last]
    BY <1>1, <1>3, SlotAssumption DEF Received
  <2>2. entries[Slots] \in Entry
    BY <1>1, <2>1, ElementOfSeq
  <2>3. last \in Entry /\ last.id = entries[Slots].id /\ last.off = 0
    BY <2>2 DEF Entry
  <2>4. Known(last)
    <3>1. Known(entries[Slots])
      BY <2>1 DEF Proper
    <3>2. CASE entries[Slots] \in Given
      BY <2>3, <3>2 DEF Known
    <3>3. CASE \E g \in Given : entries[Slots] = [g EXCEPT !.off = 0]
      <4>1. PICK g \in Given : entries[Slots] = [g EXCEPT !.off = 0]
        BY <3>3
      <4>2. last = [g EXCEPT !.off = 0]
        BY <4>1
      <4> QED
        BY <2>3, <4>2 DEF Known
    <3> QED
      BY <3>1, <3>2, <3>3 DEF Known
  <2> HIDE DEF cut, last
  <2>5. cut \in Seq(Entry) /\ Len(cut) = Len(entries) /\ DOMAIN cut = 1 .. Len(entries)
    BY <1>1, <2>1, <2>3, ExceptSeq
  <2>6. \A i \in 1 .. Len(entries) : cut[i] = IF i = Slots THEN last ELSE entries[i]
    BY <1>1, <2>1
  <2>7. \A i \in 1 .. Len(entries) : cut[i].id = entries[i].id /\ Known(cut[i])
    BY <2>3, <2>4, <2>6 DEF Proper
  <2>8. Distinct(cut)
    BY <2>5, <2>7 DEF Distinct, Proper
  <2>9. Ids(cut) = Ids(entries)
    BY <1>1, <2>5, <2>7 DEF Ids
  <2>10. Proper(cut)
    BY <2>5, <2>7, <2>8 DEF Proper
  <2> QED
    BY <2>9, <2>10 DEF cut
<1> QED
  BY <1>2, <1>3

LEMMA WithoutIsProper ==
    ASSUME NEW entries, Proper(entries), NEW id
    PROVE  Proper(Without(id, entries)) /\ Ids(Without(id, entries)) = Ids(entries) \ {id}
<1>0. PICK left : left = Without(id, entries)
  OBVIOUS
<1>1. /\ entries \in Seq(Entry) /\ Len(entries) \in Nat /\ DOMAIN entries = 1 .. Len(entries)
      /\ Len(entries) <= Slots /\ Distinct(entries)
  BY LengthOfProper DEF Proper
<1>2. /\ left \in Seq(Entry) /\ Len(left) \in 0 .. Len(entries)
      /\ SameButFor(id, left, entries) /\ Distinct(left)
  BY <1>0, <1>1, WhatIsKept
<1>3. DOMAIN left = 1 .. Len(left)
  BY <1>2, LenProperties
<1>4. Len(left) <= Slots
  BY <1>1, <1>2, SlotAssumption
<1>5. \A i \in 1 .. Len(left) : Known(left[i])
  BY <1>2 DEF Proper, SameButFor
<1>6. Ids(left) = Ids(entries) \ {id}
  <2>1. ASSUME NEW i \in 1 .. Len(left) PROVE left[i].id \in Ids(entries) \ {id}
    BY <1>1, <1>2 DEF Ids, SameButFor
  <2>2. ASSUME NEW j \in 1 .. Len(entries), entries[j].id # id PROVE entries[j].id \in Ids(left)
    BY <1>2, <1>3, <2>2 DEF Ids, SameButFor
  <2> QED
    BY <1>1, <1>3, <2>1, <2>2 DEF Ids
<1> QED
  BY <1>0, <1>2, <1>4, <1>5, <1>6 DEF Proper

LEMMA AppendedIsProper ==
    ASSUME NEW entries, Proper(entries), Len(entries) < Slots,
           NEW e \in Entry, Known(e), e.id \notin Ids(entries)
    PROVE  Proper(Append(entries, e))
<1> DEFINE n == Len(entries)
           more == Append(entries, e)
<1>1. entries \in Seq(Entry) /\ n \in Nat /\ DOMAIN entries = 1 .. n /\ n + 1 <= Slots
  BY LengthOfProper, SlotAssumption DEF Proper
<1>2. /\ more \in Seq(Entry) /\ Len(more) = n + 1 /\ more[n + 1] = e
      /\ \A i \in 1 .. n : more[i] = entries[i]
  BY <1>1, AppendProperties
<1>3. \A i \in 1 .. n : entries[i].id # e.id /\ Known(entries[i])
  BY <1>1 DEF Ids, Proper
<1>4. Distinct(entries)
  BY DEF Proper
<1> HIDE DEF n, more
<1>5. \A i \in 1 .. n + 1 : i = n + 1 \/ i \in 1 .. n
  BY <1>1
<1>6. Distinct(more)
  <2> SUFFICES ASSUME NEW i \in 1 .. n + 1, NEW j \in 1 .. n + 1, more[i].id = more[j].id
               PROVE  i = j
    BY <1>2 DEF Distinct
  <2>1. CASE i \in 1 .. n /\ j \in 1 .. n
    BY <1>2, <1>4, <2>1 DEF Distinct, n
  <2>2. CASE i = n + 1 \/ j = n + 1
    BY <1>2, <1>3, <1>5, <2>2
  <2> QED
    BY <1>5, <2>1, <2>2
<1>7. \A i \in 1 .. n + 1 : Known(more[i])
  BY <1>2, <1>3, <1>5
<1> QED
  BY <1>1, <1>2, <1>6, <1>7 DEF Proper, more

\* A thread that changes its copy, and the table in the plug only while it holds the plug.
LEMMA EditKeepsContents ==
    ASSUME TableInv, ContentInv, first' = first, NEW t \in Thread,
           NEW entries, Proper(entries), table' = [table EXCEPT ![t] = entries],
           timers' = timers \/ (timers' = entries /\ HoldsPlug(t)),
           \A u \in Thread : u # t => pc'[u] = pc[u],
           pc'[t] = "del" => Ids(entries) = Ids(timers')
    PROVE  ContentInv'
<1>1. /\ table' \in [Thread -> Seq(Entry)] /\ table'[t] = entries
      /\ \A u \in Thread : u # t => table'[u] = table[u]
  BY DEF ContentInv, Proper
<1>2. \A e : Known(e)' <=> Known(e)
  BY KnownLater
<1>3. Proper(timers)' /\ \A u \in Thread : Proper(table[u])'
  <2>1. Proper(timers)'
    BY <1>2 DEF ContentInv, Proper, Distinct
  <2>2. ASSUME NEW u \in Thread PROVE Proper(table[u])'
    <3>1. table'[u] = entries \/ table'[u] = table[u]
      BY <1>1
    <3> QED
      BY <1>2, <3>1 DEF ContentInv, Proper, Distinct
  <2> QED
    BY <2>1, <2>2
<1>4. ASSUME NEW u \in Thread, pc'[u] = "del" PROVE Ids(table'[u]) = Ids(timers')
  <2>1. CASE u = t
    BY <1>1, <1>4, <2>1
  <2>2. CASE u # t
    <3>1. pc[u] = "del" /\ table'[u] = table[u] /\ Ids(table[u]) = Ids(timers)
      BY <1>1, <1>4, <2>2 DEF ContentInv
    <3>2. ~ HoldsPlug(t)
      BY <2>2, <3>1 DEF TableInv, HoldsPlug
    <3> QED
      BY <3>1, <3>2
  <2> QED
    BY <2>1, <2>2
<1> QED
  BY <1>1, <1>3, <1>4 DEF ContentInv, Ids

LEMMA ContentsStutter ==
    ASSUME ContentInv, UNCHANGED <<timers, first, table>>,
           \A t \in Thread : pc'[t] = "del" => pc[t] = "del"
    PROVE  ContentInv'
<1>1. \A e : Known(e)' <=> Known(e)
  BY KnownLater
<1>2. Proper(timers)' /\ \A t \in Thread : Proper(table[t])'
  BY <1>1 DEF ContentInv, Proper, Distinct
<1>3. ASSUME NEW t \in Thread, pc'[t] = "del" PROVE Ids(table'[t]) = Ids(timers')
  <2>1. Ids(table[t]) = Ids(timers)
    BY <1>3 DEF ContentInv
  <2> QED
    BY <2>1
<1> QED
  BY <1>2, <1>3 DEF ContentInv, Ids

\* A crash loses the threads' copies.
LEMMA RestartKeepsContents ==
    ASSUME ContentInv, UNCHANGED <<timers, first>>, table' = [t \in Thread |-> <<>>],
           \A t \in Thread : pc'[t] = "idle"
    PROVE  ContentInv'
<1>1. \A e : Known(e)' <=> Known(e)
  BY KnownLater
<1>2. Proper(timers)'
  BY <1>1 DEF ContentInv, Proper, Distinct
<1>3. Proper(<<>>)'
  BY <1>1, EmptyIsProper DEF Proper, Distinct
<1>4. table' \in [Thread -> Seq(Entry)] /\ \A t \in Thread : table'[t] = <<>>
  BY EmptySeq
<1>5. \A t \in Thread : Proper(table[t])'
  BY <1>3, <1>4 DEF Proper, Distinct
<1> QED
  BY <1>2, <1>4, <1>5 DEF ContentInv

LEMMA SendKeepsContents ==
    ASSUME TableInv, ContentInv, NEW t \in Thread, HoldsPlug(t),
           NEW entries, Proper(entries), SendTable(t, entries)
    PROVE  ContentInv'
<1>1. /\ first' = first /\ table' = [table EXCEPT ![t] = entries]
      /\ timers' = timers \/ timers' = entries
      /\ \A u \in Thread : u # t => pc'[u] = pc[u]
      /\ pc' = [pc EXCEPT ![t] = "err"] \/ timers' = entries
  BY DEF SendTable, Goto, TableInv
<1>2. pc'[t] = "del" => timers' = entries
  BY <1>1 DEF TableInv
<1> QED
  BY <1>1, <1>2, EditKeepsContents

LEMMA StepKeepsContents ==
    ASSUME TableInv, ContentInv, NEW t \in Thread, PlugStep(t)
    PROVE  ContentInv'
<1>1. CASE GetTable(t)
  <2>1. /\ Proper(timers) /\ Proper(table[t])
        /\ UNCHANGED <<first, timers>>
        /\ \A u \in Thread : u # t => pc'[u] = pc[u]
    BY <1>1 DEF GetTable, Goto, TableInv, ContentInv
  <2>2. CASE table' = [table EXCEPT ![t] = Received(timers)]
    BY <2>1, <2>2, ReceivedIsProper, EditKeepsContents
  <2>3. CASE table' # [table EXCEPT ![t] = Received(timers)]
    <3>1. pc' = [pc EXCEPT ![t] = "err"] /\ table' = table
      BY <1>1, <2>3 DEF GetTable, Goto
    <3> QED
      BY <2>1, <3>1, ContentsStutter DEF TableInv
  <2> QED
    BY <2>2, <2>3
<1>2. CASE DeleteFirst(t)
  <2>1. Proper(Without(Head(table[t]).id, table[t]))
    BY WithoutIsProper DEF ContentInv
  <2> QED
    BY <1>2, <2>1, SendKeepsContents DEF DeleteFirst, HoldsPlug
<1>3. CASE AddNext(t)
  <2> DEFINE n == Len(table[t])
             e == Weekly(n, want[t][n + 1])
  <2>1. /\ pc[t] = "add" /\ n < Len(want[t]) /\ n \in Nat /\ Len(want[t]) \in Nat
        /\ want[t] \in Seq(Window) /\ FreeId(table[t]) = n /\ FreeIds(table[t]) # {}
    BY <1>3, NextIdIsFree DEF AddNext
  <2>2. want[t] \in Plans /\ Len(want[t]) <= Slots
    <3>1. want[t] # <<>>
      BY <2>1, EmptySeq
    <3> QED
      BY <2>1, <3>1 DEF TableInv
  <2>3. n + 1 \in DOMAIN want[t] /\ want[t][n + 1] \in Window
    BY <2>1, LenProperties, ElementOfSeq
  <2>4. e \in Entry /\ e.id = n
    BY <2>1, <2>3 DEF Weekly, Window, Entry
  <2>5. Known(e)
    <3>1. e = Programme(want[t])[n + 1] /\ n + 1 \in DOMAIN Programme(want[t])
      BY <2>1, <2>3 DEF Programme
    <3> HIDE DEF e
    <3>2. e \in ToSet(Programme(want[t]))
      BY <3>1 DEF ToSet
    <3> QED
      BY <2>2, <3>2 DEF Known, Given
  <2>6. n \notin Ids(table[t])
    BY <2>1, NextIdIsFree
  <2>7. SendTable(t, Append(table[t], e)) /\ Proper(table[t])
    BY <1>3, <2>1 DEF AddNext, ContentInv
  <2>8. Proper(Append(table[t], e))
    <3> HIDE DEF e
    <3> QED
      BY <2>1, <2>2, <2>4, <2>5, <2>6, <2>7, SlotAssumption, AppendedIsProper
  <2> QED
    BY <2>1, <2>7, <2>8, SendKeepsContents DEF HoldsPlug
<1>4. CASE ClearDone(t) \/ BeginAdd(t) \/ AddDone(t)
  BY <1>4, ContentsStutter DEF ClearDone, BeginAdd, AddDone, Goto, TableInv
<1> QED
  BY <1>1, <1>2, <1>3, <1>4 DEF PlugStep

LEMMA BeginningKeepsContents ==
    ASSUME TableInv, ContentInv, NEW t \in Thread, UNCHANGED <<timers, first>>,
           BeginRead(t, "clear") \/ BeginRead(t, "show") \/ \E plan \in Plans : BeginSync(t, plan)
    PROVE  ContentInv'
<1>1. table' = table /\ \A u \in Thread : pc'[u] = "del" => pc[u] = "del"
  BY DEF BeginRead, BeginSync, Goto, TableInv
<1> QED
  BY <1>1, ContentsStutter

LEMMA ReturningKeepsContents ==
    ASSUME TableInv, ContentInv, NEW t \in Thread, Return(t)
    PROVE  ContentInv'
BY EmptyIsProper, EditKeepsContents DEF Return, TableInv

LEMMA InitContents == InitTable => ContentInv
<1> SUFFICES ASSUME InitTable PROVE ContentInv
  OBVIOUS
<1>1. timers \in Tables /\ first = timers
  BY DEF InitTable
<1>2. timers \in Seq(Entry) /\ Len(timers) <= Slots /\ DOMAIN timers = 1 .. Len(timers)
  BY <1>1, TableAssumption, LenProperties
<1>3. Distinct(timers)
  BY <1>1, <1>2, TableAssumption DEF Distinct
<1>4. \A i \in 1 .. Len(timers) : Known(timers[i])
  BY <1>1, <1>2 DEF Known, Given, ToSet
<1>5. /\ table \in [Thread -> Seq(Entry)]
      /\ \A t \in Thread : table[t] = <<>> /\ pc[t] = "idle"
  BY EmptySeq DEF InitTable
<1> QED
  BY <1>2, <1>3, <1>4, <1>5, EmptyIsProper DEF ContentInv, Proper

\* What the invariants say of the plug.
LEMMA ContentsTell ==
    ASSUME TableInv, ContentInv
    PROVE  SlotFound /\ IdsDistinct /\ OnlyLastEndLost
<1>1. SlotFree
  BY NextIdIsFree DEF SlotFree
<1>2. Proper(timers) /\ DOMAIN timers = 1 .. Len(timers)
  BY LengthOfProper DEF ContentInv
<1>3. OnlyLastEndLost
  BY <1>2 DEF OnlyLastEndLost, ToSet, Proper, Known
<1> QED
  BY <1>1, <1>2, <1>3 DEF SlotFound, IdsDistinct, Proper, Distinct

-----------------------------------------------------------------------------
(* What a deletion takes.                                                  *)

TakesOne(t) ==
    pc[t] = "del" /\ table[t] # <<>> =>
      Ids(timers') \in {Ids(timers), Ids(timers) \ {Head(table[t]).id}}

LEMMA StepTakesOne ==
    ASSUME TableInv, ContentInv, NEW u \in Thread, PlugStep(u), NEW t \in Thread
    PROVE  TakesOne(t)
<1> SUFFICES ASSUME pc[t] = "del", table[t] # <<>>, timers' # timers
             PROVE  Ids(timers') = Ids(timers) \ {Head(table[t]).id}
  BY DEF TakesOne
<1>1. HoldsPlug(u)
  BY DEF PlugStep, GetTable, DeleteFirst, ClearDone, BeginAdd, AddNext, AddDone, HoldsPlug
<1>2. u = t
  BY <1>1 DEF TableInv, HoldsPlug
<1>3. DeleteFirst(t)
  BY <1>2 DEF PlugStep, GetTable, DeleteFirst, ClearDone, BeginAdd, AddNext, AddDone
<1>4. timers' = Without(Head(table[t]).id, table[t])
  BY <1>3 DEF DeleteFirst, SendTable
<1>5. Ids(table[t]) = Ids(timers) /\ Proper(table[t])
  BY DEF ContentInv
<1> QED
  BY <1>4, <1>5, WithoutIsProper

LEMMA UnchangedTakesNone == timers' = timers => \A t \in Thread : TakesOne(t)
BY DEF TakesOne

-----------------------------------------------------------------------------
(* The ids of the table, as the set that TimerSet edits.                   *)

LEMMA EmptyIds == Ids(<<>>) = {} /\ Places(<<>>) = {}
BY EmptySeq, LenProperties DEF Ids, Places

LEMMA HeadIsHeld ==
    ASSUME NEW entries \in Seq(Entry), entries # <<>>
    PROVE  Head(entries).id \in Ids(entries)
<1>1. Len(entries) \in Nat /\ Len(entries) # 0 /\ DOMAIN entries = 1 .. Len(entries)
  BY EmptySeq, LenProperties
<1>2. 1 \in DOMAIN entries /\ Head(entries) = entries[1]
  BY <1>1
<1> QED
  BY <1>2 DEF Ids

LEMMA IdsOfAppended ==
    ASSUME NEW entries \in Seq(Entry), NEW e \in Entry
    PROVE  Ids(Append(entries, e)) = Ids(entries) \union {e.id}
<1> DEFINE n == Len(entries)
           more == Append(entries, e)
<1>1. n \in Nat /\ DOMAIN entries = 1 .. n
  BY LenProperties
<1>2. /\ more \in Seq(Entry) /\ Len(more) = n + 1 /\ more[n + 1] = e
      /\ \A i \in 1 .. n : more[i] = entries[i]
  BY AppendProperties
<1> HIDE DEF n, more
<1>3. DOMAIN more = 1 .. n + 1 /\ n + 1 \in 1 .. n + 1
  BY <1>1, <1>2, LenProperties
<1>4. \A i \in 1 .. n + 1 : i = n + 1 \/ i \in 1 .. n
  BY <1>1
<1>5. \A i \in 1 .. n : i \in 1 .. n + 1
  BY <1>1
<1>6. Ids(more) = Ids(entries) \union {e.id}
  BY <1>1, <1>2, <1>3, <1>4, <1>5 DEF Ids
<1> QED
  BY <1>6 DEF more

LEMMA PlacesCounted ==
    ASSUME NEW plan \in Seq(Window)
    PROVE  Cardinality(Places(plan)) = Len(plan)
<1>1. Len(plan) \in Nat
  BY LenProperties
<1>2. CASE Len(plan) = 0
  BY <1>2, FS_EmptySet DEF Places
<1>3. CASE Len(plan) # 0
  <2>1. 0 \in Int /\ Len(plan) - 1 \in Int
    BY <1>1
  <2>2. Cardinality(0 .. Len(plan) - 1) = (Len(plan) - 1) - 0 + 1
    BY <1>1, <1>3, <2>1, FS_Interval
  <2> QED
    BY <1>1, <2>2 DEF Places
<1> QED
  BY <1>2, <1>3

LEMMA CountedAlike == \A S : Set!Cardinality(S) = Cardinality(S)
BY DEF Set!Cardinality, Cardinality, Set!IsFiniteSet, IsFiniteSet

\* How the two local variables look to TimerSet when a thread assigns its own.
LEMMA HeldFollows ==
    ASSUME NEW t \in Thread, NEW entries, DOMAIN table = Thread,
           table' = [table EXCEPT ![t] = entries]
    PROVE  Held' = [Held EXCEPT ![t] = Ids(entries)]
BY DEF Held, Ids

LEMMA AskedFollows ==
    ASSUME NEW t \in Thread, NEW plan, DOMAIN want = Thread,
           want' = [want EXCEPT ![t] = plan]
    PROVE  Asked' = [Asked EXCEPT ![t] = Places(plan)]
BY DEF Asked, Places

LEMMA MapStays ==
    /\ UNCHANGED table  => UNCHANGED Held
    /\ UNCHANGED want   => UNCHANGED Asked
    /\ UNCHANGED timers => UNCHANGED Ids(timers)
BY DEF Held, Asked, Ids, Places

LEMMA FreeAlike == \A t \in Thread : PlugFree <=> Set!PlugFree
BY DEF PlugFree, HoldsPlug, Set!PlugFree, Set!HoldsPlug, Thread, Set!Thread

LEMMA SendingIsSending ==
    ASSUME TableInv, NEW t \in Thread, NEW entries, SendTable(t, entries)
    PROVE  Set!SendTable(t, Ids(entries))
<1>1. Held' = [Held EXCEPT ![t] = Ids(entries)]
  BY HeldFollows DEF SendTable, TableInv
<1>2. UNCHANGED <<op, Asked>>
  BY MapStays DEF SendTable
<1>3. Ids(timers)' = Ids(timers')
  BY DEF Ids
<1>4. \/ timers' = entries /\ UNCHANGED pc
      \/ timers' \in {timers, entries} /\ pc' = [pc EXCEPT ![t] = "err"]
  BY DEF SendTable, Goto
<1> QED
  BY <1>1, <1>2, <1>3, <1>4 DEF Set!SendTable, Set!Goto

LEMMA StepEditsSet ==
    ASSUME TableInv, ContentInv, NEW t \in Thread, PlugStep(t)
    PROVE  Set!Edit(t)
<1>0. Held[t] = Ids(table[t]) /\ Asked[t] = Places(want[t])
  BY DEF Held, Asked
<1>1. CASE GetTable(t)
  <2>1. /\ pc[t] = "get" /\ Set!PlugFree
        /\ UNCHANGED <<Ids(timers), op, Asked>>
    BY <1>1, FreeAlike, MapStays DEF GetTable
  <2>2. CASE table' = [table EXCEPT ![t] = Received(timers)]
    <3>1. Proper(timers) /\ DOMAIN table = Thread
      BY DEF ContentInv
    <3>2. Held' = [Held EXCEPT ![t] = Ids(timers)]
      BY <2>2, <3>1, HeldFollows, ReceivedIsProper
    <3> QED
      BY <1>1, <2>1, <2>2, <3>2, MapStays
      DEF GetTable, Goto, Set!Edit, Set!GetTable, Set!Goto
  <2>3. CASE table' # [table EXCEPT ![t] = Received(timers)]
    <3>1. pc' = [pc EXCEPT ![t] = "err"] /\ UNCHANGED Held
      BY <1>1, <2>3, MapStays DEF GetTable, Goto
    <3> QED
      BY <2>1, <3>1 DEF Set!Edit, Set!GetTable, Set!Goto
  <2> QED
    BY <2>2, <2>3
<1>2. CASE DeleteFirst(t)
  <2> DEFINE id == Head(table[t]).id
  <2>1. pc[t] = "del" /\ table[t] # <<>> /\ SendTable(t, Without(id, table[t]))
    BY <1>2 DEF DeleteFirst
  <2>2. Proper(table[t]) /\ table[t] \in Seq(Entry)
    BY DEF ContentInv
  <2>3. Set!SendTable(t, Ids(Without(id, table[t])))
    BY <2>1, SendingIsSending
  <2>4. id \in Held[t]
    BY <1>0, <2>1, <2>2, HeadIsHeld
  <2>5. Ids(Without(id, table[t])) = Held[t] \ {id}
    BY <1>0, <2>2, WithoutIsProper
  <2> HIDE DEF id
  <2> QED
    BY <2>1, <2>3, <2>4, <2>5 DEF Set!Edit, Set!DeleteEntry
<1>3. CASE ClearDone(t)
  <2>1. Held[t] = {} /\ UNCHANGED <<Ids(timers), op, Held, Asked>>
    BY <1>0, <1>3, EmptyIds, MapStays DEF ClearDone
  <2> QED
    BY <1>3, <2>1 DEF ClearDone, Goto, Set!Edit, Set!ClearDone, Set!Goto
<1>4. CASE BeginAdd(t)
  <2>1. Set!PlugFree /\ UNCHANGED <<Ids(timers), op, Held, Asked>>
    BY <1>4, FreeAlike, MapStays DEF BeginAdd
  <2> QED
    BY <1>4, <2>1 DEF BeginAdd, Goto, Set!Edit, Set!BeginAdd, Set!Goto
<1>5. CASE AddNext(t)
  <2> DEFINE n == Len(table[t])
             e == Weekly(n, want[t][n + 1])
  <2>1. /\ pc[t] = "add" /\ n < Len(want[t]) /\ n \in Nat /\ Len(want[t]) \in Nat
        /\ want[t] \in Seq(Window) /\ FreeId(table[t]) = n /\ n \notin Ids(table[t])
    BY <1>5, NextIdIsFree DEF AddNext
  <2>2. n + 1 \in 1 .. Len(want[t]) /\ want[t][n + 1] \in Window
    BY <2>1, ElementOfSeq
  <2>3. e \in Entry /\ e.id = n
    BY <2>1, <2>2 DEF Weekly, Window, Entry
  <2>4. SendTable(t, Append(table[t], e)) /\ table[t] \in Seq(Entry)
    BY <1>5, <2>1 DEF AddNext, ContentInv
  <2>5. n \in Asked[t] \ Held[t]
    BY <1>0, <2>1 DEF Places
  <2> HIDE DEF e, n
  <2>6. Ids(Append(table[t], e)) = Held[t] \union {n}
    BY <1>0, <2>3, <2>4, IdsOfAppended
  <2>7. Set!SendTable(t, Held[t] \union {n})
    BY <2>4, <2>6, SendingIsSending
  <2> QED
    BY <2>1, <2>5, <2>7 DEF Set!Edit, Set!AddEntry
<1>6. CASE AddDone(t)
  <2>1. Added(t) /\ want[t] \in Seq(Window)
    BY <1>6, PlanAssumption, EmptySeq DEF AddDone, TableInv
  <2>2. Held[t] = Asked[t]
    BY <1>0, <1>6, <2>1, IdsOfAdded DEF AddDone, Places
  <2>3. UNCHANGED <<Ids(timers), op, Held, Asked>>
    BY <1>6, MapStays DEF AddDone
  <2> QED
    BY <1>6, <2>2, <2>3 DEF AddDone, Goto, Set!Edit, Set!AddDone, Set!Goto
<1> QED
  BY <1>1, <1>2, <1>3, <1>4, <1>5, <1>6 DEF PlugStep

LEMMA BeginningStartsSet ==
    ASSUME TableInv, NEW t \in Thread, pc[t] = "idle", UNCHANGED timers,
           BeginRead(t, "clear") \/ BeginRead(t, "show") \/ \E plan \in Plans : BeginSync(t, plan)
    PROVE  Set!Moves(t)
<1>1. UNCHANGED Ids(timers) /\ UNCHANGED Held
  BY MapStays DEF BeginRead, BeginSync
<1>2. ASSUME NEW name \in {"clear", "show"}, BeginRead(t, name) PROVE Set!BeginRead(t, name)
  BY <1>1, <1>2, MapStays DEF BeginRead, Goto, Set!BeginRead, Set!Goto
<1>3. ASSUME NEW plan \in Plans, BeginSync(t, plan) PROVE Set!BeginSync(t, Places(plan))
  <2>1. plan \in Seq(Window) /\ Len(plan) \in Nat /\ Slots \in Nat
    BY PlanAssumption, SlotAssumption, LenProperties
  <2>2. Fits(plan) <=> ~(Set!Cardinality(Places(plan)) > Slots)
    BY <2>1, PlacesCounted, CountedAlike DEF Fits
  <2>3. Asked' = [Asked EXCEPT ![t] = Places(plan)]
    BY <1>3, AskedFollows DEF BeginSync, TableInv
  <2> QED
    BY <1>1, <1>3, <2>2, <2>3 DEF BeginSync, Goto, Set!BeginSync, Set!Goto
<1> QED
  BY <1>1, <1>2, <1>3 DEF Set!Moves, Set!Start

LEMMA ReturningEndsSet ==
    ASSUME TableInv, ContentInv, NEW t \in Thread, Return(t)
    PROVE  Set!Moves(t)
<1>1. Held' = [Held EXCEPT ![t] = {}] /\ Asked' = [Asked EXCEPT ![t] = {}]
  BY HeldFollows, AskedFollows, EmptyIds DEF Return, TableInv
<1>2. UNCHANGED Ids(timers)
  BY MapStays DEF Return
<1> QED
  BY <1>1, <1>2 DEF Return, Returned, Set!Moves, Set!Return, Set!Returned

LEMMA InitEmptiesSet ==
    ASSUME InitTable PROVE Ids(timers) \in SUBSET Nat /\ Set!NoProcedures
<1>1. Ids(timers) \in SUBSET Nat
  <2>1. timers \in Seq(Entry) /\ DOMAIN timers = 1 .. Len(timers)
    BY TableAssumption, LenProperties DEF InitTable
  <2>2. \A i \in 1 .. Len(timers) : timers[i] \in Entry
    BY <2>1, ElementOfSeq
  <2> QED
    BY <2>1, <2>2 DEF Ids, Entry
<1>2. Held = [t \in Thread |-> {}] /\ Asked = [t \in Thread |-> {}]
  BY EmptyIds DEF InitTable, Held, Asked
<1> QED
  BY <1>1, <1>2 DEF InitTable, Set!NoProcedures, Set!NoTables, Thread, Set!Thread

LEMMA AbandoningStopsSet ==
    ASSUME UNCHANGED timers,
           pc' = [t \in Thread |-> "idle"], op' = [t \in Thread |-> "none"],
           table' = [t \in Thread |-> <<>>], want' = [t \in Thread |-> <<>>]
    PROVE  Set!Stop
<1>1. Held' = [t \in Thread |-> {}] /\ Asked' = [t \in Thread |-> {}]
  BY EmptyIds DEF Held, Asked, Ids, Places
<1>2. UNCHANGED Ids(timers)
  BY MapStays
<1> QED
  BY <1>1, <1>2 DEF Set!Stop, Set!NoProcedures, Set!NoTables, Thread, Set!Thread

LEMMA SetStutters == UNCHANGED <<timers, proc>> => UNCHANGED Set!setVars
BY MapStays DEF proc, Set!setVars, Set!proc

-----------------------------------------------------------------------------
(* How long a procedure may take: each of its steps brings its end nearer. *)

Resting == {"idle", "ok", "err"}

\* Steps that are left at most: two for each slot, and those between reading and adding.
StepsAt(label, held, planned) ==
    CASE label = "get" -> Slots + Slots + 4
      [] label = "del" -> Slots + 3 + held
      [] label = "gap" -> Slots + 2
      [] label = "add" -> planned - held + 1
      [] OTHER         -> 0

StepsLeft(t) == StepsAt(pc[t], Len(table[t]), Len(want[t]))

LEMMA WhatIsLeft ==
    ASSUME NEW held, NEW planned
    PROVE  /\ StepsAt("get", held, planned) = Slots + Slots + 4
           /\ StepsAt("del", held, planned) = Slots + 3 + held
           /\ StepsAt("gap", held, planned) = Slots + 2
           /\ StepsAt("add", held, planned) = planned - held + 1
           /\ \A label \in Resting : StepsAt(label, held, planned) = 0
BY DEF StepsAt, Resting

Shortens(t) ==
    pc[t] \notin Resting =>
      StepsLeft(t)' < StepsLeft(t) \/ UNCHANGED <<pc[t], table[t], want[t]>>

LEMMA StepsLeftInRange ==
    ASSUME TableInv, ContentInv, NEW t \in Thread
    PROVE  /\ StepsLeft(t) \in 0 .. Slots + Slots + 4
           /\ pc[t] \notin Resting => StepsLeft(t) > 0
<1>1. Slots \in Nat /\ Len(table[t]) \in 0 .. Slots /\ pc[t] \in Labels
  BY SlotAssumption, LengthOfProper DEF ContentInv, Proper, TableInv
<1>2. CASE pc[t] = "add"
  <2>1. Added(t) /\ want[t] \in Seq(Window) /\ Len(want[t]) <= Slots
    BY <1>2, PlanAssumption, EmptySeq DEF TableInv
  <2>2. Len(want[t]) \in 0 .. Slots /\ Len(table[t]) <= Len(want[t])
    BY <1>1, <2>1, LenProperties DEF Added
  <2> QED
    BY <1>1, <1>2, <2>2, WhatIsLeft DEF StepsLeft
<1>3. CASE pc[t] # "add"
  BY <1>1, <1>3, WhatIsLeft DEF StepsLeft, Labels, Resting
<1> QED
  BY <1>2, <1>3

\* One thread's step leaves the other where it is.
LEMMA StepSparesOther ==
    ASSUME TableInv, NEW t \in Thread, PlugStep(t) \/ Return(t), NEW u \in Thread, u # t
    PROVE  UNCHANGED <<pc[u], table[u], want[u]>>
BY DEF TableInv, PlugStep, GetTable, DeleteFirst, ClearDone, BeginAdd, AddNext, AddDone, SendTable,
       Return, Goto

\* By an error, a return or a restart a procedure is over at once.
LEMMA EndingShortens ==
    ASSUME TableInv, ContentInv, NEW t \in Thread, pc'[t] \in Resting, pc[t] \notin Resting
    PROVE  StepsLeft(t)' < StepsLeft(t)
<1>1. StepsLeft(t)' = 0
  BY WhatIsLeft DEF StepsLeft
<1> QED
  BY <1>1, StepsLeftInRange

\* A deletion leaves fewer entries, an addition fewer windows.
LEMMA StepShortens ==
    ASSUME TableInv, ContentInv, NEW t \in Thread, PlugStep(t)
    PROVE  StepsLeft(t)' < StepsLeft(t)
<1>1. pc[t] \in {"get", "del", "gap", "add"}
  BY DEF PlugStep, GetTable, DeleteFirst, ClearDone, BeginAdd, AddNext, AddDone
<1>2. ASSUME pc'[t] \in Resting PROVE StepsLeft(t)' < StepsLeft(t)
  BY <1>1, <1>2, EndingShortens DEF Resting
<1>3. Slots \in Nat /\ Len(table[t]) \in 0 .. Slots
  BY SlotAssumption, LengthOfProper DEF ContentInv, Proper
<1>4. ASSUME GetTable(t), pc'[t] \notin Resting PROVE StepsLeft(t)' < StepsLeft(t)
  <2>1. pc[t] = "get" /\ pc'[t] = "del" /\ table'[t] = Received(timers)
    BY <1>4 DEF GetTable, Goto, TableInv, Resting
  <2>2. Len(table'[t]) \in 0 .. Slots
    <3>1. Proper(Received(timers))
      BY ReceivedIsProper DEF ContentInv
    <3> QED
      BY <1>3, <2>1, <3>1, LengthOfProper DEF Proper
  <2>3. StepsLeft(t) = Slots + Slots + 4 /\ StepsLeft(t)' = Slots + 3 + Len(table'[t])
    BY <2>1, WhatIsLeft DEF StepsLeft
  <2> DEFINE m == Len(table'[t])
  <2>4. m \in 0 .. Slots /\ StepsLeft(t) = Slots + Slots + 4 /\ StepsLeft(t)' = Slots + 3 + m
    BY <1>3, <2>2, <2>3
  <2> HIDE DEF m
  <2> QED
    BY <1>3, <2>4
<1>5. ASSUME DeleteFirst(t), pc'[t] \notin Resting PROVE StepsLeft(t)' < StepsLeft(t)
  <2>1. /\ pc[t] = "del" /\ pc' = pc /\ table[t] # <<>>
        /\ table'[t] = Without(Head(table[t]).id, table[t])
    BY <1>5 DEF DeleteFirst, SendTable, Goto, TableInv, Resting
  <2>2. table[t] \in Seq(Entry)
    BY DEF ContentInv
  <2>3. 1 \in 1 .. Len(table[t]) /\ Head(table[t]) = table[t][1]
    BY <1>3, <2>1, <2>2, EmptySeq, HeadTailProperties
  <2>4. Len(table'[t]) < Len(table[t]) /\ Len(table'[t]) \in Nat
    BY <1>3, <2>1, <2>2, <2>3, WhatIsKept
  <2>5. StepsLeft(t) = Slots + 3 + Len(table[t]) /\ StepsLeft(t)' = Slots + 3 + Len(table'[t])
    BY <2>1, WhatIsLeft DEF StepsLeft
  <2> DEFINE n == Len(table[t])
             m == Len(table'[t])
  <2>6. /\ n \in Nat /\ m \in Nat /\ m < n
        /\ StepsLeft(t) = Slots + 3 + n /\ StepsLeft(t)' = Slots + 3 + m
    BY <1>3, <2>4, <2>5
  <2> HIDE DEF n, m
  <2> QED
    BY <1>3, <2>6
<1>6. ASSUME ClearDone(t), pc'[t] \notin Resting PROVE StepsLeft(t)' < StepsLeft(t)
  <2>1. pc[t] = "del" /\ pc'[t] = "gap"
    BY <1>6 DEF ClearDone, Goto, TableInv, Resting
  <2>2. StepsLeft(t) = Slots + 3 + Len(table[t]) /\ StepsLeft(t)' = Slots + 2
    BY <2>1, WhatIsLeft DEF StepsLeft
  <2> DEFINE n == Len(table[t])
  <2>3. n \in 0 .. Slots /\ StepsLeft(t) = Slots + 3 + n /\ StepsLeft(t)' = Slots + 2
    BY <1>3, <2>2
  <2> HIDE DEF n
  <2> QED
    BY <1>3, <2>3
<1>7. ASSUME BeginAdd(t) PROVE StepsLeft(t)' < StepsLeft(t)
  <2>1. /\ pc[t] = "gap" /\ pc'[t] = "add" /\ op[t] = "sync" /\ table[t] = <<>>
        /\ UNCHANGED <<table, want>> /\ want[t] \in Plans \union {<<>>} /\ Len(want[t]) <= Slots
    BY <1>7 DEF BeginAdd, Goto, TableInv
  <2>2. Len(<<>>) = 0 /\ Len(want[t]) \in 0 .. Slots
    <3>1. want[t] \in Seq(Window)
      BY <2>1, PlanAssumption, EmptySeq
    <3> QED
      BY <1>3, <2>1, <3>1, EmptySeq, LenProperties
  <2>3. StepsLeft(t) = Slots + 2 /\ StepsLeft(t)' = Len(want[t]) - 0 + 1
    BY <2>1, <2>2, WhatIsLeft DEF StepsLeft
  <2> QED
    BY <1>3, <2>2, <2>3
<1>8. ASSUME AddNext(t), pc'[t] \notin Resting PROVE StepsLeft(t)' < StepsLeft(t)
  <2> DEFINE w == want[t][Len(table[t]) + 1]
             e == Weekly(FreeId(table[t]), w)
  <2>1. /\ pc[t] = "add" /\ pc' = pc /\ want' = want /\ Len(table[t]) < Len(want[t])
        /\ table'[t] = Append(table[t], e)
    BY <1>8 DEF AddNext, SendTable, Goto, TableInv, Resting
  <2>2. Len(want[t]) \in Nat /\ Len(table'[t]) = Len(table[t]) + 1
    <3>1. table'[t] \in Seq(Entry) /\ table'[t] = Append(table[t], e)
      BY <1>8, <2>1, StepKeepsContents DEF ContentInv
    <3>2. want[t] \in Seq(Window) /\ table[t] \in Seq(Entry)
      BY PlanAssumption, EmptySeq DEF TableInv, ContentInv
    <3> QED
      BY <3>1, <3>2, AppendProperties, LenProperties
  <2>3. /\ StepsLeft(t) = Len(want[t]) - Len(table[t]) + 1
        /\ StepsLeft(t)' = Len(want[t]) - Len(table'[t]) + 1
    BY <2>1, WhatIsLeft DEF StepsLeft
  <2> DEFINE n == Len(table[t])
             m == Len(table'[t])
  <2>4. /\ n \in Nat /\ m = n + 1 /\ Len(want[t]) \in Nat
        /\ StepsLeft(t) = Len(want[t]) - n + 1 /\ StepsLeft(t)' = Len(want[t]) - m + 1
    BY <1>3, <2>2, <2>3
  <2> HIDE DEF n, m
  <2> QED
    BY <1>3, <2>4
<1>9. ASSUME AddDone(t) PROVE StepsLeft(t)' < StepsLeft(t)
  <2>1. pc'[t] = "ok"
    BY <1>9 DEF AddDone, Goto, TableInv
  <2> QED
    BY <1>2, <2>1 DEF Resting
<1> QED
  BY <1>2, <1>4, <1>5, <1>6, <1>7, <1>8, <1>9 DEF PlugStep

\* Who begins or leaves a procedure is not in the midst of one.
LEMMA OutsideShortens ==
    ASSUME TableInv, NEW t \in Thread, pc[t] \in Resting, NEW u \in Thread,
           Return(t) \/ BeginRead(t, "clear") \/ BeginRead(t, "show") \/ \E plan \in Plans : BeginSync(t, plan)
    PROVE  Shortens(u)
BY DEF TableInv, Shortens, Return, BeginRead, BeginSync, Goto

-----------------------------------------------------------------------------
(* The table by itself.                                                    *)

LEMMA TableIsInvariant == TableSpec => []TableInv
<1>1. TableInv /\ [TableNext]_tableVars => TableInv'
  <2> SUFFICES ASSUME TableInv, [TableNext]_tableVars PROVE TableInv'
    OBVIOUS
  <2>1. ASSUME NEW t \in Thread, Start(t) PROVE TableInv'
    BY <2>1, BeginningKeepsTable DEF Start
  <2>2. CASE UNCHANGED tableVars
    BY <2>2, TableStutters DEF tableVars
  <2> QED
    BY <2>1, <2>2, StepKeepsTable, ReturningKeepsTable DEF TableNext
<1> QED
  BY <1>1, InitTableInv, PTL DEF TableSpec

(* An addition always finds a free id: the error the code has for that is  *)
(* never reported, as long as the windows are counted before the timers    *)
(* are cleared.                                                            *)
THEOREM FreeIdIsFound == TableSpec => []SlotFree
<1>1. TableInv => SlotFree
  BY NextIdIsFree DEF SlotFree
<1> QED
  BY <1>1, TableIsInvariant, PTL

(* A sync that reports success has left exactly the configured windows in  *)
(* the plug, when both threads run the procedures in any order.            *)
THEOREM SyncIsExact == TableSpec => SyncedExactly
<1>1. TableInv /\ [TableNext]_tableVars => [\A t \in Thread : Synced(t)]_tableVars
  <2> SUFFICES ASSUME TableInv, TableNext, NEW t \in Thread PROVE Synced(t)
    OBVIOUS
  <2> QED
    BY StepTellsTruth, BeginningTellsNothing DEF TableNext, Start
<1> QED
  BY <1>1, TableIsInvariant, PTL DEF TableSpec, SyncedExactly, Synced

LEMMA ContentsAreInvariant == TableSpec => []ContentInv
<1>1. TableInv /\ ContentInv /\ [TableNext]_tableVars => ContentInv'
  <2> SUFFICES ASSUME TableInv, ContentInv, [TableNext]_tableVars PROVE ContentInv'
    OBVIOUS
  <2>1. ASSUME NEW t \in Thread, Start(t) PROVE ContentInv'
    BY <2>1, BeginningKeepsContents DEF Start
  <2>2. CASE UNCHANGED tableVars
    BY <2>2, ContentsStutter DEF tableVars, proc
  <2> QED
    BY <2>1, <2>2, StepKeepsContents, ReturningKeepsContents DEF TableNext
<1> QED
  BY <1>1, InitContents, TableIsInvariant, PTL DEF TableSpec

(* The type invariant of the table: what a thread keeps of it, through     *)
(* deletions and additions, stays a sequence of timers.                    *)
THEOREM TableTypeCorrect == TableSpec => []TableTypeOK
<1> DEFINE Kept == first \in Tables /\ fails \in 0 .. MaxFails
<1>1. InitTable => Kept
  BY SlotAssumption DEF InitTable
<1>2. Kept /\ [TableNext]_tableVars => Kept'
  <2> SUFFICES ASSUME Kept, [TableNext]_tableVars PROVE Kept'
    OBVIOUS
  <2>1. first' = first /\ (fails' = fails \/ Fault)
    BY DEF TableNext, Start, Return, PlugStep, GetTable, DeleteFirst, ClearDone, BeginAdd, AddNext,
           AddDone, SendTable, NoFault, tableVars
  <2> QED
    BY <2>1, SlotAssumption DEF Fault
<1>3. TableInv /\ ContentInv /\ Kept => TableTypeOK
  BY DEF TableInv, ContentInv, Proper, TableTypeOK, Labels, Names
<1> QED
  BY <1>1, <1>2, <1>3, TableIsInvariant, ContentsAreInvariant, PTL DEF TableSpec

(* No table is ever too long for the plug, and no addition is without an   *)
(* id: the two errors the code has for that are never reported.            *)
THEOREM SlotIsFound == TableSpec => []SlotFound
BY ContentsTell, TableIsInvariant, ContentsAreInvariant, PTL

(* No two timers in the plug have the same id, so that a deletion, which   *)
(* takes every entry with its id, takes one.                               *)
THEOREM IdsStayDistinct == TableSpec => []IdsDistinct
BY ContentsTell, TableIsInvariant, ContentsAreInvariant, PTL

(* Whatever fails and whoever else edits it, the plug's table holds only   *)
(* timers it held at first or was given, up to a last end cut off.         *)
THEOREM NothingUnasked == TableSpec => []OnlyLastEndLost
BY ContentsTell, TableIsInvariant, ContentsAreInvariant, PTL

(* Every step of the procedures on the table, its ids and its order is one *)
(* of the procedures on a set of timers, which is what WinterMode has:     *)
(* what is proved there of the set holds of the ids in the plug.           *)
THEOREM TableEditsSet == TableSpec => EditsSet
<1>1. TableInv /\ ContentInv /\ [TableNext]_tableVars => [Set!SetNext]_(Set!setVars)
  <2> SUFFICES ASSUME TableInv, ContentInv, [TableNext]_tableVars
               PROVE  [Set!SetNext]_(Set!setVars)
    OBVIOUS
  <2>1. ASSUME NEW t \in Thread, Start(t) \/ PlugStep(t) \/ Return(t) PROVE Set!Moves(t)
    <3>1. CASE Start(t)
      BY <3>1, BeginningStartsSet DEF Start
    <3>2. CASE PlugStep(t)
      BY <3>2, StepEditsSet DEF Set!Moves
    <3> QED
      BY <2>1, <3>1, <3>2, ReturningEndsSet
  <2>2. CASE UNCHANGED tableVars
    BY <2>2, SetStutters DEF tableVars
  <2> QED
    BY <2>1, <2>2 DEF TableNext, Set!SetNext, Thread, Set!Thread
<1> QED
  BY <1>1, InitEmptiesSet, TableIsInvariant, ContentsAreInvariant, PTL
  DEF TableSpec, EditsSet, Set!SetSpec

(* While a thread clears the table, the plug loses the timer it deletes    *)
(* and no other.                                                           *)
THEOREM DeletionTakesOne == TableSpec => DeletesOne
<1>1. TableInv /\ ContentInv /\ [TableNext]_tableVars => [\A t \in Thread : TakesOne(t)]_tableVars
  <2> SUFFICES ASSUME TableInv, ContentInv, TableNext, NEW t \in Thread PROVE TakesOne(t)
    OBVIOUS
  <2> QED
    BY StepTakesOne, UnchangedTakesNone DEF TableNext, Start, Return
<1> QED
  BY <1>1, TableIsInvariant, ContentsAreInvariant, PTL DEF TableSpec, DeletesOne, TakesOne

(* A procedure is over after at most two commands for each slot of the     *)
(* plug and four steps more, whatever the other thread does: each of its   *)
(* steps shortens what is left, and no other step lengthens it.            *)
THEOREM ProceduresAreShort ==
    TableSpec => /\ [](\A t \in Thread : StepsLeft(t) \in 0 .. Slots + Slots + 4)
                 /\ [][\A t \in Thread : Shortens(t)]_tableVars
<1>1. TableInv /\ ContentInv => \A t \in Thread : StepsLeft(t) \in 0 .. Slots + Slots + 4
  BY StepsLeftInRange
<1>2. TableInv /\ ContentInv /\ [TableNext]_tableVars => [\A t \in Thread : Shortens(t)]_tableVars
  <2> SUFFICES ASSUME TableInv, ContentInv, NEW t \in Thread, Start(t) \/ PlugStep(t) \/ Return(t),
                      NEW u \in Thread
               PROVE  Shortens(u)
    BY DEF TableNext
  <2>1. CASE PlugStep(t)
    BY <2>1, StepShortens, StepSparesOther DEF Shortens
  <2>2. CASE Start(t) \/ Return(t)
    BY <2>2, OutsideShortens DEF Start, Return, Returned, Resting
  <2> QED
    BY <2>1, <2>2
<1> QED
  BY <1>1, <1>2, TableIsInvariant, ContentsAreInvariant, PTL DEF TableSpec
=============================================================================
