---------------------------- MODULE LeastNatural ----------------------------
(***************************************************************************)
(* The least element of a set of naturals, which are the next transitions  *)
(* of PollTiming and Reconcile, and what counting up from 0 reaches, for   *)
(* the recursive function of TimerTable.                                   *)
(***************************************************************************)
EXTENDS FiniteSetsExt, WellFoundedInduction, TLAPS

\* CHOOSE finds a least element of every set of naturals that has one.
LEMMA LeastIsNatural ==
    ASSUME NEW T, T \subseteq Nat, T # {}
    PROVE  Min(T) \in T /\ Min(T) \in Nat /\ \A t \in T : Min(T) <= t
<1> DEFINE R == OpToRel(<, Nat)
<1>1. PICK x \in T : \A y \in T : ~ (<<y, x>> \in R)
  BY NatLessThanWellFounded, WFMin
<1>2. R = {ss \in Nat \X Nat : ss[1] < ss[2]}
  BY DEF OpToRel
<1> HIDE DEF R
<1>3. ASSUME NEW y \in T
      PROVE  x <= y
  <2>1. x \in Nat /\ y \in Nat /\ ~ (<<y, x>> \in R)
    BY <1>1
  <2> QED
    BY <2>1, <1>2
<1> QED
  BY <1>1, <1>3 DEF Min

\* A set of naturals with 0 and the successor of each of its members up to k has them all.
LEMMA UpTo ==
    ASSUME NEW k \in Nat, NEW Good,
           0 \in Good, \A n \in 1 .. k : n - 1 \in Good => n \in Good
    PROVE  \A n \in 0 .. k : n \in Good
<1> DEFINE Bad == {n \in 0 .. k : n \notin Good}
<1> SUFFICES ASSUME Bad # {} PROVE FALSE
  OBVIOUS
<1>1. Bad \subseteq Nat
  OBVIOUS
<1>2. PICK m \in Bad : \A n \in Bad : m <= n
  BY <1>1, LeastIsNatural
<1>3. m \in 1 .. k /\ m - 1 \in 0 .. k /\ ~ (m <= m - 1)
  BY <1>2
<1>4. m - 1 \in Good
  BY <1>2, <1>3
<1> QED
  BY <1>2, <1>3, <1>4
=============================================================================
