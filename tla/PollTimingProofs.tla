-------------------------- MODULE PollTimingProofs --------------------------
(***************************************************************************)
(* The backoff, the flag, the wait for the next transition, and what a     *)
(* schedule and a time of day mean, for all schedules, timezones, poll     *)
(* intervals, and durations of the exchanges.                              *)
(***************************************************************************)
EXTENDS PollTiming, LeastNatural

LEMMA NextIsNatural ==
    ASSUME NEW zone, NEW windows, NEW m \in Nat
    PROVE  NextTransition(zone, windows, m) \in Nat \union {None}
<1> DEFINE changes == {t \in m + 1 .. m + LookaheadDays * DayMinutes :
                         Desired(zone, windows, t) # Desired(zone, windows, m)}
<1>1. changes \subseteq Nat
  OBVIOUS
<1>2. changes # {} => Min(changes) \in Nat
  BY <1>1, LeastIsNatural
<1> HIDE DEF changes
<1> QED
  BY <1>2 DEF NextTransition, changes

-----------------------------------------------------------------------------
\* The loop at the places where it is past the exchange that ended its outage, or had none.
Checking == lpc \in {"dst", "set"}
Checked  == lpc = "set" \/ (lpc = "sleep" /\ backoff = None)

Clocks ==
    /\ now \in 0 .. Horizon /\ config \in Config
    /\ lpc \in {"status", "poll", "dst", "set", "sleep"}
    /\ next \in Nat \union {None} /\ wait \in Nat
    /\ since \in (0 .. DstEvery) \union {None} /\ spent \in Nat

BackoffInv ==
    /\ backoff \in (1 .. MaxBackoff) \union {None}
    /\ Checking => backoff = None
    /\ BackoffBounded

\* A check that succeeded, and that no client has touched since, left the flag it wanted;
\* one that is due is made in the same turn.
FlagInv ==
    /\ since # None /\ ~touched /\ lpc # "set" => flag = want
    /\ Checked => since # None
    /\ Checked => since < DstEvery \/ spent > 0 \/ want = DstActive(config.zone, MinuteNow)

TimingInv == Clocks /\ BackoffInv /\ FlagInv

LEMMA InitTiming == Init => TimingInv
<1> SUFFICES ASSUME Init PROVE TimingInv
  OBVIOUS
<1>1. Clocks
  BY UnitAssumption, ScheduleAssumption DEF Init, Clocks
<1>2. BackoffInv
  BY UnitAssumption, ScheduleAssumption DEF Init, BackoffInv, BackoffBounded, Checking
<1>3. FlagInv
  BY DEF Init, FlagInv, Checked
<1> QED
  BY <1>1, <1>2, <1>3 DEF TimingInv

\* What the clock does while the loop waits.
LEMMA Waiting ==
    ASSUME Clocks, NEW d \in Nat, Takes(d)
    PROVE  /\ now' \in 0 .. Horizon /\ now' = now + d
           /\ Ages(d) => /\ since' \in (0 .. DstEvery) \union {None}
                         /\ since = None <=> since' = None
           /\ Least(d, DstEvery) \in 0 .. DstEvery
BY UnitAssumption, ScheduleAssumption DEF Clocks, Takes, Ages, Least

LEMMA ClampedIsNatural ==
    ASSUME Clocks, NEW w \in Nat, now' \in Nat
    PROVE  ClampToTransition(w, now') \in Nat
<1>1. At(next) \in Nat \/ next = None
  BY UnitAssumption DEF Clocks, At
<1> QED
  BY <1>1, UnitAssumption DEF ClampToTransition, Least

LEMMA MinuteInHorizon ==
    ASSUME Clocks
    PROVE  MinuteNow \in 0 .. Horizon
<1>1. now \in Nat /\ now <= Horizon /\ MinuteUnits \in Nat \ {0} /\ Horizon \in Nat
  BY UnitAssumption DEF Clocks
<1>2. now \div MinuteUnits \in Nat /\ now \div MinuteUnits <= now
  BY <1>1
<1> QED
  BY <1>1, <1>2 DEF MinuteNow

\* The next wait of an outage: doubled, but between the poll interval and the bound.
LEMMA BackoffGrows ==
    ASSUME Clocks, BackoffInv
    PROVE  /\ NextBackoff \in 1 .. MaxBackoff
           /\ NextBackoff >= Least(config.poll, MaxBackoff)
<1>1. config.poll \in Nat \ {0} /\ MaxBackoff \in Nat \ {0}
  BY UnitAssumption DEF Clocks, Config
<1>2. backoff \in (1 .. MaxBackoff) \union {None}
  BY DEF BackoffInv
<1> QED
  BY <1>1, <1>2, ScheduleAssumption DEF NextBackoff, Least, Most

LEMMA StatusKeepsTiming == TimingInv /\ Status => TimingInv'
<1> SUFFICES ASSUME TimingInv, Status PROVE TimingInv'
  OBVIOUS
<1>1. /\ lpc = "status" /\ lpc' = "poll" /\ config' \in Config /\ spent' = 0
      /\ UNCHANGED <<now, wait, backoff, flag, want, touched, since>>
  BY DEF Status, TimingInv, Clocks, dst
<1>2. next' \in Nat \union {None}
  <2>1. MinuteNow \in 0 .. Horizon
    BY MinuteInHorizon DEF TimingInv
  <2>2. next' = NextOf[config'.zone][config'.windows][MinuteNow]
    BY DEF Status
  <2>3. config'.zone \in Zones /\ config'.windows \in Schedules
    BY <1>1 DEF Config
  <2>4. next' = NextTransition(config'.zone, config'.windows, MinuteNow)
    BY <2>1, <2>2, <2>3 DEF NextOf
  <2> HIDE DEF MinuteNow
  <2> QED
    BY <2>1, <2>4, NextIsNatural
<1>3. Clocks'
  BY <1>1, <1>2 DEF TimingInv, Clocks
<1>4. BackoffInv'
  BY <1>1 DEF TimingInv, BackoffInv, BackoffBounded, Checking
<1>5. FlagInv'
  BY <1>1 DEF TimingInv, FlagInv, Checked
<1> QED
  BY <1>3, <1>4, <1>5 DEF TimingInv

LEMMA AnsweredKeepsTiming == TimingInv /\ Answered => TimingInv'
<1> SUFFICES ASSUME TimingInv, Answered PROVE TimingInv'
  OBVIOUS
<1>1. PICK d \in 0 .. MaxExchange : Takes(d) /\ Ages(d)
  BY DEF Answered
<1>2. d \in Nat
  BY UnitAssumption
<1>3. /\ now' \in 0 .. Horizon
      /\ since' \in (0 .. DstEvery) \union {None} /\ (since = None <=> since' = None)
  BY <1>1, <1>2, Waiting DEF TimingInv
<1>4. /\ lpc = "poll" /\ backoff' = None /\ lpc' = IF CheckDue THEN "dst" ELSE "sleep"
      /\ UNCHANGED <<config, next, flag, want, touched, spent>>
      /\ wait' = ClampToTransition(config.poll, now')
  BY DEF Answered, Clamp, dst
<1>5. wait' \in Nat
  <2>1. config.poll \in Nat
    BY UnitAssumption DEF TimingInv, Clocks, Config
  <2> QED
    BY <2>1, <1>3, <1>4, UnitAssumption, ClampedIsNatural DEF TimingInv
<1>6. Clocks'
  BY <1>3, <1>4, <1>5 DEF TimingInv, Clocks
<1>7. BackoffInv'
  BY <1>4 DEF BackoffInv, BackoffBounded
<1>8. lpc' = "sleep" => since' # None /\ since' < DstEvery
  BY <1>3, <1>4, UnitAssumption DEF CheckDue
<1>9. FlagInv'
  BY <1>3, <1>4, <1>8 DEF TimingInv, FlagInv, Checked
<1> QED
  BY <1>6, <1>7, <1>9 DEF TimingInv

LEMMA UnansweredKeepsTiming == TimingInv /\ Unanswered => TimingInv'
<1> SUFFICES ASSUME TimingInv, Unanswered PROVE TimingInv'
  OBVIOUS
<1>1. PICK d \in 0 .. MaxExchange : Takes(d) /\ Ages(d)
  BY DEF Unanswered
<1>2. d \in Nat
  BY UnitAssumption
<1>3. /\ now' \in 0 .. Horizon
      /\ since' \in (0 .. DstEvery) \union {None} /\ (since = None <=> since' = None)
  BY <1>1, <1>2, Waiting DEF TimingInv
<1>4. /\ lpc = "poll" /\ lpc' = "sleep" /\ backoff' = NextBackoff
      /\ UNCHANGED <<config, next, flag, want, touched, spent>>
      /\ wait' = ClampToTransition(NextBackoff, now')
  BY DEF Unanswered, Clamp, dst
<1>5. NextBackoff \in 1 .. MaxBackoff /\ NextBackoff >= Least(config.poll, MaxBackoff)
  BY BackoffGrows DEF TimingInv
<1>6. NextBackoff \in Nat /\ NextBackoff <= MaxBackoff /\ NextBackoff # None
  BY <1>5, UnitAssumption, ScheduleAssumption
<1> HIDE DEF NextBackoff
<1>7. Clocks'
  <2>1. wait' \in Nat
    BY <1>3, <1>4, <1>6, UnitAssumption, ClampedIsNatural DEF TimingInv
  <2> QED
    BY <2>1, <1>3, <1>4 DEF TimingInv, Clocks
<1>8. BackoffInv'
  BY <1>4, <1>5, <1>6 DEF BackoffInv, BackoffBounded, Checking
<1>9. FlagInv'
  BY <1>3, <1>4, <1>6 DEF TimingInv, FlagInv, Checked
<1> QED
  BY <1>7, <1>8, <1>9 DEF TimingInv

LEMMA DstReadKeepsTiming == TimingInv /\ DstRead => TimingInv'
<1> SUFFICES ASSUME TimingInv, DstRead PROVE TimingInv'
  OBVIOUS
<1>1. PICK d \in 0 .. MaxExchange : Takes(d) /\ since' = Least(d, DstEvery) /\ spent' = d
  BY DEF DstRead
<1>2. d \in Nat
  BY UnitAssumption
<1>3. now' \in 0 .. Horizon /\ now' = now + d /\ since' \in 0 .. DstEvery
  BY <1>1, <1>2, Waiting DEF TimingInv
<1>4. /\ lpc = "dst" /\ want' = DstActive(config.zone, MinuteNow)
      /\ UNCHANGED <<config, next, wait, backoff, flag>>
      /\ \/ lpc' = (IF flag = want' THEN "sleep" ELSE "set") /\ touched' = FALSE
         \/ lpc' = "sleep" /\ touched' = TRUE
  BY DEF DstRead
<1>5. Clocks'
  BY <1>1, <1>2, <1>3, <1>4 DEF TimingInv, Clocks
<1>6. BackoffInv'
  BY <1>4 DEF TimingInv, BackoffInv, BackoffBounded, Checking
<1>7. since' # None
  BY <1>3, ScheduleAssumption, UnitAssumption
<1>8. ~touched' /\ lpc' # "set" => flag' = want'
  BY <1>4
<1>9. spent' > 0 \/ want' = DstActive(config'.zone, MinuteNow')
  <2>1. CASE d = 0
    <3>1. now' = now
      BY <2>1, <1>3 DEF TimingInv, Clocks
    <3>2. MinuteNow' = MinuteNow
      BY <3>1 DEF MinuteNow
    <3> QED
      BY <3>2, <1>4
  <2> QED
    BY <2>1, <1>1, <1>2
<1>10. FlagInv'
  BY <1>7, <1>8, <1>9 DEF FlagInv
<1> QED
  BY <1>5, <1>6, <1>10 DEF TimingInv

LEMMA DstSetKeepsTiming == TimingInv /\ DstSet => TimingInv'
<1> SUFFICES ASSUME TimingInv, DstSet PROVE TimingInv'
  OBVIOUS
<1>1. PICK d \in 0 .. MaxExchange : Takes(d) /\ Ages(d) /\ spent' = spent + d
  BY DEF DstSet
<1>2. d \in Nat
  BY UnitAssumption
<1>3. /\ now' \in 0 .. Horizon /\ now' = now + d
      /\ since' \in (0 .. DstEvery) \union {None} /\ (since = None <=> since' = None)
  BY <1>1, <1>2, Waiting DEF TimingInv
<1>4. /\ lpc = "set" /\ lpc' = "sleep"
      /\ UNCHANGED <<config, next, wait, backoff, want>>
      /\ \/ flag' = want /\ UNCHANGED touched
         \/ touched' = TRUE
  BY DEF DstSet
<1>5. Clocks'
  BY <1>1, <1>2, <1>3, <1>4 DEF TimingInv, Clocks
<1>6. BackoffInv'
  BY <1>4 DEF TimingInv, BackoffInv, BackoffBounded, Checking
<1>7. since' # None
  BY <1>3, <1>4 DEF TimingInv, FlagInv, Checked
<1>8. ~touched' => flag' = want'
  BY <1>4
<1>9. since' < DstEvery \/ spent' > 0 \/ want' = DstActive(config'.zone, MinuteNow')
  <2>1. CASE d = 0
    <3>1. now' = now /\ spent' = spent /\ since' = since
      BY <2>1, <1>1, <1>3, UnitAssumption DEF TimingInv, Clocks, Ages, Least
    <3>2. MinuteNow' = MinuteNow
      BY <3>1 DEF MinuteNow
    <3> QED
      BY <3>1, <3>2, <1>4 DEF TimingInv, FlagInv, Checked
  <2>2. CASE d # 0
    BY <2>2, <1>1, <1>2 DEF TimingInv, Clocks
  <2> QED
    BY <2>1, <2>2
<1>10. FlagInv'
  BY <1>7, <1>8, <1>9 DEF FlagInv
<1> QED
  BY <1>5, <1>6, <1>10 DEF TimingInv

LEMMA ClientKeepsTiming == TimingInv /\ ClientSetsDst => TimingInv'
<1> SUFFICES ASSUME TimingInv, ClientSetsDst PROVE TimingInv'
  OBVIOUS
<1>1. /\ touched' = TRUE
      /\ UNCHANGED <<now, config, lpc, next, wait, backoff, since, want, spent>>
  BY DEF ClientSetsDst
<1>2. Clocks' /\ BackoffInv'
  BY <1>1 DEF TimingInv, Clocks, BackoffInv, BackoffBounded, Checking
<1>3. MinuteNow' = MinuteNow
  BY <1>1 DEF MinuteNow
<1>4. FlagInv'
  BY <1>1, <1>3 DEF TimingInv, FlagInv, Checked
<1> QED
  BY <1>2, <1>4 DEF TimingInv

LEMMA SleepKeepsTiming ==
    ASSUME TimingInv, NEW d \in Nat, SleepEnds(d)
    PROVE  TimingInv'
<1>1. Takes(d) /\ Ages(d)
  BY DEF SleepEnds
<1>2. /\ now' \in 0 .. Horizon
      /\ since' \in (0 .. DstEvery) \union {None} /\ (since = None <=> since' = None)
  BY <1>1, Waiting DEF TimingInv
<1>3. /\ lpc = "sleep" /\ lpc' = "status" /\ wait' = 0
      /\ UNCHANGED <<config, next, backoff, flag, want, touched, spent>>
  BY DEF SleepEnds, dst
<1>4. Clocks'
  BY <1>2, <1>3 DEF TimingInv, Clocks
<1>5. BackoffInv' /\ FlagInv'
  BY <1>2, <1>3 DEF TimingInv, BackoffInv, BackoffBounded, FlagInv, Checking, Checked
<1> QED
  BY <1>4, <1>5 DEF TimingInv

LEMMA NextKeepsTiming == TimingInv /\ [Next]_vars => TimingInv'
<1> SUFFICES ASSUME TimingInv, [Next]_vars PROVE TimingInv'
  OBVIOUS
<1>1. CASE Status
  BY <1>1, StatusKeepsTiming
<1>2. CASE Answered
  BY <1>2, AnsweredKeepsTiming
<1>3. CASE Unanswered
  BY <1>3, UnansweredKeepsTiming
<1>4. CASE DstRead
  BY <1>4, DstReadKeepsTiming
<1>5. CASE DstSet
  BY <1>5, DstSetKeepsTiming
<1>6. CASE ClientSetsDst
  BY <1>6, ClientKeepsTiming
<1>7. CASE Slept
  BY <1>7, SleepKeepsTiming DEF Slept, TimingInv, Clocks
<1>8. CASE Woken
  <2>1. PICK d \in 0 .. wait : SleepEnds(d)
    BY <1>8 DEF Woken
  <2>2. d \in Nat
    BY DEF TimingInv, Clocks
  <2> QED
    BY <2>1, <2>2, SleepKeepsTiming
<1>9. CASE UNCHANGED vars
  <2>1. UNCHANGED <<now, config, lpc, next, wait, backoff, flag, want, touched, since, spent>>
    BY <1>9 DEF vars, dst
  <2>2. MinuteNow' = MinuteNow
    BY <2>1 DEF MinuteNow
  <2> QED
    BY <2>1, <2>2
    DEF TimingInv, Clocks, BackoffInv, BackoffBounded, FlagInv, Checking, Checked
<1> QED
  BY <1>1, <1>2, <1>3, <1>4, <1>5, <1>6, <1>7, <1>8, <1>9 DEF Next

LEMMA TimingIsInvariant == Spec => []TimingInv
BY InitTiming, NextKeepsTiming, PTL DEF Spec

(* While the plug does not answer, it is asked at least every MAX_BACKOFF, *)
(* and never more often than the poll interval or that bound, whatever the *)
(* reloads of the poll interval between two failures were.                 *)
THEOREM BackoffStaysBounded == Spec => []BackoffBounded
<1>1. TimingInv => BackoffBounded
  BY DEF TimingInv, BackoffInv
<1> QED
  BY <1>1, TimingIsInvariant, PTL

(* At every sleep of an answering plug its flag is what the timezone says, *)
(* unless the last check failed, a client has set it since, or local time  *)
(* changed after a check made less than an hour ago or in this very turn.  *)
THEOREM FlagIsKept == Spec => []FlagFollowsZone
<1>1. TimingInv => FlagFollowsZone
  <2> SUFFICES ASSUME TimingInv, lpc = "sleep", backoff = None, ~touched
               PROVE  \/ flag = DstActive(config.zone, MinuteNow)
                      \/ want # DstActive(config.zone, MinuteNow) /\ (since < DstEvery \/ spent > 0)
    BY DEF FlagFollowsZone
  <2>1. since # None /\ flag = want
    BY DEF TimingInv, FlagInv, Checked
  <2>2. since < DstEvery \/ spent > 0 \/ want = DstActive(config.zone, MinuteNow)
    BY DEF TimingInv, FlagInv, Checked
  <2> QED
    BY <2>1, <2>2
<1> QED
  BY <1>1, TimingIsInvariant, PTL

-----------------------------------------------------------------------------
(* The schedule at every instant.                                          *)

\* Quotient and remainder, which the prover knows little of when the divisor is a constant.
LEMMA Divides ==
    ASSUME NEW n \in Int, NEW w \in Nat \ {0}
    PROVE  /\ n \div w \in Int /\ n % w \in 0 .. w - 1
           /\ n = w * (n \div w) + (n % w)
OBVIOUS

LEMMA ProductMonotone ==
    ASSUME NEW a \in Int, NEW b \in Int, NEW w \in Nat \ {0}, a < b
    PROVE  w * a + w <= w * b
<1>1. a + 1 <= b
  OBVIOUS
<1>2. PICK e \in Nat : b = a + 1 + e
  <2>1. b - a - 1 \in Nat /\ b = a + 1 + (b - a - 1)
    BY <1>1
  <2> QED
    BY <2>1
<1>3. w * b = w * a + w + w * e /\ w * e \in Nat
  BY <1>2
<1> QED
  BY <1>3

LEMMA QuotientIsUnique ==
    ASSUME NEW n \in Int, NEW w \in Nat \ {0}, NEW k \in Int, NEW r \in 0 .. w - 1,
           n = w * k + r
    PROVE  n \div w = k /\ n % w = r
<1> DEFINE q == n \div w
<1>1. q \in Int /\ n % w \in 0 .. w - 1 /\ n = w * q + (n % w)
  BY Divides
<1> HIDE DEF q
<1>2. w * q \in Int /\ w * k \in Int
  BY <1>1
<1>3. q < k => w * q + w <= w * k
  BY <1>1, ProductMonotone
<1>4. k < q => w * k + w <= w * q
  BY <1>1, ProductMonotone
<1>5. q = k
  BY <1>1, <1>2, <1>3, <1>4
<1> QED
  BY <1>1, <1>2, <1>5 DEF q

\* The weekday before that of a day.
LEMMA DayBefore ==
    ASSUME NEW q \in Int
    PROVE  (q - 1) % WeekDays = Pred(q % WeekDays)
<1> DEFINE w == WeekDays
           s == q % w
           k == q \div w
<1>0. w \in Nat \ {0}
  BY CalendarAssumption
<1> HIDE DEF w
<1>1. k \in Int /\ s \in 0 .. w - 1 /\ q = w * k + s
  BY <1>0, Divides
<1> HIDE DEF s, k
<1>2. w * k \in Int /\ w * (k - 1) = w * k - w
  BY <1>0, <1>1
<1>3. CASE s = 0
  <2>1. (q - 1) % w = w - 1
    BY <1>0, <1>1, <1>2, <1>3, QuotientIsUnique
  <2>2. (s + w - 1) % w = w - 1
    <3>1. s + w - 1 = w * 0 + (w - 1) /\ s + w - 1 \in Int /\ w - 1 \in 0 .. w - 1
      BY <1>0, <1>3
    <3> QED
      BY <1>0, <3>1, QuotientIsUnique
  <2> QED
    BY <2>1, <2>2 DEF Pred, s, w
<1>4. CASE s # 0
  <2>1. (q - 1) % w = s - 1
    BY <1>0, <1>1, <1>2, <1>4, QuotientIsUnique
  <2>2. (s + w - 1) % w = s - 1
    <3>1. s + w - 1 = w * 1 + (s - 1) /\ s + w - 1 \in Int /\ s - 1 \in 0 .. w - 1
      BY <1>0, <1>1, <1>4
    <3> QED
      BY <1>0, <3>1, QuotientIsUnique
  <2> QED
    BY <2>1, <2>2 DEF Pred, s, w
<1> QED
  BY <1>3, <1>4

\* A window contains a local minute when it is in force then.
LEMMA ContainsIsOccurs ==
    ASSUME NEW w \in Window, NEW local \in Nat
    PROVE  Contains(w, DayOf(local), MinuteIn(local)) <=> Occurs(w, local)
<1> DEFINE D == DayMinutes
           q == local \div D
           r == local % D
           P == q * D
<1>1. D \in Nat \ {0} /\ q \in Int /\ r \in 0 .. D - 1 /\ P \in Int
  BY CalendarAssumption, Divides
<1>2. local = P + r /\ (q - 1) * D = P - D
  <2>1. local = D * q + r
    BY CalendarAssumption, Divides
  <2> HIDE DEF q, r
  <2> QED
    BY <1>1, <2>1
<1>3. DayOf(local) = q % WeekDays /\ MinuteIn(local) = r /\ Pred(DayOf(local)) = (q - 1) % WeekDays
  BY <1>1, DayBefore DEF DayOf, MinuteIn
<1>4. /\ w.start \in 0 .. D - 1 /\ w.end \in 0 .. D - 1 /\ w.start # w.end
  BY DEF Window, MinuteOfDay
<1>5. Occurs(w, local) <=>
        \/ /\ (q - 1) % WeekDays \in w.days
           /\ local >= P - D + w.start
           /\ local < P - D + w.end + IF w.end < w.start THEN D ELSE 0
        \/ /\ q % WeekDays \in w.days
           /\ local >= P + w.start
           /\ local < P + w.end + IF w.end < w.start THEN D ELSE 0
  BY <1>2 DEF Occurs
<1> HIDE DEF D, q, r, P
<1>6. CASE w.end < w.start
  BY <1>1, <1>2, <1>3, <1>4, <1>5, <1>6 DEF Contains, CrossesMidnight
<1>7. CASE ~(w.end < w.start)
  BY <1>1, <1>2, <1>3, <1>4, <1>5, <1>7 DEF Contains, CrossesMidnight
<1> QED
  BY <1>6, <1>7

(* A window is in force from its start on each of its days until its end   *)
(* next comes, for all lengths of day and week, and all offsets.           *)
THEOREM WindowsMeanInstants == Spec => []WindowsAsMeant
<1>1. TimingInv => WindowsAsMeant
  <2> SUFFICES ASSUME TimingInv,
                      NEW w \in config.windows
               PROVE  LET local == Local(config.zone, MinuteNow)
                      IN  Contains(w, DayOf(local), MinuteIn(local)) <=> Occurs(w, local)
    BY DEF WindowsAsMeant, Desired
  <2>1. config.zone \in Zone /\ w \in Window
    BY ScheduleAssumption DEF TimingInv, Clocks, Config
  <2>2. MinuteNow \in Nat
    BY MinuteInHorizon, UnitAssumption DEF TimingInv
  <2> HIDE DEF MinuteNow
  <2>3. Local(config.zone, MinuteNow) \in Nat
    BY <2>1, <2>2 DEF Local, Zone
  <2> QED
    BY <2>1, <2>3, ContainsIsOccurs
<1> QED
  BY <1>1, TimingIsInvariant, PTL

-----------------------------------------------------------------------------
(* A time of day given on the command line.                                *)

\* The earlier of two instants.
LEMMA LeastOfTwo ==
    ASSUME NEW a \in Int, NEW b \in Int, NEW S, S \subseteq {a, b}, S # {}
    PROVE  Min(S) \in S
<1>1. \E x \in S : \A y \in S : x <= y
  <2>1. CASE a \in S /\ b \in S
    BY <2>1
  <2>2. CASE a \notin S
    <3>1. S = {b}
      BY <2>2
    <3> QED
      BY <3>1
  <2>3. CASE b \notin S
    <3>1. S = {a}
      BY <2>3
    <3> QED
      BY <3>1
  <2> QED
    BY <2>1, <2>2, <2>3
<1> QED
  BY <1>1 DEF Min

\* The candidates of a date, from the local minute they are for.
LEMMA MinutesOfDate ==
    ASSUME NEW zone \in Zone, NEW date \in Int, NEW minute \in Int, NEW l \in Int,
           DayMinutes \in Int, l = date * DayMinutes + minute, NEW x
    PROVE  x \in MinutesOf(zone, date, minute) <=>
             (x = l - zone.before \/ x = l - zone.after) /\ Local(zone, x) = l
BY DEF MinutesOf, Zone

\* A timezone whose offset changes by less than a day, as all do.
LessThanADay(zone) ==
    zone.before - zone.after < DayMinutes /\ zone.after - zone.before < DayMinutes

\* The next day, or the one after it when the offset shrinks, has the time of day.
LEMMA OccurrenceComes ==
    ASSUME NEW zone \in Zone, LessThanADay(zone), NEW m \in Nat, NEW minute \in MinuteOfDay
    PROVE  NextOccurrence(zone, m, minute) \in Nat
<1> DEFINE D == DayMinutes
           b == zone.before
           a == zone.after
           c == zone.change
           today == Local(zone, m) \div D
           L(k) == (today + k) * D + minute
           Earliest(k) == MinutesOf(zone, today + k, minute)
           good == {k \in DaysTried : Earliest(k) # {} /\ Min(Earliest(k)) > m}
<1>1. D \in Nat \ {0} /\ a \in Nat /\ b \in Nat /\ c \in Nat /\ minute \in 0 .. D - 1
  BY CalendarAssumption DEF Zone, MinuteOfDay
<1>2. b - a < D /\ a - b < D
  BY DEF LessThanADay
<1>3. Local(zone, m) = m + IF m < c THEN b ELSE a
  BY DEF Local
<1>4. today \in Int /\ \E r \in 0 .. D - 1 : Local(zone, m) = D * today + r
  <2>1. Local(zone, m) \in Int
    BY <1>1, <1>3
  <2> QED
    BY <1>1, <2>1, Divides
<1>5. \A k \in DaysTried : \A x : x \in Earliest(k) <=>
        (x = L(k) - b \/ x = L(k) - a) /\ Local(zone, x) = L(k)
  <2> SUFFICES ASSUME NEW k \in DaysTried, NEW x
               PROVE  x \in Earliest(k) <=>
                        (x = L(k) - b \/ x = L(k) - a) /\ Local(zone, x) = L(k)
    OBVIOUS
  <2>1. today + k \in Int /\ minute \in Int /\ D \in Int
    BY <1>1, <1>4 DEF DaysTried
  <2> HIDE DEF today
  <2>2. L(k) \in Int
    BY <2>1
  <2> DEFINE date == today + k
             l == L(k)
  <2>3. date \in Int /\ l \in Int /\ l = date * DayMinutes + minute
    BY <2>1, <2>2
  <2> HIDE DEF date, l
  <2>4. x \in MinutesOf(zone, date, minute) <=>
          (x = l - zone.before \/ x = l - zone.after) /\ Local(zone, x) = l
    BY <2>1, <2>3, MinutesOfDate
  <2> QED
    BY <2>4 DEF date, l
<1>6. \A x \in Int : Local(zone, x) = x + IF x < c THEN b ELSE a
  BY DEF Local
<1> HIDE DEF today, D, a, b, c
<1>7. /\ L(0) \in Int /\ L(1) = L(0) + D /\ L(2) = L(0) + D + D
      /\ L(0) = D * today + minute /\ D * today \in Int
  BY <1>1, <1>4
<1>8. /\ L(1) \in Int /\ L(2) = L(1) + D /\ Local(zone, m) < L(1)
  BY <1>1, <1>4, <1>7
<1> HIDE DEF L
<1>9. 1 \in DaysTried /\ 2 \in DaysTried /\ DaysTried \subseteq Nat
  BY DEF DaysTried
<1>10. ASSUME NEW k \in {1, 2},
              L(k) - b < c \/ L(k) - a >= c,
              a >= b \/ k = 2
       PROVE  k \in good
  <2>1. L(k) \in Int /\ Local(zone, m) < L(k) /\ (k = 2 => Local(zone, m) + D < L(k))
    BY <1>1, <1>3, <1>8
  <2>2. Earliest(k) # {} /\ Earliest(k) \subseteq {L(k) - b, L(k) - a}
    BY <1>1, <1>5, <1>6, <1>9, <1>10, <2>1
  <2>3. \A x \in Earliest(k) : x > m
    BY <1>1, <1>2, <1>3, <1>5, <1>6, <1>9, <1>10, <2>1
  <2>4. Min(Earliest(k)) \in Earliest(k)
    BY <1>1, <2>1, <2>2, LeastOfTwo
  <2> QED
    BY <1>9, <2>2, <2>3, <2>4
<1>11. 1 \in good \/ 2 \in good
  <2>1. CASE a >= b /\ (L(1) - b < c \/ L(1) - a >= c)
    BY <2>1, <1>10
  <2>2. CASE a >= b /\ ~(L(1) - b < c \/ L(1) - a >= c)
    BY <2>2, <1>1, <1>2, <1>8, <1>10
  <2>3. CASE ~(a >= b)
    BY <2>3, <1>1, <1>2, <1>8, <1>10
  <2> QED
    BY <2>1, <2>2, <2>3
<1>12. good # {} /\ Min(good) \in good
  <2>1. good \subseteq Nat
    BY <1>9
  <2> HIDE DEF good
  <2> QED
    BY <1>11, <2>1, LeastIsNatural
<1>13. Min(Earliest(Min(good))) \in Int /\ Min(Earliest(Min(good))) > m
  <2> DEFINE k == Min(good)
  <2>1. k \in DaysTried /\ Earliest(k) # {} /\ Min(Earliest(k)) > m
    BY <1>12
  <2>2. k \in Nat
    BY <2>1, <1>9
  <2> HIDE DEF k, good
  <2>3. L(k) \in Int
    BY <2>2, <1>1, <1>4 DEF L
  <2>4. Earliest(k) \subseteq {L(k) - b, L(k) - a}
    BY <2>1, <1>5
  <2>5. Min(Earliest(k)) \in Earliest(k)
    BY <1>1, <2>1, <2>3, <2>4, LeastOfTwo
  <2> QED
    BY <1>1, <2>1, <2>3, <2>4, <2>5 DEF k
<1> QED
  BY <1>12, <1>13 DEF NextOccurrence, today, D

(* A time of day comes within the days tried, also when a day skips it or  *)
(* has it twice, wherever the offset changes by less than a day.           *)
THEOREM OccurrenceIsFound ==
    ASSUME \A zone \in Zones : LessThanADay(zone)
    PROVE  Spec => []OccurrenceFound
<1>1. TimingInv => OccurrenceFound
  <2> SUFFICES ASSUME TimingInv, NEW minute \in MinuteOfDay
               PROVE  NextOccurrence(config.zone, MinuteNow, minute) # None
    BY DEF OccurrenceFound
  <2>1. config.zone \in Zone /\ LessThanADay(config.zone)
    BY ScheduleAssumption DEF TimingInv, Clocks, Config
  <2>2. MinuteNow \in Nat
    BY MinuteInHorizon, UnitAssumption DEF TimingInv
  <2> HIDE DEF MinuteNow
  <2> QED
    BY <2>1, <2>2, OccurrenceComes, ScheduleAssumption
<1> QED
  BY <1>1, TimingIsInvariant, PTL

-----------------------------------------------------------------------------
(* The wait for the next transition.                                       *)

\* The longest the loop may wait.
Longest == Most(config.poll, MaxBackoff)

\* The search for the next transition reaches as far as a turn may.
LooksFarEnough ==
    \A p \in Polls :
      MinuteUnits + MaxExchange + Most(p, MaxBackoff) <= At(LookaheadDays * DayMinutes)

\* No timezone changes its offset.
OffsetsStay == \A zone \in Zones : zone.before = zone.after

Waited == lpc \in {"dst", "set", "sleep"}

\* st.next is that of the status; the wait was computed no later than one exchange
\* after it, and ends by the next transition, unless that had passed by then.
WaitInv ==
    /\ asked \in 0 .. Horizon
    /\ lpc # "status" => next = NextTransition(config.zone, config.windows, asked)
    /\ lpc \in {"poll", "dst"} => spent = 0
    /\ lpc = "set" => spent <= MaxExchange
    /\ spent <= 2 * MaxExchange
    /\ lpc = "poll" => now < At(asked) + MinuteUnits
    /\ Waited => /\ now <= At(asked) + MinuteUnits + MaxExchange + spent
                 /\ wait <= Longest
                 /\ ~overtaken /\ next # None => now + wait <= At(next) + Margin + spent

\* An instant counted in units.
LEMMA AtIsNatural ==
    ASSUME NEW m \in Nat
    PROVE  At(m) \in Nat
BY UnitAssumption DEF At

\* The wait is cut so that it ends with the margin after the transition.
LEMMA WaitedLeast ==
    ASSUME Clocks, NEW w \in Nat, w <= Longest, now' \in Nat, Clamp(w)
    PROVE  /\ wait' <= Longest
           /\ ~overtaken' /\ next # None => now' + wait' <= At(next) + Margin
<1>1. At(next) \in Nat \/ next = None
  BY AtIsNatural DEF Clocks
<1>2. Margin \in Nat /\ Longest \in Nat
  BY UnitAssumption DEF Clocks, Config, Longest, Most
<1>3. /\ wait' = ClampToTransition(w, now')
      /\ overtaken' = (next # None /\ At(next) < now')
  BY DEF Clamp
<1> HIDE DEF Longest, At
<1>4. CASE next # None /\ At(next) >= now'
  BY <1>1, <1>2, <1>3, <1>4 DEF ClampToTransition, Least
<1>5. CASE next # None /\ ~(At(next) >= now')
  <2>1. wait' = w /\ At(next) < now'
    BY <1>1, <1>3, <1>5 DEF ClampToTransition
  <2>2. overtaken'
    BY <1>3, <1>5, <2>1
  <2> QED
    BY <2>1, <2>2
<1>6. CASE next = None
  BY <1>3, <1>6 DEF ClampToTransition
<1> QED
  BY <1>4, <1>5, <1>6

LEMMA NextKeepsWait == TimingInv /\ WaitInv /\ [Next]_vars => WaitInv'
<1> SUFFICES ASSUME TimingInv, WaitInv, [Next]_vars PROVE WaitInv'
  OBVIOUS
<1>0. /\ MinuteUnits \in Nat \ {0} /\ MaxExchange \in Nat /\ Horizon \in Nat /\ Margin \in Nat
      /\ config.poll \in Nat \ {0} /\ MaxBackoff \in Nat \ {0} /\ spent \in Nat /\ now \in Nat
      /\ At(asked) \in Nat /\ wait \in Nat /\ (next # None => At(next) \in Nat)
  <2>1. /\ now \in 0 .. Horizon /\ asked \in 0 .. Horizon /\ config \in Config
        /\ next \in Nat \union {None} /\ wait \in Nat /\ spent \in Nat
    BY DEF TimingInv, Clocks, WaitInv
  <2>2. config.poll \in Polls
    BY <2>1 DEF Config
  <2>3. config.poll \in Nat \ {0}
    BY <2>2, UnitAssumption
  <2>4. asked \in Nat /\ now \in Nat
    BY <2>1, UnitAssumption
  <2> QED
    BY <2>1, <2>3, <2>4, UnitAssumption, AtIsNatural
<1>1. CASE Status
  <2>1. MinuteNow \in 0 .. Horizon
    BY MinuteInHorizon DEF TimingInv
  <2>2. /\ lpc = "status" /\ lpc' = "poll" /\ config' \in Config /\ spent' = 0 /\ now' = now
        /\ asked' = MinuteNow /\ next' = NextOf[config'.zone][config'.windows][MinuteNow]
    BY <1>1 DEF Status, TimingInv, Clocks
  <2>3. config'.zone \in Zones /\ config'.windows \in Schedules
    BY <2>2 DEF Config
  <2>4. next' = NextTransition(config'.zone, config'.windows, MinuteNow)
    BY <2>1, <2>2, <2>3 DEF NextOf
  <2>5. now < At(MinuteNow) + MinuteUnits
    <3>1. /\ now \div MinuteUnits \in Int /\ now % MinuteUnits \in 0 .. MinuteUnits - 1
          /\ now = MinuteUnits * (now \div MinuteUnits) + (now % MinuteUnits)
      BY <1>0, Divides
    <3> DEFINE q == now \div MinuteUnits
               r == now % MinuteUnits
    <3>2. At(q) = MinuteUnits * q
      BY <1>0, <3>1 DEF At
    <3> HIDE DEF q, r
    <3> QED
      BY <1>0, <3>1, <3>2, AtIsNatural DEF MinuteNow, q, r, At
  <2> HIDE DEF MinuteNow
  <2> QED
    BY <1>0, <2>1, <2>2, <2>4, <2>5 DEF WaitInv, Waited, At
<1>2. ASSUME NEW d \in 0 .. MaxExchange, Takes(d), NEW w \in Nat, w <= Longest, Clamp(w),
             lpc = "poll", lpc' \in {"dst", "sleep"}, UNCHANGED <<config, next, spent, asked>>
      PROVE  WaitInv'
  <2>1. now' = now + d /\ d \in Nat /\ d <= MaxExchange /\ now' \in Nat
    BY <1>0, <1>2 DEF Takes
  <2>2. /\ wait' <= Longest
        /\ ~overtaken' /\ next # None => now' + wait' <= At(next) + Margin
    BY <1>2, <2>1, WaitedLeast DEF TimingInv
  <2>3. Longest' = Longest
    BY <1>2 DEF Longest
  <2>4. now < At(asked) + MinuteUnits /\ spent = 0
    BY <1>2 DEF WaitInv
  <2>5. /\ asked' = asked /\ next' = next /\ config' = config /\ spent' = spent
        /\ At(asked') = At(asked) /\ At(next') = At(next)
    BY <1>2 DEF At
  <2> HIDE DEF At, Longest
  <2>6. Waited' => /\ now' <= At(asked') + MinuteUnits + MaxExchange + spent'
                   /\ wait' <= Longest'
                   /\ ~overtaken' /\ next' # None => now' + wait' <= At(next') + Margin + spent'
    BY <1>0, <2>1, <2>2, <2>3, <2>4, <2>5
  <2>7. /\ asked' \in 0 .. Horizon
        /\ next' = NextTransition(config'.zone, config'.windows, asked')
        /\ spent' = 0
    BY <1>2, <2>4, <2>5 DEF WaitInv
  <2> QED
    BY <1>0, <1>2, <2>6, <2>7 DEF WaitInv
<1>3. CASE Answered
  <2>1. config.poll \in Nat /\ config.poll <= Longest
    BY <1>0 DEF Longest, Most
  <2> QED
    BY <1>2, <1>3, <2>1 DEF Answered
<1>4. CASE Unanswered
  <2>1. NextBackoff \in 1 .. MaxBackoff
    BY BackoffGrows DEF TimingInv
  <2>2. NextBackoff \in Nat /\ NextBackoff <= Longest
    BY <1>0, <2>1 DEF Longest, Most
  <2> QED
    BY <1>2, <1>4, <2>2 DEF Unanswered
<1>5. ASSUME NEW d \in 0 .. MaxExchange, Takes(d), spent' = spent + d,
             lpc \in {"dst", "set"}, lpc' \in {"set", "sleep"}, lpc = "set" => lpc' = "sleep",
             UNCHANGED <<config, next, wait, overtaken, asked>>
      PROVE  WaitInv'
  <2>1. now' = now + d /\ d \in Nat /\ d <= MaxExchange
    BY <1>0, <1>5 DEF Takes
  <2>2. Longest' = Longest /\ At(asked') = At(asked) /\ At(next') = At(next)
    BY <1>5 DEF Longest, At
  <2> HIDE DEF At, Longest
  <2>3. /\ now' <= At(asked') + MinuteUnits + MaxExchange + spent'
        /\ wait' <= Longest'
        /\ ~overtaken' /\ next' # None => now' + wait' <= At(next') + Margin + spent'
    BY <1>0, <1>5, <2>1, <2>2 DEF WaitInv, Waited
  <2>4. /\ lpc' = "set" => spent' <= MaxExchange
        /\ spent' <= 2 * MaxExchange
    BY <1>0, <1>5, <2>1 DEF WaitInv
  <2> QED
    BY <1>5, <2>3, <2>4 DEF WaitInv
<1>6. CASE DstRead
  <2>1. PICK d \in 0 .. MaxExchange : Takes(d) /\ spent' = d
    BY <1>6 DEF DstRead
  <2>2. lpc = "dst" /\ spent = 0 /\ lpc' \in {"set", "sleep"}
        /\ UNCHANGED <<config, next, wait, overtaken, asked>>
    BY <1>6 DEF DstRead, WaitInv
  <2>3. spent' = spent + d
    BY <1>0, <2>1, <2>2
  <2> QED
    BY <1>5, <2>1, <2>2, <2>3
<1>7. CASE DstSet
  BY <1>5, <1>7 DEF DstSet
<1>8. ASSUME NEW d \in Nat, SleepEnds(d)
      PROVE  WaitInv'
  <2>1. lpc' = "status" /\ UNCHANGED <<spent, asked>>
    BY <1>8 DEF SleepEnds
  <2> QED
    BY <2>1 DEF WaitInv, Waited
<1>9. CASE Slept
  BY <1>0, <1>8, <1>9 DEF Slept
<1>10. CASE Woken
  <2>1. PICK d \in 0 .. wait : SleepEnds(d)
    BY <1>10 DEF Woken
  <2> QED
    BY <1>0, <1>8, <2>1
<1>11. CASE ClientSetsDst \/ UNCHANGED vars
  <2>1. UNCHANGED <<now, config, lpc, next, wait, overtaken, spent, asked>>
    BY <1>11 DEF ClientSetsDst, vars
  <2> QED
    BY <2>1 DEF WaitInv, Waited, Longest, At
<1> QED
  BY <1>1, <1>3, <1>4, <1>6, <1>7, <1>9, <1>10, <1>11 DEF Next

LEMMA WaitIsInvariant == Spec => [](TimingInv /\ WaitInv)
<1>1. Init => WaitInv
  BY UnitAssumption DEF Init, WaitInv, Waited
<1> QED
  BY <1>1, InitTiming, NextKeepsTiming, NextKeepsWait, PTL DEF Spec

\* The order of instants is that of their minutes.
LEMMA AtIsMonotone ==
    ASSUME NEW m \in Nat, NEW n \in Nat, At(m) < At(n)
    PROVE  m < n
<1>1. MinuteUnits \in Nat \ {0} /\ At(m) = MinuteUnits * m /\ At(n) = MinuteUnits * n
  BY UnitAssumption DEF At
<1>2. n < m => MinuteUnits * n + MinuteUnits <= MinuteUnits * m
  BY <1>1, ProductMonotone
<1>3. MinuteUnits * m \in Nat /\ MinuteUnits * n \in Nat
  BY <1>1
<1> QED
  BY <1>1, <1>2, <1>3

\* Before the next transition, and as far as it was looked for, nothing changes.
LEMMA SameUntilNext ==
    ASSUME NEW zone, NEW windows, NEW m \in Nat, NEW t \in Nat,
           m < t, t <= m + LookaheadDays * DayMinutes,
           LET n == NextTransition(zone, windows, m)
           IN  n = None \/ t < n
    PROVE  Desired(zone, windows, t) = Desired(zone, windows, m)
<1> DEFINE changes == {u \in m + 1 .. m + LookaheadDays * DayMinutes :
                         Desired(zone, windows, u) # Desired(zone, windows, m)}
<1>1. LookaheadDays * DayMinutes \in Nat
  BY CalendarAssumption DEF LookaheadDays
<1>2. changes \subseteq Nat
  BY <1>1
<1>3. t \in m + 1 .. m + LookaheadDays * DayMinutes
  BY <1>1
<1>4. NextTransition(zone, windows, m) = IF changes = {} THEN None ELSE Min(changes)
  BY DEF NextTransition
<1>5. ASSUME t \in changes PROVE FALSE
  <2> HIDE DEF changes
  <2>1. Min(changes) \in Nat /\ Min(changes) <= t
    BY <1>2, <1>5, LeastIsNatural
  <2>2. NextTransition(zone, windows, m) = Min(changes)
    BY <1>4, <1>5
  <2> QED
    BY <2>1, <2>2, ScheduleAssumption
<1> QED
  BY <1>3, <1>5

-----------------------------------------------------------------------------
(* What no transition means.                                               *)

Week == WeekDays * DayMinutes

\* A schedule cannot tell one week from another.
LEMMA WeeksAreAlike ==
    ASSUME NEW n \in Int, NEW k \in Int
    PROVE  DayOf(n + Week * k) = DayOf(n) /\ MinuteIn(n + Week * k) = MinuteIn(n)
<1> DEFINE D == DayMinutes
           w == WeekDays
           q == n \div D
           r == n % D
<1>1. /\ D \in Nat \ {0} /\ w \in Nat \ {0}
      /\ q \in Int /\ r \in 0 .. D - 1 /\ n = D * q + r
  BY CalendarAssumption, Divides
<1>2. n + Week * k = D * (q + w * k) + r
  <2>1. n + Week * k = D * q + r + (w * D) * k
    BY <1>1 DEF Week
  <2> HIDE DEF D, w, q, r
  <2>2. D * (q + w * k) = D * q + (w * D) * k
    BY <1>1
  <2>3. D * q \in Int /\ (w * D) * k \in Int
    BY <1>1
  <2> QED
    BY <1>1, <2>1, <2>2, <2>3
<1>3. q + w * k \in Int /\ n + Week * k \in Int
  BY <1>1, CalendarAssumption DEF Week
<1>4. (n + Week * k) \div D = q + w * k /\ (n + Week * k) % D = r
  BY <1>1, <1>2, <1>3, QuotientIsUnique
<1>5. (q + w * k) % w = q % w
  <2> DEFINE a == q \div w
             b == q % w
  <2>1. a \in Int /\ b \in 0 .. w - 1 /\ q = w * a + b
    BY <1>1, Divides
  <2> HIDE DEF D, w, q, r, a, b
  <2>2. q + w * k = w * (a + k) + b
    <3>1. w * (a + k) = w * a + w * k /\ w * a \in Int /\ w * k \in Int
      BY <1>1, <2>1
    <3> QED
      BY <2>1, <3>1
  <2>3. (q + w * k) % w = b
    BY <1>1, <1>3, <2>1, <2>2, QuotientIsUnique
  <2> QED
    BY <2>3 DEF b
<1> QED
  BY <1>4, <1>5 DEF DayOf, MinuteIn

(* When next_transition finds none and the offset stays the same as far as *)
(* it looks, the desired state never changes again, whatever the offset    *)
(* does later: every minute of the week was looked at.  A loop that sleeps *)
(* the whole poll interval for want of a transition has none to miss.      *)
THEOREM NoTransitionIsFinal ==
    ASSUME NEW zone \in Zone, NEW windows, NEW m \in Nat,
           \/ zone.before = zone.after
           \/ zone.change <= m \/ zone.change > m + LookaheadDays * DayMinutes,
           NextTransition(zone, windows, m) = None
    PROVE  \A t \in Nat : t >= m => Desired(zone, windows, t) = Desired(zone, windows, m)
<1> SUFFICES ASSUME NEW t \in Nat
             PROVE  Desired(zone, windows, t) = Desired(zone, windows, m)
  OBVIOUS
<1>1. Week \in Nat \ {0} /\ Week <= LookaheadDays * DayMinutes /\ LookaheadDays * DayMinutes \in Nat
  <2> DEFINE D == DayMinutes
             w == WeekDays
  <2>1. D \in Nat \ {0} /\ w \in Nat \ {0}
    BY CalendarAssumption
  <2> HIDE DEF D, w
  <2>2. w * D \in Nat /\ w * D # 0 /\ (w + 1) * D = w * D + D
    BY <2>1
  <2>3. w * D <= (w + 1) * D /\ (w + 1) * D \in Nat
    BY <2>1, <2>2
  <2> QED
    BY <2>2, <2>3 DEF Week, LookaheadDays, D, w
<1> DEFINE offset == IF m < zone.change THEN zone.before ELSE zone.after
           local  == Local(zone, t)
           start  == m + 1 + offset
           k      == (local - start) \div Week
           r      == (local - start) % Week
<1>2. offset \in Nat /\ local \in Nat /\ start \in Nat
  BY DEF Zone, Local
<1>3. k \in Int /\ r \in 0 .. Week - 1 /\ local = start + r + Week * k
  <2>1. k \in Int /\ r \in 0 .. Week - 1 /\ local - start = Week * k + r
    <3>1. local - start \in Int
      BY <1>2
    <3> HIDE DEF local, start
    <3> QED
      BY <1>1, <3>1, Divides
  <2> HIDE DEF k, r, local, start
  <2>2. Week * k \in Int
    BY <1>1, <2>1
  <2> QED
    BY <1>1, <1>2, <2>1, <2>2
<1>4. m + 1 + r \in Nat /\ m < m + 1 + r /\ m + 1 + r <= m + LookaheadDays * DayMinutes
  <2> HIDE DEF k, r
  <2> QED
    BY <1>1, <1>3
<1>5. Local(zone, m + 1 + r) = start + r
  <2>1. zone.change \in Nat
    BY DEF Zone
  <2>2. zone.before = zone.after \/ ((m + 1 + r < zone.change) <=> (m < zone.change))
    <3> HIDE DEF k, r
    <3> QED
      BY <1>1, <1>4, <2>1
  <2> HIDE DEF k, r
  <2>3. Local(zone, m + 1 + r) = m + 1 + r + offset
    BY <2>2 DEF Local
  <2> QED
    BY <1>1, <1>2, <1>3, <2>3
<1>6. DayOf(local) = DayOf(start + r) /\ MinuteIn(local) = MinuteIn(start + r)
  <2>1. start + r \in Int
    BY <1>1, <1>2, <1>3
  <2> HIDE DEF k, r, local, start
  <2> QED
    BY <1>3, <2>1, WeeksAreAlike
<1>7. Desired(zone, windows, t) = Desired(zone, windows, m + 1 + r)
  <2> HIDE DEF k, r, start, offset
  <2> QED
    BY <1>5, <1>6 DEF Desired
<1>8. Desired(zone, windows, m + 1 + r) = Desired(zone, windows, m)
  <2> HIDE DEF k, r
  <2> QED
    BY <1>4, SameUntilNext
<1> QED
  BY <1>7, <1>8

-----------------------------------------------------------------------------
(* The loop wakes for a transition.                                        *)

\* What was found lies within what was looked at.
LEMMA NextIsInSight ==
    ASSUME NEW zone, NEW windows, NEW m \in Nat, NextTransition(zone, windows, m) # None
    PROVE  NextTransition(zone, windows, m) \in m + 1 .. m + LookaheadDays * DayMinutes
<1> DEFINE changes == {u \in m + 1 .. m + LookaheadDays * DayMinutes :
                         Desired(zone, windows, u) # Desired(zone, windows, m)}
<1>1. changes \subseteq Nat /\ changes \subseteq m + 1 .. m + LookaheadDays * DayMinutes
  BY CalendarAssumption DEF LookaheadDays
<1>2. changes # {} /\ NextTransition(zone, windows, m) = Min(changes)
  BY DEF NextTransition
<1> HIDE DEF changes
<1>3. Min(changes) \in changes
  BY <1>1, <1>2, LeastIsNatural
<1> QED
  BY <1>1, <1>2, <1>3

\* No minute that ends before the sleep does lies past what was looked at.
LEMMA SleepEndsInSight ==
    ASSUME LooksFarEnough, TimingInv, WaitInv, lpc = "sleep",
           NEW d \in 0 .. wait, now' = now + d,
           NEW minute \in Nat, asked < minute, At(minute) + Margin + spent < now'
    PROVE  minute <= asked + LookaheadDays * DayMinutes
<1> DEFINE span == LookaheadDays * DayMinutes
<1>1. /\ asked \in Nat /\ now \in Nat /\ wait \in Nat /\ spent \in Nat /\ Margin \in Nat
      /\ MinuteUnits \in Nat \ {0} /\ MaxExchange \in Nat /\ At(minute) \in Nat /\ At(asked) \in Nat
  <2>1. /\ now \in 0 .. Horizon /\ asked \in 0 .. Horizon
        /\ wait \in Nat /\ spent \in Nat
    BY DEF TimingInv, Clocks, WaitInv
  <2>2. asked \in Nat /\ now \in Nat
    BY <2>1, UnitAssumption
  <2> QED
    BY <2>1, <2>2, UnitAssumption, AtIsNatural
<1>2. span \in Nat
  BY CalendarAssumption DEF LookaheadDays
<1>3. MinuteUnits + MaxExchange + Longest <= At(span) /\ Longest \in Nat
  <2>1. config.poll \in Polls
    BY DEF TimingInv, Clocks, Config
  <2> QED
    BY <2>1, UnitAssumption DEF LooksFarEnough, Longest, Most
<1>4. At(asked + span) = At(asked) + At(span) /\ At(span) \in Nat
  <2> HIDE DEF span
  <2> QED
    BY <1>1, <1>2 DEF At
<1>5. /\ now <= At(asked) + MinuteUnits + MaxExchange + spent
      /\ wait <= Longest
  BY DEF WaitInv, Waited
<1>6. d \in Nat /\ d <= wait
  BY <1>1
<1> HIDE DEF At, span, Longest
<1>7. At(minute) < At(asked + span)
  BY <1>1, <1>3, <1>4, <1>5, <1>6
<1>8. minute < asked + span
  BY <1>1, <1>2, <1>7, AtIsMonotone
<1> QED
  BY <1>1, <1>2, <1>8 DEF span

\* A sleep that ends after a minute, and its allowance, did not pass the transition.
LEMMA SleepEndsInTime ==
    ASSUME LooksFarEnough \/ OffsetsStay, TimingInv, WaitInv, lpc = "sleep", ~overtaken,
           NEW d \in 0 .. wait, now' = now + d,
           NEW minute \in Nat, asked < minute, At(minute) + Margin + spent < now'
    PROVE  Wanted(minute) = Wanted(asked)
<1>1. asked \in Nat /\ next = NextTransition(config.zone, config.windows, asked)
  BY UnitAssumption DEF WaitInv
<1>2. CASE next # None
  <2>1. /\ now \in Nat /\ wait \in Nat /\ spent \in Nat /\ Margin \in Nat
        /\ next \in Nat /\ At(next) \in Nat /\ At(minute) \in Nat
    <3>1. /\ now \in 0 .. Horizon /\ next \in Nat \union {None} /\ wait \in Nat /\ spent \in Nat
      BY DEF TimingInv, Clocks
    <3> QED
      BY <1>2, <3>1, UnitAssumption, AtIsNatural
  <2>2. now + wait <= At(next) + Margin + spent /\ d \in Nat /\ d <= wait
    BY <1>2, <2>1 DEF WaitInv, Waited
  <2> HIDE DEF At
  <2>3. At(minute) < At(next)
    BY <2>1, <2>2
  <2>4. minute < next
    BY <2>1, <2>3, AtIsMonotone
  <2>5. next \in asked + 1 .. asked + LookaheadDays * DayMinutes
    BY <1>1, <1>2, NextIsInSight
  <2>6. minute <= asked + LookaheadDays * DayMinutes
    BY <1>1, <2>4, <2>5, CalendarAssumption DEF LookaheadDays
  <2> QED
    BY <1>1, <2>4, <2>6, SameUntilNext DEF Wanted
<1>3. CASE next = None /\ LooksFarEnough
  <2>1. minute <= asked + LookaheadDays * DayMinutes
    BY <1>3, SleepEndsInSight
  <2> QED
    BY <1>1, <1>3, <2>1, SameUntilNext DEF Wanted
<1>4. CASE next = None /\ OffsetsStay
  <2>1. config.zone \in Zone /\ config.zone.before = config.zone.after
    BY <1>4, ScheduleAssumption DEF OffsetsStay, TimingInv, Clocks, Config
  <2>2. \A t \in Nat : t >= asked => Wanted(t) = Wanted(asked)
    BY <1>1, <1>4, <2>1, NoTransitionIsFinal DEF Wanted
  <2>3. minute >= asked
    BY <1>1
  <2> QED
    BY <2>2, <2>3
<1> QED
  BY <1>2, <1>3, <1>4

(* The loop wakes within the margin of a change of the desired state, and  *)
(* the time of a check of the flag, whatever the schedule, the reloads and *)
(* the durations of the exchanges, if the transition had not passed when   *)
(* the wait was computed.  A poll interval of eight days or more needs     *)
(* timezones that keep their offset.                                       *)
THEOREM LoopWakesForTransition ==
    ASSUME LooksFarEnough \/ OffsetsStay
    PROVE  Spec => WakesForTransition
<1> DEFINE InTime ==
      lpc = "sleep" /\ lpc' = "status" /\ ~overtaken =>
        \A minute \in asked + 1 .. MinuteNow' :
          At(minute) + Margin + spent < now' => Wanted(minute) = Wanted(asked)
<1>1. TimingInv /\ WaitInv /\ [Next]_vars => InTime
  <2> SUFFICES ASSUME TimingInv, WaitInv, [Next]_vars,
                      lpc = "sleep", lpc' = "status", ~overtaken,
                      NEW minute \in asked + 1 .. MinuteNow',
                      At(minute) + Margin + spent < now'
               PROVE  Wanted(minute) = Wanted(asked)
    OBVIOUS
  <2>1. PICK d \in 0 .. wait : now' = now + d
    <3>1. wait \in Nat
      BY DEF TimingInv, Clocks
    <3>2. CASE Slept
      BY <3>1, <3>2 DEF Slept, SleepEnds, Takes
    <3>3. CASE Woken
      BY <3>3 DEF Woken, SleepEnds, Takes
    <3> QED
      BY <3>2, <3>3 DEF Next, vars, Status, Answered, Unanswered, DstRead, DstSet, ClientSetsDst
  <2>2. asked \in Nat /\ minute \in Nat /\ asked < minute
    BY UnitAssumption DEF WaitInv
  <2> QED
    BY <2>1, <2>2, SleepEndsInTime
<1>2. TimingInv /\ WaitInv /\ [Next]_vars => [InTime]_vars
  BY <1>1
<1> QED
  BY <1>2, WaitIsInvariant, PTL DEF Spec, WakesForTransition

-----------------------------------------------------------------------------
Truths ==
    flag \in BOOLEAN /\ want \in BOOLEAN /\ touched \in BOOLEAN /\ overtaken \in BOOLEAN

\* The flags are flags.
LEMMA NextKeepsTruths == Truths /\ [Next]_vars => Truths'
<1> SUFFICES ASSUME Truths, [Next]_vars PROVE Truths'
  OBVIOUS
<1>1. CASE Status
  BY <1>1 DEF Status, dst, Truths
<1>2. CASE Answered \/ Unanswered
  BY <1>2 DEF Answered, Unanswered, Clamp, dst, Truths
<1>3. CASE DstRead
  <2>1. DstActive(config.zone, MinuteNow) \in BOOLEAN
    BY DEF DstActive
  <2> QED
    BY <1>3, <2>1 DEF DstRead, Truths
<1>4. CASE DstSet
  BY <1>4 DEF DstSet, Truths
<1>5. CASE ClientSetsDst
  BY <1>5 DEF ClientSetsDst, Truths
<1>6. CASE Slept \/ Woken
  BY <1>6 DEF Slept, Woken, SleepEnds, dst, Truths
<1>7. CASE UNCHANGED vars
  BY <1>7 DEF vars, dst, Truths
<1> QED
  BY <1>1, <1>2, <1>3, <1>4, <1>5, <1>6, <1>7 DEF Next

(* Every variable keeps its type.                                          *)
THEOREM TimingTypesHold == Spec => []TypeOK
<1>1. Init => Truths
  BY DEF Init, Truths
<1>2. Truths /\ [Next]_vars => Truths'
  BY NextKeepsTruths
<1>3. TimingInv /\ WaitInv /\ Truths => TypeOK
  <2> SUFFICES ASSUME TimingInv, WaitInv, Truths PROVE TypeOK
    OBVIOUS
  <2>1. backoff \in (Nat \ {0}) \union {None}
    BY UnitAssumption DEF TimingInv, BackoffInv
  <2>2. spent \in 0 .. 2 * MaxExchange
    BY UnitAssumption DEF TimingInv, Clocks, WaitInv
  <2> QED
    BY <2>1, <2>2 DEF TimingInv, Clocks, WaitInv, Truths, TypeOK
<1> QED
  BY <1>1, <1>2, <1>3, WaitIsInvariant, PTL DEF Spec
=============================================================================
