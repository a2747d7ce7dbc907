-------------------------- MODULE CommandLineProofs -------------------------
(***************************************************************************)
(* That a command which succeeds is the last word of its user, that the    *)
(* commands with a date keep the other one, that the timers are edited as  *)
(* TimerTable says with clients about, and that every step of the API      *)
(* thread advances its work: for any users, commands and bounds.           *)
(***************************************************************************)
EXTENDS CommandLine, TimerTableProofs

\* What a queue is without its first element, position by position.
LEMMA WithoutFirst ==
    ASSUME NEW S, NEW s \in Seq(S), 1 \in DOMAIN s
    PROVE  /\ RemoveAt(s, 1) \in Seq(S)
           /\ Len(RemoveAt(s, 1)) = Len(s) - 1
           /\ \A i \in DOMAIN RemoveAt(s, 1) :
                i + 1 \in DOMAIN s /\ RemoveAt(s, 1)[i] = s[i + 1]
<1>1. Len(s) \in Nat /\ DOMAIN s = 1 .. Len(s) /\ s # <<>>
  BY LenProperties
<1>2. SubSeq(s, 1, 0) = <<>>
  BY <1>1, SubSeqEmpty
<1>3. Tail(s) \in Seq(S) /\ Tail(s) = SubSeq(s, 2, Len(s))
  BY <1>1, TailIsSubSeq, HeadTailProperties
<1>4. RemoveAt(s, 1) = Tail(s)
  BY <1>2, <1>3, ConcatEmptySeq DEF RemoveAt
<1>5. Len(Tail(s)) = Len(s) - 1 /\ \A i \in 1 .. Len(Tail(s)) : Tail(s)[i] = s[i + 1]
  BY <1>1, HeadTailProperties
<1>6. Len(Tail(s)) \in Nat /\ DOMAIN Tail(s) = 1 .. Len(Tail(s))
  BY <1>3, LenProperties
<1>7. ASSUME NEW i \in DOMAIN Tail(s)
      PROVE  i + 1 \in DOMAIN s /\ Tail(s)[i] = s[i + 1]
  <2>1. i \in 1 .. Len(Tail(s))
    BY <1>6
  <2>2. i + 1 \in 1 .. Len(s)
    BY <2>1, <1>1, <1>5, <1>6
  <2> QED
    BY <2>1, <2>2, <1>1, <1>5
<1> QED
  BY <1>3, <1>4, <1>5, <1>7

-----------------------------------------------------------------------------
(* The request that is waited for is its user's only one that is, and the  *)
(* last of them: the API may be serving it with none behind it in the      *)
(* queue, or it is in the queue with none after it.                        *)

LatestInQueue ==
    \A i \in DOMAIN queue : queue[i].waited =>
      /\ stage[queue[i].from] = "waiting"
      /\ \A j \in DOMAIN queue : j > i => queue[j].from # queue[i].from

LatestServed ==
    serving # None /\ serving.waited =>
      /\ stage[serving.from] = "waiting"
      /\ \A j \in DOMAIN queue : queue[j].from # serving.from

Running ==
    \A u \in Users :
      /\ stage[u] \in {"waiting", "read"} => cmd[u] \in Commands
      /\ stage[u] = "read" => cmd[u].verb \in Dated

LineInv == LineTypeOK /\ Running /\ LatestInQueue /\ LatestServed /\ LastWord

\* The variables it is about.
line == <<today, winter, stored, over, users, moved, queue, serving>>

LEMMA LineStutters == LineInv /\ UNCHANGED line => LineInv'
BY DEF LineInv, LineTypeOK, Running, LatestInQueue, LatestServed, LastWord, line, users

LEMMA InitLine == Init => LineInv
<1> SUFFICES ASSUME Init PROVE LineInv
  OBVIOUS
<1>1. queue = <<>> /\ queue \in Seq(Request) /\ DOMAIN queue = {}
  BY EmptySeq DEF Init
<1>2. LineTypeOK
  <2>1. 0 \in Day
    BY DayAssumption DEF Day
  <2> QED
    BY <1>1, <2>1 DEF Init, LineTypeOK
<1>3. Running
  BY DEF Init, Running
<1>4. LatestInQueue /\ LatestServed /\ LastWord
  BY <1>1 DEF Init, LatestInQueue, LatestServed, LastWord
<1> QED
  BY <1>2, <1>3, <1>4 DEF LineInv

-----------------------------------------------------------------------------
(* What sending, taking up and answering a request do to the order.        *)

LEMMA SenderIsUser ==
    ASSUME LineInv, NEW i \in DOMAIN queue
    PROVE  queue[i] \in Request /\ queue[i].from \in Users
<1>1. queue \in Seq(Request) /\ i \in 1 .. Len(queue)
  BY LenProperties DEF LineInv, LineTypeOK
<1>2. queue[i] \in Request
  BY <1>1, ElementOfSeq
<1> QED
  BY <1>2 DEF Request

LEMMA SendingKeepsOrder ==
    ASSUME LineInv, UNCHANGED serving,
           NEW u \in Users, stage[u] # "waiting",
           NEW verb \in Dated \union Plug \union Plain,
           NEW season \in [start : Day, end : Day \union {None}] \union {None},
           Send(u, verb, season)
    PROVE  queue' \in Seq(Request) /\ LatestInQueue' /\ LatestServed' /\ LastWord'
<1> DEFINE r == [from |-> u, verb |-> verb, season |-> season, waited |-> TRUE, ok |-> TRUE]
<1>1. r \in Request
  BY DEF Request
<1>2. queue \in Seq(Request) /\ queue' = Append(queue, r)
  BY DEF LineInv, LineTypeOK, Send
<1> HIDE DEF r
<1>3. /\ queue' \in Seq(Request)
      /\ Len(queue') = Len(queue) + 1
      /\ \A i \in 1 .. Len(queue) : queue'[i] = queue[i]
      /\ queue'[Len(queue) + 1] = r
  BY <1>1, <1>2, AppendProperties
<1>4. Len(queue) \in Nat /\ DOMAIN queue = 1 .. Len(queue) /\ DOMAIN queue' = 1 .. Len(queue) + 1
  BY <1>2, <1>3, LenProperties
<1>5. r.from = u
  BY DEF r
<1>6. \A v \in Users : v # u => stage'[v] = stage[v]
  BY DEF Send, LineInv, LineTypeOK
<1>7. stage'[u] = "waiting"
  BY DEF Send, LineInv, LineTypeOK
<1>8. \A i \in DOMAIN queue : queue[i].from \in Users /\ (queue[i].waited => queue[i].from # u)
  <2> SUFFICES ASSUME NEW i \in DOMAIN queue
               PROVE  queue[i].from \in Users /\ (queue[i].waited => queue[i].from # u)
    OBVIOUS
  <2>2. queue[i].from \in Users
    BY SenderIsUser
  <2>3. queue[i].waited => stage[queue[i].from] = "waiting"
    BY DEF LineInv, LatestInQueue
  <2> QED
    BY <2>2, <2>3
<1>9. LatestInQueue'
  <2> SUFFICES ASSUME NEW i \in DOMAIN queue', queue'[i].waited
               PROVE  /\ stage'[queue'[i].from] = "waiting"
                      /\ \A j \in DOMAIN queue' : j > i => queue'[j].from # queue'[i].from
    BY DEF LatestInQueue
  <2>1. CASE i = Len(queue) + 1
    BY <2>1, <1>3, <1>4, <1>5, <1>7
  <2>2. CASE i # Len(queue) + 1
    <3>1. i \in DOMAIN queue /\ queue'[i] = queue[i]
      BY <2>2, <1>3, <1>4
    <3>2. queue[i].from \in Users /\ queue[i].from # u
      BY <3>1, <1>8
    <3>3. stage'[queue'[i].from] = "waiting"
      BY <3>1, <3>2, <1>6 DEF LineInv, LatestInQueue
    <3>4. ASSUME NEW j \in DOMAIN queue', j > i
          PROVE  queue'[j].from # queue'[i].from
      <4>1. CASE j = Len(queue) + 1
        BY <4>1, <3>1, <3>2, <1>3, <1>5
      <4>2. CASE j # Len(queue) + 1
        <5>1. j \in DOMAIN queue /\ queue'[j] = queue[j]
          BY <4>2, <1>3, <1>4
        <5> QED
          BY <5>1, <3>1, <3>4 DEF LineInv, LatestInQueue
      <4> QED
        BY <4>1, <4>2
    <3> QED
      BY <3>3, <3>4
  <2> QED
    BY <2>1, <2>2
<1>10. LatestServed'
  <2> SUFFICES ASSUME serving # None, serving.waited
               PROVE  /\ stage'[serving.from] = "waiting"
                      /\ \A j \in DOMAIN queue' : queue'[j].from # serving.from
    BY DEF LatestServed
  <2>1. serving.from \in Users /\ stage[serving.from] = "waiting"
    BY DEF LineInv, LatestServed, LineTypeOK, Request
  <2>2. serving.from # u
    BY <2>1
  <2>3. \A j \in DOMAIN queue : queue[j].from # serving.from
    BY DEF LineInv, LatestServed
  <2> QED
    BY <2>1, <2>2, <2>3, <1>3, <1>4, <1>5, <1>6
<1>11. LastWord'
  <2> SUFFICES ASSUME NEW v \in Users, stage'[v] = "done"
               PROVE  /\ \A i \in DOMAIN queue' : queue'[i].from # v
                      /\ serving = None \/ serving.from # v
    BY DEF LastWord
  <2>1. v # u /\ stage[v] = "done"
    BY <1>6, <1>7
  <2>2. /\ \A i \in DOMAIN queue : queue[i].from # v
        /\ serving = None \/ serving.from # v
    BY <2>1 DEF LineInv, LastWord
  <2> QED
    BY <2>1, <2>2, <1>3, <1>4, <1>5
<1> QED
  BY <1>3, <1>9, <1>10, <1>11

LEMMA TakingKeepsOrder ==
    ASSUME LineInv, NEW i \in DOMAIN queue, Take(i), UNCHANGED stage,
           serving'.from = queue[i].from, serving'.waited = queue[i].waited
    PROVE  queue' \in Seq(Request) /\ LatestInQueue' /\ LatestServed' /\ LastWord'
<1>1. queue \in Seq(Request) /\ i = 1 /\ queue' = RemoveAt(queue, 1)
  BY DEF LineInv, LineTypeOK, Take, InTurn
<1>2. /\ queue' \in Seq(Request)
      /\ \A j \in DOMAIN queue' : j + 1 \in DOMAIN queue /\ queue'[j] = queue[j + 1]
  BY <1>1, WithoutFirst
<1>3. DOMAIN queue' \subseteq Nat \ {0}
  BY <1>2, LenProperties
<1>4. LatestInQueue'
  <2> SUFFICES ASSUME NEW k \in DOMAIN queue', queue'[k].waited
               PROVE  /\ stage[queue'[k].from] = "waiting"
                      /\ \A j \in DOMAIN queue' : j > k => queue'[j].from # queue'[k].from
    BY DEF LatestInQueue
  <2>1. k + 1 \in DOMAIN queue /\ queue[k + 1].waited /\ queue'[k] = queue[k + 1]
    BY <1>2
  <2>2. \A j \in DOMAIN queue' : j > k => j + 1 > k + 1
    BY <1>3
  <2> QED
    BY <2>1, <2>2, <1>2 DEF LineInv, LatestInQueue
<1>5. LatestServed'
  <2> SUFFICES ASSUME queue[1].waited
               PROVE  /\ stage[queue[1].from] = "waiting"
                      /\ \A j \in DOMAIN queue' : queue'[j].from # queue[1].from
    BY <1>1 DEF LatestServed
  <2>1. \A j \in DOMAIN queue' : j + 1 > 1
    BY <1>3
  <2> QED
    BY <2>1, <1>1, <1>2 DEF LineInv, LatestInQueue
<1>6. LastWord'
  BY <1>1, <1>2 DEF LineInv, LastWord
<1> QED
  BY <1>2, <1>4, <1>5, <1>6

\* The client that reads a good answer has nothing else under way.
LEMMA DeliveringKeepsOrder ==
    ASSUME LineInv, serving # None, NEW ok \in BOOLEAN, Deliver(serving, ok),
           serving' = None, UNCHANGED <<today, winter, stored, over, queue>>
    PROVE  LineInv'
<1> DEFINE u == serving.from
<1>1. serving \in Request /\ u \in Users
  BY DEF LineInv, LineTypeOK, Request
<1>2. serving' \in Request \union {None} /\ LatestServed' /\ queue' \in Seq(Request)
  BY DEF LatestServed, LineInv, LineTypeOK
<1>3. ASSUME UNCHANGED <<users, moved>>
      PROVE  LineInv'
  BY <1>2, <1>3 DEF LineInv, LineTypeOK, Running, LatestInQueue, LastWord, users
<1>4. ASSUME serving.waited
      PROVE  stage[u] = "waiting" /\ \A i \in DOMAIN queue : queue[i].from # u
  BY <1>4 DEF LineInv, LatestServed
<1>5. ASSUME serving.waited, NEW how \in {"read", "done", "failed"},
             stage' = [stage EXCEPT ![u] = how]
      PROVE  /\ stage' \in [Users -> {"waiting", "read", "done", "failed"}]
             /\ stage'[u] = how /\ \A v \in Users : v # u => stage'[v] = stage[v]
             /\ LatestInQueue' /\ LastWord'
  <2>1. /\ stage' \in [Users -> {"waiting", "read", "done", "failed"}]
        /\ stage'[u] = how /\ \A v \in Users : v # u => stage'[v] = stage[v]
    BY <1>1, <1>5 DEF LineInv, LineTypeOK
  <2>2. \A i \in DOMAIN queue : queue[i].from \in Users
    BY SenderIsUser
  <2>3. LatestInQueue'
    BY <1>4, <1>5, <2>1, <2>2 DEF LineInv, LatestInQueue
  <2>4. LastWord'
    BY <1>4, <1>5, <2>1 DEF LineInv, LastWord
  <2> QED
    BY <2>1, <2>3, <2>4
<1>6. ASSUME serving.waited, NEW how \in {"done", "failed"}, Ended(u, how), UNCHANGED moved
      PROVE  LineInv'
  <2>1. stage' = [stage EXCEPT ![u] = how]
    BY <1>6 DEF Ended
  <2>2. /\ stage' \in [Users -> {"waiting", "read", "done", "failed"}]
        /\ stage'[u] = how /\ \A v \in Users : v # u => stage'[v] = stage[v]
        /\ LatestInQueue' /\ LastWord'
    BY <1>5, <1>6, <2>1
  <2>3. LineTypeOK'
    BY <1>2, <1>6, <2>2 DEF Ended, LineInv, LineTypeOK
  <2>4. Running'
    BY <1>1, <1>6, <2>2 DEF Ended, LineInv, LineTypeOK, Running
  <2> QED
    BY <1>2, <2>2, <2>3, <2>4 DEF LineInv
<1>7. ASSUME serving.waited, cmd[u].verb \in Dated, UNCHANGED cmd,
             stage' = [stage EXCEPT ![u] = "read"],
             seen' = [seen EXCEPT ![u] = winter], moved' = [moved EXCEPT ![u] = FALSE]
      PROVE  LineInv'
  <2>1. /\ stage' \in [Users -> {"waiting", "read", "done", "failed"}]
        /\ stage'[u] = "read" /\ \A v \in Users : v # u => stage'[v] = stage[v]
        /\ LatestInQueue' /\ LastWord'
    BY <1>5, <1>7
  <2>2. LineTypeOK'
    BY <1>1, <1>2, <1>7, <2>1 DEF LineInv, LineTypeOK
  <2>3. Running'
    BY <1>1, <1>4, <1>7, <2>1 DEF LineInv, LineTypeOK, Running
  <2> QED
    BY <1>2, <2>1, <2>2, <2>3 DEF LineInv
<1> QED
  BY <1>3, <1>6, <1>7 DEF Deliver

-----------------------------------------------------------------------------
(* The steps.                                                              *)

LEMMA RunKeepsLine == LineInv /\ (\E u \in Users : Run(u)) => LineInv'
<1> SUFFICES ASSUME LineInv, NEW u \in Users, Run(u)
             PROVE  LineInv'
  OBVIOUS
<1>1. PICK c \in Commands :
        /\ cmd' = [cmd EXCEPT ![u] = c]
        /\ Send(u, IF c.verb \in Dated THEN "status" ELSE c.verb, None)
  BY DEF Run
<1>2. UNCHANGED <<today, winter, stored, over, seen, moved, serving>> /\ stage[u] # "waiting"
  BY NoCommandAssumption DEF Run, LineInv, Running
<1>3. (IF c.verb \in Dated THEN "status" ELSE c.verb) \in Dated \union Plug \union Plain
  BY CommandAssumption DEF Plain
<1>4. queue' \in Seq(Request) /\ LatestInQueue' /\ LatestServed' /\ LastWord'
  BY <1>1, <1>2, <1>3, SendingKeepsOrder
<1>5. stage' = [stage EXCEPT ![u] = "waiting"]
  BY <1>1 DEF Send
<1>6. LineTypeOK'
  BY <1>1, <1>2, <1>4, <1>5 DEF LineInv, LineTypeOK
<1>7. Running'
  BY <1>1, <1>5 DEF LineInv, LineTypeOK, Running
<1> QED
  BY <1>4, <1>6, <1>7 DEF LineInv

LEMMA PostKeepsLine == LineInv /\ (\E u \in Users : Post(u)) => LineInv'
<1> SUFFICES ASSUME LineInv, NEW u \in Users, Post(u)
             PROVE  LineInv'
  OBVIOUS
<1> DEFINE season == IF cmd[u].verb = "start" THEN StartKeepingEnd(u) ELSE EndKeepingStart(u)
<1>1. Send(u, cmd[u].verb, season)
  BY DEF Post
<1>2. UNCHANGED <<today, winter, stored, over, cmd, seen, moved, serving>> /\ stage[u] # "waiting"
  BY DEF Post
<1>3. cmd[u] \in Commands /\ cmd[u].verb \in Dated
  BY DEF Post, LineInv, Running
<1>4. cmd[u] \in [verb : Dated, date : Day]
  BY <1>3, CommandAssumption DEF Dated, Plug, Plain
<1>5. season \in [start : Day, end : Day \union {None}]
  <2>1. seen[u] \in Season \union {None} /\ today \in Day /\ cmd[u].date \in Day
    BY <1>4 DEF LineInv, LineTypeOK
  <2>2. seen[u] # None => seen[u].start \in Day /\ seen[u].end \in Day \union {None}
    BY <2>1 DEF Season
  <2> QED
    BY <2>1, <2>2 DEF StartKeepingEnd, EndKeepingStart
<1> HIDE DEF season
<1>6. queue' \in Seq(Request) /\ LatestInQueue' /\ LatestServed' /\ LastWord'
  BY <1>1, <1>2, <1>3, <1>5, SendingKeepsOrder
<1>7. stage' = [stage EXCEPT ![u] = "waiting"]
  BY <1>1 DEF Send
<1>8. LineTypeOK'
  BY <1>2, <1>6, <1>7 DEF LineInv, LineTypeOK
<1>9. Running'
  BY <1>2, <1>3, <1>7 DEF LineInv, LineTypeOK, Running
<1> QED
  BY <1>6, <1>8, <1>9 DEF LineInv

LEMMA GiveUpKeepsLine == LineInv /\ (\E u \in Users : GiveUp(u)) => LineInv'
<1> SUFFICES ASSUME LineInv, NEW u \in Users, GiveUp(u)
             PROVE  LineInv'
  OBVIOUS
<1>1. /\ stage' = [stage EXCEPT ![u] = "failed"]
      /\ cmd' = [cmd EXCEPT ![u] = None] /\ seen' = [seen EXCEPT ![u] = None]
      /\ queue' = [i \in DOMAIN queue |-> Left(queue[i], u)]
      /\ serving' = IF serving = None THEN None ELSE Left(serving, u)
      /\ UNCHANGED <<today, winter, stored, over, moved>>
  BY DEF GiveUp, Ended
<1>2. ASSUME NEW r \in Request
      PROVE  /\ Left(r, u) \in Request /\ Left(r, u).from = r.from
             /\ Left(r, u).waited => r.waited /\ r.from # u
  BY <1>2 DEF Left, Request
<1>3. serving' \in Request \union {None}
  BY <1>1, <1>2 DEF Left, LineInv, LineTypeOK
<1>4. DOMAIN queue' = DOMAIN queue /\ \A i \in DOMAIN queue : queue'[i] = Left(queue[i], u)
  BY <1>1
<1>5. \A i \in DOMAIN queue : queue[i] \in Request
  BY SenderIsUser
<1>6. queue' \in Seq(Request)
  <2>1. Len(queue) \in Nat /\ DOMAIN queue = 1 .. Len(queue)
    BY LenProperties DEF LineInv, LineTypeOK
  <2>2. queue' \in [1 .. Len(queue) -> Request]
    BY <1>1, <1>2, <1>5, <2>1
  <2> QED
    BY <2>1, <2>2, SeqDef
<1>7. LineTypeOK'
  BY <1>1, <1>3, <1>6 DEF LineInv, LineTypeOK
<1>8. stage'[u] = "failed" /\ \A v \in Users : v # u => stage'[v] = stage[v] /\ cmd'[v] = cmd[v]
  BY <1>1 DEF LineInv, LineTypeOK
<1>9. Running'
  BY <1>8 DEF LineInv, Running
<1>10. \A i \in DOMAIN queue : /\ queue'[i].from = queue[i].from /\ queue[i].from \in Users
                               /\ queue'[i].waited => queue[i].waited /\ queue[i].from # u
  BY <1>2, <1>4, <1>5, SenderIsUser
<1>11. LatestInQueue'
  BY <1>4, <1>8, <1>10 DEF LineInv, LatestInQueue
<1>12. serving' # None => /\ serving # None /\ serving'.from = serving.from /\ serving.from \in Users
                          /\ serving'.waited => serving.waited /\ serving.from # u
  BY <1>1, <1>2 DEF LineInv, LineTypeOK, Request
<1>13. LatestServed'
  BY <1>4, <1>8, <1>10, <1>12 DEF LineInv, LatestServed
<1>14. LastWord'
  BY <1>4, <1>8, <1>10, <1>12 DEF LineInv, LastWord
<1> QED
  BY <1>7, <1>9, <1>11, <1>13, <1>14 DEF LineInv

LEMMA TakeKeepsLine ==
    LineInv /\ (\E i \in DOMAIN queue : TakeStatus(i) \/ TakeWinter(i) \/ TakePlug(i)) => LineInv'
<1> SUFFICES ASSUME LineInv, NEW i \in DOMAIN queue,
                    TakeStatus(i) \/ TakeWinter(i) \/ TakePlug(i)
             PROVE  LineInv'
  OBVIOUS
<1>1. Take(i) /\ UNCHANGED <<today, over, users>>
  BY DEF TakeStatus, TakeWinter, TakePlug
<1>2. queue[i] \in Request
  BY SenderIsUser
<1>3. serving' = queue[i] \/ serving' = [queue[i] EXCEPT !.ok = FALSE]
  BY DEF TakeStatus, TakeWinter, TakePlug
<1>4. serving' \in Request /\ serving'.from = queue[i].from /\ serving'.waited = queue[i].waited
  BY <1>2, <1>3 DEF Request
<1>5. queue' \in Seq(Request) /\ LatestInQueue' /\ LatestServed' /\ LastWord'
  BY <1>1, <1>4, TakingKeepsOrder DEF users
<1>6. /\ winter' \in Season \union {None} /\ stored' \in Season \union {None}
      /\ moved' \in [Users -> BOOLEAN]
  <2>1. CASE UNCHANGED <<winter, moved>> /\ stored' \in {stored, None}
    BY <2>1 DEF LineInv, LineTypeOK
  <2>2. CASE Accepted(queue[i].season) /\ Install(queue[i].season)
    BY <2>2 DEF Accepted, Install, Becomes, LineInv, LineTypeOK
  <2> QED
    BY <2>1, <2>2 DEF TakeStatus, TakeWinter, TakePlug, Spoiled
<1>7. LineTypeOK'
  BY <1>1, <1>4, <1>5, <1>6 DEF LineInv, LineTypeOK, users
<1>8. Running'
  BY <1>1 DEF LineInv, Running, users
<1> QED
  BY <1>5, <1>7, <1>8 DEF LineInv

LEMMA AnswerKeepsLine == LineInv /\ (AnswerShared \/ AnswerPlug) => LineInv'
<1>1. ASSUME LineInv, AnswerShared
      PROVE  LineInv'
  <2>1. serving.ok \in BOOLEAN
    BY <1>1 DEF AnswerShared, LineInv, LineTypeOK, Request
  <2> QED
    BY <1>1, <2>1, DeliveringKeepsOrder DEF AnswerShared
<1>2. ASSUME LineInv, AnswerPlug
      PROVE  LineInv'
  <2>1. (pc["api"] = "ok") \in BOOLEAN
    OBVIOUS
  <2> QED
    BY <1>2, <2>1, DeliveringKeepsOrder DEF AnswerPlug
<1> QED
  BY <1>1, <1>2

LEMMA WorldKeepsLine ==
    LineInv /\ (LoopBegins \/ LoopSeesEnd \/ LoopCancels \/ NextDay \/ DaemonRestart) => LineInv'
<1>1. ASSUME LineInv, LoopBegins
      PROVE  LineInv'
  BY <1>1, LineStutters DEF LoopBegins, line
<1>2. ASSUME LineInv, LoopSeesEnd
      PROVE  LineInv'
  BY <1>2 DEF LoopSeesEnd, users, LineInv, LineTypeOK, Running, LatestInQueue, LatestServed, LastWord
<1>3. ASSUME LineInv, LoopCancels
      PROVE  LineInv'
  <2>1. /\ winter' \in Season \union {None} /\ stored' \in Season \union {None}
        /\ moved' \in [Users -> BOOLEAN] /\ over' \in BOOLEAN
        /\ UNCHANGED <<today, cmd, stage, seen, queue, serving>>
    BY <1>3 DEF LoopCancels, Install, Becomes, users, LineInv, LineTypeOK
  <2> QED
    BY <1>3, <2>1 DEF LineInv, LineTypeOK, Running, LatestInQueue, LatestServed, LastWord
<1>4. ASSUME LineInv, NextDay
      PROVE  LineInv'
  <2>1. today' \in Day /\ UNCHANGED <<winter, stored, over, users, moved, queue, serving>>
    BY <1>4, DayAssumption DEF NextDay, LineInv, LineTypeOK, Day
  <2> QED
    BY <1>4, <2>1 DEF users, LineInv, LineTypeOK, Running, LatestInQueue, LatestServed, LastWord
<1>5. ASSUME LineInv, DaemonRestart
      PROVE  LineInv'
  <2>1. queue' = <<>> /\ queue' \in Seq(Request) /\ DOMAIN queue' = {} /\ serving' = None
    BY <1>5, EmptySeq DEF DaemonRestart
  <2>2. LatestInQueue' /\ LatestServed' /\ LastWord'
    BY <2>1 DEF LatestInQueue, LatestServed, LastWord
  <2>3. /\ stored' \in Season \union {None} /\ winter' \in Season \union {None}
        /\ moved' \in [Users -> BOOLEAN]
    BY <1>5 DEF DaemonRestart, Found, Spoiled, Becomes, LineInv, LineTypeOK
  <2>4. LineTypeOK'
    BY <1>5, <2>1, <2>3 DEF DaemonRestart, LineInv, LineTypeOK
  <2>5. Running'
    BY <1>5 DEF DaemonRestart, LineInv, LineTypeOK, Running
  <2> QED
    BY <2>2, <2>4, <2>5 DEF LineInv
<1> QED
  BY <1>1, <1>2, <1>3, <1>4, <1>5

LEMMA NextKeepsLine == LineInv /\ [Next]_lineVars => LineInv'
<1>1. ASSUME LineInv, UNCHANGED lineVars
      PROVE  LineInv'
  BY <1>1, LineStutters DEF lineVars, line
<1>2. ASSUME LineInv, \E u \in Users : Run(u) \/ Post(u) \/ GiveUp(u)
      PROVE  LineInv'
  BY <1>2, RunKeepsLine, PostKeepsLine, GiveUpKeepsLine
<1>3. ASSUME LineInv, PlugMoves("api") \/ PlugMoves("loop")
      PROVE  LineInv'
  BY <1>3, LineStutters DEF PlugMoves, line
<1>4. ASSUME LineInv, Serve
      PROVE  LineInv'
  BY <1>3, <1>4, TakeKeepsLine, AnswerKeepsLine DEF Serve
<1> QED
  BY <1>1, <1>2, <1>3, <1>4, WorldKeepsLine DEF Next

LEMMA LineIsInvariant == Spec => []LineInv
<1> QED
  BY InitLine, NextKeepsLine, PTL DEF Spec

(* Whatever two dates a client puts together, and whichever requests are   *)
(* carried out late, every variable of clients and API keeps its type; in  *)
(* particular the daemon holds no season that ends before it starts.       *)
THEOREM LineTypeCorrect == Spec => []LineTypeOK
<1>1. LineInv => LineTypeOK
  BY DEF LineInv
<1> QED
  BY <1>1, LineIsInvariant, PTL

(* A command that reports success is the last word of its user, for any    *)
(* number of users and of requests they gave up on.                        *)
THEOREM SuccessIsLastWord == Spec => []LastWord
<1>1. LineInv => LastWord
  BY DEF LineInv
<1> QED
  BY <1>1, LineIsInvariant, PTL

-----------------------------------------------------------------------------
(* The date that a dated command does not change.                          *)

\* What a posted season keeps of the one that is set.
OtherDateKept(season, verb) ==
    IF verb = "start"
    THEN season.end = (IF winter = None THEN None ELSE winter.end)
    ELSE winter # None => season.start = winter.start

\* As long as nobody has changed the season since its sender read it.
DateInv ==
    /\ \A i \in DOMAIN queue : queue[i].verb \in Dated /\ ~moved[queue[i].from] =>
         OtherDateKept(queue[i].season, queue[i].verb)
    /\ \A u \in Users : stage[u] = "read" /\ ~moved[u] => seen[u] = winter

LEMMA InstallingTells ==
    ASSUME LineInv, NEW season, Becomes(season), NEW u \in Users, ~moved'[u]
    PROVE  ~moved[u] /\ winter' = winter
BY DEF Becomes

\* A step that sends nothing, and after which nobody knows more of the season.
LEMMA DatesStutter ==
    ASSUME LineInv, DateInv, UNCHANGED <<queue, seen>>,
           \A u \in Users : stage'[u] = "read" => stage[u] = "read",
           UNCHANGED <<winter, moved>> \/ \E season : Becomes(season)
    PROVE  DateInv'
<1>1. \A u \in Users : ~moved'[u] => ~moved[u] /\ winter' = winter
  BY InstallingTells
<1>2. \A i \in DOMAIN queue : queue[i].from \in Users
  BY SenderIsUser
<1> QED
  BY <1>1, <1>2 DEF DateInv, OtherDateKept

LEMMA SendingKeepsDates ==
    ASSUME LineInv, DateInv, UNCHANGED <<winter, moved, seen>>, NEW u \in Users,
           NEW verb, NEW season, Send(u, verb, season),
           verb \in Dated /\ ~moved[u] => OtherDateKept(season, verb)
    PROVE  DateInv'
<1> DEFINE r == [from |-> u, verb |-> verb, season |-> season, waited |-> TRUE, ok |-> TRUE]
<1>1. queue \in Seq(Request) /\ queue' = Append(queue, r)
  BY DEF Send, LineInv, LineTypeOK
<1>2. r.from = u /\ r.verb = verb /\ r.season = season
  OBVIOUS
<1> HIDE DEF r
<1>3. \A i \in DOMAIN queue' : (i \in DOMAIN queue /\ queue'[i] = queue[i]) \/ queue'[i] = r
  <2>1. queue \in Seq(Request \union {r})
    <3>1. Len(queue) \in Nat /\ DOMAIN queue = 1 .. Len(queue)
      BY <1>1, LenProperties
    <3>2. queue \in [1 .. Len(queue) -> Request \union {r}]
      BY <1>1, <3>1, LenProperties
    <3> QED
      BY <3>1, <3>2, SeqDef
  <2>2. /\ Len(queue') = Len(queue) + 1 /\ queue' \in Seq(Request \union {r})
        /\ \A i \in 1 .. Len(queue) : queue'[i] = queue[i]
        /\ queue'[Len(queue) + 1] = r
    BY <1>1, <2>1, AppendProperties
  <2>3. Len(queue) \in Nat /\ DOMAIN queue = 1 .. Len(queue) /\ DOMAIN queue' = 1 .. Len(queue) + 1
    BY <1>1, <2>2, LenProperties
  <2> QED
    BY <2>2, <2>3
<1>4. \A v \in Users : stage'[v] = "read" => stage[v] = "read"
  BY DEF Send, LineInv, LineTypeOK
<1>5. \A i \in DOMAIN queue' : queue'[i].verb \in Dated /\ ~moved[queue'[i].from] =>
        OtherDateKept(queue'[i].season, queue'[i].verb)
  BY <1>2, <1>3 DEF DateInv
<1> QED
  BY <1>4, <1>5 DEF DateInv, OtherDateKept

LEMMA ClientKeepsDates ==
    LineInv /\ DateInv /\ (\E u \in Users : Run(u) \/ Post(u) \/ GiveUp(u)) => DateInv'
<1> SUFFICES ASSUME LineInv, DateInv, NEW u \in Users, Run(u) \/ Post(u) \/ GiveUp(u)
             PROVE  DateInv'
  OBVIOUS
<1>1. CASE Run(u)
  <2>1. PICK c \in Commands : Send(u, IF c.verb \in Dated THEN "status" ELSE c.verb, None)
    BY <1>1 DEF Run
  <2>2. (IF c.verb \in Dated THEN "status" ELSE c.verb) \notin Dated
    BY DEF Dated
  <2> QED
    BY <1>1, <2>1, <2>2, SendingKeepsDates DEF Run
<1>2. CASE Post(u)
  <2> DEFINE season == IF cmd[u].verb = "start" THEN StartKeepingEnd(u) ELSE EndKeepingStart(u)
  <2>1. ~moved[u] => OtherDateKept(season, cmd[u].verb)
    <3>1. ~moved[u] => seen[u] = winter
      BY <1>2 DEF Post, DateInv
    <3> QED
      BY <3>1 DEF OtherDateKept, StartKeepingEnd, EndKeepingStart
  <2>2. Send(u, cmd[u].verb, season) /\ UNCHANGED <<winter, moved, seen>>
    BY <1>2 DEF Post
  <2> HIDE DEF season
  <2> QED
    BY <2>1, <2>2, SendingKeepsDates
<1>3. CASE GiveUp(u)
  <2>1. /\ queue' = [i \in DOMAIN queue |-> Left(queue[i], u)]
        /\ UNCHANGED <<winter, moved>>
        /\ \A v \in Users : stage'[v] = "read" => stage[v] = "read" /\ seen'[v] = seen[v]
    BY <1>3 DEF GiveUp, Ended, LineInv, LineTypeOK
  <2>2. \A i \in DOMAIN queue : LET r == Left(queue[i], u) IN
          r.from = queue[i].from /\ r.verb = queue[i].verb /\ r.season = queue[i].season
    BY SenderIsUser DEF Left, Request
  <2>3. \A i \in DOMAIN queue' : i \in DOMAIN queue /\ queue'[i].from = queue[i].from
          /\ queue'[i].verb = queue[i].verb /\ queue'[i].season = queue[i].season
    BY <2>1, <2>2
  <2> QED
    BY <2>1, <2>3 DEF DateInv, OtherDateKept
<1> QED
  BY <1>1, <1>2, <1>3

LEMMA TakingKeepsDates ==
    LineInv /\ DateInv /\ (\E i \in DOMAIN queue : TakeStatus(i) \/ TakeWinter(i) \/ TakePlug(i)) => DateInv'
<1> SUFFICES ASSUME LineInv, DateInv, NEW i \in DOMAIN queue,
                    TakeStatus(i) \/ TakeWinter(i) \/ TakePlug(i)
             PROVE  DateInv'
  OBVIOUS
<1>1. Take(i) /\ UNCHANGED <<stage, seen>>
      /\ (UNCHANGED <<winter, moved>> \/ Becomes(queue[i].season))
  BY DEF TakeStatus, TakeWinter, TakePlug, Install, users
<1>2. queue \in Seq(Request) /\ i = 1 /\ queue' = RemoveAt(queue, 1)
  BY <1>1 DEF Take, InTurn, LineInv, LineTypeOK
<1>3. \A j \in DOMAIN queue' : j + 1 \in DOMAIN queue /\ queue'[j] = queue[j + 1]
  BY <1>2, WithoutFirst
<1>4. \A u \in Users : ~moved'[u] => ~moved[u] /\ winter' = winter
  BY <1>1, InstallingTells
<1>5. \A j \in DOMAIN queue : queue[j].from \in Users
  BY SenderIsUser
<1> QED
  BY <1>1, <1>3, <1>4, <1>5 DEF DateInv, OtherDateKept

LEMMA AnsweringKeepsDates ==
    LineInv /\ DateInv /\ (AnswerShared \/ AnswerPlug) => DateInv'
<1> SUFFICES ASSUME LineInv, DateInv, AnswerShared \/ AnswerPlug PROVE DateInv'
  OBVIOUS
<1> DEFINE u == serving.from
<1>1. serving # None /\ u \in Users /\ UNCHANGED <<winter, queue>>
      /\ \E ok \in BOOLEAN : Deliver(serving, ok)
  <2>1. serving # None /\ serving.ok \in BOOLEAN /\ u \in Users
    BY DEF AnswerShared, AnswerPlug, LineInv, LineTypeOK, Request
  <2> QED
    BY <2>1 DEF AnswerShared, AnswerPlug
<1>2. CASE UNCHANGED <<users, moved>>
  BY <1>1, <1>2 DEF users, DateInv, OtherDateKept
<1>3. ASSUME NEW how \in {"done", "failed"}, Ended(u, how), UNCHANGED moved
      PROVE  DateInv'
  <2>1. \A v \in Users : stage'[v] = "read" => stage[v] = "read" /\ seen'[v] = seen[v]
    BY <1>1, <1>3 DEF Ended, LineInv, LineTypeOK
  <2> QED
    BY <1>1, <1>3, <2>1 DEF DateInv, OtherDateKept
<1>4. CASE /\ serving.waited
           /\ stage' = [stage EXCEPT ![u] = "read"]
           /\ seen' = [seen EXCEPT ![u] = winter]
           /\ moved' = [moved EXCEPT ![u] = FALSE]
  <2>1. \A j \in DOMAIN queue : queue[j].from # u /\ queue[j].from \in Users
    BY <1>1, <1>4, SenderIsUser DEF LineInv, LatestServed
  <2>2. /\ seen'[u] = winter
        /\ \A v \in Users : v # u => /\ stage'[v] = stage[v] /\ seen'[v] = seen[v]
                                     /\ moved'[v] = moved[v]
    BY <1>1, <1>4 DEF LineInv, LineTypeOK
  <2> QED
    BY <1>1, <2>1, <2>2 DEF DateInv, OtherDateKept
<1> QED
  BY <1>1, <1>2, <1>3, <1>4 DEF Deliver

LEMMA RestKeepsDates ==
    LineInv /\ DateInv
      /\ (LoopBegins \/ LoopSeesEnd \/ LoopCancels \/ NextDay \/ DaemonRestart
            \/ PlugMoves("api") \/ PlugMoves("loop") \/ UNCHANGED lineVars) => DateInv'
<1>1. ASSUME LineInv, DateInv, DaemonRestart
      PROVE  DateInv'
  <2>1. DOMAIN queue' = {} /\ \E season : Becomes(season)
    BY <1>1 DEF DaemonRestart
  <2>2. \A u \in Users : stage'[u] = "read" => stage[u] = "read" /\ seen'[u] = seen[u]
    BY <1>1 DEF DaemonRestart, LineInv, LineTypeOK
  <2>3. \A u \in Users : ~moved'[u] => ~moved[u] /\ winter' = winter
    BY <1>1, <2>1, InstallingTells
  <2> QED
    BY <1>1, <2>1, <2>2, <2>3 DEF DateInv
<1>2. ASSUME LineInv, DateInv, LoopCancels
      PROVE  DateInv'
  BY <1>2, DatesStutter DEF LoopCancels, Install, users
<1>3. ASSUME LineInv, DateInv, LoopBegins \/ LoopSeesEnd \/ NextDay
      PROVE  DateInv'
  BY <1>3, DatesStutter DEF LoopBegins, LoopSeesEnd, NextDay, users
<1>4. ASSUME LineInv, DateInv, PlugMoves("api") \/ PlugMoves("loop") \/ UNCHANGED lineVars
      PROVE  DateInv'
  BY <1>4, DatesStutter DEF PlugMoves, lineVars, users
<1> QED
  BY <1>1, <1>2, <1>3, <1>4

LEMMA DatesAreInvariant == Spec => []DateInv
<1>1. Init => DateInv
  <2>1. Init => queue = <<>> /\ DOMAIN <<>> = {}
    BY DEF Init
  <2> QED
    BY <2>1 DEF Init, DateInv
<1>2. LineInv /\ DateInv /\ [Next]_lineVars => DateInv'
  BY ClientKeepsDates, TakingKeepsDates, AnsweringKeepsDates, RestKeepsDates DEF Next, Serve
<1> QED
  BY <1>1, <1>2, LineIsInvariant, PTL DEF Spec

(* `winter start` and `winter end` keep the season's other date, for any   *)
(* number of users, and however late their requests are carried out,       *)
(* unless somebody else changed the season in between.                     *)
THEOREM OtherDateIsKept == Spec => KeepsOtherDate
<1> DEFINE Kept == \A u \in Users :
         serving' # serving /\ serving' # None /\ serving'.from = u /\ serving'.ok
           /\ serving'.verb \in Dated /\ serving = None /\ ~moved[u] =>
             IF serving'.verb = "start"
             THEN winter'.end = (IF winter = None THEN None ELSE winter.end)
             ELSE winter # None => winter'.start = winter.start
<1>1. LineInv /\ DateInv /\ [Next]_lineVars => [Kept]_lineVars
  <2> SUFFICES ASSUME LineInv, DateInv, Next, serving = None, serving' # None,
                      serving'.ok, serving'.verb \in Dated, ~moved[serving'.from]
               PROVE  OtherDateKept(winter', serving'.verb)
    BY DEF lineVars, OtherDateKept
  <2>1. PICK i \in DOMAIN queue : TakeWinter(i)
    BY DEF Next, Serve, Run, Post, GiveUp, TakeStatus, TakePlug, AnswerShared, AnswerPlug,
           PlugMoves, LoopBegins, LoopSeesEnd, LoopCancels, NextDay, DaemonRestart, Dated, Plug
  <2>2. queue[i] \in Request
    BY SenderIsUser
  <2>3. /\ winter' = queue[i].season
        /\ serving'.verb = queue[i].verb /\ serving'.from = queue[i].from
    BY <2>1, <2>2 DEF TakeWinter, Install, Becomes, Request
  <2> QED
    BY <2>3 DEF DateInv
<1> QED
  BY <1>1, LineIsInvariant, DatesAreInvariant, PTL DEF Spec, KeepsOtherDate

-----------------------------------------------------------------------------
(* The timers, edited beside all this.                                     *)

\* The API thread is in a procedure for the request it serves, and for no other reason.
ApiAtRest == serving = None \/ serving.verb \notin Plug => pc["api"] = "idle"

\* The steps that reach the procedures, and what they do there.
LEMMA StepsOnTable ==
    ASSUME LineInv, [Next]_lineVars
    PROVE  \/ \E t \in Thread :
                \/ PlugStep(t) \/ Return(t)
                \/ /\ timers' = timers /\ (ApiAtRest => pc[t] = "idle")
                   /\ BeginRead(t, "clear") \/ BeginRead(t, "show")
                        \/ \E plan \in Plans : BeginSync(t, plan)
           \/ UNCHANGED <<timers, proc>>
           \/ DaemonRestart
<1>1. "loop" \in Thread /\ "api" \in Thread
  BY DEF Thread
<1>2. ASSUME NEW i \in DOMAIN queue, TakePlug(i)
      PROVE  /\ timers' = timers /\ (ApiAtRest => pc["api"] = "idle")
             /\ BeginRead("api", "clear") \/ BeginRead("api", "show")
                  \/ \E plan \in Plans : BeginSync("api", plan)
  <2>1. queue[i].verb \in Plug /\ timers' = timers /\ (ApiAtRest => pc["api"] = "idle")
    BY <1>2 DEF TakePlug, Take, ApiAtRest
  <2>2. CASE queue[i].verb # "sync" /\ BeginRead("api", queue[i].verb)
    BY <2>1, <2>2 DEF Plug
  <2>3. CASE \E plan \in Plans : BeginSync("api", plan)
    BY <2>1, <2>3
  <2> QED
    BY <1>2, <2>2, <2>3 DEF TakePlug
<1>3. CASE \E u \in Users : Run(u) \/ Post(u) \/ GiveUp(u)
  BY <1>3 DEF Run, Post, GiveUp, tableVars
<1>4. CASE Serve
  BY <1>1, <1>2, <1>4 DEF Serve, TakeStatus, TakeWinter, AnswerShared, AnswerPlug, PlugMoves, tableVars
<1>5. CASE LoopBegins \/ LoopSeesEnd \/ LoopCancels \/ PlugMoves("loop") \/ NextDay
  BY <1>1, <1>5 DEF LoopBegins, LoopSeesEnd, LoopCancels, PlugMoves, NextDay, tableVars
<1>6. CASE UNCHANGED lineVars
  BY <1>6 DEF lineVars, tableVars
<1> QED
  BY <1>3, <1>4, <1>5, <1>6 DEF Next

LEMMA LineKeepsTable == Spec => []TableInv
<1>1. Init => TableInv
  BY InitTableInv DEF Init
<1>2. LineInv /\ TableInv /\ [Next]_lineVars => TableInv'
  <2> SUFFICES ASSUME LineInv, TableInv, [Next]_lineVars PROVE TableInv'
    OBVIOUS
  <2>1. CASE DaemonRestart
    BY <2>1 DEF DaemonRestart, TableInv, HoldsPlug, Labels, Names
  <2> QED
    BY <2>1, StepsOnTable, StepKeepsTable, ReturningKeepsTable, BeginningKeepsTable, TableStutters
<1> QED
  BY <1>1, <1>2, LineIsInvariant, PTL DEF Spec

(* Beside clients and restarts, too, an addition finds a free id, and a    *)
(* sync that reports success has left exactly the configured windows in    *)
(* the plug.                                                               *)
THEOREM SyncIsExactBesideClients == Spec => []SlotFree /\ SyncedExactly
<1>1. TableInv => SlotFree
  BY NextIdIsFree DEF SlotFree
<1>2. LineInv /\ TableInv /\ [Next]_lineVars => [\A t \in Thread : Synced(t)]_tableVars
  <2> SUFFICES ASSUME LineInv, TableInv, [Next]_lineVars, NEW t \in Thread, tableVars' # tableVars
               PROVE  Synced(t)
    OBVIOUS
  <2>1. CASE DaemonRestart
    BY <2>1 DEF DaemonRestart, Synced
  <2>2. CASE UNCHANGED <<timers, proc>>
    BY <2>2 DEF proc, Synced
  <2> QED
    BY <2>1, <2>2, StepsOnTable, StepTellsTruth, BeginningTellsNothing
<1> QED
  BY <1>1, <1>2, LineIsInvariant, LineKeepsTable, PTL DEF Spec, SyncedExactly, Synced

\* What else the table's procedures have, which the rest of the daemon uses as well.
RestOK ==
    /\ first \in Tables /\ fails \in 0 .. MaxFails
    /\ used \in [DOMAIN Limit -> Nat]

LEMMA StepsOnRest ==
    ASSUME [Next]_lineVars
    PROVE  /\ first' = first
           /\ fails' = fails \/ Fault
           /\ used' = used \/ \E event \in {"runs", "passes", "restarts"} : Use(event)
<1>1. CASE \E u \in Users : Run(u) \/ Post(u) \/ GiveUp(u)
  BY <1>1 DEF Run, Post, GiveUp, tableVars
<1>2. CASE \E t \in Thread : PlugMoves(t)
  BY <1>2 DEF PlugMoves, Return, PlugStep, GetTable, DeleteFirst, ClearDone, BeginAdd, AddNext,
              AddDone, SendTable, NoFault
<1>3. CASE Serve /\ ~ PlugMoves("api")
  BY <1>3 DEF Serve, TakeStatus, TakeWinter, TakePlug, AnswerShared, AnswerPlug, Return, NoFault,
              tableVars
<1>4. CASE LoopBegins \/ LoopSeesEnd \/ LoopCancels \/ NextDay \/ DaemonRestart
  BY <1>4 DEF LoopBegins, LoopSeesEnd, LoopCancels, NextDay, DaemonRestart, NoFault, tableVars
<1>5. CASE UNCHANGED lineVars
  BY <1>5 DEF lineVars, tableVars
<1> QED
  BY <1>1, <1>2, <1>3, <1>4, <1>5 DEF Next, Thread

LEMMA RestIsInvariant == Spec => []RestOK
<1>1. Init => RestOK
  BY SlotAssumption DEF Init, InitTable, RestOK
<1>2. RestOK /\ [Next]_lineVars => RestOK'
  <2> SUFFICES ASSUME RestOK, [Next]_lineVars PROVE RestOK'
    OBVIOUS
  <2>1. /\ first' = first /\ (fails' = fails \/ Fault)
        /\ used' = used \/ \E event \in {"runs", "passes", "restarts"} : Use(event)
    BY StepsOnRest
  <2>2. fails' \in 0 .. MaxFails
    BY <2>1, SlotAssumption DEF RestOK, Fault
  <2>3. used' \in [DOMAIN Limit -> Nat]
    <3>1. DOMAIN Limit = {"runs", "passes", "restarts"}
      BY DEF Limit
    <3>2. ASSUME NEW event \in DOMAIN Limit, Use(event) PROVE used' \in [DOMAIN Limit -> Nat]
      <4>1. used[event] + 1 \in Nat
        BY DEF RestOK
      <4> QED
        BY <3>2, <4>1 DEF Use, RestOK
    <3> QED
      BY <2>1, <3>1, <3>2 DEF RestOK
  <2> QED
    BY <2>1, <2>2, <2>3 DEF RestOK
<1> QED
  BY <1>1, <1>2, PTL DEF Spec

LEMMA LineKeepsContents == Spec => []ContentInv
<1>1. Init => ContentInv
  BY InitContents DEF Init
<1>2. LineInv /\ TableInv /\ ContentInv /\ [Next]_lineVars => ContentInv'
  <2> SUFFICES ASSUME LineInv, TableInv, ContentInv, [Next]_lineVars PROVE ContentInv'
    OBVIOUS
  <2>1. CASE DaemonRestart
    <3>1. /\ UNCHANGED <<timers, first>> /\ table' = [t \in Thread |-> <<>>]
          /\ \A t \in Thread : pc'[t] = "idle"
      BY <2>1 DEF DaemonRestart
    <3> QED
      BY <3>1, RestartKeepsContents
  <2>2. CASE UNCHANGED <<timers, proc>>
    BY <2>2, StepsOnRest, ContentsStutter DEF proc
  <2> QED
    BY <2>1, <2>2, StepsOnRest, StepsOnTable, StepKeepsContents, ReturningKeepsContents,
       BeginningKeepsContents
<1> QED
  BY <1>1, <1>2, LineIsInvariant, LineKeepsTable, PTL DEF Spec

(* Every variable of the composition keeps its type, the tables that are   *)
(* edited beside the clients included.                                     *)
THEOREM TypeCorrect == Spec => []TypeOK
<1>1. LineInv /\ TableInv /\ ContentInv /\ RestOK => TypeOK
  BY DEF LineInv, TableInv, ContentInv, Proper, RestOK, TypeOK, TableTypeOK, Labels, Names
<1> QED
  BY <1>1, LineIsInvariant, LineKeepsTable, LineKeepsContents, RestIsInvariant, PTL

(* Beside clients and restarts, too, no addition is without a slot or an   *)
(* id, no two timers have the same id, and the plug holds only timers it   *)
(* held at first or was given, up to a last end cut off.                   *)
THEOREM TableIsSoundBesideClients == Spec => [](SlotFound /\ IdsDistinct /\ OnlyLastEndLost)
BY ContentsTell, LineKeepsTable, LineKeepsContents, PTL

(* While a thread clears the table, the plug loses the timer it deletes    *)
(* and no other, whatever the clients and the other thread do.             *)
THEOREM DeletionTakesOneBesideClients == Spec => DeletesOne
<1>1. LineInv /\ TableInv /\ ContentInv /\ [Next]_lineVars => [\A t \in Thread : TakesOne(t)]_tableVars
  <2> SUFFICES ASSUME LineInv, TableInv, ContentInv, [Next]_lineVars, NEW t \in Thread
               PROVE  TakesOne(t)
    OBVIOUS
  <2>1. CASE DaemonRestart
    BY <2>1, UnchangedTakesNone DEF DaemonRestart
  <2> QED
    BY <2>1, StepsOnTable, StepTakesOne, UnchangedTakesNone DEF Return
<1> QED
  BY <1>1, LineIsInvariant, LineKeepsTable, LineKeepsContents, PTL DEF Spec, DeletesOne, TakesOne

LEMMA StepKeepsApiAtRest ==
    ASSUME LineInv, TableInv, ApiAtRest, [Next]_lineVars
    PROVE  ApiAtRest'
<1> USE DEF ApiAtRest
<1>0. serving \in Request \union {None} /\ pc \in [Thread -> Labels]
  BY DEF LineInv, LineTypeOK, TableInv
<1>1. ASSUME NEW u \in Users, Run(u) \/ Post(u) PROVE ApiAtRest'
  BY <1>1 DEF Run, Post, tableVars, proc
<1>2. ASSUME NEW u \in Users, GiveUp(u) PROVE ApiAtRest'
  <2>1. pc' = pc /\ serving' = (IF serving = None THEN None ELSE Left(serving, u))
    BY <1>2 DEF GiveUp, tableVars, proc
  <2>2. serving # None => Left(serving, u).verb = serving.verb
    BY <1>0 DEF Left, Request
  <2>3. serving # None => serving' # None
    BY <1>0, <2>1, NoRequestAssumption DEF Left, Request
  <2> QED
    BY <2>1, <2>2, <2>3
<1>3. ASSUME NEW i \in DOMAIN queue, TakeStatus(i) \/ TakeWinter(i) PROVE ApiAtRest'
  BY <1>3 DEF TakeStatus, TakeWinter, Take, tableVars, proc
<1>4. ASSUME NEW i \in DOMAIN queue, TakePlug(i) PROVE ApiAtRest'
  <2>1. queue[i] # None /\ queue[i].verb \in Plug /\ serving' = queue[i]
    BY <1>4, SenderIsUser, NoRequestAssumption DEF TakePlug
  <2> QED
    BY <2>1
<1>5. CASE AnswerShared
  BY <1>5 DEF AnswerShared, tableVars, proc
<1>6. CASE AnswerPlug
  BY <1>0, <1>6 DEF AnswerPlug, Return, Thread
<1>7. ASSUME NEW t \in Thread, PlugMoves(t) PROVE ApiAtRest'
  <2>1. serving' = serving /\ pc[t] # "idle" /\ \A u \in Thread : u # t => pc'[u] = pc[u]
    BY <1>0, <1>7
    DEF PlugMoves, PlugStep, GetTable, DeleteFirst, ClearDone, BeginAdd, AddNext, AddDone, SendTable,
        Return, Returned, Goto
  <2> QED
    BY <2>1 DEF Thread
<1>8. CASE LoopBegins
  <2>1. serving' = serving /\ pc'["api"] = pc["api"]
    BY <1>0, <1>8 DEF LoopBegins, BeginRead, BeginSync, Goto, Thread
  <2> QED
    BY <2>1
<1>9. CASE LoopSeesEnd \/ LoopCancels \/ NextDay
  BY <1>9 DEF LoopSeesEnd, LoopCancels, NextDay, tableVars, proc
<1>10. CASE DaemonRestart
  BY <1>10 DEF DaemonRestart, Thread
<1>11. CASE UNCHANGED lineVars
  BY <1>11 DEF lineVars, tableVars, proc
<1> QED
  BY <1>1, <1>2, <1>3, <1>4, <1>5, <1>6, <1>7, <1>8, <1>9, <1>10, <1>11 DEF Next, Serve, Thread

LEMMA ApiAtRestIsInvariant == Spec => []ApiAtRest
<1>1. Init => ApiAtRest
  BY DEF Init, InitTable, ApiAtRest, Thread
<1> QED
  BY <1>1, StepKeepsApiAtRest, LineIsInvariant, LineKeepsTable, PTL DEF Spec

(* Beside clients that give up and a daemon that stops at any point, too,  *)
(* every step of the procedures on the table is one of the procedures on a *)
(* set, and no thread begins one while it is in another.                   *)
THEOREM TableEditsSetBesideClients == Spec => EditsSet
<1>1. LineInv /\ TableInv /\ ContentInv /\ ApiAtRest /\ [Next]_lineVars => [Set!SetNext]_(Set!setVars)
  <2> SUFFICES ASSUME LineInv, TableInv, ContentInv, ApiAtRest, [Next]_lineVars
               PROVE  [Set!SetNext]_(Set!setVars)
    OBVIOUS
  <2>1. CASE DaemonRestart
    BY <2>1, AbandoningStopsSet DEF DaemonRestart, Set!SetNext
  <2>2. CASE UNCHANGED <<timers, proc>>
    BY <2>2, SetStutters
  <2>3. ASSUME NEW t \in Thread,
               \/ PlugStep(t) \/ Return(t)
               \/ /\ timers' = timers /\ pc[t] = "idle"
                  /\ BeginRead(t, "clear") \/ BeginRead(t, "show")
                       \/ \E plan \in Plans : BeginSync(t, plan)
        PROVE  Set!Moves(t)
    <3>1. CASE PlugStep(t)
      BY <3>1, StepEditsSet DEF Set!Moves
    <3>2. CASE Return(t)
      BY <3>2, ReturningEndsSet
    <3> QED
      BY <2>3, <3>1, <3>2, BeginningStartsSet
  <2> QED
    BY <2>1, <2>2, <2>3, StepsOnTable DEF Set!SetNext, Thread, Set!Thread
<1>2. Init => Ids(timers) \in SUBSET Nat /\ Set!NoProcedures
  BY InitEmptiesSet DEF Init
<1> QED
  BY <1>1, <1>2, ApiAtRestIsInvariant, LineIsInvariant, LineKeepsTable, LineKeepsContents, PTL
  DEF Spec, EditsSet, Set!SetSpec

-----------------------------------------------------------------------------
(* The API thread's work grows by new requests alone.                      *)

(* Beside clients and restarts, too, a procedure has a bounded number of   *)
(* steps left, and every step of its thread makes it smaller.              *)
THEOREM ProceduresAreShortBesideClients ==
    Spec => /\ [](\A t \in Thread : StepsLeft(t) \in 0 .. Slots + Slots + 4)
            /\ [][\A t \in Thread : Shortens(t)]_lineVars
<1>1. TableInv /\ ContentInv => \A t \in Thread : StepsLeft(t) \in 0 .. Slots + Slots + 4
  BY StepsLeftInRange
<1>2. LineInv /\ TableInv /\ ContentInv /\ ApiAtRest /\ [Next]_lineVars =>
        [\A t \in Thread : Shortens(t)]_lineVars
  <2> SUFFICES ASSUME LineInv, TableInv, ContentInv, ApiAtRest, [Next]_lineVars, NEW t \in Thread
               PROVE  Shortens(t)
    OBVIOUS
  <2>1. CASE DaemonRestart
    <3>1. pc'[t] \in Resting
      BY <2>1 DEF DaemonRestart, Resting
    <3> QED
      BY <3>1, EndingShortens DEF Shortens
  <2>2. CASE UNCHANGED <<timers, proc>>
    BY <2>2 DEF Shortens, proc
  <2>3. ASSUME NEW u \in Thread, PlugStep(u) PROVE Shortens(t)
    BY <2>3, StepShortens, StepSparesOther DEF Shortens
  <2>4. ASSUME NEW u \in Thread, Return(u) PROVE Shortens(t)
    BY <2>4, OutsideShortens DEF Return, Returned, Resting
  <2>5. ASSUME NEW u \in Thread, pc[u] = "idle",
               BeginRead(u, "clear") \/ BeginRead(u, "show") \/ \E plan \in Plans : BeginSync(u, plan)
        PROVE  Shortens(t)
    BY <2>5, OutsideShortens DEF Resting
  <2> QED
    BY <2>1, <2>2, <2>3, <2>4, <2>5, StepsOnTable
<1> QED
  BY <1>1, <1>2, ApiAtRestIsInvariant, LineIsInvariant, LineKeepsTable, LineKeepsContents, PTL DEF Spec

\* Steps until the request being served is answered.
ServingLeft == IF serving = None THEN 0 ELSE 1 + StepsLeft("api")

\* Fewer requests wait, or as many and the one being served is nearer its answer.
Nearer ==
    \/ Len(queue') < Len(queue)
    \/ Len(queue') = Len(queue) /\ ServingLeft' < ServingLeft

LEMMA QueueHasLength ==
    ASSUME LineInv PROVE Len(queue) \in Nat /\ DOMAIN queue = 1 .. Len(queue)
BY LenProperties DEF LineInv, LineTypeOK

LEMMA ServingLeftInRange ==
    ASSUME TableInv, ContentInv
    PROVE  ServingLeft \in Nat /\ (serving # None => ServingLeft > 0)
<1>1. StepsLeft("api") \in 0 .. Slots + Slots + 4 /\ Slots \in Nat
  BY StepsLeftInRange, SlotAssumption DEF Thread
<1> QED
  BY <1>1 DEF ServingLeft

LEMMA StepsAtIsInteger ==
    ASSUME NEW label, NEW held \in Int, NEW planned \in Int
    PROVE  StepsAt(label, held, planned) \in Int
BY SlotAssumption DEF StepsAt

LEMMA ServingComesNearer ==
    ASSUME LineInv, TableInv, ContentInv, ApiAtRest, Serve PROVE Nearer
<1>1. ASSUME NEW i \in DOMAIN queue, Take(i) PROVE Nearer
  <2>1. i = 1 /\ queue' = RemoveAt(queue, 1) /\ queue \in Seq(Request)
    BY <1>1 DEF Take, InTurn, LineInv, LineTypeOK
  <2>2. Len(queue') = Len(queue) - 1
    BY <2>1, WithoutFirst
  <2> QED
    BY <2>2, QueueHasLength DEF Nearer
<1>2. CASE AnswerShared \/ AnswerPlug
  <2>1. serving # None /\ serving' = None /\ queue' = queue
    BY <1>2 DEF AnswerShared, AnswerPlug
  <2>2. ServingLeft' = 0
    BY <2>1 DEF ServingLeft
  <2> QED
    BY <2>1, <2>2, ServingLeftInRange DEF Nearer
<1>3. CASE PlugMoves("api")
  <2>1. PlugStep("api") /\ UNCHANGED <<queue, serving>>
    BY <1>3 DEF PlugMoves
  <2>2. serving # None
    BY <2>1 DEF PlugStep, GetTable, DeleteFirst, ClearDone, BeginAdd, AddNext, AddDone, ApiAtRest
  <2>3. StepsLeft("api")' < StepsLeft("api") /\ StepsLeft("api") \in Int
    BY <2>1, StepShortens, StepsLeftInRange, SlotAssumption DEF Thread
  <2>4. StepsLeft("api")' \in Int
    <3>1. TableInv' /\ ContentInv'
      BY <2>1, StepKeepsTable, StepKeepsContents DEF Thread
    <3>2. Len(table'["api"]) \in Int
      BY <3>1, LengthOfProper DEF ContentInv, Proper, Thread
    <3>3. Len(want'["api"]) \in Int
      BY <3>1, PlanAssumption, EmptySeq, LenProperties DEF TableInv, Thread
    <3>4. StepsLeft("api")' = StepsAt(pc'["api"], Len(table'["api"]), Len(want'["api"]))
      BY DEF StepsLeft
    <3> QED
      BY <3>2, <3>3, <3>4, StepsAtIsInteger
  <2>5. ServingLeft = 1 + StepsLeft("api") /\ ServingLeft' = 1 + StepsLeft("api")'
    BY <2>1, <2>2 DEF ServingLeft
  <2>6. ServingLeft' < ServingLeft
    BY <2>3, <2>4, <2>5
  <2> QED
    BY <2>1, <2>6 DEF Nearer
<1> QED
  BY <1>1, <1>2, <1>3 DEF Serve, TakeStatus, TakeWinter, TakePlug

\* All that the others do to the API thread's work is to add a request at its end.
ServiceWaits ==
    ServingLeft' = ServingLeft /\ Len(queue') \in {Len(queue), Len(queue) + 1}

LEMMA SendingAddsOne ==
    ASSUME LineInv, NEW u \in Users, Run(u) \/ Post(u) PROVE ServiceWaits
<1>1. PICK r : queue' = Append(queue, r) /\ UNCHANGED <<serving, pc, table, want>>
  BY DEF Run, Post, Send, tableVars, proc
<1>2. queue \in Seq(Request \union {r})
  BY QueueHasLength, ElementOfSeq, SeqDef DEF LineInv, LineTypeOK
<1>3. Len(queue') = Len(queue) + 1
  BY <1>1, <1>2, AppendProperties
<1> QED
  BY <1>1, <1>3 DEF ServiceWaits, ServingLeft, StepsLeft

LEMMA GivingUpWaits ==
    ASSUME LineInv, NEW u \in Users, GiveUp(u) PROVE ServiceWaits
<1>1. /\ queue' = [i \in DOMAIN queue |-> Left(queue[i], u)]
      /\ serving' = IF serving = None THEN None ELSE Left(serving, u)
      /\ UNCHANGED <<pc, table, want>>
  BY DEF GiveUp, tableVars, proc
<1>2. serving' = None <=> serving = None
  BY <1>1, NoRequestAssumption DEF LineInv, LineTypeOK, Left, Request
<1>3. Len(queue') = Len(queue)
  <2>1. queue' \in Seq(Request)
    BY GiveUpKeepsLine DEF LineInv, LineTypeOK
  <2>2. DOMAIN queue' = 1 .. Len(queue) /\ Len(queue) \in Nat
    BY <1>1, QueueHasLength
  <2> QED
    BY <2>1, <2>2, LenProperties
<1> QED
  BY <1>1, <1>2, <1>3 DEF ServiceWaits, ServingLeft, StepsLeft

LEMMA LoopLeavesApi ==
    ASSUME TableInv, LoopBegins \/ PlugMoves("loop") PROVE ServiceWaits
<1>1. UNCHANGED <<queue, serving>>
  BY DEF LoopBegins, PlugMoves
<1>2. UNCHANGED <<pc["api"], table["api"], want["api"]>>
  <2>1. CASE LoopBegins
    BY <2>1 DEF LoopBegins, BeginRead, BeginSync, Goto, TableInv, Thread
  <2>2. CASE PlugMoves("loop")
    BY <2>2, StepSparesOther DEF PlugMoves, Thread
  <2> QED
    BY <2>1, <2>2
<1> QED
  BY <1>1, <1>2 DEF ServiceWaits, ServingLeft, StepsLeft

LEMMA RestartClears ==
    ASSUME LineInv, TableInv, ContentInv, DaemonRestart PROVE Nearer \/ ServiceWaits
<1>1. Len(queue') = 0 /\ ServingLeft' = 0
  BY EmptySeq DEF DaemonRestart, ServingLeft
<1> QED
  BY <1>1, QueueHasLength, ServingLeftInRange DEF Nearer, ServiceWaits

(* Each step of the API thread takes a request out of the queue or brings  *)
(* the answer to the one it serves nearer, and nobody else does more than  *)
(* add one at the end: an edit of the loop's, a client that gives up and a *)
(* failure of the plug lengthen nothing, and a restart only shortens.      *)
THEOREM ServiceAdvances ==
    Spec => [][(Serve => Nearer) /\ (Nearer \/ ServiceWaits)]_lineVars
<1>1. LineInv /\ TableInv /\ ContentInv /\ ApiAtRest /\ [Next]_lineVars =>
        [(Serve => Nearer) /\ (Nearer \/ ServiceWaits)]_lineVars
  <2> SUFFICES ASSUME LineInv, TableInv, ContentInv, ApiAtRest, Next, ~ Serve
               PROVE  Nearer \/ ServiceWaits
    BY ServingComesNearer
  <2>1. CASE \E u \in Users : Run(u) \/ Post(u) \/ GiveUp(u)
    BY <2>1, SendingAddsOne, GivingUpWaits
  <2>2. CASE LoopBegins \/ PlugMoves("loop")
    BY <2>2, LoopLeavesApi
  <2>3. CASE LoopSeesEnd \/ LoopCancels \/ NextDay
    BY <2>3 DEF LoopSeesEnd, LoopCancels, NextDay, tableVars, proc, ServiceWaits, ServingLeft, StepsLeft
  <2>4. CASE DaemonRestart
    BY <2>4, RestartClears
  <2> QED
    BY <2>1, <2>2, <2>3, <2>4 DEF Next
<1> QED
  BY <1>1, ApiAtRestIsInvariant, LineIsInvariant, LineKeepsTable, LineKeepsContents, PTL DEF Spec
=============================================================================
