--------------------------- MODULE ExchangeProofs ---------------------------
(***************************************************************************)
(* Theorems about the UDP client, for every set of timer tables, any       *)
(* number of attempts and exchanges, any room for packets, and presses of  *)
(* the button.                                                             *)
(***************************************************************************)
EXTENDS Exchange, TLAPS

CallInv ==
    /\ call \in Call \union {None} /\ op \in Ops
    /\ pc \in {"idle", "drain", "listen"}
    /\ pc # "idle" => call \in Call
    /\ call \in Call => op = call.op \/ (call.op = "SET" /\ op = "GET")

\* What is on its way to the plug was sent for some call.
CarriedOK(p) ==
    /\ p.op = "SET" => p.to \in Power
    /\ p.op \in {"ADD", "DELETE"} => p.to \in Tables

\* A call begins within the bound; only the read-back of set_state may go beyond.
BoundInv ==
    /\ seq \in Nat /\ seq <= MaxExchanges + 1
    /\ pc = "drain" \/ (pc = "listen" /\ op = "SET") => seq <= MaxExchanges
    /\ pc = "drain" /\ op = "SET" => seq < MaxExchanges

TypeInv == TypeOK /\ CallInv /\ BoundInv /\ \A p \in commands : CarriedOK(p)

LEMMA CallKinds ==
    ASSUME NEW c \in Call
    PROVE  /\ c.op \in Ops /\ c.to \in Values
           /\ c.op \in {"GET", "GETALL"} <=> c \in Read
           /\ c.op \in {"GET", "GETALL"} => c.to = None
           /\ c.op = "SET" => c.to \in Power
           /\ c.op \in {"ADD", "DELETE"} => c.to \in Tables
BY DEF Call, Read, Set, Edit, Ops, Values

\* What a transmission carries is a packet, and sent for the call under way.
LEMMA PacketTyped ==
    ASSUME TypeInv, call \in Call, NEW n \in Seqs
    PROVE  CarriedOK(Packet(op, Carried, n)) /\ Packet(op, Carried, n) \in [op : Ops, to : Values, seq : Seqs]
<1>1. Carried \in Values /\ op \in Ops
  BY CallKinds DEF Carried, Confirming, TypeInv, CallInv, Values
<1>2. CarriedOK(Packet(op, Carried, n))
  BY CallKinds DEF Carried, Confirming, TypeInv, CallInv, CarriedOK, Packet
<1> QED
  BY <1>1, <1>2 DEF Packet

LEMMA ClientKeepsTypes == TypeInv /\ (Client \/ SocketFails \/ \E c \in Calls : Begin(c)) => TypeInv'
<1> SUFFICES ASSUME TypeInv, Client \/ SocketFails \/ \E c \in Calls : Begin(c) PROVE TypeInv'
  OBVIOUS
<1>1. ASSUME NEW c \in Calls, Begin(c) PROVE TypeInv'
  <2>1. c \in Call /\ c.op \in Ops
    BY CallAssumption, CallKinds
  <2>2. /\ seq < MaxExchanges /\ call' = c /\ op' = c.op /\ pc' = "drain" /\ had' = {relay}
        /\ stale' = FALSE
        /\ UNCHANGED <<relay, timers, commands, replies, queue, attempt, seq, answer, presses>>
    BY <1>1 DEF Begin, net
  <2>3. late' \subseteq {"effect", "reply"}
    BY <1>1 DEF Begin, LateEffect
  <2>4. TypeOK'
    BY <2>1, <2>2, <2>3 DEF TypeInv, TypeOK
  <2> QED
    BY <2>1, <2>2, <2>4, BoundAssumption DEF TypeInv, CallInv, BoundInv, CarriedOK
<1>2. CASE Send
  <2> DEFINE p == Packet(op, Carried, seq + 1)
  <2>1. call \in Call /\ seq + 1 \in Seqs /\ seq <= MaxExchanges
    BY <1>2, BoundAssumption DEF Send, TypeInv, CallInv, BoundInv, Seqs
  <2>2. CarriedOK(p) /\ p \in [op : Ops, to : Values, seq : Seqs]
    BY <2>1, PacketTyped
  <2>3. /\ attempt' = 1 /\ seq' = seq + 1 /\ commands' = commands \union {p} /\ pc' = "listen"
        /\ pc = "drain"
        /\ UNCHANGED <<relay, timers, had, replies, queue, call, op, answer, stale, presses>>
    BY <1>2 DEF Send, plug
  <2>4. late' \subseteq {"effect", "reply"}
    BY <1>2 DEF Send, LateReply, TypeInv, TypeOK
  <2> HIDE DEF p
  <2>5. TypeOK'
    BY <2>1, <2>2, <2>3, <2>4, BoundAssumption DEF TypeInv, TypeOK
  <2>6. CallInv' /\ BoundInv'
    BY <2>1, <2>3, BoundAssumption DEF TypeInv, CallInv, BoundInv
  <2>7. \A q \in commands' : CarriedOK(q)
    BY <2>2, <2>3 DEF TypeInv
  <2> QED
    BY <2>5, <2>6, <2>7 DEF TypeInv, CarriedOK
<1>3. CASE Ignore \/ \E r \in queue : Discard(r)
  BY <1>3 DEF Ignore, Discard, plug, net, client, TypeInv, TypeOK, CallInv, BoundInv, CarriedOK
<1>4. CASE Take
  <2>1. PICK r \in queue : /\ Fits(r) /\ queue' = queue \ {r} /\ stale' = (stale \/ r.seq # seq)
                           /\ IF op = "SET"
                              THEN pc' = "drain" /\ op' = "GET" /\ UNCHANGED answer
                              ELSE Finish(Result(r)) /\ UNCHANGED op
    BY <1>4 DEF Take
  <2>2. /\ pc = "listen" /\ call \in Call
        /\ UNCHANGED <<relay, timers, had, commands, replies, call, attempt, seq, late, presses>>
    BY <1>4 DEF Take, plug, net, TypeInv, CallInv
  <2>3. Result(r) \in Values \union {Failed}
    BY <2>1, <2>2, CallKinds DEF Result, TypeInv, TypeOK
  <2>4. /\ answer' \in Values \union {Failed}
        /\ \/ pc' = "drain" /\ op = "SET" /\ op' = "GET"
           \/ pc' = "idle" /\ op' = op
    BY <2>1, <2>3 DEF Finish, TypeInv, TypeOK
  <2>5. stale' \in BOOLEAN
    BY <2>1
  <2>6. op' \in Ops
    BY <2>4 DEF Ops, TypeInv, TypeOK
  <2>7. TypeOK'
    BY <2>1, <2>2, <2>4, <2>5, <2>6 DEF TypeInv, TypeOK
  <2>8. CallInv' /\ BoundInv'
    BY <2>2, <2>4, <2>6 DEF TypeInv, CallInv, BoundInv
  <2> QED
    BY <2>2, <2>7, <2>8 DEF TypeInv, CarriedOK
<1>5. CASE TimeOut
  <2>1. CASE Exhausted
    BY <1>5, <2>1 DEF TimeOut, Due, Finish, plug, TypeInv, TypeOK, CallInv, BoundInv, CarriedOK
  <2>2. CASE ~Exhausted
    <3> DEFINE p == Packet(op, Carried, seq)
    <3>1. pc = "listen" /\ call \in Call /\ seq \in Seqs
      BY <1>5 DEF TimeOut, Due, TypeInv, TypeOK, CallInv
    <3>2. CarriedOK(p) /\ p \in [op : Ops, to : Values, seq : Seqs]
      BY <3>1, PacketTyped
    <3>3. attempt + 1 \in 0 .. Attempts
      BY <2>2, BoundAssumption DEF Exhausted, TypeInv, TypeOK
    <3>4. /\ commands' = commands \union {p} /\ attempt' = attempt + 1
          /\ UNCHANGED <<pc, answer, relay, timers, had, replies, queue, call, op, seq, stale, late, presses>>
      BY <1>5, <2>2 DEF TimeOut, plug
    <3> HIDE DEF p
    <3>5. TypeOK'
      BY <3>2, <3>3, <3>4 DEF TypeInv, TypeOK
    <3>6. \A q \in commands' : CarriedOK(q)
      BY <3>2, <3>4 DEF TypeInv
    <3> QED
      BY <3>4, <3>5, <3>6 DEF TypeInv, CallInv, BoundInv, CarriedOK
  <2> QED
    BY <2>1, <2>2
<1>6. CASE SocketFails
  BY <1>6 DEF SocketFails, Finish, plug, net, TypeInv, TypeOK, CallInv, BoundInv, CarriedOK
<1> QED
  BY <1>1, <1>2, <1>3, <1>4, <1>5, <1>6 DEF Client

LEMMA CarryTyped ==
    ASSUME NEW S, NEW packets \in SUBSET S, NEW r \in S PROVE Carry(packets, r) \in SUBSET S
BY DEF Carry

LEMMA WorldKeepsTypes == TypeInv /\ (Network \/ Stray \/ Button) => TypeInv'
<1> SUFFICES ASSUME TypeInv, Network \/ Stray \/ Button PROVE TypeInv'
  OBVIOUS
<1> DEFINE ReplySet == [op : Ops, seq : Seqs, from : {"plug"}, ok : BOOLEAN, value : Values]
           QueueSet == [op : Ops, seq : Seqs, from : {"plug", "other"}, ok : BOOLEAN, value : Values]
<1> USE DEF plug, net, client
<1>1. ASSUME NEW p \in commands, Handle(p) PROVE TypeInv'
  <2>1. PICK ok \in BOOLEAN :
          /\ relay' = IF p.op = "SET" /\ ok THEN p.to ELSE relay
          /\ timers' = IF p.op \in {"ADD", "DELETE"} /\ ok THEN p.to ELSE timers
          /\ replies' = Carry(replies, Reply(p, ok))
    BY <1>1 DEF Handle
  <2>2. CarriedOK(p) /\ p \in [op : Ops, to : Values, seq : Seqs]
    BY DEF TypeInv, TypeOK
  <2>3. relay' \in Power /\ timers' \in Tables
    BY <2>1, <2>2 DEF CarriedOK, TypeInv, TypeOK
  <2>4. Reply(p, ok) \in ReplySet
    BY <2>1, <2>2 DEF Reply, TypeInv, TypeOK, Values
  <2>5. replies' \in SUBSET ReplySet
    BY <2>1, <2>4, CarryTyped DEF TypeInv, TypeOK
  <2>6. /\ commands' \subseteq commands /\ had' = had \union {relay'}
        /\ UNCHANGED <<queue, pc, call, op, attempt, seq, answer, stale, late, presses>>
    BY <1>1 DEF Handle
  <2>7. TypeOK'
    BY <2>3, <2>5, <2>6 DEF TypeInv, TypeOK
  <2> QED
    BY <2>6, <2>7 DEF TypeInv, CallInv, BoundInv, CarriedOK
<1>2. CASE LoseCommand \/ LoseReply
  BY <1>2 DEF LoseCommand, LoseReply, TypeInv, TypeOK, CallInv, BoundInv, CarriedOK
<1>3. CASE Arrive \/ Stray
  <2>1. ReplySet \subseteq QueueSet /\ replies \in SUBSET ReplySet /\ queue \in SUBSET QueueSet
    BY DEF TypeInv, TypeOK
  <2>2. Junk \in QueueSet
    BY BoundAssumption DEF Junk, Ops, Seqs, Values, Power
  <2>3. PICK r \in QueueSet : queue' = Carry(queue, r) /\ replies' \in {replies, replies \ {r}}
    BY <1>3, <2>1, <2>2 DEF Arrive, Stray
  <2>4. queue' \in SUBSET QueueSet /\ replies' \in SUBSET ReplySet
    BY <2>1, <2>3, CarryTyped
  <2>5. UNCHANGED <<plug, commands, client, presses>>
    BY <1>3 DEF Arrive, Stray
  <2> QED
    BY <2>4, <2>5 DEF TypeInv, TypeOK, CallInv, BoundInv, CarriedOK
<1>4. CASE Button
  BY <1>4, BoundAssumption DEF Button, TypeInv, TypeOK, CallInv, BoundInv, CarriedOK
<1> QED
  BY <1>1, <1>2, <1>3, <1>4 DEF Network

LEMMA TypeInvariant == Spec => []TypeInv
<1>1. Init => TypeInv
  <2> SUFFICES ASSUME Init PROVE TypeInv
    OBVIOUS
  <2>1. TypeOK
    <3>1. "GET" \in Ops /\ 0 \in Seqs /\ None \in Values /\ 0 \in 0 .. Attempts
          /\ 0 \in 0 .. MaxPresses
      BY BoundAssumption DEF Ops, Seqs, Values
    <3> QED
      BY <3>1 DEF Init, TypeOK
  <2>2. CallInv
    <3>1. call = None /\ op = "GET" /\ pc = "idle"
      BY DEF Init
    <3> QED
      BY <3>1, CallAssumption DEF CallInv, Ops
  <2>3. BoundInv /\ \A p \in commands : CarriedOK(p)
    BY BoundAssumption DEF Init, BoundInv
  <2> QED
    BY <2>1, <2>2, <2>3 DEF TypeInv
<1>2. TypeInv /\ [Next]_vars => TypeInv'
  <2>1. TypeInv /\ UNCHANGED vars => TypeInv'
    BY DEF vars, plug, net, client, TypeInv, TypeOK, CallInv, BoundInv, CarriedOK
  <2> QED
    BY <2>1, ClientKeepsTypes, WorldKeepsTypes DEF Next
<1> QED
  BY <1>1, <1>2, PTL DEF Spec

(* On any network every variable keeps its type; in particular a command   *)
(* is never sent more than Attempts times.                                 *)
THEOREM TypesHold == Spec => []TypeOK
BY TypeInvariant, PTL DEF TypeInv

-----------------------------------------------------------------------------
(* How long a call may take, whatever the network does.                    *)

ExchangeLeft == Attempts - attempt + 1

\* The transmissions left at most, and the waits before them.
WaitsLeft ==
    CASE pc = "drain" /\ op = "SET"  -> Attempts + 1 + Attempts + 1
      [] pc = "listen" /\ op = "SET" -> ExchangeLeft + Attempts + 1
      [] pc = "drain" /\ op # "SET"  -> Attempts + 1
      [] pc = "listen" /\ op # "SET" -> ExchangeLeft
      [] OTHER                       -> 0

Sent == pc = "listen" => attempt >= 1

LEMMA SentInvariant == Spec => []Sent
<1>1. Init => Sent
  BY DEF Init, Sent
<1>2. TypeInv /\ Sent /\ [Next]_vars => Sent'
  <2> SUFFICES ASSUME TypeInv, Sent, [Next]_vars PROVE Sent'
    OBVIOUS
  <2>1. attempt \in Nat
    BY BoundAssumption DEF TypeInv, TypeOK
  <2>2. CASE Client \/ SocketFails \/ \E c \in Calls : Begin(c)
    BY <2>1, <2>2 DEF Client, Begin, Discard, Send, Ignore, client, Take, TimeOut, SocketFails,
                      Finish, Sent
  <2>3. CASE Network \/ Stray \/ Button \/ UNCHANGED vars
    BY <2>3 DEF Network, Arrive, LoseCommand, LoseReply, Handle, Stray, Button, vars, client, Sent
  <2> QED
    BY <2>2, <2>3 DEF Next
<1> QED
  BY <1>1, <1>2, TypeInvariant, PTL DEF Spec

LEMMA ClientCountsDown ==
    ASSUME TypeInv, Sent, Send \/ Take \/ TimeOut \/ SocketFails
    PROVE  WaitsLeft' < WaitsLeft
<1>1. attempt \in 0 .. Attempts /\ Attempts \in Nat \ {0} /\ pc \in {"idle", "drain", "listen"}
  BY BoundAssumption DEF TypeInv, TypeOK
<1>2. CASE Send
  BY <1>1, <1>2 DEF Send, WaitsLeft, ExchangeLeft
<1>3. CASE Take
  BY <1>1, <1>3 DEF Take, Finish, WaitsLeft, ExchangeLeft
<1>4. CASE TimeOut
  BY <1>1, <1>4 DEF TimeOut, Due, Exhausted, Finish, WaitsLeft, ExchangeLeft
<1>5. CASE SocketFails
  BY <1>1, <1>5 DEF SocketFails, Finish, WaitsLeft, ExchangeLeft
<1> QED
  BY <1>2, <1>3, <1>4, <1>5

(* A call sends a command at most twice Attempts times and waits as often  *)
(* for a reply, then it returns: every transmission, every reply taken,    *)
(* every timeout and every failure of the socket brings its end nearer,    *)
(* and no loss, no late or repeated reply, no packet of another device and *)
(* no packet that is thrown away puts it off.                              *)
THEOREM CallsAreShort ==
    Spec => /\ [](WaitsLeft \in 0 .. Attempts + 1 + Attempts + 1)
            /\ [][/\ Send \/ Take \/ TimeOut \/ SocketFails => WaitsLeft' < WaitsLeft
                  /\ pc # "idle" => WaitsLeft' < WaitsLeft \/ UNCHANGED WaitsLeft]_vars
<1>1. TypeInv /\ Sent => WaitsLeft \in 0 .. Attempts + 1 + Attempts + 1
  <2> SUFFICES ASSUME TypeInv, Sent PROVE WaitsLeft \in 0 .. Attempts + 1 + Attempts + 1
    OBVIOUS
  <2>1. attempt \in 0 .. Attempts /\ Attempts \in Nat \ {0} /\ pc \in {"idle", "drain", "listen"}
    BY BoundAssumption DEF TypeInv, TypeOK
  <2> QED
    BY <2>1 DEF Sent, WaitsLeft, ExchangeLeft
<1>2. TypeInv /\ Sent /\ [Next]_vars =>
        [/\ Send \/ Take \/ TimeOut \/ SocketFails => WaitsLeft' < WaitsLeft
         /\ pc # "idle" => WaitsLeft' < WaitsLeft \/ UNCHANGED WaitsLeft]_vars
  <2> SUFFICES ASSUME TypeInv, Sent, Next, pc # "idle",
                      ~ (Send \/ Take \/ TimeOut \/ SocketFails)
               PROVE  UNCHANGED WaitsLeft
    BY ClientCountsDown
  <2>1. UNCHANGED client
    BY DEF Next, Client, Begin, Discard, Ignore, Network, Arrive, LoseCommand, LoseReply, Handle, Stray,
           Button
  <2> QED
    BY <2>1 DEF client, WaitsLeft, ExchangeLeft
<1> QED
  BY <1>1, <1>2, TypeInvariant, SentInvariant, PTL DEF Spec

-----------------------------------------------------------------------------
(* Which reply is taken for an answer.                                     *)

\* While the client listens, whatever could be taken for the answer answers the
\* exchange under way, unless something else was on its way when that began.
FreshInv ==
    "reply" \notin late =>
        /\ ~stale
        /\ pc = "listen" =>
             /\ \A p \in commands \union replies : p.op \in Fitting(op) => p.seq = seq
             /\ \A r \in queue : Fits(r) => r.seq = seq

LEMMA FreshKept == TypeInv /\ FreshInv /\ [Next]_vars => FreshInv'
<1> SUFFICES ASSUME TypeInv, FreshInv, [Next]_vars, "reply" \notin late' PROVE FreshInv'
  BY DEF FreshInv
<1> USE DEF FreshInv, plug, net, client
<1>1. ASSUME NEW c \in Calls, Begin(c) PROVE FreshInv'
  BY <1>1 DEF Begin
<1>2. CASE Send
  <2>1. /\ queue' = {} /\ replies' = replies /\ op' = op /\ seq' = seq + 1 /\ stale' = stale
        /\ commands' = commands \union {Packet(op, Carried, seq + 1)}
    BY <1>2 DEF Send, Drained
  <2>2. "reply" \notin late /\ \A p \in commands \union replies : p.op \notin Fitting(op)
    BY <1>2 DEF Send, LateReply
  <2> QED
    BY <2>1, <2>2 DEF Packet, Fitting
<1>3. CASE Ignore \/ SocketFails \/ UNCHANGED vars \/ \E r \in queue : Discard(r)
  BY <1>3 DEF Ignore, SocketFails, Finish, Discard, vars, Fitting, Fits
<1>4. CASE Take
  BY <1>4 DEF Take, Finish
<1>5. CASE TimeOut
  <2>1. /\ UNCHANGED <<replies, queue, op, seq, stale, late>> /\ pc = "listen"
        /\ commands' \subseteq commands \union {Packet(op, Carried, seq)}
    BY <1>5 DEF TimeOut, Due
  <2> QED
    BY <2>1 DEF Packet, Fitting, Fits
<1>6. ASSUME NEW p \in commands, Handle(p) PROVE FreshInv'
  <2>1. PICK ok \in BOOLEAN : replies' = Carry(replies, Reply(p, ok))
    BY <1>6 DEF Handle
  <2>2. Reply(p, ok).op = p.op /\ Reply(p, ok).seq = p.seq
    BY DEF Reply
  <2>3. replies' \subseteq replies \union {Reply(p, ok)}
    BY <2>1 DEF Carry
  <2>4. commands' \subseteq commands /\ UNCHANGED <<queue, pc, op, seq, stale, late>>
    BY <1>6 DEF Handle
  <2> HIDE DEF Reply
  <2> QED
    BY <2>2, <2>3, <2>4 DEF Fitting, Fits
<1>7. CASE Arrive
  <2>1. PICK r \in replies : queue' \subseteq queue \union {r} /\ replies' \subseteq replies
    BY <1>7 DEF Arrive, Carry
  <2>2. UNCHANGED <<commands, pc, op, seq, stale, late>>
    BY <1>7 DEF Arrive
  <2> QED
    BY <2>1, <2>2 DEF Fitting, Fits
<1>8. CASE LoseCommand \/ LoseReply \/ Button
  BY <1>8 DEF LoseCommand, LoseReply, Button, Fitting, Fits
<1>9. CASE Stray
  <2>1. queue' \subseteq queue \union {Junk} /\ Junk.from = "other"
    BY <1>9 DEF Stray, Carry, Junk
  <2> QED
    BY <1>9, <2>1 DEF Stray, Fitting, Fits
<1> QED
  BY <1>1, <1>2, <1>3, <1>4, <1>5, <1>6, <1>7, <1>8, <1>9 DEF Next, Client, Network

(* On any network a reply to another command is taken for the answer only  *)
(* if it, or that command, was still on its way when drain returned; after *)
(* any number of losses, retries and duplicates, of whatever came before.  *)
THEOREM AnswersAreFresh == Spec => []StaleOnlyIfLate
<1>1. Init => FreshInv
  BY DEF Init, FreshInv
<1>2. FreshInv => StaleOnlyIfLate
  BY DEF FreshInv, StaleOnlyIfLate
<1> QED
  BY <1>1, <1>2, FreshKept, TypeInvariant, PTL DEF Spec

-----------------------------------------------------------------------------
(* What the packets say.                                                   *)

\* What a reply that fits may say.
Says(r) ==
    /\ op = "GET" => r.value \in had
    /\ op = "GETALL" /\ r.ok => r.value = timers
    /\ op \in {"ADD", "DELETE"} /\ r.ok => timers = call.to

\* A write on its way is the call's own, and what fits tells the truth.
PacketInv ==
    /\ relay \in had
    /\ late = {} =>
         /\ \A p \in commands : p.op \in HeaderOnly => call \in Call /\ p.op = call.op /\ p.to = call.to
         /\ pc = "listen" =>
              /\ \A r \in replies : r.op \in Fitting(op) => Says(r)
              /\ \A r \in queue : Fits(r) => Says(r)

\* A step that leaves the call and the plug alone, and adds no packet.
LEMMA QuietKeepsPackets ==
    ASSUME PacketInv, UNCHANGED <<relay, timers, had, call, late>>,
           commands' \subseteq commands, replies' \subseteq replies,
           pc' # "listen" \/ (UNCHANGED <<pc, op>> /\ \A r \in queue' : r \in queue \union replies \/ r.from # "plug")
    PROVE  PacketInv'
<1>1. relay' \in had' /\ (late' = {} =>
        \A p \in commands' : p.op \in HeaderOnly => call' \in Call /\ p.op = call'.op /\ p.to = call'.to)
  BY DEF PacketInv
<1>2. CASE pc' # "listen"
  BY <1>1, <1>2 DEF PacketInv
<1>3. CASE UNCHANGED <<pc, op>> /\ \A r \in queue' : r \in queue \union replies \/ r.from # "plug"
  <2>1. \A r : Says(r)' = Says(r) /\ Fits(r)' = Fits(r)
    BY <1>3 DEF Says, Fits, Fitting
  <2>2. Fitting(op)' = Fitting(op)
    BY <1>3 DEF Fitting
  <2>3. \A r : Fits(r) => r.from = "plug" /\ r.op \in Fitting(op)
    BY DEF Fits
  <2> QED
    BY <1>1, <1>3, <2>1, <2>2, <2>3 DEF PacketInv
<1> QED
  BY <1>2, <1>3

LEMMA NextKeepsPackets == TypeInv /\ PacketInv /\ [Next]_vars => PacketInv'
<1> SUFFICES ASSUME TypeInv, PacketInv, [Next]_vars PROVE PacketInv'
  OBVIOUS
<1> USE DEF plug, net, client
<1>1. ASSUME NEW c \in Calls, Begin(c) PROVE PacketInv'
  BY <1>1 DEF Begin, LateEffect, PacketInv
<1>2. CASE Send
  <2>1. /\ queue' = {} /\ UNCHANGED <<relay, timers, had, replies, op, call>>
        /\ commands' = commands \union {Packet(op, Carried, seq')} /\ call \in Call
    BY <1>2 DEF Send, Drained, TypeInv, CallInv
  <2>2. late' = {} => late = {} /\ \A p \in replies : p.op \notin Fitting(op)
    BY <1>2 DEF Send, LateReply
  <2>3. op \in HeaderOnly => op = call.op /\ Carried = call.to
    BY <2>1 DEF TypeInv, CallInv, HeaderOnly, Carried, Confirming
  <2>4. late' = {} => \A p \in commands' :
          p.op \in HeaderOnly => call' \in Call /\ p.op = call'.op /\ p.to = call'.to
    BY <2>1, <2>2, <2>3 DEF PacketInv, Packet
  <2> QED
    BY <2>1, <2>2, <2>4 DEF PacketInv, Fitting
<1>3. CASE Ignore \/ SocketFails \/ LoseCommand \/ LoseReply \/ Take \/ UNCHANGED vars
             \/ \E r \in queue : Discard(r)
  BY <1>3, QuietKeepsPackets DEF Ignore, SocketFails, LoseCommand, LoseReply, Take, Finish, Discard, vars
<1>4. CASE TimeOut
  <2>1. call \in Call /\ pc = "listen"
    BY <1>4 DEF TimeOut, Due, TypeInv, CallInv
  <2>2. /\ UNCHANGED <<relay, timers, had, replies, queue, call, op, late>>
        /\ commands' \subseteq commands \union {Packet(op, Carried, seq)}
    BY <1>4 DEF TimeOut
  <2>3. op \in HeaderOnly => op = call.op /\ Carried = call.to
    BY <2>1 DEF TypeInv, CallInv, HeaderOnly, Carried, Confirming
  <2>4. late' = {} => \A p \in commands' :
          p.op \in HeaderOnly => call' \in Call /\ p.op = call'.op /\ p.to = call'.to
    BY <2>1, <2>2, <2>3 DEF PacketInv, Packet
  <2>5. \A r : Says(r)' = Says(r) /\ Fits(r)' = Fits(r)
    BY <2>2 DEF Says, Fits, Fitting
  <2> QED
    BY <2>1, <2>2, <2>4, <2>5 DEF PacketInv, Fitting
<1>5. ASSUME NEW p \in commands, Handle(p) PROVE PacketInv'
  <2>1. PICK ok \in BOOLEAN :
          /\ relay' = IF p.op = "SET" /\ ok THEN p.to ELSE relay
          /\ timers' = IF p.op \in {"ADD", "DELETE"} /\ ok THEN p.to ELSE timers
          /\ replies' \subseteq replies \union {Reply(p, ok)}
    BY <1>5 DEF Handle, Carry
  <2>2. /\ commands' \subseteq commands /\ had' = had \union {relay'}
        /\ UNCHANGED <<queue, pc, call, op, late>>
    BY <1>5 DEF Handle
  <2> SUFFICES ASSUME late = {} PROVE PacketInv'
    BY <2>2 DEF PacketInv
  <2>3. p.op \in HeaderOnly => call \in Call /\ p.op = call.op /\ p.to = call.to
    BY DEF PacketInv
  <2>4. pc = "listen" => call \in Call /\ (op = call.op \/ (call.op = "SET" /\ op = "GET"))
    BY DEF TypeInv, CallInv
  <2>5. pc = "listen" => /\ op \in {"ADD", "DELETE"} => timers' \in {timers, call.to}
                         /\ op = "GETALL" => timers' = timers
                         /\ op \in {"ADD", "DELETE"} /\ p.op = op /\ ok => timers' = call.to
    BY <2>1, <2>3, <2>4 DEF HeaderOnly
  <2>6. pc = "listen" => \A r : Says(r) => Says(r)'
    BY <2>2, <2>5 DEF Says
  <2>7. \A r : Fits(r)' = Fits(r) /\ Fitting(op)' = Fitting(op)
    BY <2>2 DEF Fits, Fitting
  <2>8. ASSUME pc = "listen", NEW r \in replies', r.op \in Fitting(op) PROVE Says(r)'
    <3>1. CASE r \in replies
      BY <2>6, <2>8, <3>1 DEF PacketInv
    <3>2. CASE r = Reply(p, ok)
      BY <2>1, <2>2, <2>5, <2>8, <3>2 DEF Says, PacketInv, Fitting, Reply
    <3> QED
      BY <2>1, <3>1, <3>2
  <2>9. ASSUME pc = "listen", NEW r \in queue, Fits(r) PROVE Says(r)'
    BY <2>6, <2>9 DEF PacketInv
  <2> QED
    BY <2>2, <2>7, <2>8, <2>9 DEF PacketInv
<1>6. CASE Arrive \/ Stray
  BY <1>6, QuietKeepsPackets DEF Arrive, Stray, Carry, Junk
<1>7. CASE Button
  BY <1>7 DEF Button, PacketInv, Says, Fits, Fitting
<1> QED
  BY <1>1, <1>2, <1>3, <1>4, <1>5, <1>6, <1>7 DEF Next, Client, Network

LEMMA PacketInvariant == Spec => []PacketInv
<1>1. Init => PacketInv
  BY DEF Init, PacketInv
<1> QED
  BY <1>1, NextKeepsPackets, TypeInvariant, PTL DEF Spec

-----------------------------------------------------------------------------
(* The promise.                                                            *)

LEMMA ResultIsTruthful ==
    ASSUME TypeInv, PacketInv, late = {}, pc = "listen", NEW r \in queue, Fits(r), op # "SET"
    PROVE  Result(r) = Failed \/ (Promise!Truthful(Result(r)) /\ Result(r) \in Power \union Tables)
<1>1. call \in Call /\ (op = call.op \/ (call.op = "SET" /\ op = "GET"))
  BY DEF TypeInv, CallInv
<1>2. r.from = "plug" /\ r.op = op /\ Says(r)
  BY DEF Fits, Fitting, PacketInv
<1>3. had \subseteq Power /\ timers \in Tables
  BY DEF TypeInv, TypeOK
<1> SUFFICES ASSUME Good(r)
             PROVE  Promise!Truthful(Result(r)) /\ Result(r) \in Power \union Tables
  BY DEF Result
<1>4. r.ok /\ (Confirming => r.value = call.to) /\ Result(r) = IF call \in Read THEN r.value ELSE call.to
  BY DEF Good, Result
<1>5. CASE call.op = "GET"
  BY <1>1, <1>2, <1>3, <1>4, <1>5, CallKinds DEF Says, Promise!Truthful
<1>6. CASE call.op = "SET"
  <2>1. op = "GET" /\ Confirming
    BY <1>1, <1>6 DEF Confirming
  <2> QED
    BY <1>1, <1>2, <1>3, <1>4, <1>6, <2>1, CallKinds DEF Says, Promise!Truthful
<1>7. CASE call.op = "GETALL"
  BY <1>1, <1>2, <1>3, <1>4, <1>7, CallKinds DEF Says, Promise!Truthful
<1>8. CASE call.op \in {"ADD", "DELETE"}
  BY <1>1, <1>2, <1>3, <1>4, <1>8, CallKinds DEF Says, Promise!Truthful
<1> QED
  BY <1>1, <1>5, <1>6, <1>7, <1>8, CallKinds DEF Ops

\* The steps of the network that the plug does not take part in, and those of the
\* client within a call, are no steps of the promise.
LEMMA QuietSteps ==
    ASSUME Send \/ Ignore \/ Arrive \/ LoseCommand \/ LoseReply \/ Stray \/ UNCHANGED vars
             \/ \E r \in queue : Discard(r)
    PROVE  UNCHANGED Promise!vars
<1> USE DEF Promise!vars, plug, net, client
<1>1. CASE Send
  BY <1>1 DEF Send
<1>2. CASE Ignore \/ UNCHANGED vars \/ \E r \in queue : Discard(r)
  BY <1>2 DEF Ignore, Discard, vars
<1>3. CASE Arrive \/ LoseCommand \/ LoseReply \/ Stray
  BY <1>3 DEF Arrive, LoseCommand, LoseReply, Stray
<1> QED
  BY <1>1, <1>2, <1>3

LEMMA FailingReturns ==
    ASSUME pc # "idle", pc' = "idle", answer' = Failed, UNCHANGED <<relay, timers, call, had>>
    PROVE  Promise!Next
BY DEF Promise!Next, Promise!Return

LEMMA HandlingTakesEffect ==
    ASSUME TypeInv, PacketInv, late = {}, NEW p \in commands, Handle(p)
    PROVE  [Promise!Next]_(Promise!vars)
<1>1. relay \in had /\ (p.op \in HeaderOnly => call \in Call /\ p.op = call.op /\ p.to = call.to)
  BY DEF PacketInv
<1>2. PICK ok \in BOOLEAN :
        /\ relay' = IF p.op = "SET" /\ ok THEN p.to ELSE relay
        /\ timers' = IF p.op \in {"ADD", "DELETE"} /\ ok THEN p.to ELSE timers
        /\ had' = had \union {relay'}
        /\ UNCHANGED <<pc, call, answer>>
  BY DEF Handle, client
<1>3. CASE p.op = "SET" /\ ok
  <2>1. call \in [op : {"SET"}, to : Power] /\ p.to = call.to
    BY <1>1, <1>3 DEF HeaderOnly, Call, Read, Set, Edit
  <2> QED
    BY <1>2, <1>3, <2>1 DEF Promise!Next, Promise!TakeEffect, Promise!Power, Power
<1>4. CASE p.op \in {"ADD", "DELETE"} /\ ok
  <2>1. call \in [op : {"ADD", "DELETE"}, to : Tables] /\ p.to = call.to
    BY <1>1, <1>4 DEF HeaderOnly, Call, Read, Set, Edit
  <2> QED
    BY <1>2, <1>4, <2>1 DEF Promise!Next, Promise!TakeEffect
<1>5. CASE ~(p.op = "SET" /\ ok) /\ ~(p.op \in {"ADD", "DELETE"} /\ ok)
  <2>1. relay' = relay /\ timers' = timers
    BY <1>2, <1>5
  <2>2. had' = had
    BY <1>1, <1>2, <2>1
  <2> QED
    BY <1>2, <2>1, <2>2 DEF Promise!vars
<1> QED
  BY <1>3, <1>4, <1>5

\* Only the beginning of a call forgets what was late.
LEMMA LateGrows ==
    ASSUME [Next]_vars, late' = {} PROVE late = {} \/ \E c \in Calls : Begin(c)
BY DEF Next, Client, Discard, Send, Ignore, Take, TimeOut, Network, Arrive, LoseCommand, LoseReply, Handle,
       Stray, Button, SocketFails, vars, client

(* The client implements PlugCommand while a call has found nothing on the *)
(* way that is left of an earlier one: retries, losses, duplicates and     *)
(* packets of other devices never show, on any network, and whatever went  *)
(* before.  What WinterMode and Reconcile build on.                        *)
THEOREM ClientKeepsPromise == Spec => KeepsPromise
<1>1. Init => Promise!Init
  BY DEF Init, Promise!Init, Promise!Power, Power
<1>2. TypeInv /\ PacketInv /\ [Next]_vars => [late' = {} => Promise!Next]_(Promise!vars)
  <2> SUFFICES ASSUME TypeInv, PacketInv, [Next]_vars, late' = {}
               PROVE  [Promise!Next]_(Promise!vars)
    OBVIOUS
  <2> USE DEF plug, net, client
  <2>1. ASSUME NEW c \in Calls, Begin(c) PROVE Promise!Next
    <3>1. c \in Promise!Call
      BY CallAssumption DEF Promise!Call, Promise!Power, Call, Read, Set, Edit, Power
    <3>2. /\ pc = "idle" /\ pc' = "drain" /\ call' = c /\ had' = {relay}
          /\ UNCHANGED <<relay, timers, answer>>
      BY <2>1 DEF Begin
    <3> QED
      BY <3>1, <3>2 DEF Promise!Next, Promise!Begin
  <2> SUFFICES ASSUME late = {} PROVE [Promise!Next]_(Promise!vars)
    BY <2>1, LateGrows
  <2>2. CASE Take
    <3>1. PICK r \in queue : /\ Fits(r)
                             /\ IF op = "SET" THEN pc' = "drain" /\ UNCHANGED answer
                                              ELSE Finish(Result(r))
      BY <2>2 DEF Take
    <3>2. pc = "listen" /\ UNCHANGED <<relay, timers, had, call>>
      BY <2>2 DEF Take
    <3>3. CASE op = "SET"
      BY <3>1, <3>2, <3>3 DEF Promise!vars
    <3>4. CASE op # "SET"
      <4>1. pc' = "idle" /\ answer' = Result(r)
        BY <3>1, <3>4 DEF Finish
      <4>2. CASE Result(r) = Failed
        BY <3>2, <4>1, <4>2, FailingReturns
      <4>3. CASE Promise!Truthful(Result(r)) /\ Result(r) \in Power \union Tables
        BY <3>2, <4>1, <4>3 DEF Promise!Next, Promise!Return, Promise!Power, Power
      <4> QED
        BY <3>1, <3>2, <3>4, <4>2, <4>3, ResultIsTruthful
    <3> QED
      BY <3>3, <3>4
  <2>3. CASE TimeOut
    <3>1. CASE Exhausted
      BY <2>3, <3>1, FailingReturns DEF TimeOut, Due, Finish
    <3>2. CASE ~Exhausted
      BY <2>3, <3>2 DEF TimeOut, Promise!vars
    <3> QED
      BY <3>1, <3>2
  <2>4. CASE SocketFails
    BY <2>4, FailingReturns DEF SocketFails, Finish
  <2>5. CASE Button
    BY <2>5 DEF Button, Promise!Next, Promise!Button, Promise!Power, Power
  <2> QED
    BY <2>1, <2>2, <2>3, <2>4, <2>5, QuietSteps, HandlingTakesEffect DEF Next, Client, Network
<1> QED
  BY <1>1, <1>2, TypeInvariant, PacketInvariant, PTL DEF Spec, KeepsPromise, Promise!Spec
=============================================================================
