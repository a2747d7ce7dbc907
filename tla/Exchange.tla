------------------------------ MODULE Exchange ------------------------------
(***************************************************************************)
(* The UDP client of proto.rs and the network between it and the plug.     *)
(* A call is one exchange, set_state two: a command is sent, up to         *)
(* Attempts times, until a packet comes that looks like its reply.         *)
(*                                                                         *)
(* Packets may be lost, delayed, reordered and repeated: a command is sent *)
(* again, and the plug sends each reply twice.  The calls are made one at  *)
(* a time, under the plug lock.                                            *)
(***************************************************************************)
EXTENDS Naturals, FiniteSets

CONSTANTS
    None,
    Failed,         \* the answer of a call that failed
    Tables,         \* the timer tables the plug may hold
    Calls,          \* the calls made in this instance
    Attempts,       \* ATTEMPTS
    Buffer,         \* packets the socket, and the way back, hold; more are dropped
    MaxExchanges,   \* bound: exchanges begun before the last call
    MaxPresses      \* bound: presses of the plug's button

Power == {"on", "off"}

Read == [op : {"GET", "GETALL"}, to : {None}]
Set  == [op : {"SET"}, to : Power]
Edit == [op : {"ADD", "DELETE"}, to : Tables]
Call == Read \union Set \union Edit

ASSUME CallAssumption  == Calls \subseteq Call /\ None \notin Call
ASSUME BoundAssumption ==
    Attempts \in Nat \ {0} /\ Buffer \in Nat /\ MaxExchanges \in Nat /\ MaxPresses \in Nat

VARIABLES
    relay, timers,  \* the plug
    commands,       \* packets on their way to the plug
    replies,        \* packets on their way back
    queue,          \* packets received by the socket and not read yet
    pc,             \* "idle", "drain" before an exchange, or "listen"
    call,           \* the call under way, or the last one
    op,             \* the command of the exchange under way
    attempt,        \* how often it was sent
    seq,            \* the sequence number it carries; nothing compares it
    answer,         \* what the last finished call returned
    presses,
    had,            \* history: the states the relay has had since the call began
    stale,          \* history: the call took a packet for the answer to another command
    late            \* history: what the call found on its way, left by those before it

plug    == <<relay, timers, had>>
net     == <<commands, replies>>
client  == <<pc, call, op, attempt, seq, answer, stale, late>>
vars    == <<plug, net, queue, client, presses>>

Init ==
    /\ relay \in Power /\ timers \in Tables /\ had = {relay}
    /\ commands = {} /\ replies = {} /\ queue = {}
    /\ pc = "idle" /\ call = None /\ op = "GET" /\ attempt = 0 /\ seq = 0
    /\ answer = None /\ stale = FALSE /\ late = {}
    /\ presses = 0

-----------------------------------------------------------------------------
(* The client.                                                             *)

Packet(o, v, n) == [op |-> o, to |-> v, seq |-> n]

\* Replies of one size are told apart by the vendor commands only.
HeaderOnly == {"SET", "ADD", "DELETE"}
Fitting(o) == IF o = "SET" THEN HeaderOnly ELSE {o}

Fits(r) == r.from = "plug" /\ r.op \in Fitting(op)

\* What an earlier call left on its way may still change the plug during this
\* one, or be taken for this one's answer.
LateEffect == IF \E p \in commands : p.op \in HeaderOnly THEN {"effect"} ELSE {}
LateReply  == IF \E p \in commands \union replies : p.op \in Fitting(op) THEN {"reply"} ELSE {}

Begin(c) ==
    /\ pc = "idle"
    /\ seq < MaxExchanges
    /\ pc' = "drain"
    /\ call' = c
    /\ op' = c.op
    /\ had' = {relay}
    /\ stale' = FALSE
    /\ late' = LateEffect
    /\ UNCHANGED <<relay, timers, net, queue, attempt, seq, answer, presses>>

\* drain reads packet after packet, for as long as they keep coming.
Discard(r) ==
    /\ pc = "drain"
    /\ r \in queue
    /\ queue' = queue \ {r}
    /\ UNCHANGED <<plug, net, client, presses>>

Undrained == TRUE           \* mutant: nothing is discarded
Drained   == queue = {}

Confirming == call.op = "SET" /\ op = "GET"
Carried    == IF Confirming THEN None ELSE call.to

\* A millisecond went by without a packet: the first transmission.
Send ==
    /\ pc = "drain"
    /\ Drained
    /\ attempt' = 1
    /\ seq' = seq + 1
    /\ commands' = commands \union {Packet(op, Carried, seq')}
    /\ pc' = "listen"
    /\ late' = late \union LateReply
    /\ UNCHANGED <<plug, replies, queue, call, op, answer, stale, presses>>

Finish(v) == pc' = "idle" /\ answer' = v

Ignore ==
    /\ pc = "listen"
    /\ \E r \in queue : ~Fits(r) /\ queue' = queue \ {r}
    /\ UNCHANGED <<plug, net, client, presses>>

UncheckedGood(r) == r.ok    \* mutant: set_state does not look at what it read back
Good(r) == r.ok /\ (Confirming => r.value = call.to)

\* get_state, the end of set_state, and vendor with its result mark.
Result(r) == IF ~Good(r) THEN Failed ELSE IF call \in Read THEN r.value ELSE call.to

\* A reply; set_state reads the relay back next.
Take ==
    /\ pc = "listen"
    /\ \E r \in queue :
         /\ Fits(r)
         /\ queue' = queue \ {r}
         /\ stale' = (stale \/ r.seq # seq)
         /\ IF op = "SET"
            THEN pc' = "drain" /\ op' = "GET" /\ UNCHANGED answer
            ELSE Finish(Result(r)) /\ UNCHANGED op
    /\ UNCHANGED <<plug, net, call, attempt, seq, late, presses>>

OnceMore  == attempt > Attempts     \* mutant: one attempt too many
Exhausted == attempt >= Attempts

QuietDue == pc = "listen" /\ queue = {}     \* mutant: every packet restarts the wait
Due      == pc = "listen"

\* The deadline of an attempt stands, whatever packets arrive meanwhile.
TimeOut ==
    /\ Due
    /\ \/ /\ ~Exhausted
          /\ attempt' = attempt + 1
          /\ commands' = commands \union {Packet(op, Carried, seq)}
          /\ UNCHANGED <<pc, answer>>
       \/ /\ Exhausted
          /\ Finish(Failed)
          /\ UNCHANGED <<attempt, commands>>
    /\ UNCHANGED <<plug, replies, queue, call, op, seq, stale, late, presses>>

Client == (\E r \in queue : Discard(r)) \/ Send \/ Ignore \/ Take \/ TimeOut

-----------------------------------------------------------------------------
(* The plug and the network, known from what the client expects of them.   *)

Carry(packets, r) == IF Cardinality(packets) < Buffer THEN packets \union {r} ELSE packets

\* Every reply repeats the command and its number.  The plug may refuse a command
\* (a password was set); it says so in the mark, which only vendor looks at.
Reply(p, ok) ==
    [op |-> p.op, seq |-> p.seq, from |-> "plug", ok |-> ok,
     value |-> CASE p.op = "GET"          -> relay
                 [] p.op = "GETALL" /\ ok -> timers
                 [] OTHER                 -> None]

\* The packet may come again, as the retries of a command do.
Handle(p) ==
    /\ commands' \in {commands, commands \ {p}}
    /\ \E ok \in IF p.op = "GET" THEN {TRUE} ELSE BOOLEAN :
         /\ relay' = IF p.op = "SET" /\ ok THEN p.to ELSE relay
         /\ timers' = IF p.op \in {"ADD", "DELETE"} /\ ok THEN p.to ELSE timers
         /\ replies' = Carry(replies, Reply(p, ok))
    /\ had' = had \union {relay'}
    /\ UNCHANGED <<queue, client, presses>>

\* A reply arrives, and another copy of it may follow.
Arrive ==
    /\ \E r \in replies :
         /\ queue' = Carry(queue, r)
         /\ replies' \in {replies, replies \ {r}}
    /\ UNCHANGED <<plug, commands, client, presses>>

LoseCommand ==
    /\ \E p \in commands : commands' = commands \ {p}
    /\ UNCHANGED <<plug, replies, queue, client, presses>>

LoseReply ==
    /\ \E r \in replies : replies' = replies \ {r}
    /\ UNCHANGED <<plug, commands, queue, client, presses>>

Network == Arrive \/ LoseCommand \/ LoseReply \/ \E p \in commands : Handle(p)

\* Some other device answers a question of its own owner, any number of times.
Junk == [op |-> "GET", seq |-> 0, from |-> "other", ok |-> TRUE, value |-> "on"]

Stray ==
    /\ queue' = Carry(queue, Junk)
    /\ UNCHANGED <<plug, net, client, presses>>

Button ==
    /\ presses < MaxPresses
    /\ presses' = presses + 1
    /\ relay' \in Power \ {relay}
    /\ had' = had \union {relay'}
    /\ UNCHANGED <<timers, net, queue, client>>

SocketFails ==
    /\ pc # "idle"
    /\ Finish(Failed)
    /\ UNCHANGED <<plug, net, queue, call, op, attempt, seq, stale, late, presses>>

-----------------------------------------------------------------------------
Next ==
    \/ \E c \in Calls : Begin(c)
    \/ Client
    \/ Network
    \/ Stray
    \/ Button
    \/ SocketFails

Spec == Init /\ [][Next]_vars

\* Time runs on while the client listens; what is on the way gets through or is lost;
\* the socket hands its packets out in order, so none waits for ever.  drain has no
\* deadline: that it ends takes a moment without a packet now and then.
Fairness ==
    /\ WF_vars(TimeOut)
    /\ WF_vars(LoseCommand) /\ WF_vars(LoseReply)
    /\ WF_vars(\E r \in queue \ {Junk} : Discard(r)) /\ WF_vars(Discard(Junk))
    /\ SF_vars(Send)

FairSpec == Spec /\ Fairness

-----------------------------------------------------------------------------
Ops == {"GET", "SET", "GETALL", "ADD", "DELETE"}
Values == Power \union Tables \union {None}
Seqs == 0 .. MaxExchanges + 1

(* Every variable keeps its type: in particular a command is sent no more  *)
(* than Attempts times.                                                    *)
TypeOK ==
    /\ relay \in Power /\ timers \in Tables /\ had \in SUBSET Power
    /\ commands \in SUBSET [op : Ops, to : Values, seq : Seqs]
    /\ replies \in SUBSET
         [op : Ops, seq : Seqs, from : {"plug"}, ok : BOOLEAN, value : Values]
    /\ queue \in SUBSET
         [op : Ops, seq : Seqs, from : {"plug", "other"}, ok : BOOLEAN, value : Values]
    /\ pc \in {"idle", "drain", "listen"}
    /\ call \in Call \union {None} /\ op \in Ops
    /\ attempt \in 0 .. Attempts /\ seq \in Seqs
    /\ answer \in Values \union {Failed} /\ stale \in BOOLEAN /\ late \subseteq {"effect", "reply"}
    /\ presses \in 0 .. MaxPresses

(* No packet is taken for the answer to another command than its own       *)
(* ("Discards any replies still queued on the socket so a stale one is     *)
(* never mistaken for the answer to the next command").                    *)
NoStaleAnswer == ~stale

(* What the code gives of that: nothing but its size or its command tells  *)
(* a reply apart, and yet only one that was still on its way when drain    *)
(* returned, or the command it answers was, and that fits, is mistaken     *)
(* for the answer to a later command; none that drain could have read, no  *)
(* reply to an earlier attempt, none of set_state's two for each other,    *)
(* and no packet of another device.                                        *)
StaleOnlyIfLate == stale => "reply" \in late

Promise == INSTANCE PlugCommand WITH busy <- pc # "idle"

(* Retries, losses, duplicates and packets of other devices never show: a  *)
(* call fails, or answers truthfully, and takes effect before the next one *)
(* begins, as WinterMode and Reconcile assume of a command to the plug.    *)
(* The exceptions are a call that begins while a command of an earlier one *)
(* is on its way to the plug, and one that sends its command while a       *)
(* packet that could be taken for its answer is.                           *)
KeepsPromise == Promise!Init /\ [][late' = {} => Promise!Next]_(Promise!vars)

(* A call returns, so that the plug lock is given up, whatever the network *)
(* does and however many packets other devices send, provided drain finds  *)
(* a moment without one.                                                   *)
CallReturns == pc # "idle" ~> pc = "idle"
=============================================================================
