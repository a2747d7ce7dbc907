# ecopumpd in TLA+

`ecopumpd` drives a pool-pump plug over UDP: it keeps the plug's relay in the
state a weekly schedule asks for, lets a client override the schedule for a
while, and steps aside for a winter season. These modules model the daemon and
the clients of its API, TLC checks them on small instances, and TLAPS proves the
main safety properties for all instances.

Source paths are relative to the repository root: `src/reconcile.rs` and so on.

## The system

One process, two threads, and the world around it.

| Part | State it keeps | Operations |
|---|---|---|
| **Reconcile loop** `reconcile.rs` | locals of a pass (`hands_off`, `st.desired`, `actual`), outage and backoff, last DST check | reload, `winter_pass`, status, poll, correct, publish, clamp the wait, check DST, sleep until a wake-up |
| **HTTP API** `api.rs` | `Shared` behind one mutex with a condition variable | one thread, one request at a time: status, override, set, winter, schedule, sync, power, clock, metrics |
| **Winter mode** `season.rs`, `api.rs`, `reconcile.rs` | `Shared.winter`, `winter_timers_cleared`, `timers_restore_pending`, the season file | `set_winter`, `cancel_winter`, `winter_pass`, `season::read/write/clear` |
| **Overrides** `overrides.rs`, `api.rs` | `Shared.override`, the override file | `set_override`, `active_override` (expiry), `overrides::read/write/clear` |
| **Schedule** `schedule.rs` | none: a function of the config and the time | `desired`, `next_transition` |
| **UDP client** `proto.rs` | a socket, behind the plug mutex | `drain`, `exchange`, get, set, vendor commands, discovery |
| **Configuration** `config.rs` | `Shared.config` | load, reload on SIGHUP |
| **Command line** `main.rs`, `client.rs` | none, but what a command has read | HTTP calls with a timeout of 5 s; `winter start/end` read a season and post it back |
| *outside:* the plug | relay, twelve-slot timer table, clock and DST flag | replies to commands, twice; its button |
| *outside:* files, systemd | season file, override file | write, remove; restart after any exit |

How they interact. The threads share `Shared` under the state mutex, and the UDP
client under the plug mutex; neither is held while the other is taken, apart
from files being written under the state mutex. The API sets `wake` and signals
the condition variable; the loop waits on it one second at a time. Both threads
edit the plug's timer table, through the same two procedures. A command to the
plug may fail with or without having had its effect. The process may stop at any
point (`panic = "abort"`, a signal, a power cut) and is started again; only the
two files survive.

What is hard: state read in one locked section and used in a later one, after
packets that take seconds; the gap in which `sync_plug_schedule` gives the plug
lock up; flags about the plug's table that live in memory only; files that are
truncated before they are written; timeouts that race wake-ups; replies told
apart by size only; a season read by one request and posted back by another; requests that
outlive the client that sent them; a timer table that is read back cut short. `PROJECT.json` lists each of these under `hazards`, at its
line.

What makes each part correct:

- *winter mode*: a season survives a restart and ends once; the timers are gone
  while it lasts and come back when it ends; a procedure that reports success
  tells the truth about the table.
- *overrides*: what was acknowledged would survive a restart, what was cleared
  does not come back, and a live override is not lost to the cleaning up of an
  older one.
- *reconcile loop*: the relay converges to the desired state after any disturbance,
  the report converges to the relay, and in winter the daemon keeps its hands off.
- *UDP client*: an answer is the answer to the question asked, and every call returns.
- *schedule and poll timing*: a transition is acted on when it is due, and the plug's own
  daylight-saving flag follows the timezone.
- *timer table*: a sync leaves exactly the configured windows, and editing one timer spares the others.
- *command line*: what succeeds is the last word of its user and keeps what it did not ask to change.

## Modules

| Module | Models | State and actions against the code |
|---|---|---|
| `DurableCell` | a setting in memory and in a file | abstract: change, failed write, lapse, restart |
| `Season` | `season.rs` | days are numbers; `IsActive`, `IsOver` and the validity of a range |
| `TimerSet` | the three timer procedures of `api.rs` on a set of timers | one action per command to the plug, in either thread |
| `WinterMode` | winter mode, and when it runs those procedures | one action per section under the state lock, those of `TimerSet` under the plug lock |
| `Reconcile` | a pass of the loop, overrides, direct switch, wake-up | as above |
| `PlugCommand` | what a command to the plug promises | abstract: no network |
| `Exchange` | drain, send, retry, accept in `proto.rs`, and the network | one action per packet sent, handled, received or lost |
| `Schedule` | `schedule.rs`, and `next_occurrence` of `main.rs` | definitions only; a timezone is an offset that changes at one instant |
| `PollTiming` | the wait at the end of a turn, backoff, clamping, DST checks and the plug's flag | one action per step of a turn that takes time |
| `TimerTable` | the plug's table with its ids and its order, and the procedures that edit it | one action per command to the plug |
| `CommandLine` | users, their commands, the queue of the API, and the season, over `TimerTable` | one action per request sent, taken up or answered |
| `MCWinterMode`, `MCReconcile`, `MCExchange`, `MCPollTiming`, `MCTimerTable`, `MCCommandLine` | instances of them | |
| `WinterModeProofs`, `DurableCellProofs`, `ReconcileProofs`, `ExchangeProofs`, `PollTimingProofs`, `TimerTableProofs`, `CommandLineProofs` | theorems about them | |
| `LeastNatural` | lemmas on least elements and on counting up that three of them use | |

How they go together: `CommandLine` EXTENDS `TimerTable` and `Season`, `WinterMode` EXTENDS
`TimerSet` and `Season`, `PollTiming` EXTENDS `Schedule`. Three abstract specifications are implemented:
`DurableCell` by `WinterMode` (`KeepsSeason`) and by `Reconcile` (`KeepsOverride`), `PlugCommand`
by `Exchange` (`KeepsPromise`), and `TimerSet`, as a specification of its own (`SetSpec`), by
`TimerTable` and `CommandLine` (`EditsSet`) and by `WinterMode` (theorem `WinterEditsSet`).

**WinterMode.** `winter`, `timersCleared`, `restorePending`, `config` are the
fields of `Shared`, `seasonFile` the file, `timers` the plug's table. `lpc` walks
through `winter_pass` (`top`, `over`, `cancel`, `restore`, `syncing`, `gate`, `flag`,
`clearing`, `rest`). `passDay` is the
date the pass read once at its top. A reload may change the timezone and with it the date, by a day
either way (`Reload`). `taken` (the loop removed timers nobody has put back), `forgotten` (by which
events the daemon came to forget it), `renewed` (a season was set after the loop found another one over)
and `unread` (the file could not be read at the start) are history variables: no action's guard reads them.

**TimerSet** is the part of WinterMode that edits the timers, and what TimerTable implements:
`pc`/`op`/`table`/`want` are the locals of `plug_schedule`, `clear_plug_schedule` and
`sync_plug_schedule` in either thread. A timer is identified with the window it was made
from, so ids and table order are left out. `SetSpec` lets either thread begin any of the three
procedures when it is idle, lets it return, and lets all of them be cut off by the end of the process.

**Reconcile.** `lpc` walks through a turn of `run` (`gate`, `status`, `poll`,
`correct`, `publish`, `sleep`), `apc` through a request. A schedule is a function
from time to power, `plan`. Winter mode is a flag that turns at midnight, on a request, or when `winter_pass`
cancels a season (`CancelSeason`), which wakes the loop itself. A hold of `POST /set` lasts to the next
transition but at least a `Minute`, and for `Fallback` when there is none.
`ticked` says that the current one-second wait has run its time, which is all that
`sleep_interruptible` knows about why `State::wait` returned. `unseen`, `ordered`,
`strays`, `unread` are history.

**DurableCell** is what a client of a stored setting relies on: a change is in memory and
in the file or in neither, a failed write keeps the memory and may lose the file, a restart
finds what is stored or knows that it could not read it. In WinterMode `mem` is `winter`, in
Reconcile the override unless it has expired; `stored` is what `read` would make of the file:
a torn, missing or (there) expired one is no setting. A file is torn when it was truncated and not
written: its thirty bytes go out in one write, so a part of them is not considered.

**Exchange** implements **PlugCommand** (`KeepsPromise`, with `busy <- pc # "idle"`): a write takes
effect at any time until the next call begins. WinterMode and Reconcile take a command to the plug as one
action that succeeds, or fails with or without effect, which is that promise with the effect no later than the
return of the call. `pc` is `drain` while `Discard` reads what the socket holds, one packet at a time and
with the network going on, until a millisecond passes without one; `Send` is the first transmission after that.
The network may hold a command or a reply back for any number of calls. `late` is history: `"effect"`
when a command of an earlier call was on its way as this one began, `"reply"` when something that fits as
the answer was as `drain` returned. `stale` is history too. The promise is kept by every call with `late` empty;
`Buffer` is the room for packets at the socket and on the way back, where more are dropped, as a receive buffer does.

**PollTiming** has a clock in half minutes. `lpc` walks through a turn: `Status` takes
`st.next`, with a reload before it if one is pending; `Answered` and `Unanswered` are the
exchanges with the plug, which take any time up to `MaxExchange`, and what is computed
after them, the backoff and the clamped wait; `DstRead` and `DstSet` are the two exchanges of
`sync_dst` after that; `Slept` and `Woken` end the sleep; `ClientSetsDst` is `POST /clock/dst`.
`since` is the age of `last_dst_check`, `flag` the flag in the plug. `overtaken`, `spent`, `asked`
and `touched` are history: whether `st.next` had passed when the wait was computed, what the DST
check took, the minute of the last status, and whether the last check failed or a client has set the
flag since. What the loop does to the relay is in Reconcile, whose sleep has any length.

`Schedule` counts minutes from a fixed instant. `Occurs` is the reference that `Contains` is
checked against: it says what a window means by instants, not by day and minute.

**TimerTable** keeps what TimerSet abstracts: entries have the ids they are deleted by and a
place in the table, every command sends the whole table, and `Received` is a table as it is read back:
a reply has 512 bytes, so that of a full table ends before `end_secs` of the last entry.
`GetTable`, `DeleteFirst`, `ClearDone`, `BeginAdd`, `AddNext`, `AddDone` are the steps of the two
procedures; `first` is history. By itself (`TableSpec`) either thread begins a procedure at any
time; in CommandLine requests and passes begin them. The set that TimerSet speaks of is that of the ids
in the plug; a thread's copy is that of the ids in its table (`Held`), and what it wants are the ids that
its windows get, which are their places (`Asked`, `Places`).

**CommandLine.** `cmd`, `stage`, `seen` are a client process: the command, how far it is, and the
season it has read. `queue` and `serving` are the requests at the daemon's one API thread. `winter`
is the season in memory and `stored` that in its file: `set_winter` writes the file first, a write that fails or is
cut off may leave it empty (`Spoiled`), and a restart reads it back or fails to (`Found`, `DaemonRestart`). `GiveUp` is the client's timeout: the request stays
where it is, marked as one nobody waits for. `LoopBegins` lets the loop edit the timers whenever it
is idle, which is more than `winter_pass` does. `moved` (the season changed since this user read it)
is history.

## Runs

| Run | Question | Result |
|---|---|---|
| `winter_safety` | Do file, memory, timer table and pending restore stay consistent under every interleaving of the loop with two requests, one failure, reloads and one restart, and is the season a durable cell? By which events are timers forgotten, or a season dropped early? | holds: four events, one race |
| `winter_liveness` | Do restores, clearings and removals of an over season happen in the end, with races and failures? | holds |
| `winter_restart` | Is there "nothing to restore by hand" after a restart? | violated: the flags are in memory only |
| `winter_moved` | The same promise when the start of a season is moved | violated: `set_winter` forgets that the timers were cleared |
| `winter_restored` | Do the timers stay cleared through a season, with no race, when one restore fails? | violated: the restore of the season before it is made up for in the next |
| `reconcile` | Are overrides durable and kept and no wake-up slept through, does the loop send at most one command per winter, and do relay and report converge, under every interleaving with two requests, a failure, a turn of the season and a button press, reload or restart? | holds |
| `reconcile_switch` | Does a direct switch in winter stand? | violated: a pass begun before winter undoes it |
| `exchange` | Does a call always return, and what can make it take effect late or answer wrongly, over a network that loses, delays, reorders and repeats packets, beside a device that sends any number of others? | holds: only what was on its way when it began, or when drain returned |
| `exchange_stale` | Is a stale reply "never mistaken for the answer to the next command"? | violated: one that arrives after `drain` is |
| `poll_timing` | Does the loop wake for every transition that lay ahead when its wait was computed, whatever exchanges, outages, wake-ups, reloads and changes of the offset do? Do windows and times of day mean what they say, and does the plug's flag follow the timezone? | holds |
| `commands` | Is a command that succeeds its user's last word, does a season keep the date that was not changed, is the timer table edited exactly, and by its ids as TimerSet says, and is every request answered, with two users, clients that give up, a loop beside them, a failure and a restart? | holds |
| `timers_cut` | Does a clearing that fails leave the timers it has not deleted as they were? | violated: the last of a full table loses its end |

The six violations are the `findings` of `PROJECT.json`, each with the sentence
of the repository it contradicts.

Where the code keeps a property but for certain events, the property names them by a history variable, and the
run shows that there are no others; nothing in the specifications keeps them from happening. Timers are forgotten
(`forgotten` in `NothingForgotten`) by a restart, by a moved start (`set_winter` resets the flag), by a
`DELETE /winter` while the loop is clearing, and by a clearing that failed half-way. A season
set between `is_over` and `cancel_winter` is dropped (`renewed` in `SeasonNotDropped`). A late packet may be taken
for an answer (`late` in `StaleOnlyIfLate` and `KeepsPromise`). A transition that
passes while the plug is being asked is no longer ahead when the wait is computed, so it
is acted on up to a poll interval late (hence `~overtaken` in `WakesForTransition`); a wake-up that
is taken as the second ends is consumed without effect, so the override it was for is acted on at the
next poll (hence `~(wake /\ ticked)` where `unseen` is cleared, for `WakeNotLost`); of two users who
change a season at the same time one overwrites what the other did with what he read before (hence
`~moved` in `KeepsOtherDate`); a DST check that fails is not repeated for an hour (hence `touched` in
`FlagFollowsZone`). The end of an override is no transition either, and the wait is not shortened to it.

### Bounds

- Winter mode: three windows and two slots, so that a config can fit, differ from
  another, be empty, or be too large for the plug; three days (two where one season is enough), for a
  season, its end and a later one, and a day to go back to when a reload changes the timezone; two concurrent requests (three where the
  question is about a sequence of them); one failure and one restart for safety, two
  failures for liveness. A third concurrent request cannot run: there is one API thread. The three violation runs let
  clients call only while the loop sleeps (`SerialSpec`), so that what they show needs no race.
- Reconcile: two instants and `Never`, enough for one transition, one override that
  expires and one that does not; a hold at least to the second instant, or for one where no transition
  comes (`Minute`, `Fallback`; `reconcile_switch` has a schedule without any); two requests, one failure, one turn of the season, and
  one of a reload, a restart and a button press (`MaxEvents`), since each of the three meets the
  requests and the failure in every order. Disturbances are bounded because convergence is about
  what follows the last of them.
- Exchange: two attempts instead of three (one is retried, one is the last); calls begin until two exchanges
  have been made, the last of them perhaps a `set_state` with its read-back, so that every call meets what one
  before it left behind; two timer tables; one button press; room for one packet at the socket and one on the
  way back (`Buffer`), two in `exchange_stale`, where further ones are dropped; any number of packets from another device, any
  number of copies. The theorems have no bound on `Buffer`.
  `CHECK_DEADLOCK FALSE` there, since the instance ends when its exchanges are used up.
- Poll timing: a week of two days of four minutes, so that a window crosses midnight and the
  end of the week; a timezone of one offset, one that skips a minute and one that repeats
  one; a poll interval shorter than the longest backoff, one near it and one longer; an
  exchange may outlast a minute. `Horizon` (26 half minutes) is over a week and a half,
  past the change of offset. A DST check is due every three minutes (`DstEvery`), so several fall
  before and after that. `CHECK_DEADLOCK FALSE` there, since the clock stops at it.
- Commands: two users and two commands, so that a user follows up on what he gave up on and two meet;
  `winter start` and `winter end` with a date each: an end on the second day is refused to a user who finds
  no season then, and accepted otherwise; `show` and `sync` for what reads and edits the timers. `cancel` is left out, since the loop that
  removes an over season does the same to it, as is `status`, the first half of a dated command. Two
  slots, a full table in the plug, a configuration that fills it and one with a window too many.
  `CHECK_DEADLOCK FALSE`: when the commands are used up all may rest.
- `timers_cut`: one plan, two slots, a full table, one failure.

### Fairness

- WinterMode, `WF(Loop)` and `WF(Serve)`: both threads run whenever they can, and every call
  they make returns (`CallReturns`, and file operations).
- Reconcile, `WF(Pass \/ SleepOver)` and `WF(Serve)`: the same, and the poll interval is finite. No
  fairness is given to the wake-up: convergence does not need it.
- CommandLine, `WF(Serve)` and `WF(PlugMoves("loop"))`: the API thread takes up the next request and
  goes on with the one it serves, and a procedure of the loop, which may hold the plug, goes on.
- Exchange, `WF(TimeOut)`: the deadline of an attempt is fixed when it is sent (`proto.rs:610`), and packets that
  do not fit do not extend it. `WF(LoseCommand)`, `WF(LoseReply)`: a packet does not stay on its way for ever.
  `WF` of each `Discard`: the socket hands its packets out in order. `SF(Send)`: `drain` has no deadline and ends
  when a millisecond passes without a packet; the code does not make that happen, so it is assumed to, now and
  then. A device that kept sending faster would hold `drain`, and the plug lock, for as long.
- None is assumed of clients (that they post, or give up), the calendar, the button, failures or restarts.

## Proofs

The theorems hold for all values of the constants under the named assumptions of the
modules: bounds are naturals, the sentinels `None` and `Torn` differ from the values they stand beside (a
season, a command, a request),
there is a configuration, a table in the plug has distinct ids. TLC evaluates each of them in a run.
Two theorems about a specification have a further hypothesis, explained below: `OccurrenceIsFound` and
`LoopWakesForTransition`.

| Module | Theorem | States |
|---|---|---|
| `WinterModeProofs` | `TypeCorrect` | `Spec => []TypeOK` |
| | `SeasonIsDurable` | `Spec => []SeasonDurable` |
| | `LocalTableIsCurrent` | `Spec => []LocalTableCurrent` |
| | `SuccessTold` | `Spec => SuccessIsTrue` |
| | `PendingIsKept` | `Spec => PendingUntilRestored` |
| | `SeasonIsDurableCell` | `Spec => KeepsSeason` |
| | `WinterEditsSet` | `Spec => SetSpec`: winter mode implements `TimerSet` |
| | `NothingElseForgotten` | `Spec => []NothingForgotten` |
| | `SeasonIsNotDropped` | `Spec => SeasonNotDropped` |
| `DurableCellProofs` | `CellAgrees` | `Spec => []Agreement` |
| `ReconcileProofs` | `TypesHold` | `Spec => []TypeOK` |
| | `LoopKeepsHandsOff` | `Spec => []AtMostOneStray` |
| | `WakeUpIsKept` | `Spec => []WakeNotLost` |
| | `OverrideIsDurable` | `Spec => []OverrideDurable` |
| | `OverrideIsKept` | `Spec => LiveOverrideKept` |
| | `OverrideIsDurableCell` | `Spec => KeepsOverride` |
| `ExchangeProofs` | `TypesHold` | `Spec => []TypeOK` |
| | `AnswersAreFresh` | `Spec => []StaleOnlyIfLate` |
| | `ClientKeepsPromise` | `Spec => KeepsPromise` |
| | `CallsAreShort` | `Spec =>` a call has at most `2 * Attempts + 2` sendings and waits left, each takes one off, and nothing adds any |
| `PollTimingProofs` | `BackoffStaysBounded` | `Spec => []BackoffBounded` |
| | `FlagIsKept` | `Spec => []FlagFollowsZone` |
| | `WindowsMeanInstants` | `Spec => []WindowsAsMeant` |
| | `OccurrenceIsFound` | `Spec => []OccurrenceFound`, if each offset changes by less than a day |
| | `NoTransitionIsFinal` | with one offset as far as it looks, no `NextTransition` means no change for ever |
| | `LoopWakesForTransition` | `Spec => WakesForTransition`, under `LooksFarEnough` or `OffsetsStay` |
| | `TimingTypesHold` | `Spec => []TypeOK` |
| `TimerTableProofs` | `TableTypeCorrect` | `TableSpec => []TableTypeOK` |
| | `FreeIdIsFound`, `SlotIsFound` | `TableSpec => []SlotFree`, `TableSpec => []SlotFound` |
| | `IdsStayDistinct` | `TableSpec => []IdsDistinct` |
| | `NothingUnasked` | `TableSpec => []OnlyLastEndLost` |
| | `DeletionTakesOne` | `TableSpec => DeletesOne` |
| | `SyncIsExact` | `TableSpec => SyncedExactly` |
| | `TableEditsSet` | `TableSpec => EditsSet`: the table implements `TimerSet` |
| | `ProceduresAreShort` | `TableSpec =>` a procedure has at most `2 * Slots + 4` steps left, and each of its thread's takes one off or more |
| `CommandLineProofs` | `TypeCorrect`, `LineTypeCorrect` | `Spec => []TypeOK`, `Spec => []LineTypeOK` |
| | `SuccessIsLastWord` | `Spec => []LastWord` |
| | `OtherDateIsKept` | `Spec => KeepsOtherDate` |
| | `SyncIsExactBesideClients` | `Spec => []SlotFree /\ SyncedExactly` |
| | `TableIsSoundBesideClients` | `Spec => [](SlotFound /\ IdsDistinct /\ OnlyLastEndLost)` |
| | `DeletionTakesOneBesideClients` | `Spec => DeletesOne` |
| | `TableEditsSetBesideClients` | `Spec => EditsSet` |
| | `ProceduresAreShortBesideClients` | the same as `ProceduresAreShort`, of `Spec` |
| | `ServiceAdvances` | `Spec =>` each step of the API thread brings its work nearer to its end, and no other does more than add a request |

*Winter mode.* `SeasonDurable` is inductive as it stands. `LocalTableCurrent` is not: on entering
`add` a thread holds the lock with the table it kept across the gap, while the plug's may have been
filled again. `SectionInv` adds that such a table is empty and that only a sync
gets there; a thread's local table is then the plug's from its first command on,
and `SuccessTold` follows at the two steps that report success.
`PendingUntilRestored` needs `RestoreInv`: what the loop runs in its restore is a
sync, and when that has succeeded nothing is `taken` any longer. `WinterEditsSet` needs `OutsideInv`: the loop is
idle wherever it begins a procedure, and the configuration is one of those there may be.

*What winter mode owes.* `NothingElseForgotten` rests on `OwedInv`: what was `taken` is accounted for by the clearing
under way, by one of the two flags, or by an event that made the daemon forget it; and where no season is set, by
the pending restore or such an event. A sync that succeeds accounts for everything, but not for what the loop
is about to take while it waits for the lock (`PutBack`), which is why the place of the loop is part of it
(`PlaceInv`). `SeasonIsNotDropped` follows what the loop found to be over up to its cancellation (`OverInv`); it stays over
even if the date has moved since, because the date moves back with a reload only, at the top of the next pass.

*Durable cells.* Both refinements are a step simulation: every step of the season or of the override is a
`Store`, a `StoreFails`, a `Lapse` or a `Restart`, or leaves memory and file alone. The override needs its
types, since what `read` makes of a file depends on the time. `CellAgrees` is the cell's own promise.

*Reconcile.* Its types are split, because a new request's override must be one before it is installed
(`ArgOK`), and the bounds must stay what they are (`UsedOK`). `AtMostOneStray` is inductive with `StrayInv`:
past the gate of a winter with `handsOff` not set nothing has been sent yet. `WakeNotLost` speaks of
the sleep only; `WakeInv` follows a change that came too late for the pass under way from the moment it is
made, with its wake-up still before it, or on the way to it.

*Exchange.* `TypeInv` adds to the types what the code between two exchanges of a call relies on: which
exchange belongs to which call, and what a command carries. `FreshInv`: where nothing that fits was on its way as
`drain` returned with an empty queue, every packet that fits from then on, at the socket or on the network,
carries the number of the exchange under way, so the one taken does. `PacketInv` says of these packets what the promise needs:
a command on its way to the plug that changes it is that of the call under way, and a reply that fits tells the truth
about it (`Says`). Every packet sent, lost, copied or reordered keeps both, on any network; each step then is one
of `PlugCommand`'s, or a stutter. `CallsAreShort` counts the sendings and waits that are left (`WaitsLeft`), both exchanges of
`set_state` included; only `Discard` and `Ignore` take none off.

*PollTiming.* `FlagInv`: a check that succeeded and was not interfered with left the flag it wanted, and past the
exchange a check that is due is made in the same turn. `BackoffInv`: the backoff is between one and its
bound, and there is none where the DST check runs. `WaitInv` follows `st.next` and the wait from the status
to the sleep: the wait was computed at most an exchange after the status, it ends with the margin after the
next transition, and only the DST check moves the clock before the sleep begins. Two theorems have a hypothesis
that the code does not check. `LooksFarEnough` says that the longest wait, a minute and an exchange are no
longer than the eight days `next_transition` looks ahead; for poll intervals of eight days and more
`LoopWakesForTransition` needs `OffsetsStay` instead, because a window that lies in the hour a change of offset
skips may be missing from the eight days and be there a week later. `LessThanADay` is true of every timezone
but where one has crossed the date line.

*Schedule.* `ContainsIsOccurs` compares day and minute of the local time with instants. It rests on
lemmas about quotient and remainder by a constant (`Divides`, `QuotientIsUnique`, `DayBefore`), because the prover
knows only the division itself. `OccurrenceComes`: of today's two successors one has the time of day after
now, the second when the offset shrinks or the first skips it. `NoTransitionIsFinal` rests on `WeeksAreAlike`:
a schedule cannot tell a local time from the one a number of weeks later, and eight days of one offset
hold every minute of the week.

*Timer table.* `TableInv` says that one thread at a time holds the plug, that a sync past its check fits into
it, and (`Added`) that what has been added is the first windows of the configuration with the ids
`0, 1, ...` in that order, and is what the plug holds. Hence the least free id is their number
(`NextIdIsFree`), and at the end all windows are there. CommandLine's steps keep it too (`StepsOnTable`).

`ContentInv` says what the tables hold: distinct ids, no more than fit, nothing that nobody gave the plug up to a
lost end (`Proper`), and that a thread that deletes has a copy of what is left. What a deletion keeps (`WhatIsKept`)
is an induction over the table: `Without` is a recursive function, and the set of positions up to which the claim holds
has 0 and the successors of its members (`UpTo`), which stands in for an induction theorem that takes the claim
as a parameter. `TableEditsSet` is a step simulation by ids: a deletion takes out one id because they are
distinct, an addition puts in the number of those there are, which is the next place; `Received` changes no id.
`ProceduresAreShort` counts the steps left (`StepsLeft`): the entries still to delete, the windows still to add, and
those between them.

*Command line.* `LineInv`: a request that is waited for is the last of its user (`LatestInQueue`,
`LatestServed`), and the daemon takes up the oldest first. `LastWord` alone is not inductive: a command
succeeds with the request that is being answered, so it is about waiting requests that the
order has to be kept. `DateInv` follows the season that was read and the one that is posted, as long as
nobody has moved it. That no thread begins a procedure within another needs `ApiAtRest`: the API thread is in one for the
request it serves only. `ServiceAdvances` orders what there is to do by the length of the queue and
then by the steps left of the request being served (`ServingLeft`); every step of the API thread makes that
smaller (`Nearer`), and any other leaves it or puts a request at the end (`ServiceWaits`).

Only model-checked:

- what rests on fairness: `RestoreCompletes`, `ClearCompletes`, `OverSeasonEnds`, `Converges`,
  `ReportsRelay`, `CallReturns`, `AllServed`. The prover does not handle ENABLED, so that a fair action is taken
  in the end cannot be shown. What those steps do can: `CallsAreShort` and `ServiceAdvances` are all of
  `CallReturns` and `AllServed` but that the steps come. Every other property that a run expects to hold is
  the statement of a theorem.

## Not modelled

- **Timezones**: `chrono_tz` is external; a zone changes its offset once. **Outage warnings**: logging.
- **Command line**: argument parsing and printing. `on`, `off` and `override` send the requests that Reconcile has.
- **Configuration**: parsing and validation; a reload that moves the two files, which leaves the old ones
  behind: what should become of them is nowhere said, so there is nothing to check it against.
- **HTTP**: authorisation, JSON, metrics; `/power` and `/clock` change no shared state, and hold up
  the requests behind them as `show` does.
- **Torn files**: a file cut short is unreadable here. A part of a season or an override that parses as another one
  (`season.rs:48-63`, a date that lost its last digit) would need the thirty bytes of `fs::write` to be written in two pieces.
- **Dates** in CommandLine go forward only; that a reload may move them back is in WinterMode.
- **Codecs**: the layout of headers, metering and settings blocks. **Discovery**: `discover` is a process of
  its own that keeps no state.

## Plan

Done, in this order, most important behaviour first: `Season`, `WinterMode`, its
proofs, `Reconcile`, `PlugCommand` and `Exchange`, `Schedule` and `PollTiming`; then `DurableCell` with its two
refinements, `TimerTable`, `CommandLine`, the DST flag in `PollTiming`, and the proofs of all of these; then
`TimerSet` with its two refinements, and how long calls, procedures and requests may take.

Where a property had held only with races, failures or late packets ruled out, it now names the events that break it
and is proved for the whole specification (`NothingForgotten`, `SeasonNotDropped`, `StaleOnlyIfLate`, `KeepsPromise`).

Next: the safety halves of `Converges` and `ReportsRelay` (what an undisturbed turn of the loop achieves) and of
the three liveness properties of winter mode.
