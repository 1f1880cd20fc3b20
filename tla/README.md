# A verification project for TANOS

This directory holds TLA+ models of the application-aware network resource
manager in `src/`, the TLC runs that check them on small instances, and proofs,
checked by TLAPS, of what holds for every instance.

## 1. Inventory

The program has two kinds of processes. The **network-layer resource manager**
(`examples/wired_basic/wired_rm.cpp`) plans mode changes for the whole network.
**Clients** run on end nodes (`wired_rm_client_endnode.cpp`) and on switches
(`wired_rm_client_switch.cpp`): they register with the manager, receive its
control messages and carry the mode changes out, the end node by steering a
**traffic generator**, the switch by running a script. Control and data travel in
UDP datagrams; nothing is retransmitted. All processes share a synchronised
clock (`CLOCK_REALTIME`), and a synchronous mode change is a message with
timestamps at which every client acts.

| Component | State | Operations | Interaction | What is hard | What makes it correct |
|---|---|---|---|---|---|
| Traffic generator (`traffic_generator.*`) | control value, mode, period timestamp and its update flag, stop flag; the thread's mode, settings, object and packet counters, time base | `notify_generator`, `notify_generator_mode_change`, `notify_generator_timestamp`, `stop`, the sending thread in two variants | the end node's handlers call it; it writes to the data socket | shared members read without the mutex; mode change inside an object; uninitialised members; a join that may hang | pause is prompt, whole objects, a mode change takes over soon, the newest mode wins |
| Resource manager (`rm/net_layer_rm.*`) | registered services, mode maps, hyperperiod reference `rm_active_timestamp_last`, experiment counters | receive, handle, start (synchronous, asynchronous), the mode-change rounds of the experiments, stop | queue between its threads; timers start its phases; messages to clients | service list iterated while registrations arrive; timestamp arithmetic; counters that wrap | one message per service and round, one hyperperiod per round, targets in the future, monotone reference |
| Timestamp arithmetic (`net_layer_rm.tpp`, `timespec` helpers) | none | add, subtract, round, hyperperiod target | used by the resource manager | truncation, nanoseconds dropped, unsigned wrap | order of stop, reconfigure and restart; no lost time |
| Control client (`rm_abstraction.*`, main loop of the end node) | message queue, `active`, the condition variable | receive thread, main loop, signal handler, handlers that wait for a timestamp | network to queue to handlers to generator | lost wakeup, uninitialised return value, blocking dequeue, timestamps that have passed | every message handled in order, shutdown ends |
| Safe queue, safe map (`data_sharing/`) | elements, a mutex, a condition variable | enqueue, dequeue, empty; insert, find, erase, iterate | between the threads of both processes | wakeups, use of iterators after the unlock | FIFO, nothing lost or doubled; atomic reads |
| Message buffer and messages (`message_net.hpp`, `messages.cpp`, `protocols/`) | byte buffer with position and length | add, read, the to-net and from-net conversions | every send and receive | bounds, silent errors | what is read is what was written |
| RM communication (`rm_communication.*`) | two sockets, a send mutex | one send per message type, receive | UDP | loss, duplication, reordering without a retry | one message, one type, one target |
| Timers (`utils/timer_events.*`) | timer records, io_context, thread | register, cancel, start, stop | start the manager's phases | lateness (one one-shot timer at a time; nothing cancels or repeats one) | a phase does not begin early |
| Switch client (`wired_rm_client_switch.cpp`) | `active`, the queue, the script it runs | receive thread, main loop, signal handler, handlers, script runner | as the end node; a script in place of the generator | a script of any length holds up queue and `SIGINT`; a timestamp gone when it ends | a mode change in time is carried out after its timestamp and soon |
| The system: manager, channel, clients | all of the above, one clock | registration, start, mode-change rounds, stop | control messages | loss, duplication, delay, overtaking, with no retry | what is carried out was sent, rounds in order, slots kept, a quiet reconfiguration |
| Traffic sink (`traffic_sink_statistic.*`) | per-port sockets and logs | receive threads | data socket | none beyond I/O | logging only |
| Configuration reader (`config_reader.*`), logging, UUIDs | none that changes | parse once at start | read by `main` | wording and layout | pure I/O, not modelled |

`PROJECT.json` lists the components with their sources, and under `hazards`
every place where this code can go wrong in a way a test would hardly reach, with
the properties that guard it.

## 2. Plan

The order follows what a wrong behaviour would cost: first the thread that puts
packets on the wire, then the manager that decides when everybody changes, then
what connects the two.

| | Module | What it composes or refines | State |
|---|---|---|---|
| 1 | `TrafficGenerator` | refines `FragmentStream` (whole objects on the wire) | done, checked, proved |
| 2 | `Timespec`, `NetLayerRM` | the manager over its timestamp arithmetic | done, checked, proved |
| 3 | `SafeQueue` | refines `Fifo` (an atomic queue) | done, checked, proved |
| 4 | `EndnodeClient` | takes `SafeQueue` for atomic, as module 3 justifies; uses `Timespec` | done, checked, proved |
| 5 | `ControlMessages`, `TimedClient` | what a control message asks, and the client the manager may count on; `EndnodeClient` refines `TimedClient` | done, checked, proved |
| 6 | `SwitchClient` | the loop of module 4 with the script runner; refines `TimedClient` | done, checked, proved |
| 7 | `ControlChannel` | message buffer, codec, sends, receives and UDP between them | done, checked as part of module 8, proved |
| 8 | `ModeChange` | `NetLayerRM`, `ControlChannel` and several `TimedClient`s on one clock | done, checked, proved |

The plan is carried out: every safety property of the runs has a theorem. The liveness
properties stay with TLC.

## 3. The models

Each module names its code by the source's own names; `map` in `PROJECT.json`
gives the lines of every definition. A history variable (marked so in its
declaration) records what a property speaks of and guards no action.

**`TrafficGenerator`.** One `pc` for the sending thread and one "call in
progress" for the control loop. A `notify_*` call takes the mutex and leaves the
set of members it has yet to write in `todo`; each `Write...` step writes one of
them. The thread reads `mode_global`, `global_update_period` and
`global_period_timestamp` without the mutex, so each of these reads is a step
of its own and can fall between two writes, in any order (the accesses are a data
race). `GetPermission` and `GetPacketPermission` are the two condition-variable
waits; they need the mutex. `SyncStart` chooses between the two thread functions.
Pacing between packets and payload bytes are left out. `FragmentStream` is the
abstract specification: fragments leave object by object, in order, complete.

**`Timespec`.** The manager's `timespec` helpers over pairs of seconds and
milliseconds; a rest above a second is possible, as in the code. Conversions to
`uint32_t` are `% UintMod`.

**`NetLayerRM`.** Three threads: `ReceiveMessage`; `HandleMessage` and
`InsertService`, the two halves of an insertion into the `std::map` under
`service_list`; and the timer thread, which waits in `init`, `began`, `gap`,
`ending` and sweeps in `start`, `round`, `stop`. A sweep is one `Serve` per entry
with its `++iterator`; an iterator advanced while an insertion is half done may
end anywhere in the tree, as it is a data race. The eight experiments differ in the
message they send and in how the timestamps are computed; `PlanRound`,
`RoundMessage` and `Slot` carry these differences. `sent` is the history of the
last sweep.

**`SafeQueue`.** Lock, push, notify, wait, relock, front, pop and unlock are
steps of each thread; a wait ends by a notification or spuriously. `Fifo` is its
abstract specification with `taken` as what a consumer gets.

**`EndnodeClient`.** The receiving thread (`Receive`, `NotifyMain`), `SIGINT`
(`Interrupt`, `SignalLock`, `SignalNotify`), and the main thread, whose loop is
followed from test to lock, wait, queue test, dequeue, dispatch, handler and back.
`cv_mutex` is held from the lock to the end of the body but for the wait. The
seven handlers with timestamps share one shape, two nested tests around a clock reading:
`FirstTarget` and `FirstEffect` say what each waits for first and does then,
`message.start` and `RestartEffect` what the two interrupting ones do second.
`CheckQueue` returns either value: the code returns an uninitialised `bool`
(`is_message_left == false;` is a comparison, `rm_abstraction.cpp:175`). `told` is
what the traffic generator was told last.

**`ControlMessages`** gives for each message the timestamps its receiver's handlers
wait for, one operator per program. **`TimedClient`** is the abstract
specification of a client: messages are handled in the order of arrival; a message
with timestamps is begun, its steps carried out when they are `Due`, the rest of it
abandoned when a timestamp is `Expired`, and `Tick` does not pass a step that is
overdue by two polls. Both client modules instantiate it under a refinement mapping
(`Side`): `handling` is the message whose handler polls, `since` when it polled first,
`effect` what the generator was told last, or the script last begun. The parameters
`Targets` and `Effect` are each program's own.

**`SwitchClient`.** The structure of `EndnodeClient`; a handler has one timestamp, and
`BeginScript`/`EndScript` bracket a `system()` call that takes as long as the clock
goes on, with `cv_mutex` held. The scripts' modes are 0, 1 and 10; any other is
acknowledged as done without one.

**`ControlChannel`.** A `MessageNet_t` is a position, a length and cells (value and
size) at byte offsets: `add` and `read` move the position by the size of what they
add and read, and fail silently as in the code; what is read at another offset or
size than it was written is `Garbage`. `RMMessage` and `RMPayload` are their field
lists with sizes, added and read in order. `rm_message` is the one object a receiving
thread reads into again and again. `network` is a set of datagrams, so delivery is
unordered; `Take` may leave a datagram in it (duplication), `Lose` drops one.

**`ModeChange`.** Extends `NetLayerRM`, whose timer thread posts each message it
records in `sent` as a datagram, and `ControlChannel`, and instantiates
`TimedClient` (for all clients, with the targets of their programs). `clock` is the
clock of all; `now` of `NetLayerRM` is the moment at which the manager goes on, and
`ManagerStep` waits for the clock to reach it. At that moment the manager's steps
come first (`ManagerWaits`): they take no time and read nothing of the clients, so
nothing is lost by that order. `posted` and `owed` are history: what was
posted, and which messages arrived in time and have not been carried out.

## 4. The runs

| Run | Question and result | Bounds and why they are enough |
|---|---|---|
| `generator_sync` | Can a sequence of calls make the synchronous thread send on after a pause, begin further objects, stay in an old mode, tear an object or miss the newest mode? No. | three calls (pause, restart and change between two fragments need three), objects of 0, 1 and 2 fragments and an unknown mode, two objects, two ticks |
| `generator_async` | The same for the asynchronous thread, which changes mode inside an object: numbering stays gapless. | as above |
| `generator_stop` | Does `stop()` return? **No**: a thread waiting for permission does not look at `stop_thread`. | two calls |
| `manager_hyperperiods` | Does every sweep reach everyone once, do all restart in one hyperperiod, on the start's grid, ahead of the clock? Yes. | three services of three clients in every order of registration, one client without configuration, one without a mode in one of two network modes; two iterations of two rounds, so that the reference is advanced four times; timers late by 0 or 45 ms, gaps of 10 to 12 s, a start on and off a whole second |
| `manager_timestamps` | With requests in the middle of sweeps: is an entry ever lost or moved to another client, the end missed, a round planned beyond the configured ones? No. | three requests, at most three messages of a torn sweep; one iteration with a counter of two values, the most iterations it can count: with two, or one pass of the loop too many, `OnSchedule` is violated |
| `manager_iterator` | Does a sweep during a registration serve everyone once? **No**: the iterators are used without the map's lock. | as `manager_timestamps` |
| `safe_queue` | Is the queue a FIFO, is a wakeup lost, is a blocked consumer served? Yes, no, yes. | two producers and three consumers (a stolen wakeup needs two consumers, a wakeup per value two producers), three queued values, two different ones |
| `client` | Is the generator told anything early, is a message in time obeyed, is an interrupted generator resumed, does every handler return and an exit end the process; is the program a `TimedClient`? No to the first, yes to the others. | any two of ten messages: targets in one second and across two, before the restart, late, with no room before the second ends; steps of 200 ms, polls up to 400 ms apart; SIGINT at any point |
| `client_notify` | Does a queued message wake the main loop? **No**: it may be notified before the loop waits. | two messages without timestamps, clock stopped |
| `switch` | Is a mode change in time carried out after its timestamp and soon, however long scripts take; does an exit end the process; is the program a `TimedClient`? Yes. | any two of nine messages: with and without a script or a timestamp, late, in the next second; steps of the clock below, a script of any length up to the horizon; SIGINT at any point |
| `mode_change` | With a datagram lost, doubled, late or overtaken: does a client carry out anything that was not sent to it, go back to an earlier round, miss a round that arrived in time and before a later one, share its slot? No. | two end nodes with a service each; a synchronous start, one round on the hyperperiod grid, the stop; one fault anywhere; one datagram under way when the clock goes on, so that any message may be overtaken by the next and be as late as the experiment is long |
| `mode_change_quiet` | Is a switch reconfigured only after the end nodes have stopped? **No**: the nanoseconds of the round's timestamp are dropped. | an end node and a switch, a start off the whole second, a perfect channel |

The violations are the `findings` of `PROJECT.json`, with the line that says
otherwise.

`StampsAhead` is checked in `manager_hyperperiods`, where it is hard; that the timestamps
of experiments 1 and 3, a fixed time after the clock, are ahead is part of the theorem
`StampsStayAhead`.

**Numeric bounds.** Times are milliseconds: every duration the manager adds is a
whole number of them, and the comparisons of nanoseconds against one another keep
their order. The clock starts at 100 s, not at 1.7e9 s: the code uses differences
only. `UintMod` is 2^20 in the runs, as TLC's integers have 32 bits, and 2^32 in
the proof; no count comes near either but for the negative one that must wrap.
`IterationMod` is 4, or 2, for the `uint8_t` counter's 256. `Delays` bounds a timer's
lateness, `Requests`, `MaxCalls`, `MaxMessages` and `Capacity` what the
environment does, `MaxTime` and `Horizon` the clock (it never holds back a thread that waits
for it), `MaxSweep` the messages of a sweep on a torn tree, `MaxStall` the time between
two polls of a handler. `MaxStall` is an assumption on the scheduler, and
`GeneratorResumed` and `ObeyedInTime` say for which timestamps it is good enough
(`Room`): without any bound a handler may miss its second and leave the generator
paused, which is a hazard of the code.

In `mode_change` the phases are seconds where the configurations have ten, since only their
order counts, and the polls 10 ms apart. The manager's offset before the round equals the
distribution phase, as the configured gaps may (10 s each), and it starts 50 ms before a
whole second: so the round is sent before the start's timestamps have passed, and may overtake it. The clock goes on from one moment to the next at
which somebody can do something (`Moments`): the manager's next step, or the first
millisecond after a timestamp a client waits for. A buffer has the code's 1472 bytes;
all messages fit, so the refusal of `add` and the check of `read` are there but do not
bite (an end node's request with its payload is the longest). One round suffices for
messages of four kinds (start, round, stop, and requests) to overtake each other.

`RoundObeyed` speaks of messages a client was able to take up at once or from its queue
after others (`owed`): the wakeup that may be lost (`client_notify`) can leave a
message in the queue of an idle client for good, so such messages are not owed any more
when time passes. Nor is a message owed that a later round has overtaken: the client's
loop polls for the later round's timestamps first and misses the earlier round although
it arrived in time (without `~Overtaken` in `InTimeFor` TLC shows that within the bounds
of this run). In time is before all timestamps of the message, not only before the first: in
experiment 1 the stop has the clock's milliseconds and the restart none, so that a restart
may precede its stop in their second.

**Fairness.** Threads that can run are run (weak fairness of each thread's
steps): the program relies on an ordinary scheduler and sets no priorities. Time
passes. In `SafeQueue` a woken thread competes for the mutex again and again,
hence strong fairness on taking it: an assumption of a starvation-free mutex. A
script of the switch ends. No message has to arrive, nobody has to call, no wait has to end spuriously.

**Deadlock** is not checked where the system may stop: the generator's thread and the
client's main loop wait for calls and messages that need not come, the manager's
timer thread ends with the experiment.

`client` lets `SIGINT` interrupt other threads than the main one only
(`SignalThreads`). On the main thread inside the loop's body the handler locks a
mutex its own thread holds, and the process hangs; that needs no model checker.

## 5. The proofs

All for every value of the constants that satisfies the named assumptions, which
say no more than the code and the configurations guarantee.

| Module | Theorems | Argument |
|---|---|---|
| `TrafficGeneratorProofs` | `TypeCorrect`, `PausePrompt`, `FinishesLastObject`, `OldModeEnds`, `SyncSendsWholeObjects`, `FragmentsNumbered` | `TypeInv` adds that the settings pointer is set wherever it is followed. `StrayInv` and `BegunInv` say that a thread holding an unused permission has counted nothing yet, so it can use it once. `WireInv` ties the last packet to the thread's position in its object; a step then maps to a step of `FragmentStream`. `OrderInv`: for both threads the last fragment has the number before the thread's counter, also where a mode is changed inside an object. |
| `NetLayerRMProofs` | `TypeCorrect`, `FirstRegistrationKept`, `OneHyperperiod`, `GridKept`, `SweepsReachEveryone`, `ReferenceStaysAhead`, `ExperimentOnSchedule`, `StampsStayAhead` | `InsertsNew`: what is being inserted is not listed. `BasedOnTarget`: every message of a sweep is its target plus its slot. `GridInv`: the grid keeps the distribution phase's rest. `SweepInv`: everyone behind the cursor has been served, once, and nobody before it. `ReferenceInv` bounds the reference on both sides at every stop of the timer thread; it survives the unsigned arithmetic because the wrapped sum is the true one. `RestInv`: the rest of the reference grows by 900 ms a round at most, so that the seconds, which are all a message takes of it, stay ahead of the clock (`SecondsAhead`) for a bounded number of rounds. `ScheduleInv`: in each phase the clock leaves room for the durations still ahead, and after a round the counter and the index together are one further, as the counter does not wrap before the last iteration. `PaceInv` (for `ModeChangeProofs`): when a round is planned its target moves on by the pause, but for three seconds of rounding and rest. |
| `SafeQueueProofs` | `TypeCorrect`, `WakeupsKept`, `RefinesFifo` | `QueueInv`: who is about to wait has seen the queue empty, who is about to pop has seen a value, with the lock held since. `NoLostWakeup` is inductive with it; the proof counts the threads that are awake or about to notify. |
| `EndnodeClientProofs` | `TypeCorrect`, `GeneratorKeptGoing`, `HandlerObeys`, `NothingEarly` | `PollInv`: how old the handler's clock reading may be. `ResumeInv` and `WaitInv`: while a timestamp is awaited it has not passed at the last poll, so the next poll, `MaxStall` later at most, is in its second (`NextPollAccepts`) and accepts it. |
| `EndnodeRefinementProofs` | `EndnodeIsTimedClient` | Every step of the program maps to a step of `TimedClient` or to a stutter. `LateInv`: no poll is late for a timestamp that is left, and before the next poll every timestamp that is left has been looked at. With `PollInv` of `EndnodeClientProofs` an accepted timestamp is `Due`, a refused one `Expired`, and the clock never goes past an overdue step. |
| `SwitchClientProofs` | `TypeCorrect`, `SwitchesInTime`, `SwitchIsTimedClient` | `PollInv` as for the end node, with the age of the last poll; `SwitchInv`: a timestamp accepted once stays accepted until it has passed (`NextPollAccepts`), and the script begins then. The steps map to `TimedClient` as for the end node. |
| `ControlChannelProofs` | `DecodedAsSent`, `RequestDecoded` | Each field is added and read as the one cell of its size, so every field starts where those before it end (`AddedLayout`, `ReadLayout`: induction over the number of fields, the statement given as a set of numbers, `SetInduction`); a message longer than the buffer is the one thing that could go wrong, and the payload lands where the old one was. |
| `ModeChangeProofs` | `SystemRunsManager`, `SystemRunsClients`, `SystemTypeCorrect`, `HandledWasSent`, `PairsKeepTheirSlots`, `SlotsStayApart`, `ClientsNeverGoBack`, `RoundsObeyed` | `ChannelInv`: a datagram under way is a client's request or was posted, and a receiver's message can be received into again. With it every step of the system is one of the manager and one of its clients, so that what is proved of them holds here. `ClientsInv`: what a client has before it or has done decodes something posted to it. `RegisteredInv`: a client registers its own service; `PostedSlots`: a restart posted to it is its slot after a point of the grid. `RoundsInv`: before a sweep with timestamps all that was sent is past by the pause, so any two messages to one client are the same or one's seconds are over when the other's timestamps pass (`Apart`); `EffectPassed`: what a client has acted on has passed. A step that is due now cannot be of the earlier of the two. `OwedInv`: a message that is owed is either being carried out, and was begun before its timestamps, or stands in the queue, and every message before it is over by the slack before those timestamps (`Clears`), which leaves two polls for each of them (`InLine`). `PollsInv`: what a client carries out is never overdue by more than two polls. When a handler ends, each message waiting behind it is one place further on and has at least as much time left for each place. |

`GridKept` assumes a hyperperiod of 100 ms and a distribution phase that is a
multiple of it, `ReferenceStaysAhead` the 100 ms, 32 bits, gaps of a second and
more, slots shorter than the offset before the experiment, and bounded lateness;
`SweepsReachEveryone` that nobody registers late, which `manager_iterator`
shows to be needed. `ExperimentOnSchedule` assumes fewer
iterations than the loop's `uint8_t` has values, and that a timer's lateness has a bound;
`experiment_iterations` is a `uint32_t`, and with 256 or more the loop does not end.
`StampsStayAhead` assumes in addition to `ReferenceStaysAhead` that the distribution phase
is longer than the rest of the reference at the start, 900 ms for each round and the
lead of a reconfiguration: with the configured phase of 10 s it holds for the ten
configured rounds, and not for twice as many (section 6).

The theorems about the system assume that a message with its payload fits the buffer
(170 bytes of 1472; the codec drops silently what does not) and, where modes are
compared, that they fit the byte they are sent in. `SlotsStayApart` assumes that the
configuration keeps all end nodes' slots apart in whatever modes they are. Not all
of `config/` does: in experiment 4 the services 200 and 300 share slot 33, for
different receivers; in experiment 5 mode 51 gives 67 to 100 and 200; in experiment 6
mode 60 of 100 and 61 of 200 are both slot 1, so that a client that missed a round
transmits in the other's slot. Hence `PairsKeepTheirSlots`, which needs the slots of the
two end nodes it speaks of only. `ClientsNeverGoBack` assumes that the pause between
rounds (10 s and more in `config/`) exceeds three seconds, the spread of a round's
timestamps (a second and the largest slot), the longest time between two polls and
the lead of a reconfiguration; it assumes nothing of the network, and no bound on
how late a client takes a message up. The run `mode_change` has shorter pauses than
that and still finds no violation.

`RoundsObeyed` assumes the same with more room in the pause, the slack: two polls for
each message that ever waits at a client at once, in place of one poll. How many that
are (`QueuesWithin`) is a hypothesis on the behaviour: no code bounds the queue, and the
network may double what it likes. With the configured gaps of 10 s and more, `ReconfigOffset`
50 ms and slots below 100 ms the pause can be 9000 ms, the timestamps of a round span 1100 ms,
and 4850 ms are left: 242 messages waiting at one client when it polls every 10 ms,
where a round sends it one. The theorem assumes in addition that the clock has passed the
first second of the epoch, so that a timestamp that was never set is in the past.
A round is owed only while its client looks at its queue when it is idle, and it may be
missed when a timestamp is closer to the end of its second than two polls (`Room`), as
in the programs.

Checked by TLC only: the liveness properties (`ModeServed`, `ExperimentEnds`,
`BlockedIsServed`, `HandlerReturns`, `ExitObeyed`), which with fairness and ENABLED
are out of the proof system's reach.

## 6. Not modelled

- Parsing of the configuration, logging, identifiers, the traffic sink and the
  sockets: I/O without state that outlives a call. The sink logs the packets it
  receives; the codec of data packets serves nothing else, and `FragmentStream` says
  what the packets carry.
- Repeating timers and `cancel` (`timer_events.*`): nothing in the repository uses them.
- The acknowledgements and the release of resources: the manager logs them and does
  nothing else with them. Sends without a caller (`send_rm_message`, `send_error`,
  `send_sync_reconfig`, `send_stop`), the payload formats nobody sends.
- The bytes of the request for resources: its structure holds a `std::vector`
  that is copied as raw memory; the manager does not read it. The manager's own
  decoding of such payloads is not looked at either.
- Sockets that fail and processes that crash: no code handles either.
- The look at the interfaces' speed in the switch's client, which is only logged.

Read in the code and not turned into a run:

- the hyperperiod count uses the configured duration, the advance a literal of
  100 ms (`net_layer_rm.tpp:770`): with 200 ms configured the first round, planned at
  130.045 s with a distribution phase of 10 s, gets 132.700 s as its reference
  (`ReferenceAhead` fails; with the configured duration in the literal's place it holds).
  All configurations set 100 ms;
- the reference's nanoseconds are advanced without a carry (`net_layer_rm.tpp:770`,
  `:771`) and only its seconds are sent (`:372`, `:373`), so that the restarts fall behind the
  reference by up to 900 ms more in each round. Twelve iterations of two rounds in place of
  the configured five hand out a restart in the past: at the 21st round, at 343.350 s,
  the reference is 343 s and 10501 ms and the restart 343.001 s. `StampsStayAhead` says
  how many rounds are safe;
- an end node ignores `RM_CLIENT_RECONFIGURE_HW`, which `send_reconfig`
  (`rm_communication.cpp:214`) sends in the asynchronous experiments;
- a mode change that came too late is acknowledged as done;
- `rm_active_timestamp_last` is uninitialised if a hyperperiod experiment follows
  an asynchronous start, which no configuration asks for;
- a restart in the mode already served keeps its time base: the generator looks
  at the new timestamp only in the branch for a new mode (`traffic_generator.cpp:219`);
- for the same reason as in `mode_change_quiet` a hyperperiod round may restart its
  services before the distribution phase is over (`net_layer_rm.tpp:771`, `:796`);
- the setters `set_measurement_id` and `set_resource_request_payload`
  (`protocol_rm_wired_payload.cpp:208`, `:279`) assign their parameter to itself; neither
  has a caller;
- `SIGINT` on the main thread may deadlock, as above.
