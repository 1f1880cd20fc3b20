----------------------------- MODULE NetLayerRM -----------------------------
(***************************************************************************)
(* The network-layer resource manager (net_layer_rm.tpp): the receiving    *)
(* thread queues the clients' requests, the handler thread enters them in  *)
(* service_list, and the timer thread walks through service_list to start  *)
(* the network, to run the mode-change rounds of an experiment and to stop *)
(* the clients.  The state that matters is who is registered, what a sweep *)
(* over the list sends to whom, and the timestamps it hands out.           *)
(*                                                                         *)
(* service_list is a SharedMap: each of its operations holds its lock, but *)
(* the iterators it returns are advanced without it.  A step of a sweep is *)
(* the loop body with its ++iterator; an insertion takes two steps, and an *)
(* iterator advanced between them may end up anywhere in the tree.         *)
(***************************************************************************)
EXTENDS Timespec, Sequences

CONSTANTS
    Services,              \* the service ids, a set of positive numbers
    Clients,               \* the ids of the clients (source_id)
    ConfiguredClients,     \* those in rm_client_config_map
    SynchronousStart,      \* experiment_parameter.synchronous_start_mode
    ExperimentNumber,      \* experiment_parameter.experiment_number
    StartupMode,           \* client -> mode: the startup_mode_map entry in use
    ReconfigurationOrder,  \* the network modes of one iteration, in order
    ReconfigurationMap,    \* network mode -> client -> mode
    SlotOffset,            \* service -> mode -> milliseconds, 0 by default
    Iterations,            \* experiment_iterations
    IterationMod,          \* 2^8 in the code: the loop counter is a uint8_t
    ClientInitTime, BeginOffset, EndOffset,     \* milliseconds
    DistributionPhase,     \* mc_distribution_phase_duration, milliseconds
    ReconfigOffset, StartOffset,                \* milliseconds
    GapMin, GapMax,        \* inter_mc_gap_min and _max, milliseconds
    Loopback,              \* 127.0.0.1, the address of clients without a configuration
    NoService,             \* the handler is not inserting
    EpochStarts,           \* the clock when the manager starts, milliseconds
    Delays,                \* bound: how late a timer or a sleep may return
    Requests,              \* bound: registration requests received
    LateRegistration,      \* whether requests may arrive after client_init_time
    MaxSweep               \* bound: messages of one sweep on a torn tree

(* The experiments whose rounds are planned on the hyperperiod grid, and   *)
(* those that send timestamps relative to the clock.                       *)
HyperperiodExperiments == {2, 4, 5, 6, 7}
TimestampExperiments == {1, 3}
Experiments == HyperperiodExperiments \cup TimestampExperiments \cup {0}

NetworkModes == DOMAIN ReconfigurationMap

ASSUME ManagerAssumption ==
    /\ Services \subseteq Nat \ {0}
    /\ ConfiguredClients \subseteq Clients
    /\ SynchronousStart \in BOOLEAN /\ LateRegistration \in BOOLEAN
    /\ ExperimentNumber \in Nat
    /\ ExperimentNumber \in HyperperiodExperiments => SynchronousStart   \* as in config/*.json
    /\ DOMAIN StartupMode \subseteq Clients
    /\ \A c \in DOMAIN StartupMode : StartupMode[c] \in Nat
    /\ \A m \in NetworkModes :
          /\ DOMAIN ReconfigurationMap[m] \subseteq Clients
          /\ \A c \in DOMAIN ReconfigurationMap[m] : ReconfigurationMap[m][c] \in Nat
    /\ \A s \in DOMAIN SlotOffset : \A m \in DOMAIN SlotOffset[s] : SlotOffset[s][m] \in Nat
    /\ ReconfigurationOrder \in Seq(Nat) /\ ReconfigurationOrder # <<>>
    /\ Iterations \in Nat /\ IterationMod \in Nat \ {0}
    /\ EpochStarts \subseteq Nat /\ Delays \subseteq Nat
    /\ \A d \in {ClientInitTime, BeginOffset, EndOffset, DistributionPhase,
                 ReconfigOffset, StartOffset, GapMin, GapMax, Requests, MaxSweep} : d \in Nat
    /\ NoService \notin [service : Services, client : Clients]

VARIABLES
    \* the receiving and the handler thread
    requests,                   \* bound: requests received so far
    nRM_in_handle_queue,        \* requests received and not handled
    inserting,                  \* the request being inserted, or NoService
    service_list,               \* service -> client that registered it
    \* the timer thread
    pc,
    iterator, position,         \* the round: iteration, index in the order
    cursor,                     \* the list iterator of the sweep, or End
    now,                        \* CLOCK_REALTIME, milliseconds
    rm_active_timestamp_last,   \* the hyperperiod reference
    target,                     \* the timestamp the sweep plans from
    \* history
    sent,                       \* the messages of the last sweep
    present,                    \* the services listed when it began
    grid                        \* the target of the synchronous start

handlerVars == <<requests, nRM_in_handle_queue, inserting, service_list>>
roundVars == <<iterator, position>>
timeVars == <<now, rm_active_timestamp_last, target, grid>>
vars == <<handlerVars, pc, roundVars, cursor, timeVars, sent, present>>

Sweeps == {"start", "round", "stop"}
Rests == {"init", "began", "plan", "gap", "ending", "invalid", "stopped", "exited"}

End == 0    \* service_list.end(); service ids are positive

Listed == DOMAIN service_list

(* The key after s in the map, s = 0 standing before the first. *)
Successors(s) ==
    LET above == {t \in Listed : t > s}
    IN  IF above = {} THEN {End} ELSE {t \in above : \A u \in above : t <= u}

(* Where ++iterator leads from service s: to the next key, or anywhere     *)
(* while an insertion rebalances the tree.                                 *)
After(s) ==
    IF inserting = NoService THEN Successors(s) ELSE Listed \cup {inserting.service, End}

Init ==
    /\ requests = 0
    /\ nRM_in_handle_queue = <<>>
    /\ inserting = NoService
    /\ service_list = [s \in {} |-> 0]
    /\ pc = "init"
    /\ iterator = 0 /\ position = 1
    /\ cursor = End
    /\ now \in EpochStarts
    /\ rm_active_timestamp_last = Zero
    /\ target = Zero
    /\ sent = <<>>
    /\ present = {}
    /\ grid = Zero

-----------------------------------------------------------------------------
(* The receiving and the handler thread. *)

Running == pc # "exited"

(* receive_message: a client's RM_CLIENT_SYNC_REQUEST. *)
ReceiveMessage(s, c) ==
    /\ Running
    /\ LateRegistration \/ pc = "init"
    /\ requests < Requests
    /\ requests' = requests + 1
    /\ nRM_in_handle_queue' = Append(nRM_in_handle_queue, [service |-> s, client |-> c])
    /\ UNCHANGED <<inserting, service_list, pc, roundVars, cursor, timeVars, sent, present>>

(* The handler without the look-up: a second request replaces the entry. *)
HandleMessageReplacing ==
    /\ Running
    /\ inserting = NoService
    /\ nRM_in_handle_queue # <<>>
    /\ nRM_in_handle_queue' = Tail(nRM_in_handle_queue)
    /\ inserting' = Head(nRM_in_handle_queue)
    /\ UNCHANGED <<requests, service_list, pc, roundVars, cursor, timeVars, sent, present>>

(* handle_message and handle_sync_messages: a service that is listed keeps *)
(* its entry, another one is inserted.                                     *)
HandleMessage ==
    /\ Running
    /\ inserting = NoService
    /\ nRM_in_handle_queue # <<>>
    /\ nRM_in_handle_queue' = Tail(nRM_in_handle_queue)
    /\ inserting' = IF Head(nRM_in_handle_queue).service \in Listed
                    THEN NoService ELSE Head(nRM_in_handle_queue)
    /\ UNCHANGED <<requests, service_list, pc, roundVars, cursor, timeVars, sent, present>>

(* The insertion is complete and the map's lock released. *)
InsertService ==
    /\ Running
    /\ inserting # NoService
    /\ service_list' = [s \in Listed \cup {inserting.service} |->
                            IF s = inserting.service THEN inserting.client
                                                     ELSE service_list[s]]
    /\ inserting' = NoService
    /\ UNCHANGED <<requests, nRM_in_handle_queue, pc, roundVars, cursor, timeVars, sent, present>>

-----------------------------------------------------------------------------
(* What the timer thread sends. *)

(* The control messages the manager sends (enum MessageTypes). *)
MessageTypes ==
    {"RM_CLIENT_START", "RM_CLIENT_SYNC_TIMESTAMP_START", "RM_CLIENT_RECONFIGURE_HW",
     "RM_CLIENT_SYNC_TIMESTAMP_RECONFIGURE_HW", "RM_CLIENT_SYNC_TIMESTAMP_RECONFIGURE_SW",
     "RM_CLIENT_SYNC_TIMESTAMP_RECONFIGURE_SYNC_OBJECT_HW",
     "RM_CLIENT_SYNC_TIMESTAMP_RECONFIGURE_SYNC_OBJECT_SW",
     "RM_CLIENT_EXIT", "RM_CLIENT_SYNC_TIMESTAMP_EXIT"}

(* get_client_address: clients without a configuration share a fallback.   *)
ClientAddress(c) == IF c \in ConfiguredClients THEN c ELSE Loopback

(* A control message and its payload.  The reconfigure messages carry the  *)
(* service in the header's destination_id and the iteration in service_id. *)
Message(type, s, mode, stop, reconfig, start) ==
    [type |-> type, service |-> s, to |-> ClientAddress(service_list[s]), mode |-> mode,
     iteration |-> iterator, stop |-> stop, reconfig |-> reconfig, start |-> start]

Slot(s, mode) ==
    IF s \in DOMAIN SlotOffset /\ mode \in DOMAIN SlotOffset[s] THEN SlotOffset[s][mode] ELSE 0

(* send_synchronous_start, and control_channel.send_start. *)
StartMessage(s) ==
    LET mode == StartupMode[service_list[s]]
    IN  IF SynchronousStart
        THEN Message("RM_CLIENT_SYNC_TIMESTAMP_START", s, mode, Zero, Zero,
                     PrepareTimestampAdd(target, Slot(s, mode)))
        ELSE Message("RM_CLIENT_START", s, mode, Zero, Zero, Zero)

(* The message of a mode-change round: without timestamps, with timestamps *)
(* relative to the clock, or planned on the target hyperperiod.            *)
PlainMessage(s, mode) ==
    Message("RM_CLIENT_RECONFIGURE_HW", s, mode, Zero, Zero, Zero)

TimestampMessage(s, mode) ==
    Message(IF ExperimentNumber = 1 THEN "RM_CLIENT_SYNC_TIMESTAMP_RECONFIGURE_HW"
                                    ELSE "RM_CLIENT_SYNC_TIMESTAMP_RECONFIGURE_SW",
            s, mode,
            IF ExperimentNumber = 1 THEN target ELSE Zero,
            PrepareTimestampAdd(target, ReconfigOffset),
            IF ExperimentNumber = 1
            THEN PrepareTimestampAdd(target, StartOffset + ReconfigOffset) ELSE Zero)

(* Every client at the beginning of the target hyperperiod. *)
HyperperiodMessageUnslotted(s, mode) ==
    Message("RM_CLIENT_SYNC_TIMESTAMP_RECONFIGURE_SYNC_OBJECT_SW", s, mode, Zero,
            PrepareTimestampSub(target, ReconfigOffset), target)

HyperperiodMessage(s, mode) ==
    LET start == PrepareTimestampAdd(target, Slot(s, mode))
    IN  Message(IF ExperimentNumber = 2
                THEN "RM_CLIENT_SYNC_TIMESTAMP_RECONFIGURE_SYNC_OBJECT_HW"
                ELSE "RM_CLIENT_SYNC_TIMESTAMP_RECONFIGURE_SYNC_OBJECT_SW",
                s, mode, Zero, PrepareTimestampSub(start, ReconfigOffset), start)

NetworkMode == ReconfigurationOrder[position]

RoundMessage(s) ==
    LET mode == ReconfigurationMap[NetworkMode][service_list[s]]
    IN  CASE ExperimentNumber \in HyperperiodExperiments -> HyperperiodMessage(s, mode)
          [] ExperimentNumber \in TimestampExperiments   -> TimestampMessage(s, mode)
          [] OTHER                                       -> PlainMessage(s, mode)

(* send_synchronous_stop and send_asynchronous_stop: mode 10 to everybody. *)
StopMessage(s) ==
    IF ExperimentNumber \in TimestampExperiments
    THEN Message("RM_CLIENT_EXIT", s, 10, Zero, Zero, Zero)
    ELSE Message("RM_CLIENT_SYNC_TIMESTAMP_EXIT", s, 10, PrepareTimestampAdd(target, 10),
                 PrepareTimestampAdd(target, 20), PrepareTimestampAdd(target, 20))

(* Whether a sweep has a message for a service. *)
HasMode(sweep, s) ==
    CASE sweep = "start" -> service_list[s] \in DOMAIN StartupMode
      [] sweep = "round" -> /\ NetworkMode \in NetworkModes
                            /\ service_list[s] \in DOMAIN ReconfigurationMap[NetworkMode]
      [] OTHER           -> TRUE

SweepMessage(s) ==
    CASE pc = "start" -> StartMessage(s)
      [] pc = "round" -> RoundMessage(s)
      [] OTHER        -> StopMessage(s)

-----------------------------------------------------------------------------
(* The timer thread. *)

(* A timer set for, or a sleep of, duration milliseconds is over. *)
Passes(duration) == \E d \in Delays : now' = now + duration + d

(* A sweep begins at the first listed service; begin() waits for the lock. *)
BeginSweep(sweep) ==
    /\ inserting = NoService
    /\ pc' = sweep
    /\ cursor' \in Successors(0)
    /\ sent' = <<>>
    /\ present' = Listed

(* initial_start_handler, start_network_traffic_synchronous and            *)
(* _asynchronous up to the sweep.                                          *)
InitialStart ==
    /\ pc = "init"
    /\ LateRegistration \/ nRM_in_handle_queue = <<>>
    /\ Passes(ClientInitTime)
    /\ BeginSweep("start")
    /\ IF SynchronousStart
       THEN LET starting == GetRoundTimestamp(ClockGettime(now'))
            IN  /\ target' = PrepareTimestampAdd(starting, DistributionPhase)
                /\ rm_active_timestamp_last' = target'
                /\ grid' = target'
       ELSE UNCHANGED <<target, rm_active_timestamp_last, grid>>
    /\ UNCHANGED <<handlerVars, roundVars>>

(* The loop body with a break for a client without a mode. *)
ServeBreaking ==
    /\ pc \in Sweeps
    /\ cursor \in Listed
    /\ IF HasMode(pc, cursor)
       THEN /\ cursor' \in Successors(cursor)
            /\ sent' = Append(sent, SweepMessage(cursor))
       ELSE /\ cursor' = End
            /\ UNCHANGED sent
    /\ UNCHANGED <<handlerVars, pc, roundVars, timeVars, present>>

(* The loop body waiting out the distribution phase anew for each service. *)
ServeRebasing ==
    /\ pc \in Sweeps
    /\ cursor \in Listed
    /\ cursor' \in Successors(cursor)
    /\ IF HasMode(pc, cursor)
       THEN /\ sent' = Append(sent, SweepMessage(cursor))
            /\ target' = PrepareTimestampAdd(target, DistributionPhase)
       ELSE UNCHANGED <<sent, target>>
    /\ UNCHANGED <<handlerVars, pc, roundVars, now, rm_active_timestamp_last, grid, present>>

(* The body of a sweep's loop: read the entry, advance the iterator, send  *)
(* the entry's message if its client has a mode.  The synchronous start    *)
(* leaves the last service's start, slot included, as the reference.       *)
Serve ==
    /\ pc \in Sweeps
    /\ cursor \in Listed
    /\ inserting # NoService => Len(sent) < MaxSweep
    /\ cursor' \in After(cursor)
    /\ IF HasMode(pc, cursor)
       THEN /\ sent' = Append(sent, SweepMessage(cursor))
            /\ IF pc = "start" /\ SynchronousStart
               THEN rm_active_timestamp_last' = SweepMessage(cursor).start
               ELSE UNCHANGED rm_active_timestamp_last
       ELSE UNCHANGED <<sent, rm_active_timestamp_last>>
    /\ UNCHANGED <<handlerVars, pc, roundVars, now, target, grid, present>>

(* The same with the timer for the experiment forgotten. *)
AfterSweepUnarmed ==
    CASE pc = "start" -> "invalid"
      [] pc = "round" -> "gap"
      [] OTHER -> IF ExperimentNumber \in TimestampExperiments THEN "stopped" ELSE "exited"

(* The sweep is over: a timer is set, the thread sleeps, or the process    *)
(* exits.                                                                  *)
AfterSweep ==
    CASE pc = "start" -> "began"
      [] pc = "round" -> "gap"
      [] OTHER -> IF ExperimentNumber \in TimestampExperiments THEN "stopped" ELSE "exited"

EndSweep ==
    /\ pc \in Sweeps
    /\ cursor = End
    /\ pc' = AfterSweep
    /\ UNCHANGED <<handlerVars, roundVars, cursor, timeVars, sent, present>>

(* experiment_selection. *)
ExperimentSelection ==
    /\ pc = "began"
    /\ Passes(BeginOffset)
    /\ pc' = IF ExperimentNumber \in Experiments THEN "plan" ELSE "invalid"
    /\ iterator' = 0
    /\ position' = 1
    /\ UNCHANGED <<handlerVars, cursor, rm_active_timestamp_last, target, grid, sent, present>>

(* The loop over the iterations goes on, and the same with one iteration   *)
(* more than it should.                                                    *)
MoreIterationsPast == iterator <= Iterations
MoreIterations == iterator < Iterations

(* The head of the two loops of an experiment: the timestamp the round is  *)
(* planned from.                                                           *)
PlanRound ==
    /\ pc = "plan"
    /\ MoreIterations
    /\ BeginSweep("round")
    /\ IF ExperimentNumber \in HyperperiodExperiments
       THEN /\ target' = TargetHyperperiod(ClockGettime(now), rm_active_timestamp_last,
                                           DistributionPhase)
            /\ rm_active_timestamp_last' = target'
       ELSE /\ target' = IF ExperimentNumber \in TimestampExperiments
                         THEN [ClockGettime(now) EXCEPT !.sec = @ + DistributionPhase \div 1000]
                         ELSE target
            /\ UNCHANGED rm_active_timestamp_last
    /\ UNCHANGED <<handlerVars, roundVars, now, grid>>

(* The sleep with an order walked one element too far. *)
GapOverrunning ==
    /\ pc = "gap"
    /\ \E gap \in (GapMin \div 1000)..(GapMax \div 1000) : Passes(1000 * gap)
    /\ pc' = "plan"
    /\ IF position > Len(ReconfigurationOrder)
       THEN /\ position' = 1
            /\ iterator' = (iterator + 1) % IterationMod
       ELSE /\ position' = position + 1
            /\ UNCHANGED iterator
    /\ UNCHANGED <<handlerVars, cursor, rm_active_timestamp_last, target, grid, sent, present>>

(* The sleep between two rounds, cut to whole seconds, and the next round. *)
Gap ==
    /\ pc = "gap"
    /\ \E gap \in (GapMin \div 1000)..(GapMax \div 1000) : Passes(1000 * gap)
    /\ pc' = "plan"
    /\ IF position = Len(ReconfigurationOrder)
       THEN /\ position' = 1
            /\ iterator' = (iterator + 1) % IterationMod
       ELSE /\ position' = position + 1
            /\ UNCHANGED iterator
    /\ UNCHANGED <<handlerVars, cursor, rm_active_timestamp_last, target, grid, sent, present>>

(* All iterations are done: the timer for the end is set. *)
EndExperiment ==
    /\ pc = "plan"
    /\ ~MoreIterations
    /\ pc' = "ending"
    /\ UNCHANGED <<handlerVars, roundVars, cursor, timeVars, sent, present>>

(* stopping_experiment_synchronous and _asynchronous up to the sweep. *)
StoppingExperiment ==
    /\ pc = "ending"
    /\ Passes(EndOffset)
    /\ BeginSweep("stop")
    /\ IF ExperimentNumber \in TimestampExperiments
       THEN UNCHANGED target
       ELSE target' = PrepareTimestampAdd(GetRoundTimestamp(ClockGettime(now')),
                                          DistributionPhase)
    /\ UNCHANGED <<handlerVars, roundVars, rm_active_timestamp_last, grid>>

-----------------------------------------------------------------------------
HandlerStep == HandleMessage \/ InsertService

TimerStep ==
    \/ InitialStart \/ Serve \/ EndSweep \/ ExperimentSelection
    \/ PlanRound \/ Gap \/ EndExperiment \/ StoppingExperiment

Next ==
    \/ \E s \in Services, c \in Clients : ReceiveMessage(s, c)
    \/ HandlerStep
    \/ TimerStep

Spec == Init /\ [][Next]_vars

(* The scheduler runs every thread that can run, and timers fire. *)
FairSpec == Spec /\ WF_vars(HandlerStep) /\ WF_vars(TimerStep)

-----------------------------------------------------------------------------
(* Properties. *)

Messages ==
    [type : MessageTypes, service : Services, to : Clients \cup {Loopback}, mode : Nat,
     iteration : Nat, stop : Timespecs, reconfig : Timespecs, start : Timespecs]
Requested == [service : Services, client : Clients]
LastSweep == CASE pc = "began" -> "start" [] pc = "gap" -> "round" [] OTHER -> "stop"
SweepOver == pc \in {"began", "gap", "stopped", "exited"}
OnHyperperiods == ExperimentNumber \in HyperperiodExperiments
Starts == {i \in DOMAIN sent : sent[i].start # Zero}
Base(message) == Total(message.start) - Slot(message.service, message.mode)

(* The variables hold values of their types; the round's indices stay in   *)
(* the reconfiguration order and in the loop counter's width.              *)
TypeOK ==
    /\ requests \in 0..Requests
    /\ nRM_in_handle_queue \in Seq(Requested)
    /\ inserting \in Requested \cup {NoService}
    /\ Listed \subseteq Services
    /\ service_list \in [Listed -> Clients]
    /\ pc \in Sweeps \cup Rests
    /\ iterator \in 0..(IterationMod - 1)
    /\ position \in 1..Len(ReconfigurationOrder)
    /\ cursor \in Services \cup {End}
    /\ now \in Nat
    /\ {rm_active_timestamp_last, target, grid} \subseteq Timespecs
    /\ sent \in Seq(Messages)
    /\ present \subseteq Services

(* A finished sweep has sent every service that was listed when it began,  *)
(* and whose client has a mode in it, one message and no second one: no    *)
(* client is left in the old mode, and none is told to stop twice.         *)
SweepComplete ==
    SweepOver =>
        /\ \A s \in present : HasMode(LastSweep, s) => \E i \in DOMAIN sent : sent[i].service = s
        /\ \A i, j \in DOMAIN sent : sent[i].service = sent[j].service => i = j

(* All services of a round restart in the same hyperperiod: their starts   *)
(* differ by their slots only, whatever was computed for the others.       *)
SharedHyperperiod ==
    OnHyperperiods /\ pc \in {"start", "began", "round", "gap"} =>
        \A i, j \in Starts : Base(sent[i]) = Base(sent[j])

(* Every restart falls on the grid of hyperperiods that the synchronous    *)
(* start laid, although the start leaves a slot in the reference and the   *)
(* rounds advance it by a count of hyperperiods taken from the clock.      *)
OnGrid ==
    OnHyperperiods /\ pc \in {"round", "gap"} =>
        \A i \in Starts : (Base(sent[i]) - Total(grid)) % HyperperiodDuration = 0

(* The hyperperiod reference of a round is ahead of the clock by more than *)
(* the distribution phase and by three hyperperiods more at most, however  *)
(* late the timers are and although the reference may lie in the future    *)
(* when the next one is computed with unsigned arithmetic.                 *)
ReferenceAhead ==
    OnHyperperiods /\ pc \in {"round", "gap"} =>
        /\ Total(target) > now + DistributionPhase
        /\ Total(target) <= now + DistributionPhase + 3 * HyperperiodDuration

(* No client is handed a timestamp that has passed. *)
StampsAhead ==
    pc \in Sweeps => \A i \in DOMAIN sent :
        \A t \in {sent[i].stop, sent[i].reconfig, sent[i].start} \ {Zero} : Total(t) > now

(* A service that is listed stays listed with the client that was first:   *)
(* a later request for it changes nothing, in the middle of a sweep or not.*)
FirstRegistrationWins ==
    [][\A s \in Listed : s \in DOMAIN service_list' /\ service_list'[s] = service_list[s]]_vars

(* The timers and sleeps of an experiment with n rounds add up to this, all *)
(* timers late by the most.                                                *)
LatestTimer == CHOOSE d \in Delays : \A e \in Delays : e <= d
Duration(n) ==
    ClientInitTime + BeginOffset + EndOffset + 3 * LatestTimer + n * (GapMax + LatestTimer)

(* The clock never shows more than the configured durations add up to: no  *)
(* round is planned beyond the configured iterations, whose narrow counter *)
(* wraps, and no timer is waited for twice.                                *)
OnSchedule ==
    \E epoch \in EpochStarts :
        now <= epoch + Duration(Iterations * Len(ReconfigurationOrder))

(* An experiment ends: the timer thread leaves its loops and stops the     *)
(* clients.                                                                *)
ExperimentEnds == <>(pc \in {"stopped", "exited"})
=============================================================================
