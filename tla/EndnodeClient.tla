--------------------------- MODULE EndnodeClient ---------------------------
(***************************************************************************)
(* A client's control side (rm_abstraction.cpp and the main() of           *)
(* wired_rm_client_endnode.cpp): the receiving thread queues the manager's *)
(* control messages and notifies the main loop, which handles one message  *)
(* after the other and tells the traffic generator what to do.  A handler  *)
(* of a message with timestamps polls the clock until they have passed.    *)
(* SIGINT may interrupt any thread.                                        *)
(*                                                                         *)
(* The queue is a SafeQueue, whose operations are single steps here        *)
(* (module SafeQueue); cv_rm_notification is notified without cv_mutex.    *)
(***************************************************************************)
EXTENDS ControlMessages

CONSTANTS
    Inbox,          \* the messages that may arrive: [type, mode, stop, reconfig, start]
    NoMessage,      \* message before the first one
    SignalThreads,  \* the threads SIGINT may interrupt: "main", "other"
    ClockStart,     \* the clock when the client starts, milliseconds
    Ticks,          \* bound: the steps of the clock, milliseconds
    Horizon,        \* bound: the last time of the clock
    MaxStall,       \* bound: milliseconds from one poll of a handler to the next
    MaxMessages     \* bound: messages received

(* The message types main() tells apart; any other is ignored. *)
PlainTypes ==
    {"RM_CLIENT_START", "RM_CLIENT_STOP", "RM_CLIENT_RECONFIGURE_SW", "RM_CLIENT_EXIT"}
TimedTypes ==
    {"RM_CLIENT_SYNC_TIMESTAMP_START", "RM_CLIENT_SYNC_TIMESTAMP_STOP",
     "RM_CLIENT_SYNC_TIMESTAMP_RECONFIGURE_HW", "RM_CLIENT_SYNC_TIMESTAMP_RECONFIGURE_SW",
     "RM_CLIENT_SYNC_TIMESTAMP_RECONFIGURE_SYNC_OBJECT_SW", "RM_CLIENT_SYNC_TIMESTAMP_EXIT"}
LoggedTypes == {"RM_CLIENT_SYNC_TIMESTAMP_RECONFIGURE_SYNC_OBJECT_HW"}
UnknownTypes == {"RM_CLIENT_RECONFIGURE_HW", "RM_CLIENT_PAUSE"}

(* Those that interrupt the generator at one time and restart it at another. *)
InterruptingTypes ==
    {"RM_CLIENT_SYNC_TIMESTAMP_RECONFIGURE_HW",
     "RM_CLIENT_SYNC_TIMESTAMP_RECONFIGURE_SYNC_OBJECT_SW"}

Messages ==
    [type : PlainTypes \cup TimedTypes \cup LoggedTypes \cup UnknownTypes,
     mode : Nat, stop : Stamps, reconfig : Stamps, start : Stamps]

ASSUME ClientAssumption ==
    /\ Inbox \subseteq Messages
    /\ NoMessage \notin Messages
    /\ SignalThreads \subseteq {"main", "other"}
    /\ ClockStart \in Nat /\ Horizon \in Nat /\ MaxStall \in Nat /\ MaxMessages \in Nat
    /\ Ticks \subseteq Nat \ {0}

VARIABLES
    \* the receiving thread
    received,               \* bound: messages received
    rm_receiver,            \* "receive", or "notify" with a message just queued
    rm_client_out_queue,
    \* shared by the main loop and the signal handler
    cv_mutex,               \* "main", "signal" or "free"
    active,
    \* the signal handler, and the thread it interrupted
    signal, interrupted,
    \* the main thread
    pc,
    message,                \* recieved_control_message
    time_now,               \* the handler's last poll
    first_done,             \* stopped, or reconfigured
    restarted,
    told,                   \* what the traffic generator was told last
    acks,                   \* acknowledgements sent for the message
    \* the clock, and history: when the handler polled first
    now,
    entered

receiverVars == <<received, rm_receiver>>
signalVars == <<signal, interrupted>>
handlerVars == <<time_now, first_done, restarted, entered>>
vars == <<receiverVars, rm_client_out_queue, cv_mutex, active, signalVars, pc, message,
          handlerVars, told, acks, now>>

Init ==
    /\ received = 0
    /\ rm_receiver = "receive"
    /\ rm_client_out_queue = <<>>
    /\ cv_mutex = "free"
    /\ active = TRUE
    /\ signal = "none"
    /\ interrupted = "other"
    /\ pc = "starting"
    /\ message = NoMessage
    /\ time_now = Zero
    /\ first_done = FALSE
    /\ restarted = FALSE
    /\ told = [control |-> "THREAD_START", mode |-> 0, timestamp |-> Zero]
    /\ acks = <<>>
    /\ now = ClockStart
    /\ entered = 0

Running == pc # "exited"

(* A thread the signal handler has interrupted goes on when it returns. *)
Handling == signal \in {"raised", "locked"}

-----------------------------------------------------------------------------
(* The receiving thread. *)

(* rm_handler: a message arrives and is queued. *)
Receive(m) ==
    /\ Running
    /\ rm_receiver = "receive"
    /\ pc # "starting"
    /\ received < MaxMessages
    /\ received' = received + 1
    /\ rm_client_out_queue' = Append(rm_client_out_queue, m)
    /\ rm_receiver' = "notify"
    /\ UNCHANGED <<cv_mutex, active, signalVars, pc, message, handlerVars, told, acks, now>>

(* notify_one, without the mutex: who is not waiting yet is not woken. *)
WakeMain == pc' = IF pc = "blocked" THEN "woken" ELSE pc

NotifyMain ==
    /\ Running
    /\ rm_receiver = "notify"
    /\ rm_receiver' = "receive"
    /\ WakeMain
    /\ UNCHANGED <<received, rm_client_out_queue, cv_mutex, active, signalVars, message,
                   handlerVars, told, acks, now>>

-----------------------------------------------------------------------------
(* SIGINT. *)

(* One signal; before init_done it ends the process. *)
Interrupt ==
    /\ Running
    /\ signal = "none"
    /\ interrupted' \in SignalThreads
    /\ IF pc = "starting"
       THEN signal' = "done" /\ pc' = "exited" /\ active' = FALSE
       ELSE signal' = "raised" /\ UNCHANGED <<pc, active>>
    /\ UNCHANGED <<receiverVars, rm_client_out_queue, cv_mutex, message, handlerVars, told,
                   acks, now>>

SignalLock ==
    /\ Running
    /\ signal = "raised"
    /\ cv_mutex = "free"
    /\ cv_mutex' = "signal"
    /\ active' = FALSE
    /\ signal' = "locked"
    /\ UNCHANGED <<receiverVars, rm_client_out_queue, interrupted, pc, message, handlerVars,
                   told, acks, now>>

SignalNotify ==
    /\ Running
    /\ signal = "locked"
    /\ cv_mutex' = "free"
    /\ signal' = "done"
    /\ WakeMain
    /\ UNCHANGED <<receiverVars, rm_client_out_queue, active, interrupted, message,
                   handlerVars, told, acks, now>>

-----------------------------------------------------------------------------
(* The main loop. *)

Goto(from, to) ==
    /\ ~(Handling /\ interrupted = "main")
    /\ pc = from
    /\ pc' = to

loopUnchanged == <<receiverVars, rm_client_out_queue, signalVars, message, handlerVars, told,
                   acks, now>>

(* The threads are started, and the request for resources is sent. *)
Start ==
    /\ Goto("starting", "loop")
    /\ UNCHANGED <<loopUnchanged, cv_mutex, active>>

(* while (active), read without the mutex. *)
TestActive ==
    /\ Goto("loop", IF active THEN "lock" ELSE "release")
    /\ UNCHANGED <<loopUnchanged, cv_mutex, active>>

LockMutex ==
    /\ \/ Goto("lock", "wait")
       \/ Goto("woken", "check_active")
    /\ cv_mutex = "free"
    /\ cv_mutex' = "main"
    /\ UNCHANGED <<loopUnchanged, active>>

(* wait(lock) releases the mutex and blocks; there is no predicate. *)
Wait ==
    /\ Goto("wait", "blocked")
    /\ cv_mutex' = "free"
    /\ UNCHANGED <<loopUnchanged, active>>

SpuriousWakeup ==
    /\ Goto("blocked", "woken")
    /\ UNCHANGED <<loopUnchanged, cv_mutex, active>>

(* The mutex is released when the loop body ends. *)
LeaveBody(from) ==
    /\ Goto(from, "loop")
    /\ cv_mutex' = "free"
    /\ UNCHANGED <<loopUnchanged, active>>

CheckActive ==
    \/ active /\ Goto("check_active", "check_queue")
              /\ UNCHANGED <<loopUnchanged, cv_mutex, active>>
    \/ ~active /\ LeaveBody("check_active")

(* The mutex held for the whole loop. *)
CheckQueueKeeping ==
    /\ Goto("check_queue", "dequeue") \/ Goto("check_queue", "loop")
    /\ UNCHANGED <<loopUnchanged, cv_mutex, active>>

(* check_next_control_message_aviable returns an uninitialised value,      *)
(* whatever the queue holds.                                               *)
CheckQueue ==
    \/ Goto("check_queue", "dequeue") /\ UNCHANGED <<loopUnchanged, cv_mutex, active>>
    \/ LeaveBody("check_queue")

(* get_next_control_message blocks, with the mutex, while the queue is     *)
(* empty.                                                                  *)
Dequeue ==
    /\ Goto("dequeue", "dispatch")
    /\ rm_client_out_queue # <<>>
    /\ message' = Head(rm_client_out_queue)
    /\ rm_client_out_queue' = Tail(rm_client_out_queue)
    /\ acks' = <<>>
    /\ UNCHANGED <<receiverVars, cv_mutex, active, signalVars, handlerVars, told, now>>

-----------------------------------------------------------------------------
(* The handlers. *)

handlerUnchanged == <<receiverVars, rm_client_out_queue, cv_mutex, signalVars, message, now>>

(* notify_generator, _mode_change and _timestamp of the traffic generator. *)
Tell(control) == told' = [told EXCEPT !.control = control]
TellMode(mode) == told' = [told EXCEPT !.control = "THREAD_TRANSMISSION", !.mode = mode]
TellTimestamp(mode, timestamp) ==
    told' = [control |-> "THREAD_TRANSMISSION", mode |-> mode, timestamp |-> timestamp]

Acked ==
    IF message.type \in UnknownTypes \cup {"RM_CLIENT_START"} THEN acks
    ELSE Append(acks, "RM_CLIENT_SYNC_RECEIVE")

(* The exit's handler that only stops the generator. *)
HandlePlainStaying ==
    /\ Goto("dispatch", "handled")
    /\ message.type \notin TimedTypes
    /\ acks' = Acked
    /\ Tell("THREAD_STOP")
    /\ UNCHANGED <<handlerUnchanged, active, handlerVars>>

(* The handlers that have nothing to wait for; an exit leaves the loop. *)
HandlePlain ==
    /\ Goto("dispatch", "handled")
    /\ message.type \notin TimedTypes
    /\ acks' = Acked
    /\ CASE message.type = "RM_CLIENT_START" ->
              TellTimestamp(message.mode, ClockGettime(now))
         [] message.type = "RM_CLIENT_RECONFIGURE_SW" -> TellMode(message.mode)
         [] message.type \in {"RM_CLIENT_STOP", "RM_CLIENT_EXIT"} -> Tell("THREAD_STOP")
         [] OTHER -> UNCHANGED told
    /\ active' = (active /\ message.type # "RM_CLIENT_EXIT")
    /\ UNCHANGED <<handlerUnchanged, handlerVars>>

(* A handler with timestamps reads the clock for the first time. *)
HandleTimed ==
    /\ Goto("dispatch", "act")
    /\ message.type \in TimedTypes
    /\ acks' = Acked
    /\ first_done' = FALSE
    /\ restarted' = FALSE
    /\ entered' = now
    /\ time_now' = ClockGettime(now)
    /\ UNCHANGED <<handlerUnchanged, active, told>>

(* The timestamp a handler waits for first. *)
FirstTarget ==
    CASE message.type = "RM_CLIENT_SYNC_TIMESTAMP_START" -> message.start
      [] message.type \in {"RM_CLIENT_SYNC_TIMESTAMP_RECONFIGURE_SW",
                           "RM_CLIENT_SYNC_TIMESTAMP_RECONFIGURE_SYNC_OBJECT_SW"} ->
            message.reconfig
      [] OTHER -> message.stop

(* A timestamp the handler accepts: its second is not over. *)
Valid(t) == t.sec # 0 /\ t.sec >= time_now.sec

(* The comparison without the seconds. *)
PassedInSecond(t) == time_now.sec > t.sec \/ time_now.ms > t.ms

Passed(t) ==
    \/ time_now.sec > t.sec
    \/ time_now.sec = t.sec /\ time_now.ms > t.ms

Poll ==
    /\ Goto("poll", "act")
    /\ time_now' = ClockGettime(now)
    /\ UNCHANGED <<handlerUnchanged, active, first_done, restarted, entered, told, acks>>

(* What happens at the first timestamp. *)
FirstEffect ==
    CASE message.type = "RM_CLIENT_SYNC_TIMESTAMP_START" ->
            TellTimestamp(message.mode, message.start)
      [] message.type = "RM_CLIENT_SYNC_TIMESTAMP_RECONFIGURE_HW" -> Tell("THREAD_PAUSED")
      [] message.type = "RM_CLIENT_SYNC_TIMESTAMP_RECONFIGURE_SW" -> TellMode(message.mode)
      [] message.type = "RM_CLIENT_SYNC_TIMESTAMP_RECONFIGURE_SYNC_OBJECT_SW" ->
            Tell("THREAD_TRANSMISSION_FINISH_OBJECT")
      [] OTHER -> Tell("THREAD_STOP")

ActFirst ==
    /\ Goto("act", IF message.type \in InterruptingTypes THEN "act_restart" ELSE "handled")
    /\ ~first_done
    /\ Valid(FirstTarget)
    /\ Passed(FirstTarget)
    /\ first_done' = TRUE
    /\ FirstEffect
    /\ active' = (active /\ message.type # "RM_CLIENT_SYNC_TIMESTAMP_EXIT")
    /\ UNCHANGED <<handlerUnchanged, time_now, restarted, entered, acks>>

(* Not yet, or done before: a handler that restarts looks on, another polls. *)
SkipFirst ==
    /\ Goto("act", IF message.type \in InterruptingTypes THEN "act_restart" ELSE "poll")
    /\ first_done \/ (Valid(FirstTarget) /\ ~Passed(FirstTarget))
    /\ UNCHANGED <<handlerUnchanged, active, handlerVars, told, acks>>

(* "timestamps invalid!" without the break. *)
GiveUpNever(t, from) ==
    /\ Goto(from, "poll")
    /\ ~Valid(t)
    /\ UNCHANGED <<handlerUnchanged, active, handlerVars, told, acks>>

(* "timestamps invalid!": the handler returns. *)
GiveUp(t, from) ==
    /\ Goto(from, "handled")
    /\ ~Valid(t)
    /\ UNCHANGED <<handlerUnchanged, active, handlerVars, told, acks>>

RestartEffect ==
    IF message.type = "RM_CLIENT_SYNC_TIMESTAMP_RECONFIGURE_HW"
    THEN Tell("THREAD_TRANSMISSION")
    ELSE TellTimestamp(message.mode, message.start)

ActRestart ==
    /\ Goto("act_restart", "handled")
    /\ Valid(message.start)
    /\ Passed(message.start)
    /\ restarted' = TRUE
    /\ RestartEffect
    /\ UNCHANGED <<handlerUnchanged, active, time_now, first_done, entered, acks>>

(* The handler that returns at the first look. *)
AwaitRestartOnce ==
    /\ Goto("act_restart", IF first_done THEN "handled" ELSE "poll")
    /\ Valid(message.start)
    /\ ~Passed(message.start)
    /\ UNCHANGED <<handlerUnchanged, active, handlerVars, told, acks>>

AwaitRestart ==
    /\ Goto("act_restart", "poll")
    /\ Valid(message.start)
    /\ ~Passed(message.start)
    /\ UNCHANGED <<handlerUnchanged, active, handlerVars, told, acks>>

Act ==
    \/ ActFirst \/ SkipFirst
    \/ ~first_done /\ GiveUp(FirstTarget, "act")
    \/ ActRestart \/ AwaitRestart
    \/ GiveUp(message.start, "act_restart")

(* The types acknowledged a second time when their handler has returned. *)
ReconfigureTypes ==
    {"RM_CLIENT_RECONFIGURE_SW", "RM_CLIENT_SYNC_TIMESTAMP_RECONFIGURE_HW",
     "RM_CLIENT_SYNC_TIMESTAMP_RECONFIGURE_SW",
     "RM_CLIENT_SYNC_TIMESTAMP_RECONFIGURE_SYNC_OBJECT_HW",
     "RM_CLIENT_SYNC_TIMESTAMP_RECONFIGURE_SYNC_OBJECT_SW"}

HandlerReturn ==
    /\ Goto("handled", "check_active")
    /\ acks' = IF message.type \in ReconfigureTypes
               THEN Append(acks, "RM_CLIENT_SYNC_RECONFIGURE_DONE") ELSE acks
    /\ UNCHANGED <<handlerUnchanged, active, handlerVars, told>>

(* The resources are released, the socket closed, and the process exits. *)
Release ==
    /\ Goto("release", "exited")
    /\ UNCHANGED <<loopUnchanged, cv_mutex, active>>

-----------------------------------------------------------------------------
(* Time passes; a handler that polls does so every MaxStall milliseconds.  *)
Polling == {"poll", "act", "act_restart"}

Tick ==
    /\ Running
    /\ \E d \in Ticks :
          /\ now + d <= Horizon
          /\ pc \in Polling => now + d - Total(time_now) <= MaxStall
          /\ now' = now + d
    /\ UNCHANGED <<receiverVars, rm_client_out_queue, cv_mutex, active, signalVars, pc,
                   message, handlerVars, told, acks>>

ReceiverStep == NotifyMain

SignalStep == SignalLock \/ SignalNotify

MainStep ==
    \/ Start \/ TestActive \/ LockMutex \/ Wait \/ CheckActive \/ CheckQueue \/ Dequeue
    \/ HandlePlain \/ HandleTimed \/ Poll \/ Act \/ HandlerReturn \/ Release

Next ==
    \/ \E m \in Inbox : Receive(m)
    \/ ReceiverStep \/ Interrupt \/ SignalStep \/ MainStep \/ SpuriousWakeup \/ Tick

Spec == Init /\ [][Next]_vars

(* Every thread that can run is run, and time passes; no message has to    *)
(* arrive and no wait has to end spuriously.                               *)
FairSpec ==
    /\ Spec
    /\ WF_vars(ReceiverStep) /\ WF_vars(SignalStep) /\ WF_vars(MainStep) /\ WF_vars(Tick)

-----------------------------------------------------------------------------
(* The client as the manager sees it: what is neither in the queue nor     *)
(* polled for has been handled.                                            *)

Endnode == "endnode"
Targets(c, m) == EndnodeTargets(m)

(* What a message, or step k of it, makes the generator do at a time. *)
Effect(c, m, k, old, time) ==
    LET transmit == "THREAD_TRANSMISSION"
    IN  CASE m.type = "RM_CLIENT_START" ->
               [control |-> transmit, mode |-> m.mode, timestamp |-> ClockGettime(time)]
          [] m.type = "RM_CLIENT_SYNC_TIMESTAMP_START" ->
               [control |-> transmit, mode |-> m.mode, timestamp |-> m.start]
          [] m.type \in {"RM_CLIENT_RECONFIGURE_SW", "RM_CLIENT_SYNC_TIMESTAMP_RECONFIGURE_SW"} ->
               [old EXCEPT !.control = transmit, !.mode = m.mode]
          [] m.type = "RM_CLIENT_SYNC_TIMESTAMP_RECONFIGURE_HW" ->
               [old EXCEPT !.control = IF k = 1 THEN "THREAD_PAUSED" ELSE transmit]
          [] m.type = "RM_CLIENT_SYNC_TIMESTAMP_RECONFIGURE_SYNC_OBJECT_SW" ->
               IF k = 1 THEN [old EXCEPT !.control = "THREAD_TRANSMISSION_FINISH_OBJECT"]
               ELSE [control |-> transmit, mode |-> m.mode, timestamp |-> m.start]
          [] m.type \in {"RM_CLIENT_STOP", "RM_CLIENT_EXIT", "RM_CLIENT_SYNC_TIMESTAMP_STOP",
                         "RM_CLIENT_SYNC_TIMESTAMP_EXIT"} -> [old EXCEPT !.control = "THREAD_STOP"]
          [] OTHER -> old

Of(value) == [c \in {Endnode} |-> value]

Side == INSTANCE TimedClient WITH
    Clients <- {Endnode},
    Untold <- [control |-> "THREAD_START", mode |-> 0, timestamp |-> Zero],
    queue <- Of(IF pc = "dispatch" THEN <<message>> \o rm_client_out_queue
                ELSE rm_client_out_queue),
    handling <- Of(IF pc \in Polling THEN message ELSE NoMessage),
    done <- Of(IF pc \in Polling /\ first_done THEN 1 ELSE 0),
    since <- Of(entered),
    effect <- Of(told)

-----------------------------------------------------------------------------
(* Properties. *)

(* The end node's program is one of the clients the manager may expect:    *)
(* whatever its threads do, it handles the messages in the order of their  *)
(* arrival, carries each out in time or gives it up for good reason, and   *)
(* nothing else changes what the generator is told.                        *)
ImplementsTimedClient == Side!Spec

Controls == {"THREAD_START", "THREAD_STOP", "THREAD_PAUSED", "THREAD_TRANSMISSION",
             "THREAD_TRANSMISSION_FINISH_OBJECT"}
InBody == {"wait", "check_active", "check_queue", "dequeue", "dispatch", "handled"} \cup Polling

(* Every variable has its type; the main thread holds the mutex in the     *)
(* whole body of its loop but while it is blocked, the signal handler in   *)
(* its own.                                                                *)
TypeOK ==
    /\ received \in 0..MaxMessages
    /\ rm_receiver \in {"receive", "notify"}
    /\ rm_client_out_queue \in Seq(Messages)
    /\ active \in BOOLEAN
    /\ signal \in {"none", "raised", "locked", "done"}
    /\ interrupted \in {"main", "other"}
    /\ pc \in InBody \cup {"starting", "loop", "lock", "blocked", "woken", "release", "exited"}
    /\ cv_mutex = (IF pc \in InBody THEN "main" ELSE IF signal = "locked" THEN "signal"
                   ELSE "free")
    /\ pc \in InBody => signal # "locked"
    /\ message \in Messages \cup {NoMessage}
    /\ pc \in {"dispatch", "handled"} \cup Polling => message # NoMessage
    /\ pc \in Polling => message.type \in TimedTypes
    /\ time_now \in Timespecs
    /\ first_done \in BOOLEAN /\ restarted \in BOOLEAN
    /\ told \in [control : Controls, mode : Nat, timestamp : Timespecs]
    /\ acks \in Seq({"RM_CLIENT_SYNC_RECEIVE", "RM_CLIENT_SYNC_RECONFIGURE_DONE"})
    /\ now \in Nat
    /\ entered \in Nat

(* The generator is told nothing early: not to pause or to finish before   *)
(* the time of the message, and not to transmit before the restart's.      *)
NeverEarly ==
    [][told' # told /\ message.type \in TimedTypes =>
          Total(IF message.type \in InterruptingTypes /\ told'.control = "THREAD_TRANSMISSION"
                THEN message.start ELSE FirstTarget) < now]_vars

(* A timestamp after which there is time for another poll in its second. *)
Room(t) == t.ms >= 0 /\ t.ms + MaxStall < 1000

(* A handler that has interrupted the generator sets it going again before *)
(* it returns, if it polls once more in the second of the restart.         *)
GeneratorResumed ==
    (pc = "handled" /\ message.type \in InterruptingTypes /\ first_done
        /\ FirstTarget.sec <= message.start.sec /\ Room(message.start))
    => told.control = "THREAD_TRANSMISSION"

(* A message that arrives before the second of its first timestamp is over *)
(* is obeyed, if the timestamps leave room for another poll: no order of   *)
(* polls and timestamps makes the handler give up.                         *)
InTime ==
    /\ FirstTarget.sec # 0 /\ Room(FirstTarget)
    /\ entered < 1000 * (FirstTarget.sec + 1)
    /\ message.type \in InterruptingTypes =>
          FirstTarget.sec <= message.start.sec /\ Room(message.start)
ObeyedInTime ==
    (pc = "handled" /\ message.type \in TimedTypes /\ InTime)
    => IF message.type \in InterruptingTypes THEN restarted ELSE first_done

(* Every handler returns. *)
HandlerReturns == (pc \in Polling) ~> (pc = "handled")

(* An exit message that is handled ends the client, SIGINT or not. *)
ExitObeyed == (pc = "handled" /\ message.type = "RM_CLIENT_EXIT") ~> (pc = "exited")

(* rm_notify is the condition variable to trigger state changes            *)
(* (rm_abstraction.hpp:143): the main loop is not left blocked when a      *)
(* message has been queued and notified.                                   *)
NotifyTriggers == rm_client_out_queue # <<>> /\ rm_receiver = "receive" => pc # "blocked"
=============================================================================
