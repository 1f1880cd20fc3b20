---------------------------- MODULE SwitchClient ----------------------------
(***************************************************************************)
(* A switch's control side (wired_rm_client_switch.cpp over                *)
(* rm_abstraction.cpp): the loop of an end node's client without a traffic *)
(* generator.  A mode is entered by a shell script, which the main thread  *)
(* waits for with cv_mutex held, however long it takes; messages that      *)
(* arrive in the meantime, and SIGINT, wait too.                           *)
(***************************************************************************)
EXTENDS ControlMessages

CONSTANTS
    Inbox,          \* the messages that may arrive: [type, mode, stop, reconfig, start]
    NoMessage,      \* message before the first one
    SignalThreads,  \* the threads SIGINT may interrupt: "main", "other"
    ClockStart,     \* the clock when the client starts, milliseconds
    Ticks,          \* bound: the steps of the clock, milliseconds
    Horizon,        \* bound: the last time of the clock
    MaxStall,       \* bound: milliseconds from one poll of a handler to the next
    MaxMessages     \* bound: messages received

(* The messages main() tells apart; any other is ignored. *)
PlainTypes == {"RM_CLIENT_START", "RM_CLIENT_RECONFIGURE_HW", "RM_CLIENT_EXIT"}
TimedTypes ==
    {"RM_CLIENT_SYNC_TIMESTAMP_START", "RM_CLIENT_SYNC_TIMESTAMP_RECONFIGURE_HW",
     "RM_CLIENT_SYNC_TIMESTAMP_RECONFIGURE_SYNC_OBJECT_HW", "RM_CLIENT_SYNC_TIMESTAMP_EXIT"}
UnknownTypes == {"RM_CLIENT_SYNC_TIMESTAMP_RECONFIGURE_SW", "RM_CLIENT_STOP"}
ExitTypes == {"RM_CLIENT_EXIT", "RM_CLIENT_SYNC_TIMESTAMP_EXIT"}

(* The modes there is a script for. *)
ScriptModes == {0, 1, 10}

Messages ==
    [type : PlainTypes \cup TimedTypes \cup UnknownTypes,
     mode : Nat, stop : Stamps, reconfig : Stamps, start : Stamps]

ASSUME SwitchAssumption ==
    /\ Inbox \subseteq Messages
    /\ NoMessage \notin Messages
    /\ SignalThreads \subseteq {"main", "other"}
    /\ ClockStart \in Nat /\ Horizon \in Nat /\ MaxStall \in Nat /\ MaxMessages \in Nat
    /\ Ticks \subseteq Nat \ {0}

VARIABLES
    received,               \* bound: messages received
    rm_receiver,            \* "receive", or "notify" with a message just queued
    rm_client_out_queue,
    cv_mutex,               \* "main", "signal" or "free"
    active,
    signal, interrupted,    \* the signal handler, and the thread it interrupted
    pc,                     \* the main thread
    message,                \* recieved_control_message
    time_now,               \* the handler's last poll
    script,                 \* the mode of the script run last, and when it was begun
    acks,                   \* acknowledgements sent for the message
    now,                    \* the clock, milliseconds
    entered                 \* history: when the handler polled first

receiverVars == <<received, rm_receiver, rm_client_out_queue>>
signalVars == <<signal, interrupted>>
vars == <<receiverVars, cv_mutex, active, signalVars, pc, message, time_now, script, acks,
          now, entered>>

NoScript == [mode |-> 0, begun |-> 0]

Init ==
    /\ received = 0
    /\ rm_receiver = "receive"
    /\ rm_client_out_queue = <<>>
    /\ cv_mutex = "free"
    /\ active = TRUE
    /\ signal = "none"
    /\ interrupted = "other"
    /\ pc = "starting"
    /\ message = NoMessage
    /\ time_now = Zero
    /\ script = NoScript
    /\ acks = <<>>
    /\ now = ClockStart
    /\ entered = 0

-----------------------------------------------------------------------------
(* The receiving thread, and the signal handler. *)

Running == pc # "exited"

(* rm_handler: a message is queued, then the main thread is notified.      *)
Receive(m) ==
    /\ Running
    /\ pc # "starting"
    /\ rm_receiver = "receive"
    /\ received < MaxMessages
    /\ received' = received + 1
    /\ rm_client_out_queue' = Append(rm_client_out_queue, m)
    /\ rm_receiver' = "notify"
    /\ UNCHANGED <<cv_mutex, active, signalVars, pc, message, time_now, script, acks, now,
                   entered>>

(* notify_one: who is not waiting yet is not woken. *)
WakeMain == pc' = IF pc = "blocked" THEN "woken" ELSE pc

NotifyMain ==
    /\ Running
    /\ rm_receiver = "notify"
    /\ rm_receiver' = "receive"
    /\ WakeMain
    /\ UNCHANGED <<received, rm_client_out_queue, cv_mutex, active, signalVars, message,
                   time_now, script, acks, now, entered>>

(* One SIGINT. *)
Interrupt ==
    /\ Running
    /\ signal = "none"
    /\ signal' = "raised"
    /\ interrupted' \in SignalThreads
    /\ UNCHANGED <<receiverVars, cv_mutex, active, pc, message, time_now, script, acks, now,
                   entered>>

SignalLock ==
    /\ Running
    /\ signal = "raised"
    /\ cv_mutex = "free"
    /\ cv_mutex' = "signal"
    /\ active' = FALSE
    /\ signal' = "locked"
    /\ UNCHANGED <<receiverVars, interrupted, pc, message, time_now, script, acks, now, entered>>

(* Before init_done the process exits. *)
SignalNotify ==
    /\ Running
    /\ signal = "locked"
    /\ cv_mutex' = "free"
    /\ signal' = "done"
    /\ IF pc = "starting" THEN pc' = "exited" ELSE WakeMain
    /\ UNCHANGED <<receiverVars, active, interrupted, message, time_now, script, acks, now,
                   entered>>

-----------------------------------------------------------------------------
(* The main loop. *)

(* The main thread's next step, unless the signal handler runs on it. *)
Goto(from, to) ==
    /\ ~(signal \in {"raised", "locked"} /\ interrupted = "main")
    /\ pc = from
    /\ pc' = to

loopUnchanged == <<receiverVars, signalVars, message, time_now, script, acks, now, entered>>

(* The threads are started, the interfaces looked at, and the request sent. *)
Start ==
    /\ Goto("starting", "loop")
    /\ UNCHANGED <<loopUnchanged, cv_mutex, active>>

TestActive ==
    /\ Goto("loop", IF active THEN "lock" ELSE "exited")
    /\ UNCHANGED <<loopUnchanged, cv_mutex, active>>

LockMutex ==
    /\ Goto("lock", "wait") \/ Goto("woken", "check_active")
    /\ cv_mutex = "free"
    /\ cv_mutex' = "main"
    /\ UNCHANGED <<loopUnchanged, active>>

(* The same without letting the mutex go. *)
WaitKeeping ==
    /\ Goto("wait", "blocked")
    /\ UNCHANGED <<loopUnchanged, cv_mutex, active>>

(* wait(lock) without a predicate. *)
Wait ==
    /\ Goto("wait", "blocked")
    /\ cv_mutex' = "free"
    /\ UNCHANGED <<loopUnchanged, active>>

SpuriousWakeup ==
    /\ Goto("blocked", "woken")
    /\ UNCHANGED <<loopUnchanged, cv_mutex, active>>

LeaveBody(from) ==
    /\ Goto(from, "loop")
    /\ cv_mutex' = "free"
    /\ UNCHANGED <<loopUnchanged, active>>

(* The same loop that asks for the queue only. *)
CheckActiveNever ==
    /\ Goto("check_active", "check_queue")
    /\ UNCHANGED <<loopUnchanged, cv_mutex, active>>

(* The inner loop: active, and check_next_control_message_aviable, whose   *)
(* result is uninitialised.                                                *)
CheckActive ==
    \/ active /\ Goto("check_active", "check_queue")
              /\ UNCHANGED <<loopUnchanged, cv_mutex, active>>
    \/ ~active /\ LeaveBody("check_active")

CheckQueue ==
    \/ Goto("check_queue", "dequeue") /\ UNCHANGED <<loopUnchanged, cv_mutex, active>>
    \/ LeaveBody("check_queue")

(* The acknowledgements sent before the handler is called. *)
Received(m) ==
    IF m.type \in UnknownTypes \cup {"RM_CLIENT_START"} THEN <<>>
    ELSE <<"RM_CLIENT_SYNC_RECEIVE">>

(* dequeue blocks, with the mutex, while the queue is empty. *)
Dequeue ==
    /\ Goto("dequeue", "dispatch")
    /\ rm_client_out_queue # <<>>
    /\ message' = Head(rm_client_out_queue)
    /\ rm_client_out_queue' = Tail(rm_client_out_queue)
    /\ acks' = Received(message')
    /\ UNCHANGED <<received, rm_receiver, cv_mutex, active, signalVars, time_now, script, now,
                   entered>>

-----------------------------------------------------------------------------
(* The handlers. *)

(* reconfigure_sw_to_mode: the script of the mode is begun, if there is one. *)
BeginScript(from) ==
    /\ Goto(from, IF message.mode \in ScriptModes THEN "script" ELSE "handled")
    /\ script' = IF message.mode \in ScriptModes
                 THEN [mode |-> message.mode, begun |-> now] ELSE script

handlerUnchanged == <<receiverVars, cv_mutex, signalVars, message, acks, now>>

(* The handlers that have nothing to wait for. *)
HandlePlain ==
    /\ pc = "dispatch"
    /\ message.type \notin TimedTypes
    /\ IF message.type \in {"RM_CLIENT_START", "RM_CLIENT_RECONFIGURE_HW"}
       THEN BeginScript("dispatch")
       ELSE Goto("dispatch", "handled") /\ UNCHANGED script
    /\ active' = (active /\ message.type # "RM_CLIENT_EXIT")
    /\ UNCHANGED <<handlerUnchanged, time_now, entered>>

(* A handler with a timestamp reads the clock for the first time. *)
HandleTimed ==
    /\ Goto("dispatch", "act")
    /\ message.type \in TimedTypes
    /\ entered' = now
    /\ time_now' = ClockGettime(now)
    /\ UNCHANGED <<handlerUnchanged, active, script>>

Poll ==
    /\ Goto("poll", "act")
    /\ time_now' = ClockGettime(now)
    /\ UNCHANGED <<handlerUnchanged, active, script, entered>>

(* The timestamp waited for: a mode change has no eye for its stop. *)
Target ==
    CASE message.type = "RM_CLIENT_SYNC_TIMESTAMP_START" -> message.start
      [] message.type = "RM_CLIENT_SYNC_TIMESTAMP_EXIT"  -> message.stop
      [] OTHER                                           -> message.reconfig

Valid(t) == t.sec # 0 /\ t.sec >= time_now.sec

(* The comparison without the seconds. *)
PassedInSecond(t) == time_now.sec > t.sec \/ time_now.ms > t.ms

Passed(t) ==
    \/ time_now.sec > t.sec
    \/ time_now.sec = t.sec /\ time_now.ms > t.ms

ActOnTarget ==
    /\ pc = "act"
    /\ Valid(Target)
    /\ Passed(Target)
    /\ IF message.type = "RM_CLIENT_SYNC_TIMESTAMP_EXIT"
       THEN Goto("act", "handled") /\ active' = FALSE /\ UNCHANGED script
       ELSE BeginScript("act") /\ UNCHANGED active
    /\ UNCHANGED <<handlerUnchanged, time_now, entered>>

(* The timestamp lies ahead. *)
LookAgain ==
    /\ Goto("act", "poll")
    /\ Valid(Target)
    /\ ~Passed(Target)
    /\ UNCHANGED <<handlerUnchanged, active, time_now, script, entered>>

(* "timestamps invalid!" without the break. *)
GiveUpNever ==
    /\ Goto("act", "poll")
    /\ ~Valid(Target)
    /\ UNCHANGED <<handlerUnchanged, active, time_now, script, entered>>

(* "timestamps invalid!": the handler returns. *)
GiveUp ==
    /\ Goto("act", "handled")
    /\ ~Valid(Target)
    /\ UNCHANGED <<handlerUnchanged, active, time_now, script, entered>>

(* system() returns when the script has ended; its status is not looked at. *)
EndScript ==
    /\ Goto("script", "handled")
    /\ UNCHANGED <<handlerUnchanged, active, time_now, script, entered>>

(* A reconfiguration is acknowledged as done, whatever came of it. *)
HandlerReturn ==
    /\ Goto("handled", "check_active")
    /\ acks' = IF message.type \in {"RM_CLIENT_RECONFIGURE_HW",
                                    "RM_CLIENT_SYNC_TIMESTAMP_RECONFIGURE_HW",
                                    "RM_CLIENT_SYNC_TIMESTAMP_RECONFIGURE_SYNC_OBJECT_HW"}
               THEN Append(acks, "RM_CLIENT_SYNC_RECONFIGURE_DONE") ELSE acks
    /\ UNCHANGED <<receiverVars, cv_mutex, active, signalVars, message, time_now, script, now,
                   entered>>

-----------------------------------------------------------------------------
(* Time passes; a handler that polls does so every MaxStall milliseconds.  *)
Polling == {"poll", "act"}

Tick ==
    /\ Running
    /\ \E d \in Ticks :
          /\ now + d <= Horizon
          /\ pc \in Polling => now + d - Total(time_now) <= MaxStall
          /\ now' = now + d
    /\ UNCHANGED <<receiverVars, cv_mutex, active, signalVars, pc, message, time_now, script,
                   acks, entered>>

SignalStep == SignalLock \/ SignalNotify

MainStep ==
    \/ Start \/ TestActive \/ LockMutex \/ Wait \/ CheckActive \/ CheckQueue \/ Dequeue
    \/ HandlePlain \/ HandleTimed \/ Poll \/ ActOnTarget \/ LookAgain \/ GiveUp
    \/ EndScript \/ HandlerReturn

Next ==
    \/ \E m \in Inbox : Receive(m)
    \/ NotifyMain \/ Interrupt \/ SignalStep \/ MainStep \/ SpuriousWakeup \/ Tick

Spec == Init /\ [][Next]_vars

(* Every thread that can run is run, scripts end, and time passes. *)
FairSpec ==
    /\ Spec
    /\ WF_vars(NotifyMain) /\ WF_vars(SignalStep) /\ WF_vars(MainStep) /\ WF_vars(Tick)

-----------------------------------------------------------------------------
(* The switch as the manager sees it.  A script that runs belongs to no    *)
(* message any more: the next one is taken when it has ended.              *)

Switch == "switch"
Targets(c, m) == SwitchTargets(m)

Effect(c, m, k, old, time) ==
    IF m.mode \in ScriptModes /\ m.type \notin ExitTypes \cup UnknownTypes
    THEN [mode |-> m.mode, begun |-> time] ELSE old

Of(value) == [c \in {Switch} |-> value]

Side == INSTANCE TimedClient WITH
    Clients <- {Switch},
    Untold <- NoScript,
    queue <- Of(IF pc = "dispatch" THEN <<message>> \o rm_client_out_queue
                ELSE rm_client_out_queue),
    handling <- Of(IF pc \in Polling THEN message ELSE NoMessage),
    done <- Of(0),
    since <- Of(entered),
    effect <- Of(script)

-----------------------------------------------------------------------------
(* Properties. *)

InBody == {"wait", "check_active", "check_queue", "dequeue", "dispatch", "script", "handled"}
          \cup Polling

(* Every variable has its type; the main thread holds the mutex in the     *)
(* whole body of its loop, scripts included, but while it is blocked.      *)
TypeOK ==
    /\ received \in 0..MaxMessages
    /\ rm_receiver \in {"receive", "notify"}
    /\ rm_client_out_queue \in Seq(Messages)
    /\ active \in BOOLEAN
    /\ signal \in {"none", "raised", "locked", "done"}
    /\ interrupted \in {"main", "other"}
    /\ pc \in InBody \cup {"starting", "loop", "lock", "blocked", "woken", "exited"}
    /\ cv_mutex = (IF pc \in InBody THEN "main" ELSE IF signal = "locked" THEN "signal"
                   ELSE "free")
    /\ pc \in InBody => signal # "locked"
    /\ message \in Messages \cup {NoMessage}
    /\ pc \in {"dispatch", "script", "handled"} \cup Polling => message # NoMessage
    /\ pc \in Polling => message.type \in TimedTypes
    /\ time_now \in Timespecs
    /\ script \in [mode : ScriptModes, begun : Nat]
    /\ acks \in Seq({"RM_CLIENT_SYNC_RECEIVE", "RM_CLIENT_SYNC_RECONFIGURE_DONE"})
    /\ now \in Nat
    /\ entered \in Nat

(* The switch's program is one of the clients the manager may expect: it   *)
(* handles the messages in the order of their arrival, and begins a script *)
(* in its time or gives it up for good reason, however long the scripts    *)
(* before it took.                                                         *)
ImplementsTimedClient == Side!Spec

(* A timestamp after which there is time for another poll in its second. *)
Room(t) == t.ms + MaxStall < 1000

(* A mode change whose handler is entered before the second of its         *)
(* timestamp is over is carried out: after the timestamp, and no later     *)
(* than two polls after it or after the handler was entered.               *)
SwitchedInTime ==
    (/\ pc = "handled" /\ message.type \in TimedTypes \ ExitTypes
     /\ message.mode \in ScriptModes
     /\ Target.sec # 0 /\ Room(Target) /\ entered < 1000 * (Target.sec + 1))
    => /\ script.mode = message.mode
       /\ Total(Target) < script.begun
       /\ script.begun <= Total(Target) + 2 * MaxStall \/ script.begun <= entered + 2 * MaxStall

(* An exit message that is handled ends the switch's client, whatever is   *)
(* queued behind it.                                                       *)
ExitObeyed == (pc = "handled" /\ message.type = "RM_CLIENT_EXIT") ~> (pc = "exited")
=============================================================================
