-------------------------- MODULE TrafficGenerator --------------------------
(***************************************************************************)
(* The traffic generator of an end node (traffic_generator.cpp): a sending *)
(* thread that cuts objects into fragments, and the notify_* calls with    *)
(* which the node's control loop starts, pauses and reconfigures it.       *)
(*                                                                         *)
(* The calls write the shared state inside global_mutex.  The thread holds *)
(* the mutex only while it waits for permission; it reads mode_global,     *)
(* global_update_period, global_period_timestamp, stop_thread and, while   *)
(* it waits for a deadline, traffic_generator_control without it.  So a    *)
(* call is a set of writes applied one at a time and every unlocked read   *)
(* is a step of its own.  The mutex orders the writes of one call only for *)
(* readers that hold it, hence the writes are applied in any order.        *)
(*                                                                         *)
(* SyncStart selects the thread's function, as thread_type_select does:    *)
(* send_objects_dynamic_change, or send_objects_dynamic_change_asynchron,  *)
(* which also looks for a new mode before every fragment.                  *)
(***************************************************************************)
EXTENDS Integers, FiniteSets

CONSTANTS
    SyncStart,        \* experiment_parameter.synchronous_start_mode
    Settings,         \* mode -> [packets, deadline]: service_settings_struct
    ModeIds,          \* the modes a call may name, known or not
    NoMode,           \* current_mode before the first mode is read: (uint32_t)-1
    NoMessage,        \* nothing sent yet
    UninitStamps,     \* what the uninitialised local_timestamp may hold
    AutoTermination,  \* auto_traffic_termination, 0 for none
    NotifyLag,        \* bound: how far behind the clock a notified time may lie
    MaxCalls,         \* bound: calls of the control loop
    MaxTime           \* bound: ticks of the clock nobody waits for

Modes == DOMAIN Settings

ASSUME SettingsAssumption ==
    /\ SyncStart \in BOOLEAN
    /\ Settings \in [Modes -> [packets : Nat, deadline : Nat]]
    /\ Modes \subseteq ModeIds
    /\ 0 \in Modes   \* main() reads service_configuration[0], which adds the entry
    /\ NoMode \notin ModeIds
    /\ UninitStamps \subseteq Nat
    /\ AutoTermination \in Nat
    /\ NotifyLag \in Nat /\ MaxCalls \in Nat /\ MaxTime \in Nat

ASSUME MessageAssumption ==
    NoMessage \notin [object : Nat, fragment : Nat, total : Nat, mode : Modes]

(* TrafficSourceControl. *)
Controls == { "THREAD_START", "THREAD_STOP", "THREAD_PAUSED", "THREAD_TRANSMISSION",
              "THREAD_TRANSMISSION_FINISH_OBJECT", "THREAD_RECONFIGURE" }

(* The values under which a fragment may leave. *)
FragmentPermits == {"THREAD_TRANSMISSION", "THREAD_TRANSMISSION_FINISH_OBJECT"}

(* The states the control loop passes to notify_generator. *)
CallStates == FragmentPermits \cup {"THREAD_STOP", "THREAD_PAUSED"}

VARIABLES
    \* the members shared by the control loop and the sending thread
    traffic_generator_control,
    mode_global,
    global_update_period,
    global_period_timestamp,
    stop_thread,
    \* the control loop: the members the call in progress has yet to write, its
    \* arguments, and whether stop() is in traffic_generator.join() or past it
    todo,
    arg,
    stopping,
    calls,
    \* the sending thread's locals
    pc,
    current_mode,
    current_settings,   \* the mode whose settings current_settings_ptr points to
    number_object,
    number_packet,
    total_fragments,    \* the fragment count in data_message's header
    local_timestamp,
    \* the clock
    now,
    \* history: the last fragment sent, the fragments sent since a fragment was
    \* last permitted, the objects begun since TRANSMISSION was last in force,
    \* and the fragments sent in an old mode since mode_global was last written
    sent,
    strays,
    begun,
    stale

shared == <<traffic_generator_control, mode_global, global_update_period,
            global_period_timestamp, stop_thread>>
caller == <<todo, arg, stopping, calls>>
modeLocals == <<current_mode, current_settings>>
objectLocals == <<number_object, number_packet, total_fragments>>
locals == <<pc, modeLocals, objectLocals, local_timestamp>>
history == <<sent, strays, begun, stale>>
vars == <<shared, caller, locals, now, history>>

(* A call holds the mutex until its last write is done. *)
MutexFree == todo = {}

(***************************************************************************)
(* The constructor, and the thread started.  traffic_generator_control and *)
(* local_timestamp are not initialised.                                    *)
(***************************************************************************)
Init ==
    /\ traffic_generator_control \in Controls
    /\ mode_global = 0
    /\ global_update_period = FALSE
    /\ global_period_timestamp = 0
    /\ stop_thread = FALSE
    /\ todo = {}
    /\ arg = [state |-> "THREAD_START", mode |-> 0, timestamp |-> 0]
    /\ stopping = "no"
    /\ calls = 0
    /\ pc = "permission"
    /\ current_mode = NoMode
    /\ current_settings = NoMode
    /\ number_object = 1
    /\ number_packet = 0
    /\ total_fragments = 0
    /\ local_timestamp \in UninitStamps
    /\ now = 0
    /\ sent = NoMessage
    /\ strays = 0
    /\ begun = 0
    /\ stale = 0

-----------------------------------------------------------------------------
(* The calls of the control loop: each takes the mutex with its arguments, *)
(* and Write* are the assignments of its critical section.                 *)

Call(fields, state, mode, timestamp) ==
    /\ calls < MaxCalls
    /\ MutexFree
    /\ stopping = "no"
    /\ calls' = calls + 1
    /\ todo' = fields
    /\ arg' = [state |-> state, mode |-> mode, timestamp |-> timestamp]
    /\ UNCHANGED <<shared, stopping, locals, now, history>>

NotifyGenerator ==
    \E state \in CallStates : Call({"control"}, state, 0, 0)

NotifyGeneratorModeChange ==
    \E mode \in ModeIds : Call({"mode", "control"}, "THREAD_TRANSMISSION", mode, 0)

(* Every caller passes update_period = true. *)
NotifyGeneratorTimestamp ==
    \E mode \in ModeIds, timestamp \in {t \in 0 .. now : now - t <= NotifyLag} :
        Call({"mode", "update", "timestamp", "control"},
             "THREAD_TRANSMISSION", mode, timestamp)

Stop == Call({"control", "stop"}, "THREAD_STOP", 0, 0)

Write(field) ==
    /\ field \in todo
    /\ todo' = todo \ {field}
    /\ UNCHANGED <<arg, calls, locals, now, sent>>

WriteControl ==
    /\ Write("control")
    /\ traffic_generator_control' = arg.state
    /\ strays' = IF arg.state \in FragmentPermits THEN 0 ELSE strays
    /\ begun' = IF arg.state = "THREAD_TRANSMISSION" THEN 0 ELSE begun
    /\ UNCHANGED <<mode_global, global_update_period, global_period_timestamp,
                   stop_thread, stopping, stale>>

WriteMode ==
    /\ Write("mode")
    /\ mode_global' = arg.mode
    /\ stale' = 0
    /\ UNCHANGED <<traffic_generator_control, global_update_period,
                   global_period_timestamp, stop_thread, stopping, strays, begun>>

WriteUpdate ==
    /\ Write("update")
    /\ global_update_period' = TRUE
    /\ UNCHANGED <<traffic_generator_control, mode_global, global_period_timestamp,
                   stop_thread, stopping, strays, begun, stale>>

WriteTimestamp ==
    /\ Write("timestamp")
    /\ global_period_timestamp' = arg.timestamp
    /\ UNCHANGED <<traffic_generator_control, mode_global, global_update_period,
                   stop_thread, stopping, strays, begun, stale>>

(* stop() goes on to join the thread, and makes no other call. *)
WriteStop ==
    /\ Write("stop")
    /\ stop_thread' = TRUE
    /\ stopping' = "joining"
    /\ UNCHANGED <<traffic_generator_control, mode_global, global_update_period,
                   global_period_timestamp, strays, begun, stale>>

(* join() returns when the thread's function has. *)
Join ==
    /\ stopping = "joining"
    /\ MutexFree
    /\ pc = "closed"
    /\ stopping' = "joined"
    /\ UNCHANGED <<shared, todo, arg, calls, locals, now, history>>

-----------------------------------------------------------------------------
(* The sending thread. *)

Goto(from, to) == pc = from /\ pc' = to

(* A slip: one predicate used for both waits. *)
GetPermissionFinishing ==
    /\ Goto("permission", "check_mode")
    /\ MutexFree
    /\ traffic_generator_control \in FragmentPermits
    /\ UNCHANGED <<shared, caller, modeLocals, objectLocals, local_timestamp, now, history>>

(* The wait at the head of the loop: the condition variable is notified    *)
(* after every write, so waiting for its predicate is waiting for the      *)
(* mutex with the predicate true.                                          *)
GetPermission ==
    /\ Goto("permission", "check_mode")
    /\ MutexFree
    /\ traffic_generator_control = "THREAD_TRANSMISSION"
    /\ UNCHANGED <<shared, caller, modeLocals, objectLocals, local_timestamp, now, history>>

(* A slip: the mode is only validated at the start. *)
CheckModeOnce ==
    /\ Goto("check_mode", IF current_mode = NoMode THEN "read_mode" ELSE "new_object")
    /\ UNCHANGED <<shared, caller, modeLocals, objectLocals, local_timestamp, now, history>>

(* if (current_mode != mode_global), read without the mutex. *)
CheckMode ==
    /\ Goto("check_mode", IF current_mode # mode_global THEN "read_mode" ELSE "new_object")
    /\ UNCHANGED <<shared, caller, modeLocals, objectLocals, local_timestamp, now, history>>

(* mode_global is read again, and its settings are looked up. *)
ReadKnownMode(from, to) ==
    /\ Goto(from, to)
    /\ mode_global \in Modes
    /\ current_mode' = mode_global
    /\ current_settings' = mode_global
    /\ UNCHANGED <<shared, caller, objectLocals, local_timestamp, now, history>>

(* A slip: the iterator is used although it is end(). *)
ReadUnknownModeDangling(from, to) ==
    /\ Goto(from, to)
    /\ mode_global \notin Modes
    /\ current_mode' = mode_global
    /\ current_settings' = mode_global
    /\ UNCHANGED <<shared, caller, objectLocals, local_timestamp, now, history>>

ReadUnknownMode(from, to) ==
    /\ Goto(from, to)
    /\ mode_global \notin Modes
    /\ current_mode' = mode_global
    /\ UNCHANGED <<shared, caller, current_settings, objectLocals, local_timestamp,
                   now, history>>

(* if (global_update_period) { take the timestamp; clear the flag }. *)
CheckUpdate(from, read, skip) ==
    /\ Goto(from, IF global_update_period THEN read ELSE skip)
    /\ UNCHANGED <<shared, caller, modeLocals, objectLocals, local_timestamp, now, history>>

ReadTimestamp(from, to) ==
    /\ Goto(from, to)
    /\ local_timestamp' = global_period_timestamp
    /\ UNCHANGED <<shared, caller, modeLocals, objectLocals, now, history>>

ClearUpdate(from, to) ==
    /\ Goto(from, to)
    /\ global_update_period' = FALSE
    /\ UNCHANGED <<traffic_generator_control, mode_global, global_period_timestamp,
                   stop_thread, caller, modeLocals, objectLocals, local_timestamp,
                   now, history>>

(* An unknown mode ends the thread. *)
ChangeMode ==
    \/ ReadKnownMode("read_mode", "check_update")
    \/ ReadUnknownMode("read_mode", "closed")
    \/ CheckUpdate("check_update", "read_timestamp", "new_object")
    \/ ReadTimestamp("read_timestamp", "clear_update")
    \/ ClearUpdate("clear_update", "new_object")

(* A slip: the fragment counter of the object before is kept. *)
NewObjectNoReset ==
    /\ Goto("new_object", "packet")
    /\ total_fragments' = Settings[current_settings].packets
    /\ begun' = IF traffic_generator_control = "THREAD_TRANSMISSION" THEN 0 ELSE begun + 1
    /\ UNCHANGED <<shared, caller, modeLocals, number_object, number_packet,
                   local_timestamp, now, sent, strays, stale>>

(* The header of the object's fragments is made. *)
NewObject ==
    /\ Goto("new_object", "packet")
    /\ number_packet' = 0
    /\ total_fragments' = Settings[current_settings].packets
    /\ begun' = IF traffic_generator_control = "THREAD_TRANSMISSION" THEN 0 ELSE begun + 1
    /\ UNCHANGED <<shared, caller, modeLocals, number_object, local_timestamp, now,
                   sent, strays, stale>>

(* A slip: the synchronous thread, too, looks for a mode inside an object. *)
NextPacketRecheck ==
    /\ pc = "packet"
    /\ pc' = IF number_packet >= Settings[current_settings].packets THEN "object_end"
              ELSE "recheck_mode"
    /\ UNCHANGED <<shared, caller, modeLocals, objectLocals, local_timestamp, now, history>>

(* while (number_packet < current_settings_ptr->number_packets). *)
NextPacket ==
    /\ pc = "packet"
    /\ pc' = IF number_packet >= Settings[current_settings].packets THEN "object_end"
              ELSE IF SyncStart THEN "packet_permission" ELSE "recheck_mode"
    /\ UNCHANGED <<shared, caller, modeLocals, objectLocals, local_timestamp, now, history>>

(* A slip: no look for a new mode inside an object. *)
RecheckModeNever ==
    /\ Goto("recheck_mode", "packet_permission")
    /\ UNCHANGED <<shared, caller, modeLocals, objectLocals, local_timestamp, now, history>>

(* The asynchronous thread looks for a new mode before every fragment; an  *)
(* unknown one leaves the object, with the old settings still in use.      *)
RecheckMode ==
    /\ Goto("recheck_mode",
            IF current_mode # mode_global THEN "reread_mode" ELSE "packet_permission")
    /\ UNCHANGED <<shared, caller, modeLocals, objectLocals, local_timestamp, now, history>>

ChangeModeInObject ==
    \/ ReadKnownMode("reread_mode", "recheck_update")
    \/ ReadUnknownMode("reread_mode", "object_end")
    \/ CheckUpdate("recheck_update", "reread_timestamp", "packet_permission")
    \/ ReadTimestamp("reread_timestamp", "reclear_update")
    \/ ClearUpdate("reclear_update", "packet_permission")

(* A slip: permission is asked for once per object. *)
GetPacketPermissionOnce ==
    /\ Goto("packet_permission", "send")
    /\ MutexFree
    /\ number_packet > 0 \/ traffic_generator_control \in FragmentPermits
    /\ UNCHANGED <<shared, caller, modeLocals, objectLocals, local_timestamp, now, history>>

GetPacketPermission ==
    /\ Goto("packet_permission", "send")
    /\ MutexFree
    /\ traffic_generator_control \in FragmentPermits
    /\ UNCHANGED <<shared, caller, modeLocals, objectLocals, local_timestamp, now, history>>

(* The mutex is released before the fragment is sent. *)
SendPacket ==
    /\ Goto("send", "check_stop")
    /\ sent' = [object |-> number_object, fragment |-> number_packet,
                total |-> total_fragments, mode |-> current_settings]
    /\ number_packet' = number_packet + 1
    /\ strays' = IF traffic_generator_control \in FragmentPermits THEN 0 ELSE strays + 1
    /\ stale' = IF mode_global \in Modes \ {current_settings} THEN stale + 1 ELSE stale
    /\ UNCHANGED <<shared, caller, modeLocals, number_object, total_fragments,
                   local_timestamp, now, begun>>

CheckStop ==
    /\ Goto("check_stop", IF stop_thread THEN "object_end" ELSE "packet")
    /\ UNCHANGED <<shared, caller, modeLocals, objectLocals, local_timestamp, now, history>>

LastObject == AutoTermination > 0 /\ number_object >= AutoTermination

ObjectEnd ==
    /\ Goto("object_end", IF LastObject \/ stop_thread THEN "closed" ELSE "deadline")
    /\ number_object' = IF LastObject THEN number_object ELSE number_object + 1
    /\ UNCHANGED <<shared, caller, modeLocals, number_packet, total_fragments,
                   local_timestamp, now, history>>

(* The time the next object is due. *)
TargetTime == local_timestamp + Settings[current_settings].deadline

(* The busy wait for it, which a change of the control value to FINISH_OBJECT *)
(* interrupts; either way the object counts as sent on time.                  *)
WaitDeadline ==
    /\ Goto("deadline", "permission")
    /\ \/ traffic_generator_control = "THREAD_TRANSMISSION_FINISH_OBJECT"
       \/ now >= TargetTime
    /\ local_timestamp' = TargetTime
    /\ UNCHANGED <<shared, caller, modeLocals, objectLocals, now, history>>

(* The bound on time holds back nobody who waits for it. *)
Tick ==
    /\ now < MaxTime \/ (pc = "deadline" /\ now < TargetTime)
    /\ now' = now + 1
    /\ UNCHANGED <<shared, caller, locals, history>>

-----------------------------------------------------------------------------
CallStep == NotifyGenerator \/ NotifyGeneratorModeChange \/ NotifyGeneratorTimestamp \/ Stop

WriteStep == WriteControl \/ WriteMode \/ WriteUpdate \/ WriteTimestamp \/ WriteStop

ThreadStep ==
    \/ GetPermission \/ CheckMode \/ ChangeMode \/ NewObject \/ NextPacket
    \/ RecheckMode \/ ChangeModeInObject \/ GetPacketPermission \/ SendPacket
    \/ CheckStop \/ ObjectEnd \/ WaitDeadline

Next == CallStep \/ WriteStep \/ Join \/ ThreadStep \/ Tick

Spec == Init /\ [][Next]_vars

(* Time passes, a call finishes its critical section, and the scheduler    *)
(* runs the sending thread; nobody has to make a call.                     *)
FairSpec == Spec /\ WF_vars(WriteStep) /\ WF_vars(Join) /\ WF_vars(ThreadStep) /\ WF_vars(Tick)

-----------------------------------------------------------------------------
(* Properties. *)

Fields == {"control", "mode", "update", "timestamp", "stop"}

PCs == { "permission", "check_mode", "read_mode", "check_update", "read_timestamp",
         "clear_update", "new_object", "packet", "recheck_mode", "reread_mode",
         "recheck_update", "reread_timestamp", "reclear_update", "packet_permission",
         "send", "check_stop", "object_end", "deadline", "closed" }

Messages == [object : Nat, fragment : Nat, total : Nat, mode : Modes]

(* Every variable has its type; from the first object on the thread has    *)
(* settings to send by, and only the asynchronous thread rechecks a mode.  *)
TypeOK ==
    /\ traffic_generator_control \in Controls
    /\ mode_global \in ModeIds
    /\ global_update_period \in BOOLEAN
    /\ global_period_timestamp \in Nat
    /\ stop_thread \in BOOLEAN
    /\ todo \subseteq Fields
    /\ arg \in [state : Controls, mode : ModeIds, timestamp : Nat]
    /\ stopping \in {"no", "joining", "joined"}
    /\ calls \in Nat
    /\ pc \in PCs
    /\ current_mode \in ModeIds \cup {NoMode}
    /\ current_settings \in Modes \cup {NoMode}
    /\ number_object \in Nat
    /\ number_packet \in Nat
    /\ total_fragments \in Nat
    /\ local_timestamp \in Nat
    /\ now \in Nat
    /\ sent \in Messages \cup {NoMessage}
    /\ strays \in Nat /\ begun \in Nat /\ stale \in Nat

(* Pausing or stopping the generator takes effect at once: whatever the    *)
(* interleaving, at most one fragment leaves after the permission has been *)
(* withdrawn, the one between the unlock and send_to.                      *)
PauseIsPrompt == strays <= 1

(* THREAD_TRANSMISSION_FINISH_OBJECT, and every state other than           *)
(* TRANSMISSION, lets at most one more object begin.                       *)
NoNewObjects == begun <= 1

(* A new mode takes over at the next object of the synchronous thread, at  *)
(* the next fragment but one of the asynchronous one: the old mode lingers *)
(* for at most one object's fragments, or for one fragment.                *)
OldModeLingers ==
    IF SyncStart THEN \E mode \in Modes : stale <= Settings[mode].packets
    ELSE stale <= 1

(* The synchronous thread sends whole objects, each in one mode, whatever  *)
(* calls arrive while an object is on its way.                             *)
Stream == INSTANCE FragmentStream
SendsWholeObjects == Stream!Spec

(* A new object begins with fragment 0, and the fragments of an object are *)
(* numbered without gaps or repetitions, mode change or not.               *)
FragmentsInOrder ==
    [][ \/ sent' = sent
        \/ sent'.fragment = 0 /\ (sent = NoMessage \/ sent'.object > sent.object)
        \/ sent'.object = sent.object /\ sent'.fragment = sent.fragment + 1 ]_vars

(* Nothing more is called, and transmission is on in a known mode. *)
Quiet ==
    /\ calls = MaxCalls
    /\ MutexFree
    /\ traffic_generator_control = "THREAD_TRANSMISSION"
    /\ mode_global \in Modes

(* The mode last set is served in the end, if any object is left to send   *)
(* and no unknown mode has ended the thread before: no order of the        *)
(* unlocked reads makes the thread miss it.                                *)
ModeServed ==
    (Quiet /\ number_object < AutoTermination)
        ~> (current_settings = mode_global \/ (pc = "closed" /\ current_mode \notin Modes))

(* stop() returns: it is documented to stop the generator                  *)
(* (traffic_generator.hpp:162).                                            *)
StopReturns == (stopping = "joining") ~> (stopping = "joined")
=============================================================================
