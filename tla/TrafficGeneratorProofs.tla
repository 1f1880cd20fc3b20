----------------------- MODULE TrafficGeneratorProofs -----------------------
(***************************************************************************)
(* What TrafficGenerator promises for every table of settings, every       *)
(* number of calls and objects and every clock.                            *)
(***************************************************************************)
EXTENDS TrafficGenerator, TLAPS

USE SettingsAssumption DEF SettingsAssumption, Modes

(* Where the thread may be before it has settings to send by. *)
NoSettingsYet == {"permission", "check_mode", "read_mode", "closed"}

(* The settings pointer is null only before the first mode is adopted, and *)
(* a null pointer always makes the thread look for a mode.                 *)
SettingsKnown ==
    \/ current_settings \in Modes
    \/ pc \in NoSettingsYet /\ (pc # "closed" => current_mode = NoMode)

TypeInv == TypeOK /\ SettingsKnown

LEMMA InitTypeInv == Init => TypeInv
<1> SUFFICES ASSUME Init PROVE TypeInv
  OBVIOUS
<1>1. arg \in [state : Controls, mode : ModeIds, timestamp : Nat]
  BY DEF Init, Controls
<1>2. local_timestamp \in Nat
  BY DEF Init
<1> QED
  BY <1>1, <1>2 DEF Init, TypeInv, TypeOK, SettingsKnown, PCs, NoSettingsYet

LEMMA CallTypeInv == TypeInv /\ CallStep => TypeInv'
<1> SUFFICES ASSUME TypeInv, CallStep PROVE TypeInv'
  OBVIOUS
<1> USE DEF TypeInv, TypeOK, SettingsKnown, Controls, CallStates, FragmentPermits,
        Fields, PCs, Messages, NoSettingsYet, Call, shared, locals, modeLocals,
        objectLocals, history
<1>1. CASE NotifyGenerator
  BY <1>1 DEF NotifyGenerator
<1>2. CASE NotifyGeneratorModeChange
  BY <1>2 DEF NotifyGeneratorModeChange
<1>3. CASE NotifyGeneratorTimestamp
  BY <1>3 DEF NotifyGeneratorTimestamp
<1>4. CASE Stop
  BY <1>4 DEF Stop
<1> QED
  BY <1>1, <1>2, <1>3, <1>4 DEF CallStep

LEMMA WriteTypeInv == TypeInv /\ WriteStep => TypeInv'
<1> SUFFICES ASSUME TypeInv, WriteStep PROVE TypeInv'
  OBVIOUS
<1> USE DEF TypeInv, TypeOK, SettingsKnown, Fields, NoSettingsYet, Write, locals,
        modeLocals, objectLocals
<1>1. CASE WriteControl
  BY <1>1 DEF WriteControl
<1>2. CASE WriteMode
  BY <1>2 DEF WriteMode
<1>3. CASE WriteUpdate
  BY <1>3 DEF WriteUpdate
<1>4. CASE WriteTimestamp
  BY <1>4 DEF WriteTimestamp
<1>5. CASE WriteStop
  BY <1>5 DEF WriteStop
<1> QED
  BY <1>1, <1>2, <1>3, <1>4, <1>5 DEF WriteStep

LEMMA ThreadTypeInv == TypeInv /\ ThreadStep => TypeInv'
<1> SUFFICES ASSUME TypeInv, ThreadStep PROVE TypeInv'
  OBVIOUS
<1> USE DEF TypeInv, TypeOK, SettingsKnown, NoSettingsYet, PCs, Goto, shared, caller,
        modeLocals, objectLocals, history
<1>1. CASE GetPermission
  BY <1>1 DEF GetPermission
<1>2. CASE CheckMode
  BY <1>2 DEF CheckMode
<1>3. CASE ChangeMode
  BY <1>3 DEF ChangeMode, ReadKnownMode, ReadUnknownMode, CheckUpdate, ReadTimestamp,
      ClearUpdate
<1>4. CASE NewObject
  BY <1>4 DEF NewObject
<1>5. CASE NextPacket
  BY <1>5 DEF NextPacket
<1>6. CASE RecheckMode
  BY <1>6 DEF RecheckMode
<1>7. CASE ChangeModeInObject
  BY <1>7 DEF ChangeModeInObject, ReadKnownMode, ReadUnknownMode, CheckUpdate,
      ReadTimestamp, ClearUpdate
<1>8. CASE GetPacketPermission
  BY <1>8 DEF GetPacketPermission
<1>9. CASE SendPacket
  BY <1>9 DEF SendPacket, Messages
<1>10. CASE CheckStop
  BY <1>10 DEF CheckStop
<1>11. CASE ObjectEnd
  BY <1>11 DEF ObjectEnd
<1>12. CASE WaitDeadline
  BY <1>12 DEF WaitDeadline, TargetTime
<1> QED
  BY <1>1, <1>2, <1>3, <1>4, <1>5, <1>6, <1>7, <1>8, <1>9, <1>10, <1>11, <1>12
  DEF ThreadStep

LEMMA TypeStep == TypeInv /\ [Next]_vars => TypeInv'
<1> SUFFICES ASSUME TypeInv, [Next]_vars PROVE TypeInv'
  OBVIOUS
<1>1. CASE Join
  BY <1>1 DEF Join, TypeInv, TypeOK, SettingsKnown, shared, locals, modeLocals,
      objectLocals, history
<1>2. CASE Tick
  BY <1>2 DEF Tick, TypeInv, TypeOK, SettingsKnown, shared, caller, locals, modeLocals,
      objectLocals, history
<1>3. CASE UNCHANGED vars
  BY <1>3 DEF vars, TypeInv, TypeOK, SettingsKnown, shared, caller, locals, modeLocals,
      objectLocals, history
<1> QED
  BY <1>1, <1>2, <1>3, CallTypeInv, WriteTypeInv, ThreadTypeInv DEF Next

(* Every variable keeps its type, and the thread never follows a null or   *)
(* dangling settings pointer, whatever the interleaving of the calls.      *)
THEOREM TypeCorrect == Spec => []TypeOK
  BY InitTypeInv, TypeStep, PTL DEF Spec, TypeInv

-----------------------------------------------------------------------------
(* The permissions.  A thread that holds a permission it has not used yet  *)
(* has counted nothing since, so it can use it once.                       *)

(* Where the thread has been let through to a new object. *)
Admitted == {"check_mode", "read_mode", "check_update", "read_timestamp",
             "clear_update", "new_object"}

StrayInv ==
    /\ PauseIsPrompt
    /\ traffic_generator_control \in FragmentPermits \/ pc = "send" => strays = 0

BegunInv ==
    /\ NoNewObjects
    /\ traffic_generator_control = "THREAD_TRANSMISSION" \/ pc \in Admitted => begun = 0

PermissionInv == StrayInv /\ BegunInv

LEMMA PermissionStep == TypeInv /\ PermissionInv /\ [Next]_vars => PermissionInv'
<1> SUFFICES ASSUME TypeInv, PermissionInv, [Next]_vars PROVE PermissionInv'
  OBVIOUS
<1> USE DEF PermissionInv, StrayInv, BegunInv, PauseIsPrompt, NoNewObjects, Admitted,
        FragmentPermits
<1>1. CASE CallStep
  BY <1>1 DEF CallStep, NotifyGenerator, NotifyGeneratorModeChange,
      NotifyGeneratorTimestamp, Stop, Call, shared, locals, history
<1>2. CASE WriteStep
  BY <1>2 DEF WriteStep, WriteControl, WriteMode, WriteUpdate, WriteTimestamp, WriteStop,
      Write, locals
<1>3. CASE Join \/ Tick \/ UNCHANGED vars
  BY <1>3 DEF Join, Tick, vars, shared, locals, history
<1>4. CASE GetPermission \/ CheckMode \/ ChangeMode
  BY <1>4 DEF GetPermission, CheckMode, ChangeMode, ReadKnownMode, ReadUnknownMode,
      CheckUpdate, ReadTimestamp, ClearUpdate, Goto, shared, history
<1>5. CASE NewObject
  BY <1>5 DEF NewObject, Goto, shared
<1>6. CASE NextPacket \/ RecheckMode \/ ChangeModeInObject \/ GetPacketPermission
  BY <1>6 DEF NextPacket, RecheckMode, ChangeModeInObject, ReadKnownMode, ReadUnknownMode,
      CheckUpdate, ReadTimestamp, ClearUpdate, GetPacketPermission, Goto, shared, history
<1>7. CASE SendPacket
  BY <1>7 DEF SendPacket, Goto, shared
<1>8. CASE CheckStop \/ ObjectEnd \/ WaitDeadline
  BY <1>8 DEF CheckStop, ObjectEnd, WaitDeadline, Goto, shared, history
<1> QED
  BY <1>1, <1>2, <1>3, <1>4, <1>5, <1>6, <1>7, <1>8 DEF Next, ThreadStep

LEMMA InitPermissionInv == Init => PermissionInv
  BY DEF Init, PermissionInv, StrayInv, BegunInv, PauseIsPrompt, NoNewObjects, Admitted

(* Pausing takes effect with at most one fragment still on its way. *)
THEOREM PausePrompt == Spec => []PauseIsPrompt
<1>1. Init => TypeInv /\ PermissionInv
  BY InitTypeInv, InitPermissionInv
<1>2. TypeInv /\ PermissionInv /\ [Next]_vars => (TypeInv /\ PermissionInv)'
  BY TypeStep, PermissionStep
<1>3. PermissionInv => PauseIsPrompt
  BY DEF PermissionInv, StrayInv
<1> QED
  BY <1>1, <1>2, <1>3, PTL DEF Spec

(* Without THREAD_TRANSMISSION at most one more object begins. *)
THEOREM FinishesLastObject == Spec => []NoNewObjects
<1>1. Init => TypeInv /\ PermissionInv
  BY InitTypeInv, InitPermissionInv
<1>2. TypeInv /\ PermissionInv /\ [Next]_vars => (TypeInv /\ PermissionInv)'
  BY TypeStep, PermissionStep
<1>3. PermissionInv => NoNewObjects
  BY DEF PermissionInv, BegunInv
<1> QED
  BY <1>1, <1>2, <1>3, PTL DEF Spec


-----------------------------------------------------------------------------
(* The synchronous thread implements the stream of whole objects.          *)

RecheckPCs == {"recheck_mode", "reread_mode", "recheck_update", "reread_timestamp",
               "reclear_update"}

(* Inside an object, from the loop's condition to the check after a send.  *)
InObject == {"packet", "packet_permission", "send", "check_stop"}

(* The object with the current number has sent nothing yet. *)
Fresh == Stream!Complete /\ (sent # NoMessage => sent.object < number_object)

SyncControl ==
    /\ pc \notin RecheckPCs
    /\ pc \in InObject \cup {"object_end"} =>
          /\ total_fragments = Settings[current_settings].packets
          /\ number_packet <= total_fragments
    /\ pc \in {"packet_permission", "send"} => number_packet < total_fragments

(* The last fragment on the wire belongs to the object in progress, or the *)
(* object before is complete; only a stopped thread leaves one incomplete, *)
(* and such a thread begins no other.                                      *)
WireInv ==
    /\ pc \in InObject =>
          IF number_packet = 0 THEN Fresh
          ELSE sent = [object |-> number_object, fragment |-> number_packet - 1,
                       total |-> total_fragments, mode |-> current_settings]
    /\ pc = "object_end" /\ ~stop_thread =>
          Stream!Complete /\ (sent # NoMessage => sent.object <= number_object)
    /\ pc \notin InObject \cup {"object_end", "closed"} => Fresh

SyncInv == SyncControl /\ WireInv

LEMMA InitSyncInv == Init => SyncInv
  BY DEF Init, SyncInv, SyncControl, WireInv, RecheckPCs, InObject, Fresh, Stream!Complete

LEMMA SyncStep == SyncStart /\ TypeInv /\ SyncInv /\ [Next]_vars => SyncInv'
<1> SUFFICES ASSUME SyncStart, TypeInv, SyncInv, [Next]_vars PROVE SyncInv'
  OBVIOUS
<1> USE DEF SyncInv, SyncControl, WireInv, RecheckPCs, InObject, Fresh, Stream!Complete,
        TypeInv, SettingsKnown, NoSettingsYet
<1>1. CASE CallStep
  BY <1>1 DEF CallStep, NotifyGenerator, NotifyGeneratorModeChange,
      NotifyGeneratorTimestamp, Stop, Call, shared, locals, modeLocals, objectLocals, history
<1>2. CASE WriteStep
  BY <1>2 DEF WriteStep, WriteControl, WriteMode, WriteUpdate, WriteTimestamp, WriteStop,
      Write, locals, modeLocals, objectLocals
<1>3. CASE Join \/ Tick \/ UNCHANGED vars
  BY <1>3 DEF Join, Tick, vars, shared, locals, modeLocals, objectLocals, history
<1>4. CASE GetPermission \/ CheckMode \/ ChangeMode
  BY <1>4 DEF GetPermission, CheckMode, ChangeMode, ReadKnownMode, ReadUnknownMode,
      CheckUpdate, ReadTimestamp, ClearUpdate, Goto, shared, objectLocals, history
<1>5. CASE NewObject
  BY <1>5 DEF NewObject, Goto, shared, modeLocals, TypeOK
<1>6. CASE NextPacket
  BY <1>6 DEF NextPacket, shared, modeLocals, objectLocals, history, TypeOK, Messages
<1>7. CASE RecheckMode \/ ChangeModeInObject
  BY <1>7 DEF RecheckMode, ChangeModeInObject, ReadKnownMode, ReadUnknownMode, CheckUpdate,
      ReadTimestamp, ClearUpdate, Goto
<1>8. CASE GetPacketPermission
  BY <1>8 DEF GetPacketPermission, Goto, shared, modeLocals, objectLocals, history
<1>9. CASE SendPacket
  BY <1>9 DEF SendPacket, Goto, shared, modeLocals, TypeOK
<1>10. CASE CheckStop
  BY <1>10 DEF CheckStop, Goto, shared, modeLocals, objectLocals, history
<1>11. CASE ObjectEnd
  BY <1>11, MessageAssumption DEF ObjectEnd, Goto, shared, modeLocals, history, TypeOK,
      Messages
<1>12. CASE WaitDeadline
  BY <1>12 DEF WaitDeadline, Goto, shared, modeLocals, objectLocals, history
<1> QED
  BY <1>1, <1>2, <1>3, <1>4, <1>5, <1>6, <1>7, <1>8, <1>9, <1>10, <1>11, <1>12
  DEF Next, ThreadStep

LEMMA StreamStep == SyncStart /\ TypeInv /\ SyncInv /\ [Next]_vars => [Stream!Next]_sent
<1> SUFFICES ASSUME SyncStart, TypeInv, SyncInv, SendPacket PROVE [Stream!Next]_sent
  BY DEF Next, CallStep, NotifyGenerator, NotifyGeneratorModeChange,
      NotifyGeneratorTimestamp, Stop, Call, WriteStep, WriteControl, WriteMode, WriteUpdate,
      WriteTimestamp, WriteStop, Write, Join, Tick, vars, history, ThreadStep,
      GetPermission, CheckMode, ChangeMode, ReadKnownMode, ReadUnknownMode, CheckUpdate,
      ReadTimestamp, ClearUpdate, NewObject, NextPacket, RecheckMode, ChangeModeInObject,
      GetPacketPermission, CheckStop, ObjectEnd, WaitDeadline
<1> DEFINE message == [object |-> number_object, fragment |-> number_packet,
                       total |-> total_fragments, mode |-> current_settings]
<1>1. sent' = message /\ number_packet < total_fragments
  BY DEF SendPacket, Goto, SyncInv, SyncControl
<1>2. message \in Stream!Headers
  BY DEF SendPacket, Goto, TypeInv, TypeOK, SettingsKnown, NoSettingsYet, Stream!Headers
<1>3. CASE number_packet = 0
  <2>1. Fresh
    BY <1>3 DEF SyncInv, WireInv, InObject, SendPacket, Goto
  <2> QED
    BY <1>1, <1>2, <1>3, <2>1 DEF Stream!Next, Stream!StartObject, Fresh
<1>4. CASE number_packet # 0
  <2>1. sent = [object |-> number_object, fragment |-> number_packet - 1,
                total |-> total_fragments, mode |-> current_settings]
    BY <1>4 DEF SyncInv, WireInv, InObject, SendPacket, Goto
  <2>2. sent # NoMessage
    BY <1>2, <1>4, <2>1, MessageAssumption DEF Stream!Headers, TypeInv, TypeOK
  <2>3. ~Stream!Complete
    BY <1>1, <2>1, <2>2 DEF Stream!Complete, TypeInv, TypeOK
  <2>4. sent' = [sent EXCEPT !.fragment = @ + 1]
    BY <1>1, <2>1 DEF TypeInv, TypeOK
  <2> QED
    BY <2>3, <2>4 DEF Stream!Next, Stream!NextFragment
<1> QED
  BY <1>3, <1>4

(* The thread of a synchronous start refines the stream of whole objects:  *)
(* no order of calls and unlocked reads tears an object.                   *)
THEOREM SyncSendsWholeObjects == ASSUME SyncStart PROVE Spec => SendsWholeObjects
<1>1. Init => Stream!Init /\ TypeInv /\ SyncInv
  BY InitTypeInv, InitSyncInv DEF Init, Stream!Init
<1>2. TypeInv /\ SyncInv /\ [Next]_vars => (TypeInv /\ SyncInv)' /\ [Stream!Next]_sent
  BY TypeStep, SyncStep, StreamStep
<1> QED
  BY <1>1, <1>2, PTL DEF Spec, SendsWholeObjects, Stream!Spec


-----------------------------------------------------------------------------
(* How long an old mode lingers. *)

(* The mode being read now is not an old one, or it is not a mode at all.  *)
InForce == current_settings = mode_global \/ mode_global \notin Modes

(* A known current_mode is the one the settings belong to. *)
CurrentInv == current_mode \in Modes => current_settings = current_mode

(* In the synchronous thread the count is at most the fragments of one     *)
(* object, and past the check of the mode an old mode has not counted yet, *)
(* except for the fragments of the object in progress.                     *)
SyncStaleInv ==
    /\ \E mode \in Modes : stale <= Settings[mode].packets
    /\ pc = "check_mode" => stale = 0 \/ InForce \/ current_mode # mode_global
    /\ pc \in {"check_update", "read_timestamp", "clear_update", "new_object"} =>
          stale = 0 \/ InForce
    /\ pc \in InObject => stale = 0 \/ InForce \/ stale <= number_packet

(* In the asynchronous thread that holds for every fragment. *)
AsyncStaleInv ==
    /\ stale <= 1
    /\ pc \in {"recheck_update", "reread_timestamp", "reclear_update",
               "packet_permission", "send"} => stale = 0 \/ InForce

StaleInv ==
    /\ CurrentInv
    /\ SyncStart => SyncInv /\ SyncStaleInv
    /\ ~SyncStart => AsyncStaleInv

LEMMA InitStaleInv == Init => StaleInv
  BY InitSyncInv DEF Init, StaleInv, CurrentInv, SyncStaleInv, AsyncStaleInv, InObject

LEMMA SyncStaleStep ==
    SyncStart /\ TypeInv /\ CurrentInv /\ SyncInv /\ SyncStaleInv /\ [Next]_vars => SyncStaleInv'
<1> SUFFICES ASSUME SyncStart, TypeInv, CurrentInv, SyncInv, SyncStaleInv, [Next]_vars
             PROVE  SyncStaleInv'
  OBVIOUS
<1> USE DEF SyncStaleInv, InForce, InObject
<1>1. CASE CallStep
  BY <1>1 DEF CallStep, NotifyGenerator, NotifyGeneratorModeChange,
      NotifyGeneratorTimestamp, Stop, Call, shared, locals, modeLocals, objectLocals, history
<1>2. CASE WriteMode
  BY <1>2 DEF WriteMode
<1>3. CASE WriteControl \/ WriteUpdate \/ WriteTimestamp \/ WriteStop
  BY <1>3 DEF WriteControl, WriteUpdate, WriteTimestamp, WriteStop, Write, locals,
      modeLocals, objectLocals
<1>4. CASE Join \/ Tick \/ UNCHANGED vars
  BY <1>4 DEF Join, Tick, vars, shared, locals, modeLocals, objectLocals, history
<1>5. CASE GetPermission
  BY <1>5 DEF GetPermission, Goto, shared, modeLocals, objectLocals, history, TypeInv,
      TypeOK, CurrentInv
<1>6. CASE CheckMode \/ ChangeMode
  BY <1>6 DEF CheckMode, ChangeMode, ReadKnownMode, ReadUnknownMode,
      CheckUpdate, ReadTimestamp, ClearUpdate, Goto, shared, modeLocals, objectLocals,
      history, CurrentInv
<1>7. CASE NewObject
  BY <1>7 DEF NewObject, Goto, shared, modeLocals
<1>8. CASE SendPacket
  <2>1. number_packet < Settings[current_settings].packets /\ current_settings \in Modes
    BY <1>8 DEF SendPacket, Goto, SyncInv, SyncControl, TypeInv, SettingsKnown, NoSettingsYet
  <2>2. number_packet + 1 <= Settings[current_settings].packets
    BY <2>1 DEF TypeInv, TypeOK
  <2> QED
    BY <1>8, <2>1, <2>2 DEF SendPacket, Goto, shared, modeLocals, TypeInv, TypeOK
<1>9. CASE NextPacket \/ RecheckMode \/ ChangeModeInObject \/ GetPacketPermission
  BY <1>9 DEF NextPacket, RecheckMode, ChangeModeInObject, ReadKnownMode, ReadUnknownMode,
      CheckUpdate, ReadTimestamp, ClearUpdate, GetPacketPermission, Goto, shared,
      modeLocals, objectLocals, history, SyncInv, SyncControl, RecheckPCs
<1>10. CASE CheckStop \/ ObjectEnd \/ WaitDeadline
  BY <1>10 DEF CheckStop, ObjectEnd, WaitDeadline, Goto, shared, modeLocals, objectLocals,
      history
<1> QED
  BY <1>1, <1>2, <1>3, <1>4, <1>5, <1>6, <1>7, <1>8, <1>9, <1>10
  DEF Next, WriteStep, ThreadStep

LEMMA AsyncStaleStep ==
    ~SyncStart /\ TypeInv /\ CurrentInv /\ AsyncStaleInv /\ [Next]_vars => AsyncStaleInv'
<1> SUFFICES ASSUME ~SyncStart, TypeInv, CurrentInv, AsyncStaleInv, [Next]_vars
             PROVE  AsyncStaleInv'
  OBVIOUS
<1> USE DEF AsyncStaleInv, InForce
<1>1. CASE CallStep
  BY <1>1 DEF CallStep, NotifyGenerator, NotifyGeneratorModeChange,
      NotifyGeneratorTimestamp, Stop, Call, shared, locals, modeLocals, history
<1>2. CASE WriteMode
  BY <1>2 DEF WriteMode
<1>3. CASE WriteControl \/ WriteUpdate \/ WriteTimestamp \/ WriteStop
  BY <1>3 DEF WriteControl, WriteUpdate, WriteTimestamp, WriteStop, Write, locals, modeLocals
<1>4. CASE Join \/ Tick \/ UNCHANGED vars
  BY <1>4 DEF Join, Tick, vars, shared, locals, modeLocals, history
<1>5. CASE GetPermission \/ CheckMode \/ ChangeMode \/ NewObject \/ NextPacket
  BY <1>5 DEF GetPermission, CheckMode, ChangeMode, ReadKnownMode, ReadUnknownMode,
      CheckUpdate, ReadTimestamp, ClearUpdate, NewObject, NextPacket, Goto, shared, history
<1>6. CASE RecheckMode
  BY <1>6 DEF RecheckMode, Goto, shared, modeLocals, history, CurrentInv
<1>7. CASE ChangeModeInObject \/ GetPacketPermission
  BY <1>7 DEF ChangeModeInObject, ReadKnownMode, ReadUnknownMode, CheckUpdate,
      ReadTimestamp, ClearUpdate, GetPacketPermission, Goto, shared, modeLocals, history
<1>8. CASE SendPacket
  BY <1>8 DEF SendPacket, Goto, shared, modeLocals, TypeInv, TypeOK
<1>9. CASE CheckStop \/ ObjectEnd \/ WaitDeadline
  BY <1>9 DEF CheckStop, ObjectEnd, WaitDeadline, Goto, shared, history
<1> QED
  BY <1>1, <1>2, <1>3, <1>4, <1>5, <1>6, <1>7, <1>8, <1>9 DEF Next, WriteStep, ThreadStep

LEMMA CurrentStep == TypeInv /\ CurrentInv /\ [Next]_vars => CurrentInv'
<1> SUFFICES ASSUME CurrentInv, [Next]_vars PROVE CurrentInv'
  OBVIOUS
<1>1. UNCHANGED modeLocals \/ (current_mode' = current_settings')
      \/ (current_mode' \notin Modes)
  BY DEF Next, CallStep, NotifyGenerator, NotifyGeneratorModeChange,
      NotifyGeneratorTimestamp, Stop, Call, WriteStep, WriteControl, WriteMode, WriteUpdate,
      WriteTimestamp, WriteStop, Write, Join, Tick, vars, locals, ThreadStep,
      GetPermission, CheckMode, ChangeMode, ReadKnownMode, ReadUnknownMode, CheckUpdate,
      ReadTimestamp, ClearUpdate, NewObject, NextPacket, RecheckMode, ChangeModeInObject,
      GetPacketPermission, SendPacket, CheckStop, ObjectEnd, WaitDeadline
<1> QED
  BY <1>1 DEF CurrentInv, modeLocals

(* A mode that has been set takes over after at most one object of the     *)
(* synchronous thread, and after at most one fragment of the other.        *)
THEOREM OldModeEnds == Spec => []OldModeLingers
<1>1. Init => TypeInv /\ StaleInv
  BY InitTypeInv, InitStaleInv
<1>2. TypeInv /\ StaleInv /\ [Next]_vars => (TypeInv /\ StaleInv)'
  BY TypeStep, SyncStep, SyncStaleStep, AsyncStaleStep, CurrentStep DEF StaleInv
<1>3. StaleInv => OldModeLingers
  BY DEF StaleInv, SyncStaleInv, AsyncStaleInv, OldModeLingers
<1> QED
  BY <1>1, <1>2, <1>3, PTL DEF Spec

-----------------------------------------------------------------------------
(* The numbering of the fragments, with mode changes inside the objects. *)

(* Where an object is on its way, for both threads. *)
OnItsWay == InObject \cup RecheckPCs

(* Nothing of the object in progress has been sent. *)
Unsent == sent = NoMessage \/ sent.object < number_object

(* The last fragment has the number before the one that the thread would   *)
(* send next, unless the object has none yet.                              *)
OrderInv ==
    /\ pc \in OnItsWay =>
          IF number_packet = 0 THEN Unsent
          ELSE /\ sent # NoMessage
               /\ sent.object = number_object /\ sent.fragment = number_packet - 1
    /\ pc = "object_end" => sent = NoMessage \/ sent.object <= number_object
    /\ pc \notin OnItsWay \cup {"object_end", "closed"} => Unsent

(* What a thread that sends puts on the wire. *)
LEMMA Sends ==
  ASSUME TypeInv, SendPacket
  PROVE  /\ sent'.object = number_object /\ sent'.fragment = number_packet
         /\ sent' # NoMessage
<1>1. sent' = [object |-> number_object, fragment |-> number_packet,
               total |-> total_fragments, mode |-> current_settings]
  BY DEF SendPacket
<1>2. sent' \in Messages
  BY <1>1 DEF TypeInv, TypeOK, SettingsKnown, NoSettingsYet, SendPacket, Goto, Messages
<1> QED BY <1>1, <1>2, MessageAssumption DEF Messages

LEMMA OrderStep == TypeInv /\ OrderInv /\ [Next]_vars => OrderInv'
<1> SUFFICES ASSUME TypeInv, OrderInv, [Next]_vars PROVE OrderInv'
  OBVIOUS
<1> USE DEF OrderInv, OnItsWay, InObject, RecheckPCs, Unsent
<1>0. /\ number_object \in Nat /\ number_packet \in Nat
      /\ sent # NoMessage => sent.object \in Nat /\ sent.fragment \in Nat
  BY DEF TypeInv, TypeOK, Messages
<1>1. CASE CallStep
  BY <1>1 DEF CallStep, NotifyGenerator, NotifyGeneratorModeChange,
      NotifyGeneratorTimestamp, Stop, Call, locals, objectLocals, history
<1>2. CASE WriteStep
  BY <1>2 DEF WriteStep, WriteControl, WriteMode, WriteUpdate, WriteTimestamp, WriteStop,
      Write, locals, objectLocals
<1>3. CASE Join \/ Tick \/ UNCHANGED vars
  BY <1>3 DEF Join, Tick, vars, locals, objectLocals, history
<1>4. CASE GetPermission \/ CheckMode \/ ChangeMode
  BY <1>4 DEF GetPermission, CheckMode, ChangeMode, ReadKnownMode, ReadUnknownMode,
      CheckUpdate, ReadTimestamp, ClearUpdate, Goto, objectLocals, history
<1>5. CASE NewObject
  BY <1>5 DEF NewObject, Goto
<1>6. CASE NextPacket
  BY <1>0, <1>6 DEF NextPacket, objectLocals, history
<1>7. CASE RecheckMode \/ ChangeModeInObject
  BY <1>0, <1>7 DEF RecheckMode, ChangeModeInObject, ReadKnownMode, ReadUnknownMode, CheckUpdate,
      ReadTimestamp, ClearUpdate, Goto, objectLocals, history
<1>8. CASE GetPacketPermission
  BY <1>8 DEF GetPacketPermission, Goto, objectLocals, history
<1>9. CASE SendPacket
  BY <1>0, <1>9, Sends DEF SendPacket, Goto
<1>10. CASE CheckStop
  BY <1>0, <1>10 DEF CheckStop, Goto, objectLocals, history
<1>11. CASE ObjectEnd
  BY <1>0, <1>11 DEF ObjectEnd, Goto, history
<1>12. CASE WaitDeadline
  BY <1>12 DEF WaitDeadline, Goto, objectLocals, history
<1> QED
  BY <1>1, <1>2, <1>3, <1>4, <1>5, <1>6, <1>7, <1>8, <1>9, <1>10, <1>11, <1>12
  DEF Next, ThreadStep

LEMMA SentInOrder ==
  ASSUME TypeInv, OrderInv, [Next]_vars
  PROVE  \/ sent' = sent
         \/ sent'.fragment = 0 /\ (sent = NoMessage \/ sent'.object > sent.object)
         \/ sent'.object = sent.object /\ sent'.fragment = sent.fragment + 1
<1>1. CASE SendPacket
  <2>1. pc = "send" /\ number_packet \in Nat /\ number_object \in Nat
        /\ (sent # NoMessage => sent.object \in Nat)
    BY <1>1 DEF SendPacket, Goto, TypeInv, TypeOK, Messages
  <2> QED BY <1>1, <2>1, Sends DEF OrderInv, OnItsWay, InObject, Unsent
<1>2. CASE ~SendPacket
  BY <1>2 DEF Next, CallStep, NotifyGenerator, NotifyGeneratorModeChange,
      NotifyGeneratorTimestamp, Stop, Call, WriteStep, WriteControl, WriteMode, WriteUpdate,
      WriteTimestamp, WriteStop, Write, Join, Tick, ThreadStep, GetPermission, CheckMode,
      ChangeMode, ReadKnownMode, ReadUnknownMode, CheckUpdate, ReadTimestamp, ClearUpdate,
      NewObject, NextPacket, RecheckMode, ChangeModeInObject, GetPacketPermission, CheckStop,
      ObjectEnd, WaitDeadline, history, vars
<1> QED BY <1>1, <1>2

(* Both threads number the fragments of an object from 0 without a gap or  *)
(* a repetition and never come back to an earlier object, wherever a call  *)
(* changes the mode and whatever the settings of the modes are.            *)
THEOREM FragmentsNumbered == Spec => FragmentsInOrder
<1>1. Init => OrderInv
  BY DEF Init, OrderInv, OnItsWay, InObject, RecheckPCs, Unsent
<1>2. TypeInv /\ OrderInv /\ [Next]_vars
        => [ \/ sent' = sent
             \/ sent'.fragment = 0 /\ (sent = NoMessage \/ sent'.object > sent.object)
             \/ sent'.object = sent.object /\ sent'.fragment = sent.fragment + 1 ]_vars
  BY SentInOrder
<1> QED
  BY <1>1, <1>2, InitTypeInv, TypeStep, OrderStep, PTL DEF Spec, FragmentsInOrder
=============================================================================
