------------------------- MODULE SwitchClientProofs -------------------------
(***************************************************************************)
(* What holds of a switch's client for every set of messages, every        *)
(* timestamps, any steps of the clock and scripts of any length: it enters *)
(* its modes in time, and it implements TimedClient.                       *)
(***************************************************************************)
EXTENDS SwitchClient, TLAPS, SequenceTheorems

(* What a handler's last poll says of the clock and of the timestamp. *)
PollInv ==
    pc \in Polling =>
        /\ time_now.sec \in Nat /\ time_now.ms \in 0..999
        /\ Total(time_now) <= now /\ now - Total(time_now) <= MaxStall
        /\ Total(time_now) <= entered \/ Total(time_now) <= Total(Target) + MaxStall
        /\ pc = "poll" => Total(time_now) <= Total(Target)

(* A mode change that arrives in its second and leaves room for a poll. *)
Punctual ==
    /\ message.type \in TimedTypes \ ExitTypes /\ message.mode \in ScriptModes
    /\ Target.sec # 0 /\ Room(Target) /\ entered < 1000 * (Target.sec + 1)

(* The handler accepts its timestamp until it has passed, and begins the   *)
(* script then.                                                            *)
SwitchInv ==
    Punctual =>
        /\ pc = "poll" => Valid(Target) /\ ~Passed(Target)
        /\ pc = "act" => Valid(Target)
        /\ pc \in {"script", "handled"} =>
              /\ script.mode = message.mode
              /\ Total(Target) < script.begun
              /\ \/ script.begun <= Total(Target) + 2 * MaxStall
                 \/ script.begun <= entered + 2 * MaxStall

HandlerInv == PollInv /\ SwitchInv

-----------------------------------------------------------------------------
(* Timestamps and the clock. *)

LEMMA ClockReading ==
  ASSUME NEW t \in Nat
  PROVE  /\ ClockGettime(t) \in Timespecs
         /\ ClockGettime(t).sec \in Nat /\ ClockGettime(t).ms \in 0..999
         /\ Total(ClockGettime(t)) = t
  BY DEF ClockGettime, Timespecs, Total

LEMMA TargetStamp ==
  ASSUME message \in Messages
  PROVE  Target \in Stamps /\ Total(Target) \in Int
<1>1. Target \in Stamps
  BY DEF Target, Messages
<1>2. Target.sec \in Int /\ Target.ms \in Int
  BY <1>1 DEF Stamps
<1> QED BY <1>1, <1>2 DEF Total

(* What the main thread waits for, and what it does not wait for. *)
LEMMA TargetsOf ==
  ASSUME message \in Messages
  PROVE  SwitchTargets(message) = IF message.type \in TimedTypes THEN <<Target>> ELSE <<>>
  BY DEF SwitchTargets, Target, Messages, TimedTypes, PlainTypes, UnknownTypes

(* A timestamp that has not passed at a poll lies after it. *)
LEMMA AheadOfPoll ==
  ASSUME NEW t \in Stamps, time_now.sec \in Nat, time_now.ms \in 0..999, ~Passed(t)
  PROVE  Total(time_now) <= Total(t)
<1>1. /\ t.sec \in Int /\ t.ms \in Int /\ t.ms >= 0 /\ time_now.sec \in Int
      /\ time_now.ms \in Int /\ time_now.ms <= 999
  BY DEF Stamps
<1>2. time_now.sec < t.sec \/ (time_now.sec = t.sec /\ time_now.ms <= t.ms)
  BY <1>1 DEF Passed
<1>3. CASE time_now.sec < t.sec
  BY <1>1, <1>3 DEF Total
<1>4. CASE time_now.sec = t.sec /\ time_now.ms <= t.ms
  BY <1>1, <1>4 DEF Total
<1> QED BY <1>2, <1>3, <1>4

(* What a poll accepts after a timestamp is due, and what it does not      *)
(* accept has expired.                                                     *)
LEMMA PassedIsDue ==
  ASSUME NEW t \in Stamps, time_now.sec \in Nat, time_now.ms \in 0..999, now \in Nat,
         MaxStall \in Nat, Total(time_now) <= now, now - Total(time_now) <= MaxStall,
         Valid(t), Passed(t)
  PROVE  t.sec # 0 /\ Total(t) < now /\ now < 1000 * (t.sec + 1) + MaxStall
<1>1. /\ t.sec \in Int /\ t.ms \in Int /\ time_now.sec \in Int
      /\ time_now.ms \in Int /\ time_now.ms <= 999
  BY SMTT(30) DEF Stamps
<1>2. t.sec # 0 /\ t.sec = time_now.sec /\ time_now.ms > t.ms
  BY <1>1 DEF Valid, Passed
<1> QED BY <1>1, <1>2 DEF Total

LEMMA InvalidIsExpired ==
  ASSUME NEW t \in Stamps, time_now.sec \in Nat, time_now.ms \in 0..999, now \in Nat,
         Total(time_now) <= now, ~Valid(t)
  PROVE  t.sec = 0 \/ 1000 * (t.sec + 1) <= now
<1>1. t.sec \in Int
  BY DEF Stamps
<1>2. t.sec = 0 \/ t.sec + 1 <= time_now.sec
  BY <1>1 DEF Valid
<1> QED BY <1>1, <1>2, SMTT(30) DEF Total

(* If a timestamp with room lies ahead of one poll, the next poll still    *)
(* finds it in its second.                                                 *)
LEMMA NextPollAccepts ==
  ASSUME NEW t \in Stamps, Room(t), t.sec # 0, MaxStall \in Nat, now \in Nat,
         Total(time_now) \in Int, Total(time_now) <= Total(t), now - Total(time_now) <= MaxStall
  PROVE  t.sec # 0 /\ t.sec >= ClockGettime(now).sec
<1>1. t.sec \in Int /\ t.ms \in Int /\ t.ms + MaxStall < 1000
  BY DEF Stamps, Room
<1>2. now < 1000 * t.sec + 1000
  BY <1>1 DEF Total
<1> QED BY <1>1, <1>2 DEF ClockGettime

-----------------------------------------------------------------------------
(* Types. *)

LEMMA TypeInit == Init => TypeOK
<1> SUFFICES ASSUME Init PROVE TypeOK
  OBVIOUS
<1>1. received \in 0..MaxMessages /\ now \in Nat /\ entered \in Nat
  BY SwitchAssumption DEF SwitchAssumption, Init
<1>2. time_now \in Timespecs /\ script \in [mode : ScriptModes, begun : Nat]
  BY DEF Init, Zero, Timespecs, NoScript, ScriptModes
<1>3. /\ rm_client_out_queue \in Seq(Messages)
      /\ acks \in Seq({"RM_CLIENT_SYNC_RECEIVE", "RM_CLIENT_SYNC_RECONFIGURE_DONE"})
  BY DEF Init
<1>4. /\ pc = "starting" /\ cv_mutex = "free" /\ signal = "none" /\ interrupted = "other"
      /\ rm_receiver = "receive" /\ active = TRUE /\ message = NoMessage
  BY DEF Init
<1>5. pc \notin InBody /\ pc \notin {"dispatch", "script", "handled"} \cup Polling
  BY <1>4 DEF InBody, Polling
<1> QED BY <1>1, <1>2, <1>3, <1>4, <1>5 DEF TypeOK

LEMMA LoopTypeStep ==
  ASSUME TypeOK,
         \/ \E m \in Inbox : Receive(m)
         \/ NotifyMain \/ Interrupt \/ SignalLock \/ SignalNotify
         \/ Start \/ TestActive \/ LockMutex \/ Wait \/ SpuriousWakeup \/ CheckActive
         \/ CheckQueue \/ Dequeue
  PROVE  TypeOK'
<1> USE SwitchAssumption DEF SwitchAssumption, TypeOK, InBody, Polling, Goto, receiverVars,
        signalVars, loopUnchanged, WakeMain
<1>1. ASSUME NEW m \in Inbox, Receive(m) PROVE TypeOK'
  BY <1>1 DEF Receive
<1>2. ASSUME NotifyMain PROVE TypeOK'
  BY <1>2 DEF NotifyMain
<1>3. ASSUME Interrupt PROVE TypeOK'
  BY <1>3 DEF Interrupt
<1>4. ASSUME SignalLock PROVE TypeOK'
  BY <1>4 DEF SignalLock
<1>5. ASSUME SignalNotify PROVE TypeOK'
  BY <1>5 DEF SignalNotify
<1>6. ASSUME Start \/ TestActive PROVE TypeOK'
  BY <1>6 DEF Start, TestActive
<1>7. ASSUME LockMutex PROVE TypeOK'
  BY <1>7 DEF LockMutex
<1>8. ASSUME Wait \/ SpuriousWakeup PROVE TypeOK'
  BY <1>8 DEF Wait, SpuriousWakeup
<1>9. ASSUME CheckActive \/ CheckQueue PROVE TypeOK'
  BY <1>9 DEF CheckActive, CheckQueue, LeaveBody
<1>10. ASSUME Dequeue PROVE TypeOK'
  <2>1. acks' = <<>> \/ acks' = <<"RM_CLIENT_SYNC_RECEIVE">>
    BY <1>10 DEF Dequeue, Received
  <2>2. acks' \in Seq({"RM_CLIENT_SYNC_RECEIVE", "RM_CLIENT_SYNC_RECONFIGURE_DONE"})
    <3>1. CASE acks' = <<>>
      BY <3>1
    <3>2. CASE acks' = <<"RM_CLIENT_SYNC_RECEIVE">>
      <4>1. <<"RM_CLIENT_SYNC_RECEIVE">> \in
               Seq({"RM_CLIENT_SYNC_RECEIVE", "RM_CLIENT_SYNC_RECONFIGURE_DONE"})
        OBVIOUS
      <4> QED BY <3>2, <4>1
    <3> QED BY <2>1, <3>1, <3>2
  <2> QED BY <1>10, <2>2 DEF Dequeue
<1> QED BY <1>1, <1>2, <1>3, <1>4, <1>5, <1>6, <1>7, <1>8, <1>9, <1>10

LEMMA HandlerTypeStep ==
  ASSUME TypeOK,
         \/ HandlePlain \/ HandleTimed \/ Poll \/ ActOnTarget \/ LookAgain \/ GiveUp
         \/ EndScript \/ HandlerReturn \/ Tick
  PROVE  TypeOK'
<1> USE SwitchAssumption DEF SwitchAssumption, TypeOK, InBody, Polling, Goto, receiverVars,
        signalVars, handlerUnchanged
<1>a. ClockGettime(now) \in Timespecs
  BY ClockReading
<1>1. ASSUME HandlePlain PROVE TypeOK'
  <2>1. script' \in [mode : ScriptModes, begun : Nat] /\ active' \in BOOLEAN
    BY <1>1 DEF HandlePlain, BeginScript
  <2>2. pc = "dispatch" /\ pc' \in {"script", "handled"}
    BY <1>1 DEF HandlePlain, BeginScript
  <2> QED BY <1>1, <2>1, <2>2 DEF HandlePlain
<1>2. ASSUME HandleTimed PROVE TypeOK'
  BY <1>2, <1>a DEF HandleTimed
<1>3. ASSUME Poll PROVE TypeOK'
  BY <1>3, <1>a DEF Poll
<1>4. ASSUME ActOnTarget PROVE TypeOK'
  <2>1. script' \in [mode : ScriptModes, begun : Nat] /\ active' \in BOOLEAN
    <3>1. CASE message.type = "RM_CLIENT_SYNC_TIMESTAMP_EXIT"
      BY <1>4, <3>1 DEF ActOnTarget
    <3>2. CASE message.type # "RM_CLIENT_SYNC_TIMESTAMP_EXIT"
      <4>1. BeginScript("act") /\ UNCHANGED active
        BY <1>4, <3>2 DEF ActOnTarget
      <4> QED BY <4>1 DEF BeginScript
    <3> QED BY <3>1, <3>2
  <2>2. pc = "act" /\ pc' \in {"script", "handled"}
    BY <1>4 DEF ActOnTarget, BeginScript
  <2> QED BY <1>4, <2>1, <2>2 DEF ActOnTarget
<1>5. ASSUME LookAgain \/ GiveUp \/ EndScript PROVE TypeOK'
  BY <1>5 DEF LookAgain, GiveUp, EndScript
<1>6. ASSUME HandlerReturn PROVE TypeOK'
  BY <1>6 DEF HandlerReturn
<1>7. ASSUME Tick PROVE TypeOK'
  BY <1>7 DEF Tick
<1> QED BY <1>1, <1>2, <1>3, <1>4, <1>5, <1>6, <1>7

LEMMA TypeStep == TypeOK /\ [Next]_vars => TypeOK'
<1>1. ASSUME TypeOK, UNCHANGED vars PROVE TypeOK'
  BY <1>1 DEF TypeOK, vars, receiverVars, signalVars
<1> QED BY <1>1, LoopTypeStep, HandlerTypeStep DEF Next, SignalStep, MainStep

-----------------------------------------------------------------------------
(* What a handler knows. *)

LEMMA Elsewhere ==
  ASSUME pc' \notin Polling \cup {"script", "handled"} PROVE HandlerInv'
  BY DEF HandlerInv, PollInv, SwitchInv, Polling

LEMMA Framed ==
  ASSUME HandlerInv, UNCHANGED <<pc, message, time_now, script, entered, now>> PROVE HandlerInv'
<1>1. Target' = Target
  BY DEF Target
<1> QED
  BY <1>1 DEF HandlerInv, PollInv, SwitchInv, Punctual, Room, Valid, Passed, Total

LEMMA LoopKeeps ==
  ASSUME TypeOK, HandlerInv,
         \/ \E m \in Inbox : Receive(m)
         \/ NotifyMain \/ Interrupt \/ SignalLock \/ SignalNotify
         \/ Start \/ TestActive \/ LockMutex \/ Wait \/ SpuriousWakeup \/ CheckActive
         \/ CheckQueue \/ Dequeue \/ HandlerReturn
  PROVE  HandlerInv'
<1>1. CASE (\E m \in Inbox : Receive(m)) \/ Interrupt \/ SignalLock
  <2>1. UNCHANGED <<pc, message, time_now, script, entered, now>>
    BY <1>1 DEF Receive, Interrupt, SignalLock
  <2> QED BY <2>1, Framed
<1>2. CASE NotifyMain \/ SignalNotify
  <2>1. \/ UNCHANGED <<pc, message, time_now, script, entered, now>>
        \/ pc' \in {"woken", "exited"}
    BY <1>2 DEF NotifyMain, SignalNotify, WakeMain
  <2>2. CASE pc' \in {"woken", "exited"}
    <3>1. pc' \notin Polling \cup {"script", "handled"}
      BY <2>2 DEF Polling
    <3> QED BY <3>1, Elsewhere
  <2> QED BY <2>1, <2>2, Framed
<1>3. CASE \/ Start \/ TestActive \/ LockMutex \/ Wait \/ SpuriousWakeup \/ CheckActive
           \/ CheckQueue \/ Dequeue \/ HandlerReturn
  <2>1. pc' \notin Polling \cup {"script", "handled"}
    BY <1>3 DEF Start, TestActive, LockMutex, Wait, SpuriousWakeup, CheckActive, CheckQueue,
                LeaveBody, Dequeue, HandlerReturn, Goto, Polling
  <2> QED BY <2>1, Elsewhere
<1> QED BY <1>1, <1>2, <1>3

(* A handler starts. *)
LEMMA EnterKeeps ==
  ASSUME TypeOK, HandlePlain \/ HandleTimed PROVE HandlerInv'
<1>1. CASE HandlePlain
  <2>1. /\ pc' \in {"script", "handled"} /\ message' = message
        /\ message.type \notin TimedTypes
    BY <1>1 DEF HandlePlain, BeginScript, Goto, handlerUnchanged
  <2> QED BY <2>1 DEF HandlerInv, PollInv, SwitchInv, Punctual, Polling
<1>2. CASE HandleTimed
  <2>1. /\ pc = "dispatch" /\ pc' = "act" /\ UNCHANGED <<message, now>>
        /\ entered' = now /\ time_now' = ClockGettime(now)
    BY <1>2 DEF HandleTimed, Goto, handlerUnchanged
  <2>2. now \in Nat /\ message \in Messages /\ MaxStall \in Nat
    BY <2>1, SwitchAssumption DEF TypeOK, SwitchAssumption
  <2>3. Target' = Target /\ Target.sec \in Int
    BY <2>1, <2>2, TargetStamp DEF Target, Stamps
  <2>4. Total(time_now)' = now /\ time_now'.sec \in Nat /\ time_now'.ms \in 0..999
    <3>1. Total(ClockGettime(now)) = now
      BY <2>2, ClockReading
    <3> QED BY <2>1, <2>2, <3>1, ClockReading DEF Total
  <2>5. PollInv'
    BY <2>1, <2>2, <2>4 DEF PollInv
  <2>6. SwitchInv'
    <3> SUFFICES ASSUME Target.sec # 0, now < 1000 * (Target.sec + 1)
                 PROVE  Target.sec >= ClockGettime(now).sec
      BY <2>1, <2>3 DEF SwitchInv, Punctual, Valid
    <3> QED BY <2>2, <2>3 DEF ClockGettime
  <2> QED BY <2>5, <2>6 DEF HandlerInv
<1> QED BY <1>1, <1>2

(* What a handler that polls knows. *)
LEMMA AtWork ==
  ASSUME TypeOK, HandlerInv, pc \in Polling
  PROVE  /\ message \in Messages /\ message.type \in TimedTypes /\ message # NoMessage
         /\ Target \in Stamps /\ Total(Target) \in Int /\ Total(time_now) \in Int
         /\ time_now.sec \in Nat /\ time_now.ms \in 0..999
         /\ now \in Nat /\ MaxStall \in Nat /\ entered \in Nat
         /\ Total(time_now) <= now /\ now - Total(time_now) <= MaxStall
         /\ Total(time_now) <= entered \/ Total(time_now) <= Total(Target) + MaxStall
<1>1. message \in Messages /\ message.type \in TimedTypes /\ message # NoMessage
  BY DEF TypeOK, Polling
<1>2. time_now.sec \in Int /\ time_now.ms \in Int
  BY DEF TypeOK, Timespecs
<1> QED
  BY <1>1, <1>2, TargetStamp, SwitchAssumption
     DEF SwitchAssumption, HandlerInv, PollInv, TypeOK, Total

LEMMA PollKeeps ==
  ASSUME TypeOK, HandlerInv, Poll PROVE HandlerInv'
<1>1. /\ pc = "poll" /\ pc' = "act" /\ UNCHANGED <<message, now, entered>>
      /\ time_now' = ClockGettime(now)
  BY DEF Poll, Goto, handlerUnchanged
<1>2. pc \in Polling /\ Target' = Target
  BY <1>1 DEF Polling, Target
<1>3. Total(time_now)' = now /\ time_now'.sec \in Nat /\ time_now'.ms \in 0..999
  <2>1. now \in Nat
    BY <1>2, AtWork
  <2>2. Total(ClockGettime(now)) = now
    BY <2>1, ClockReading
  <2> QED BY <1>1, <2>1, <2>2, ClockReading DEF Total
<1>4. Total(time_now) <= Total(Target)
  BY <1>1, <1>2 DEF HandlerInv, PollInv
<1>5. Total(Target)' = Total(Target)
  BY <1>2 DEF Total
<1>6. PollInv'
  <2>1. now <= Total(Target) + MaxStall
    BY <1>2, <1>4, AtWork
  <2> QED BY <1>1, <1>2, <1>3, <1>5, <2>1, AtWork DEF PollInv
<1>7. SwitchInv'
  <2> SUFFICES ASSUME Punctual PROVE Target.sec # 0 /\ Target.sec >= ClockGettime(now).sec
    BY <1>1, <1>2 DEF SwitchInv, Punctual, Room, Valid
  <2>1. Room(Target) /\ Target.sec # 0
    BY DEF Punctual
  <2> QED BY <1>2, <1>4, <2>1, AtWork, NextPollAccepts
<1> QED BY <1>6, <1>7 DEF HandlerInv

(* The timestamp is looked at: the script begins, the handler polls on or  *)
(* gives up.                                                               *)
LEMMA LookKeeps ==
  ASSUME TypeOK, HandlerInv, ActOnTarget \/ LookAgain \/ GiveUp PROVE HandlerInv'
<1>1. /\ pc = "act" /\ pc' \in {"poll", "script", "handled"}
      /\ UNCHANGED <<message, time_now, now, entered>>
  BY DEF ActOnTarget, BeginScript, LookAgain, GiveUp, Goto, handlerUnchanged
<1>2. pc \in Polling /\ Target' = Target
  BY <1>1 DEF Polling, Target
<1>3. CASE ActOnTarget
  <2>1. Valid(Target) /\ Passed(Target) /\ pc' \in {"script", "handled"}
    BY <1>3 DEF ActOnTarget, BeginScript, Goto
  <2>2. Total(Target) < now
    BY <1>2, <2>1, AtWork, PassedIsDue
  <2>3. now <= Total(Target) + 2 * MaxStall \/ now <= entered + 2 * MaxStall
    <3>1. now <= Total(time_now) + MaxStall
      BY <1>2, AtWork
    <3> QED BY <1>2, <3>1, AtWork
  <2>4. Punctual => script' = [mode |-> message.mode, begun |-> now]
    BY <1>3 DEF ActOnTarget, BeginScript, Punctual, ExitTypes
  <2>5. PollInv'
    BY <2>1 DEF PollInv, Polling
  <2>6. SwitchInv'
    <3> SUFFICES ASSUME Punctual
                 PROVE  /\ script'.mode = message.mode
                        /\ Total(Target) < script'.begun
                        /\ \/ script'.begun <= Total(Target) + 2 * MaxStall
                           \/ script'.begun <= entered + 2 * MaxStall
      BY <1>1, <1>2, <2>1 DEF SwitchInv, Punctual, Room, Total
    <3> QED BY <2>2, <2>3, <2>4
  <2> QED BY <2>5, <2>6 DEF HandlerInv
<1>4. CASE LookAgain
  <2>1. pc' = "poll" /\ Valid(Target) /\ ~Passed(Target) /\ UNCHANGED script
    BY <1>4 DEF LookAgain, Goto
  <2>2. Total(time_now) <= Total(Target)
    BY <1>2, <2>1, AtWork, AheadOfPoll
  <2>3. PollInv'
    BY <1>1, <1>2, <2>1, <2>2, AtWork DEF PollInv, Total
  <2>4. SwitchInv'
    BY <1>1, <1>2, <2>1 DEF SwitchInv, Punctual, Room, Valid, Passed
  <2> QED BY <2>3, <2>4 DEF HandlerInv
<1>5. CASE GiveUp
  <2>1. pc' = "handled" /\ ~Valid(Target)
    BY <1>5 DEF GiveUp, Goto
  <2>2. ~Punctual
    BY <1>1, <2>1 DEF HandlerInv, SwitchInv
  <2>3. ~Punctual'
    BY <1>1, <1>2, <2>2 DEF Punctual, Room
  <2> QED BY <2>1, <2>3 DEF HandlerInv, PollInv, SwitchInv, Polling
<1> QED BY <1>3, <1>4, <1>5

LEMMA EndScriptKeeps ==
  ASSUME HandlerInv, EndScript PROVE HandlerInv'
<1>1. /\ pc = "script" /\ pc' = "handled"
      /\ UNCHANGED <<message, time_now, script, entered, now>>
  BY DEF EndScript, Goto, handlerUnchanged
<1>2. Target' = Target
  BY <1>1 DEF Target
<1> QED
  BY <1>1, <1>2 DEF HandlerInv, PollInv, SwitchInv, Punctual, Room, Total, Polling

(* The clock goes on, no further than the next poll. *)
LEMMA TickKeeps ==
  ASSUME TypeOK, HandlerInv, Tick PROVE HandlerInv'
<1>1. UNCHANGED <<pc, message, time_now, script, entered>>
  BY DEF Tick
<1>2. PICK d \in Ticks : now' = now + d /\ (pc \in Polling => now + d - Total(time_now) <= MaxStall)
  BY DEF Tick
<1>3. now \in Nat /\ d \in Nat
  BY SwitchAssumption DEF SwitchAssumption, TypeOK
<1>4. Target' = Target
  BY <1>1 DEF Target
<1>5. PollInv'
  <2> SUFFICES ASSUME pc \in Polling
               PROVE  Total(time_now) <= now' /\ now' - Total(time_now) <= MaxStall
    BY <1>1, <1>4 DEF HandlerInv, PollInv, Total
  <2> QED BY <1>2, <1>3, AtWork
<1>6. SwitchInv'
  BY <1>1, <1>4 DEF HandlerInv, SwitchInv, Punctual, Room, Valid, Passed, Total
<1> QED BY <1>5, <1>6 DEF HandlerInv

LEMMA InvInit == Init => TypeOK /\ HandlerInv
<1>1. Init => HandlerInv
  BY DEF Init, HandlerInv, PollInv, SwitchInv, Polling
<1> QED BY <1>1, TypeInit

LEMMA InvStep == TypeOK /\ HandlerInv /\ [Next]_vars => TypeOK' /\ HandlerInv'
<1>1. ASSUME HandlerInv, UNCHANGED vars PROVE HandlerInv'
  BY <1>1, Framed DEF vars
<1> QED
  BY <1>1, TypeStep, LoopKeeps, EnterKeeps, PollKeeps, LookKeeps, EndScriptKeeps, TickKeeps
     DEF Next, SignalStep, MainStep

THEOREM Invariance == Spec => [](TypeOK /\ HandlerInv)
  BY InvInit, InvStep, PTL DEF Spec

(* Every variable has its type, and cv_mutex is held in the whole body of  *)
(* the loop and nowhere else, for any messages and scripts.                *)
THEOREM TypeCorrect == Spec => []TypeOK
  BY Invariance, PTL

(* A mode change that reaches its handler in its second is carried out     *)
(* after its timestamp and at most two polls late, whatever the timestamps *)
(* are and however the clock steps.                                        *)
THEOREM SwitchesInTime == Spec => []SwitchedInTime
<1>1. HandlerInv => SwitchedInTime
  BY DEF HandlerInv, SwitchInv, Punctual, SwitchedInTime
<1> QED BY <1>1, Invariance, PTL

-----------------------------------------------------------------------------
(* The steps of TimedClient, in terms of the switch's state. *)

Waiting == IF pc = "dispatch" THEN <<message>> \o rm_client_out_queue ELSE rm_client_out_queue
Current == IF pc \in Polling THEN message ELSE NoMessage

LEMMA OfOne ==
  ASSUME NEW v, NEW w
  PROVE  Of(v)[Switch] = v /\ [Of(v) EXCEPT ![Switch] = w] = Of(w)
  BY DEF Of

LEMMA SideStutter ==
  ASSUME UNCHANGED <<Waiting, Current, entered, script, now>>
  PROVE  UNCHANGED Side!vars
  BY DEF Side!vars, Waiting, Current, Of

LEMMA SideArrive ==
  ASSUME NEW m \in Inbox, Waiting' = Append(Waiting, m),
         UNCHANGED <<Current, entered, script, now>>
  PROVE  Side!Next
<1>1. Side!Arrive(Switch, m)
  BY OfOne DEF Side!Arrive, Waiting, Current, Of
<1> QED BY <1>1 DEF Side!Next

LEMMA SideHandleAtOnce ==
  ASSUME Current = NoMessage, Waiting # <<>>, SwitchTargets(Head(Waiting)) = <<>>,
         Waiting' = Tail(Waiting), script' = Effect(Switch, Head(Waiting), 0, script, now),
         UNCHANGED <<Current, entered, now>>
  PROVE  Side!Next
<1>1. Side!HandleAtOnce(Switch)
  BY OfOne DEF Side!HandleAtOnce, Side!Idle, Side!Oldest, Targets, Waiting, Current, Of
<1> QED BY <1>1 DEF Side!Next, Side!ClientStep

LEMMA SideBegin ==
  ASSUME Current = NoMessage, Waiting # <<>>, SwitchTargets(Head(Waiting)) # <<>>,
         Waiting' = Tail(Waiting), Current' = Head(Waiting), entered' = now,
         UNCHANGED <<script, now>>
  PROVE  Side!Next
<1>1. Side!Begin(Switch)
  BY OfOne DEF Side!Begin, Side!Idle, Side!Oldest, Targets, Waiting, Current, Of
<1> QED BY <1>1 DEF Side!Next, Side!ClientStep

(* The only timestamp of a message at work. *)
LEMMA SideTarget ==
  ASSUME Current # NoMessage, SwitchTargets(Current) = <<Target>>
  PROVE  /\ Of(Current)[Switch] = Current /\ Of(0)[Switch] = 0 /\ Of(script)[Switch] = script
         /\ Side!Left(Switch) = {1} /\ Side!Target(Switch, 1) = Target
<1>1. /\ Of(Current)[Switch] = Current /\ Of(0)[Switch] = 0 /\ Of(script)[Switch] = script
  BY OfOne
<1>2. Len(SwitchTargets(Current)) = 1 /\ SwitchTargets(Current)[1] = Target
  OBVIOUS
<1>3. Side!Left(Switch) = (0 + 1)..1
  BY <1>1, <1>2 DEF Side!Left, Targets, Current
<1>4. Side!Target(Switch, 1) = Target
  BY <1>1, <1>2 DEF Side!Target, Targets, Current
<1> QED BY <1>1, <1>3, <1>4

LEMMA SideAct ==
  ASSUME Current # NoMessage, SwitchTargets(Current) = <<Target>>,
         Target.sec # 0, Total(Target) < now, now < 1000 * (Target.sec + 1) + MaxStall,
         script' = Effect(Switch, Current, 1, script, now), Current' = NoMessage,
         UNCHANGED <<Waiting, entered, now>>
  PROVE  Side!Next
<1>1. Side!Due(Side!Target(Switch, 1)) /\ 1 \in Side!Left(Switch)
  BY SideTarget DEF Side!Due, Side!Total, Total
<1>2. Of(script)' = [Of(script) EXCEPT ![Switch] = Effect(Switch, Of(Current)[Switch], 1, @, now)]
  BY SideTarget DEF Of
<1>3. 1 = Len(Targets(Switch, Of(Current)[Switch]))
  BY SideTarget DEF Targets
<1>4. /\ Of(Current)' = [Of(Current) EXCEPT ![Switch] = NoMessage]
      /\ Of(0)' = [Of(0) EXCEPT ![Switch] = 0]
      /\ UNCHANGED <<Of(Waiting), Of(entered), now>>
  BY DEF Of
<1>5. Side!Act(Switch, 1)
  BY <1>1, <1>2, <1>3, <1>4 DEF Side!Act, Waiting, Current
<1>6. Of(IF pc \in Polling THEN message ELSE NoMessage)[Switch] # NoMessage
  BY SideTarget DEF Current
<1> QED BY <1>1, <1>5, <1>6 DEF Side!Next, Side!ClientStep

LEMMA SideAbandon ==
  ASSUME Current # NoMessage, SwitchTargets(Current) = <<Target>>,
         Target.sec = 0 \/ 1000 * (Target.sec + 1) <= now, Current' = NoMessage,
         UNCHANGED <<Waiting, entered, script, now>>
  PROVE  Side!Next
<1>1. Side!Expired(Side!Target(Switch, 1)) /\ 1 \in Side!Left(Switch)
  BY SideTarget DEF Side!Expired
<1>2. /\ Of(Current)' = [Of(Current) EXCEPT ![Switch] = NoMessage]
      /\ Of(0)' = [Of(0) EXCEPT ![Switch] = 0]
      /\ UNCHANGED <<Of(Waiting), Of(entered), Of(script), now>>
  BY DEF Of
<1>3. Side!Abandon(Switch)
  BY <1>1, <1>2, SideTarget DEF Side!Abandon, Waiting, Current
<1> QED BY <1>3 DEF Side!Next, Side!ClientStep

LEMMA SideTick ==
  ASSUME now' > now, now' \in Nat,
         Current # NoMessage =>
            /\ SwitchTargets(Current) = <<Target>>
            /\ now' <= entered + 2 * MaxStall \/ now' <= Total(Target) + 2 * MaxStall,
         UNCHANGED <<Waiting, Current, entered, script>>
  PROVE  Side!Next
<1>1. Side!InTime(Switch, now')
  BY OfOne, SideTarget DEF Side!InTime, Side!Total, Total, Current
<1>2. Side!Tick(now')
  BY <1>1 DEF Side!Tick, Waiting, Current, Of
<1> QED BY <1>2 DEF Side!Next

-----------------------------------------------------------------------------
(* Every step of the switch's client is one of TimedClient, or none. *)

LEMMA ArriveMaps ==
  ASSUME TypeOK, NEW m \in Inbox, Receive(m) PROVE Side!Next
<1>1. /\ rm_client_out_queue' = Append(rm_client_out_queue, m)
      /\ UNCHANGED <<pc, message, entered, script, now>>
  BY DEF Receive
<1>2. Waiting' = Append(Waiting, m)
  <2>1. CASE pc = "dispatch"
    <3>1. rm_client_out_queue \in Seq(Messages) /\ message \in Messages /\ m \in Messages
      BY <2>1, SwitchAssumption DEF SwitchAssumption, TypeOK
    <3>2. <<message>> \o Append(rm_client_out_queue, m)
            = Append(<<message>> \o rm_client_out_queue, m)
      BY <3>1
    <3> QED BY <1>1, <2>1, <3>2 DEF Waiting
  <2>2. CASE pc # "dispatch"
    BY <1>1, <2>2 DEF Waiting
  <2> QED BY <2>1, <2>2
<1> QED BY <1>1, <1>2, SideArrive DEF Current

LEMMA QuietMaps ==
  ASSUME \/ NotifyMain \/ Interrupt \/ SignalLock \/ SignalNotify \/ Start \/ TestActive
         \/ LockMutex \/ Wait \/ SpuriousWakeup \/ CheckActive \/ CheckQueue
         \/ EndScript \/ HandlerReturn \/ Poll \/ LookAgain \/ UNCHANGED vars
  PROVE  UNCHANGED Side!vars
<1> USE DEF Goto, loopUnchanged, handlerUnchanged, receiverVars, Polling
<1>1. UNCHANGED <<rm_client_out_queue, message, entered, script, now>>
  BY DEF NotifyMain, Interrupt, SignalLock, SignalNotify, Start, TestActive, LockMutex, Wait,
         SpuriousWakeup, CheckActive, CheckQueue, LeaveBody, EndScript, HandlerReturn, Poll,
         LookAgain, vars
<1>2. \/ pc' = pc
      \/ {pc, pc'} \subseteq Polling
      \/ {pc, pc'} \cap (Polling \cup {"dispatch"}) = {}
  BY DEF NotifyMain, Interrupt, SignalLock, SignalNotify, WakeMain, Start, TestActive,
         LockMutex, Wait, SpuriousWakeup, CheckActive, CheckQueue, LeaveBody, EndScript,
         HandlerReturn, Poll, LookAgain, vars
<1>3. UNCHANGED <<Waiting, Current>>
  BY <1>1, <1>2 DEF Waiting, Current
<1> QED BY <1>1, <1>3, SideStutter

LEMMA DequeueMaps ==
  ASSUME TypeOK, Dequeue PROVE UNCHANGED Side!vars
<1>1. /\ pc = "dequeue" /\ pc' = "dispatch" /\ rm_client_out_queue # <<>>
      /\ message' = Head(rm_client_out_queue)
      /\ rm_client_out_queue' = Tail(rm_client_out_queue)
      /\ UNCHANGED <<entered, script, now>>
  BY DEF Dequeue, Goto
<1>2. rm_client_out_queue \in Seq(Messages)
  BY DEF TypeOK
<1>3. <<Head(rm_client_out_queue)>> \o Tail(rm_client_out_queue) = rm_client_out_queue
  BY <1>1, <1>2
<1>4. UNCHANGED <<Waiting, Current>>
  BY <1>1, <1>3 DEF Waiting, Current, Polling
<1> QED BY <1>1, <1>4, SideStutter

(* The message taken is the oldest. *)
LEMMA Dispatched ==
  ASSUME TypeOK, pc = "dispatch"
  PROVE  /\ message \in Messages /\ Waiting # <<>> /\ Head(Waiting) = message
         /\ Tail(Waiting) = rm_client_out_queue /\ Current = NoMessage
<1>1. message \in Messages /\ rm_client_out_queue \in Seq(Messages)
  BY DEF TypeOK
<1>2. Waiting = <<message>> \o rm_client_out_queue
  BY DEF Waiting
<1> QED BY <1>1, <1>2 DEF Current, Polling

LEMMA HandlePlainMaps ==
  ASSUME TypeOK, HandlePlain PROVE Side!Next
<1>1. /\ pc = "dispatch" /\ pc' \in {"script", "handled"} /\ message.type \notin TimedTypes
      /\ UNCHANGED <<rm_client_out_queue, message, entered, now>>
  BY DEF HandlePlain, BeginScript, Goto, handlerUnchanged, receiverVars
<1>2. message \in Messages /\ SwitchTargets(message) = <<>>
  BY <1>1, Dispatched, TargetsOf
<1>3. script' = Effect(Switch, message, 0, script, now)
  BY <1>1, <1>2 DEF HandlePlain, BeginScript, Effect, Messages, PlainTypes, TimedTypes,
                    UnknownTypes, ExitTypes
<1>4. Waiting' = rm_client_out_queue /\ Current' = NoMessage
  BY <1>1 DEF Waiting, Current, Polling
<1> QED BY <1>1, <1>2, <1>3, <1>4, Dispatched, SideHandleAtOnce

LEMMA HandleTimedMaps ==
  ASSUME TypeOK, HandleTimed PROVE Side!Next
<1>1. /\ pc = "dispatch" /\ pc' = "act" /\ message.type \in TimedTypes /\ entered' = now
      /\ UNCHANGED <<rm_client_out_queue, message, script, now>>
  BY DEF HandleTimed, Goto, handlerUnchanged, receiverVars
<1>2. SwitchTargets(message) = <<Target>>
  BY <1>1, Dispatched, TargetsOf
<1>3. SwitchTargets(message) # <<>>
  BY <1>2
<1>4. Waiting' = rm_client_out_queue /\ Current' = message
  BY <1>1 DEF Waiting, Current, Polling
<1> QED BY <1>1, <1>3, <1>4, Dispatched, SideBegin

LEMMA CurrentTarget ==
  ASSUME TypeOK, HandlerInv, pc \in Polling
  PROVE  Current = message /\ Current # NoMessage /\ SwitchTargets(Current) = <<Target>>
  BY AtWork, TargetsOf DEF Current

LEMMA ActMaps ==
  ASSUME TypeOK, HandlerInv, ActOnTarget PROVE Side!Next
<1>1. /\ pc = "act" /\ pc' \in {"script", "handled"} /\ Valid(Target) /\ Passed(Target)
      /\ UNCHANGED <<rm_client_out_queue, message, entered, now>>
  BY DEF ActOnTarget, BeginScript, Goto, handlerUnchanged, receiverVars
<1>2. pc \in Polling
  BY <1>1 DEF Polling
<1>3. Target.sec # 0 /\ Total(Target) < now /\ now < 1000 * (Target.sec + 1) + MaxStall
  BY <1>1, <1>2, AtWork, PassedIsDue
<1>4. script' = Effect(Switch, message, 1, script, now)
  BY <1>2, AtWork DEF ActOnTarget, BeginScript, Effect, TimedTypes, UnknownTypes, ExitTypes
<1>5. Waiting' = Waiting /\ Current' = NoMessage
  BY <1>1 DEF Waiting, Current, Polling
<1> QED BY <1>1, <1>2, <1>3, <1>4, <1>5, CurrentTarget, SideAct

LEMMA GiveUpMaps ==
  ASSUME TypeOK, HandlerInv, GiveUp PROVE Side!Next
<1>1. /\ pc = "act" /\ pc' = "handled" /\ ~Valid(Target)
      /\ UNCHANGED <<rm_client_out_queue, message, entered, script, now>>
  BY DEF GiveUp, Goto, handlerUnchanged, receiverVars
<1>2. pc \in Polling
  BY <1>1 DEF Polling
<1>3. Target.sec = 0 \/ 1000 * (Target.sec + 1) <= now
  BY <1>1, <1>2, AtWork, InvalidIsExpired
<1>4. Waiting' = Waiting /\ Current' = NoMessage
  BY <1>1 DEF Waiting, Current, Polling
<1> QED BY <1>1, <1>2, <1>3, <1>4, CurrentTarget, SideAbandon

LEMMA TickMaps ==
  ASSUME TypeOK, HandlerInv, Tick PROVE Side!Next
<1>1. UNCHANGED <<rm_client_out_queue, pc, message, entered, script>>
  BY DEF Tick, receiverVars
<1>2. PICK d \in Ticks :
        now' = now + d /\ (pc \in Polling => now + d - Total(time_now) <= MaxStall)
  BY DEF Tick
<1>3. now \in Nat /\ d \in Nat \ {0}
  BY SwitchAssumption DEF SwitchAssumption, TypeOK
<1>4. UNCHANGED <<Waiting, Current>>
  BY <1>1 DEF Waiting, Current
<1>5. ASSUME Current # NoMessage
      PROVE  /\ SwitchTargets(Current) = <<Target>>
             /\ now' <= entered + 2 * MaxStall \/ now' <= Total(Target) + 2 * MaxStall
  <2>1. pc \in Polling
    BY <1>5 DEF Current
  <2>2. now' <= Total(time_now) + MaxStall
    BY <1>2, <1>3, <2>1, AtWork
  <2>3. SwitchTargets(Current) = <<Target>>
    BY <2>1, CurrentTarget
  <2>4. /\ entered \in Nat /\ MaxStall \in Nat /\ Total(Target) \in Int /\ Total(time_now) \in Int
        /\ Total(time_now) <= entered \/ Total(time_now) <= Total(Target) + MaxStall
    BY <2>1, AtWork
  <2>5. now' <= entered + 2 * MaxStall \/ now' <= Total(Target) + 2 * MaxStall
    BY <1>2, <1>3, <2>2, <2>4
  <2> QED BY <2>3, <2>5
<1>6. now' > now /\ now' \in Nat
  BY <1>2, <1>3
<1> QED BY <1>1, <1>4, <1>5, <1>6, SideTick

LEMMA StepMaps ==
  ASSUME TypeOK, HandlerInv, [Next]_vars PROVE [Side!Next]_(Side!vars)
  BY ArriveMaps, QuietMaps, DequeueMaps, HandlePlainMaps, HandleTimedMaps, ActMaps, GiveUpMaps,
     TickMaps DEF Next, SignalStep, MainStep

LEMMA InitMaps == Init => Side!Init
<1> SUFFICES ASSUME Init PROVE Side!Init
  OBVIOUS
<1>1. now \in Nat
  BY SwitchAssumption DEF Init, SwitchAssumption
<1> QED BY <1>1 DEF Init, Side!Init, Of, Polling

(* The switch's program is a TimedClient, whatever the messages, the steps *)
(* of the clock and the lengths of its scripts are.                        *)
THEOREM SwitchIsTimedClient == Spec => ImplementsTimedClient
<1>1. TypeOK /\ HandlerInv /\ [Next]_vars => [Side!Next]_(Side!vars)
  BY StepMaps
<1> QED BY <1>1, InitMaps, Invariance, PTL DEF Spec, ImplementsTimedClient, Side!Spec
=============================================================================
