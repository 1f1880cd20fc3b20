------------------------ MODULE EndnodeClientProofs ------------------------
(***************************************************************************)
(* What holds of a client for every set of messages, every timestamps and  *)
(* any steps of the clock.                                                 *)
(***************************************************************************)
EXTENDS EndnodeClient, TLAPS

(* What a handler's last poll says of the clock. *)
PollInv ==
    pc \in Polling =>
        /\ time_now.sec \in Nat /\ time_now.ms \in 0..999
        /\ Total(time_now) <= now /\ now - Total(time_now) <= MaxStall
        /\ pc = "act_restart" => message.type \in InterruptingTypes

(* Once it has interrupted the generator a handler accepts the restart's   *)
(* timestamp until it has passed.                                          *)
ResumeInv ==
    (message.type \in InterruptingTypes /\ first_done
        /\ FirstTarget.sec <= message.start.sec /\ Room(message.start))
    => /\ pc = "poll" => Valid(message.start) /\ ~Passed(message.start)
       /\ pc \in {"act", "act_restart"} => Valid(message.start)
       /\ pc = "handled" => told.control = "THREAD_TRANSMISSION" /\ restarted

(* Before the first timestamp has passed, the handler accepts it. *)
WaitInv ==
    (message.type \in TimedTypes /\ ~first_done /\ InTime)
    => /\ pc \in {"poll", "act_restart"} => Valid(FirstTarget) /\ ~Passed(FirstTarget)
       /\ pc = "act" => Valid(FirstTarget)
       /\ pc = "handled" => message.type \in InterruptingTypes /\ restarted

-----------------------------------------------------------------------------
(* Timestamps and the clock. *)

LEMMA ClockReading ==
  ASSUME NEW t \in Nat
  PROVE  /\ ClockGettime(t) \in Timespecs
         /\ ClockGettime(t).sec \in Nat /\ ClockGettime(t).ms \in 0..999
         /\ Total(ClockGettime(t)) = t
  BY DEF ClockGettime, Timespecs, Total

LEMMA MessageFields ==
  ASSUME NEW m \in Messages
  PROVE  /\ m.mode \in Nat
         /\ m.stop \in Timespecs /\ m.reconfig \in Timespecs /\ m.start \in Timespecs
  BY DEF Messages, Stamps, Timespecs

LEMMA FirstTargetType ==
  ASSUME message \in Messages PROVE FirstTarget \in Timespecs
  BY MessageFields DEF FirstTarget

(* A timestamp that is accepted and has passed lies before the clock. *)
LEMMA PassedIsPast ==
  ASSUME NEW t \in Timespecs, time_now \in Timespecs, Valid(t), Passed(t)
  PROVE  Total(t) < Total(time_now)
  BY DEF Timespecs, Valid, Passed, Total

(* If a timestamp with room has not passed at one poll, the next poll      *)
(* accepts it.                                                             *)
LEMMA NextPollAccepts ==
  ASSUME NEW t \in Timespecs, Room(t), Valid(t), ~Passed(t),
         MaxStall \in Nat, now \in Nat, time_now.sec \in Nat, time_now.ms \in 0..999,
         Total(time_now) <= now, now - Total(time_now) <= MaxStall
  PROVE  t.sec # 0 /\ t.sec >= ClockGettime(now).sec
<1>1. /\ t.sec \in Int /\ t.ms \in Int /\ t.ms >= 0
      /\ time_now.sec \in Int /\ time_now.ms \in Int /\ time_now.ms <= 999
  BY DEF Timespecs, Room
<1>2. /\ t.sec # 0 /\ t.sec >= time_now.sec /\ t.ms + MaxStall < 1000
      /\ ~(time_now.sec = t.sec /\ time_now.ms > t.ms)
  BY DEF Room, Valid, Passed
<1>3. 1000 * time_now.sec + time_now.ms <= 1000 * t.sec + t.ms
  <2>1. CASE time_now.sec = t.sec
    BY <1>1, <1>2, <2>1
  <2>2. CASE time_now.sec < t.sec
    <3>1. time_now.sec + 1 <= t.sec
      BY <1>1, <2>2
    <3>2. 1000 * time_now.sec + 1000 <= 1000 * t.sec
      BY <1>1, <3>1
    <3> QED BY <1>1, <3>2
  <2> QED BY <1>1, <1>2, <2>1, <2>2
<1>4. now < 1000 * t.sec + 1000
  BY <1>1, <1>2, <1>3 DEF Total
<1> QED BY <1>1, <1>2, <1>4 DEF ClockGettime

-----------------------------------------------------------------------------
(* Types. *)

LEMMA TypeInit == Init => TypeOK
<1> SUFFICES ASSUME Init PROVE TypeOK
  OBVIOUS
<1>1. Zero \in Timespecs
  BY DEF Zero, Timespecs
<1>2. told \in [control : Controls, mode : Nat, timestamp : Timespecs]
  BY <1>1 DEF Init, Controls
<1>3. received \in 0..MaxMessages /\ now \in Nat
  BY ClientAssumption DEF ClientAssumption, Init
<1>4. /\ rm_client_out_queue \in Seq(Messages)
      /\ acks \in Seq({"RM_CLIENT_SYNC_RECEIVE", "RM_CLIENT_SYNC_RECONFIGURE_DONE"})
  BY DEF Init
<1>5. pc \notin InBody /\ pc \notin {"dispatch", "handled"} \cup Polling
  BY DEF Init, InBody, Polling
<1>6. message \in Messages \cup {NoMessage} /\ pc # "exited"
  BY DEF Init
<1>7. /\ pc \in InBody \cup {"starting", "loop", "lock", "blocked", "woken", "release", "exited"}
      /\ signal \in {"none", "raised", "locked", "done"} /\ signal # "locked"
      /\ interrupted \in {"main", "other"} /\ rm_receiver \in {"receive", "notify"}
      /\ cv_mutex = "free"
  BY DEF Init
<1>8. first_done \in BOOLEAN /\ restarted \in BOOLEAN /\ active \in BOOLEAN
  BY DEF Init
<1>9. time_now \in Timespecs /\ entered \in Nat
  BY <1>1 DEF Init
<1> QED BY <1>2, <1>3, <1>4, <1>5, <1>6, <1>7, <1>8, <1>9 DEF TypeOK

(* What the generator is told last is well formed. *)
LEMMA ToldType ==
  ASSUME NEW mode \in Nat, NEW t \in Timespecs, NEW control \in Controls,
         told \in [control : Controls, mode : Nat, timestamp : Timespecs],
         Tell(control) \/ TellMode(mode) \/ TellTimestamp(mode, t) \/ UNCHANGED told
  PROVE  told' \in [control : Controls, mode : Nat, timestamp : Timespecs]
<1>1. "THREAD_TRANSMISSION" \in Controls
  BY DEF Controls
<1>2. ASSUME Tell(control) PROVE told' = [told EXCEPT !.control = control]
  BY <1>2 DEF Tell
<1>3. ASSUME TellMode(mode)
      PROVE  told' = [told EXCEPT !.control = "THREAD_TRANSMISSION", !.mode = mode]
  BY <1>3 DEF TellMode
<1>4. ASSUME TellTimestamp(mode, t)
      PROVE  told' = [control |-> "THREAD_TRANSMISSION", mode |-> mode, timestamp |-> t]
  BY <1>4 DEF TellTimestamp
<1>5. CASE Tell(control)
  BY <1>2, <1>5
<1>6. CASE TellMode(mode)
  BY <1>1, <1>3, <1>6
<1>7. CASE TellTimestamp(mode, t)
  BY <1>1, <1>4, <1>7
<1> QED BY <1>5, <1>6, <1>7

LEMMA QueueStep ==
  ASSUME TypeOK,
         \/ \E m \in Inbox : Receive(m)
         \/ NotifyMain \/ Interrupt \/ SignalLock \/ SignalNotify
         \/ Start \/ TestActive \/ LockMutex \/ Wait \/ SpuriousWakeup \/ CheckActive
         \/ CheckQueue \/ Dequeue \/ Release
  PROVE  TypeOK'
<1> USE ClientAssumption DEF ClientAssumption, TypeOK, InBody, Polling, Goto, receiverVars,
        signalVars, handlerVars, loopUnchanged, WakeMain
<1>1. ASSUME NEW m \in Inbox, Receive(m) PROVE TypeOK'
  BY <1>1 DEF Receive
<1>2. ASSUME NotifyMain PROVE TypeOK'
  BY <1>2 DEF NotifyMain
<1>3. ASSUME Interrupt PROVE TypeOK'
  <2>1. CASE pc = "starting"
    BY <1>3, <2>1 DEF Interrupt
  <2>2. CASE pc # "starting"
    BY <1>3, <2>2 DEF Interrupt
  <2> QED BY <2>1, <2>2
<1>4. ASSUME SignalLock PROVE TypeOK'
  BY <1>4 DEF SignalLock
<1>5. ASSUME SignalNotify PROVE TypeOK'
  BY <1>5 DEF SignalNotify
<1>6. ASSUME Start \/ TestActive \/ Release PROVE TypeOK'
  BY <1>6 DEF Start, TestActive, Release
<1>7. ASSUME LockMutex PROVE TypeOK'
  BY <1>7 DEF LockMutex
<1>8. ASSUME Wait \/ SpuriousWakeup PROVE TypeOK'
  BY <1>8 DEF Wait, SpuriousWakeup
<1>9. ASSUME CheckActive \/ CheckQueue PROVE TypeOK'
  BY <1>9 DEF CheckActive, CheckQueue, LeaveBody
<1>10. ASSUME Dequeue PROVE TypeOK'
  BY <1>10 DEF Dequeue
<1> QED BY <1>1, <1>2, <1>3, <1>4, <1>5, <1>6, <1>7, <1>8, <1>9, <1>10

LEMMA HandlerTypeStep ==
  ASSUME TypeOK, HandlePlain \/ HandleTimed \/ Poll \/ Act \/ HandlerReturn \/ Tick
  PROVE  TypeOK'
<1> USE ClientAssumption DEF ClientAssumption, TypeOK, InBody, Polling, Goto, receiverVars,
        signalVars, handlerVars, handlerUnchanged
<1>a. ClockGettime(now) \in Timespecs
  BY ClockReading
<1>b. message \in Messages =>
        message.mode \in Nat /\ message.start \in Timespecs
  BY MessageFields
<1>1. ASSUME HandlePlain PROVE TypeOK'
  <2>1. acks' \in Seq({"RM_CLIENT_SYNC_RECEIVE", "RM_CLIENT_SYNC_RECONFIGURE_DONE"})
    BY <1>1 DEF HandlePlain, Acked
  <2>2. told' \in [control : Controls, mode : Nat, timestamp : Timespecs]
    <3>1. message.mode \in Nat
      BY <1>1, <1>b DEF HandlePlain
    <3>2. \/ TellTimestamp(message.mode, ClockGettime(now))
          \/ TellMode(message.mode) \/ Tell("THREAD_STOP") \/ UNCHANGED told
      BY <1>1 DEF HandlePlain
    <3>3. "THREAD_STOP" \in Controls
      BY DEF Controls
    <3> QED BY <3>1, <3>2, <3>3, <1>a, ToldType
  <2>3. active' \in BOOLEAN
    BY <1>1 DEF HandlePlain
  <2> QED BY <1>1, <2>1, <2>2, <2>3 DEF HandlePlain
<1>2. ASSUME HandleTimed PROVE TypeOK'
  <2>1. acks' \in Seq({"RM_CLIENT_SYNC_RECEIVE", "RM_CLIENT_SYNC_RECONFIGURE_DONE"})
    BY <1>2 DEF HandleTimed, Acked
  <2> QED BY <1>2, <1>a, <2>1 DEF HandleTimed
<1>3. ASSUME Poll PROVE TypeOK'
  BY <1>3, <1>a DEF Poll
<1>4. ASSUME ActFirst PROVE TypeOK'
  <2>1. told' \in [control : Controls, mode : Nat, timestamp : Timespecs]
    <3>1. message.mode \in Nat /\ message.start \in Timespecs
      BY <1>4, <1>b DEF ActFirst
    <3>2. PICK control \in {"THREAD_PAUSED", "THREAD_TRANSMISSION_FINISH_OBJECT",
                            "THREAD_STOP"} :
            \/ TellTimestamp(message.mode, message.start) \/ TellMode(message.mode)
            \/ Tell(control)
      BY <1>4 DEF ActFirst, FirstEffect
    <3>3. control \in Controls
      BY <3>2 DEF Controls
    <3> QED BY <3>1, <3>2, <3>3, ToldType
  <2>2. active' \in BOOLEAN
    BY <1>4 DEF ActFirst
  <2> QED BY <1>4, <2>1, <2>2 DEF ActFirst
<1>5. ASSUME ActRestart PROVE TypeOK'
  <2>1. told' \in [control : Controls, mode : Nat, timestamp : Timespecs]
    BY <1>5, <1>b DEF ActRestart, RestartEffect, Tell, TellTimestamp, Controls
  <2> QED BY <1>5, <2>1 DEF ActRestart
<1>6. ASSUME SkipFirst \/ AwaitRestart PROVE TypeOK'
  BY <1>6 DEF SkipFirst, AwaitRestart
<1>7. ASSUME GiveUp(FirstTarget, "act") \/ GiveUp(message.start, "act_restart")
      PROVE  TypeOK'
  BY <1>7 DEF GiveUp
<1>8. ASSUME HandlerReturn PROVE TypeOK'
  BY <1>8 DEF HandlerReturn
<1>9. ASSUME Tick PROVE TypeOK'
  BY <1>9 DEF Tick
<1> QED BY <1>1, <1>2, <1>3, <1>4, <1>5, <1>6, <1>7, <1>8, <1>9 DEF Act

LEMMA TypeStep == TypeOK /\ [Next]_vars => TypeOK'
<1>1. ASSUME TypeOK, UNCHANGED vars PROVE TypeOK'
  BY <1>1 DEF TypeOK, vars, receiverVars, signalVars, handlerVars
<1> QED
  BY <1>1, QueueStep, HandlerTypeStep DEF Next, ReceiverStep, SignalStep, MainStep

-----------------------------------------------------------------------------
(* What a handler knows of the clock and of its message. *)

HandlerInv == PollInv /\ ResumeInv /\ WaitInv

(* Outside the handlers the invariant says nothing. *)
LEMMA Elsewhere ==
  ASSUME pc' \notin Polling \cup {"handled"} PROVE HandlerInv'
  BY DEF HandlerInv, PollInv, ResumeInv, WaitInv, Polling

LEMMA Framed ==
  ASSUME HandlerInv, UNCHANGED <<pc, message, handlerVars, told, now>> PROVE HandlerInv'
<1>1. /\ UNCHANGED <<pc, message, time_now, first_done, restarted, entered, told, now>>
      /\ FirstTarget' = FirstTarget
  BY DEF handlerVars, FirstTarget
<1> QED
  BY <1>1 DEF HandlerInv, PollInv, ResumeInv, WaitInv, InTime, Room, Valid, Passed, Total

LEMMA QueueKeepsHandlers ==
  ASSUME TypeOK, HandlerInv,
         \/ \E m \in Inbox : Receive(m)
         \/ NotifyMain \/ Interrupt \/ SignalLock \/ SignalNotify
         \/ Start \/ TestActive \/ LockMutex \/ Wait \/ SpuriousWakeup \/ CheckActive
         \/ CheckQueue \/ Dequeue \/ Release \/ HandlerReturn
  PROVE  HandlerInv'
<1>1. CASE (\E m \in Inbox : Receive(m)) \/ SignalLock
  <2>1. UNCHANGED <<pc, message, handlerVars, told, now>>
    BY <1>1 DEF Receive, SignalLock
  <2> QED BY <2>1, Framed
<1>2. CASE NotifyMain \/ SignalNotify \/ Interrupt
  <2>1. \/ UNCHANGED <<pc, message, handlerVars, told, now>>
        \/ pc' \in {"woken", "exited"}
    BY <1>2 DEF NotifyMain, SignalNotify, Interrupt, WakeMain
  <2>2. CASE pc' \in {"woken", "exited"}
    <3>1. pc' \notin Polling \cup {"handled"}
      BY <2>2 DEF Polling
    <3> QED BY <3>1, Elsewhere
  <2> QED BY <2>1, <2>2, Framed
<1>3. CASE \/ Start \/ TestActive \/ LockMutex \/ Wait \/ SpuriousWakeup \/ CheckActive
           \/ CheckQueue \/ Dequeue \/ Release \/ HandlerReturn
  <2>1. pc' \notin Polling \cup {"handled"}
    BY <1>3 DEF Start, TestActive, LockMutex, Wait, SpuriousWakeup, CheckActive, CheckQueue,
                LeaveBody, Dequeue, Release, HandlerReturn, Goto, Polling
  <2> QED BY <2>1, Elsewhere
<1> QED BY <1>1, <1>2, <1>3

(* A handler starts: it has polled just now, and nothing is done. *)
LEMMA EnterKeeps ==
  ASSUME TypeOK, HandlerInv, HandlePlain \/ HandleTimed PROVE HandlerInv'
<1> USE ClientAssumption DEF ClientAssumption
<1>1. CASE HandlePlain
  <2>1. /\ pc' = "handled" /\ message' = message
        /\ message.type \notin TimedTypes
    BY <1>1 DEF HandlePlain, Goto, handlerUnchanged
  <2>2. message.type \notin InterruptingTypes
    BY <2>1 DEF TimedTypes, InterruptingTypes
  <2> QED BY <2>1, <2>2 DEF HandlerInv, PollInv, ResumeInv, WaitInv, Polling
<1>2. CASE HandleTimed
  <2>1. /\ pc = "dispatch" /\ pc' = "act" /\ message' = message /\ now' = now /\ ~first_done'
        /\ entered' = now /\ time_now' = ClockGettime(now)
    BY <1>2 DEF HandleTimed, Goto, handlerUnchanged
  <2>2. now \in Nat /\ message \in Messages
    BY <2>1 DEF TypeOK
  <2>3. FirstTarget' = FirstTarget /\ FirstTarget \in Timespecs
    BY <2>1, <2>2, FirstTargetType DEF FirstTarget
  <2>4. PollInv'
    <3>1. Total(ClockGettime(now)) = now
      BY <2>2, ClockReading
    <3>2. Total(time_now)' = now' /\ time_now'.sec \in Nat /\ time_now'.ms \in 0..999
      BY <2>1, <2>2, <3>1, ClockReading DEF Total
    <3> QED BY <2>1, <2>2, <3>2 DEF PollInv
  <2>5. ResumeInv'
    BY <2>1 DEF ResumeInv
  <2>6. WaitInv'
    <3> SUFFICES ASSUME FirstTarget.sec # 0, now < 1000 * (FirstTarget.sec + 1)
                 PROVE  FirstTarget.sec >= ClockGettime(now).sec
      BY <2>1, <2>3 DEF WaitInv, InTime, Valid
    <3>1. FirstTarget.sec \in Int
      BY <2>3 DEF Timespecs
    <3> QED BY <3>1, <2>2 DEF ClockGettime
  <2> QED BY <2>4, <2>5, <2>6 DEF HandlerInv
<1> QED BY <1>1, <1>2

(* Another poll accepts what the last one has not seen pass. *)
LEMMA PollKeeps ==
  ASSUME TypeOK, HandlerInv, Poll PROVE HandlerInv'
<1> USE ClientAssumption DEF ClientAssumption
<1>1. /\ pc = "poll" /\ pc' = "act" /\ message' = message /\ now' = now
      /\ UNCHANGED <<first_done, restarted, entered, told>>
      /\ time_now' = ClockGettime(now)
  BY DEF Poll, Goto, handlerUnchanged
<1>2. now \in Nat /\ message \in Messages /\ message.type \in TimedTypes
  BY <1>1 DEF TypeOK, Polling
<1>3. /\ FirstTarget' = FirstTarget /\ FirstTarget \in Timespecs
      /\ message.start \in Timespecs
  BY <1>1, <1>2, FirstTargetType, MessageFields DEF FirstTarget
<1>4. /\ time_now.sec \in Nat /\ time_now.ms \in 0..999
      /\ Total(time_now) <= now /\ now - Total(time_now) <= MaxStall /\ MaxStall \in Nat
  BY <1>1 DEF HandlerInv, PollInv, Polling
<1>5. ASSUME NEW t \in Timespecs, Room(t), Valid(t), ~Passed(t)
      PROVE  t.sec # 0 /\ t.sec >= ClockGettime(now).sec
  BY <1>2, <1>4, <1>5, NextPollAccepts
<1>6. PollInv'
  <2>1. Total(ClockGettime(now)) = now
    BY <1>2, ClockReading
  <2>2. Total(time_now)' = now' /\ time_now'.sec \in Nat /\ time_now'.ms \in 0..999
    BY <1>1, <1>2, <2>1, ClockReading DEF Total
  <2> QED BY <1>1, <1>2, <2>2 DEF PollInv
<1>7. ResumeInv'
  BY <1>1, <1>3, <1>5 DEF HandlerInv, ResumeInv, Room, Valid
<1>8. WaitInv'
  BY <1>1, <1>3, <1>5 DEF HandlerInv, WaitInv, InTime, Room, Valid
<1> QED BY <1>6, <1>7, <1>8 DEF HandlerInv

LEMMA ActKeeps ==
  ASSUME TypeOK, HandlerInv, Act PROVE HandlerInv'
<1>1. /\ UNCHANGED <<message, now, time_now, entered>> /\ pc \in {"act", "act_restart"}
  BY DEF Act, ActFirst, SkipFirst, GiveUp, ActRestart, AwaitRestart, Goto, handlerUnchanged,
         handlerVars
<1>2. message \in Messages /\ message.type \in TimedTypes
  BY <1>1 DEF TypeOK, Polling
<1>3. /\ FirstTarget' = FirstTarget /\ FirstTarget \in Timespecs
      /\ message.start \in Timespecs
  BY <1>1, <1>2, FirstTargetType, MessageFields DEF FirstTarget
<1>4. /\ time_now.sec \in Nat /\ time_now.ms \in 0..999
      /\ Total(time_now) <= now /\ now - Total(time_now) <= MaxStall
      /\ pc = "act_restart" => message.type \in InterruptingTypes
  BY <1>1 DEF HandlerInv, PollInv, Polling
<1>5. PollInv'
  <2>1. pc' = "act_restart" => message.type \in InterruptingTypes
    BY <1>1, <1>4 DEF Act, ActFirst, SkipFirst, GiveUp, ActRestart, AwaitRestart, Goto
  <2> QED BY <1>1, <1>4, <2>1 DEF PollInv, Polling, Total
<1>6. ASSUME FirstTarget.sec <= message.start.sec, Valid(FirstTarget)
      PROVE  Valid(message.start)
  BY <1>3, <1>4, <1>6 DEF Valid, Timespecs
<1>7. \A t \in {FirstTarget, message.start} :
        (Valid(t) <=> Valid(t)') /\ (Passed(t) <=> Passed(t)')
  BY <1>1, <1>3 DEF Valid, Passed
<1>8. ResumeInv'
  <2> SUFFICES ASSUME message.type \in InterruptingTypes, first_done',
                      FirstTarget.sec <= message.start.sec, Room(message.start)
               PROVE  /\ pc' = "poll" => Valid(message.start) /\ ~Passed(message.start)
                      /\ pc' \in {"act", "act_restart"} => Valid(message.start)
                      /\ pc' = "handled" => told'.control = "THREAD_TRANSMISSION" /\ restarted'
    BY <1>1, <1>3 DEF ResumeInv, Room, Valid, Passed
  <2>1. first_done => Valid(message.start)
    BY <1>1 DEF HandlerInv, ResumeInv
  <2>2. CASE ActFirst
    BY <1>6, <2>2 DEF ActFirst, Goto
  <2>3. CASE SkipFirst
    BY <2>1, <2>3 DEF SkipFirst, Goto, handlerVars
  <2>4. CASE ~first_done /\ GiveUp(FirstTarget, "act")
    BY <2>4 DEF GiveUp, handlerVars
  <2>5. CASE ActRestart
    <3>1. told' \in {[told EXCEPT !.control = "THREAD_TRANSMISSION"],
                     [control |-> "THREAD_TRANSMISSION", mode |-> message.mode,
                      timestamp |-> message.start]}
      BY <2>5 DEF ActRestart, RestartEffect, Tell, TellTimestamp
    <3>2. told'.control = "THREAD_TRANSMISSION"
      BY <3>1 DEF TypeOK
    <3> QED BY <2>5, <3>2 DEF ActRestart, Goto
  <2>6. CASE AwaitRestart
    BY <2>6 DEF AwaitRestart, Goto
  <2>7. CASE GiveUp(message.start, "act_restart")
    BY <2>1, <2>7 DEF GiveUp, handlerVars
  <2> QED BY <2>2, <2>3, <2>4, <2>5, <2>6, <2>7 DEF Act
<1>9. WaitInv'
  <2> SUFFICES ASSUME ~first_done', InTime
               PROVE  /\ pc' \in {"poll", "act_restart"} =>
                            Valid(FirstTarget) /\ ~Passed(FirstTarget)
                      /\ pc' = "act" => Valid(FirstTarget)
                      /\ pc' = "handled" => message.type \in InterruptingTypes /\ restarted'
    BY <1>1, <1>3 DEF WaitInv, InTime, Room, Valid, Passed
  <2>1. ~first_done =>
           /\ Valid(FirstTarget)
           /\ pc = "act_restart" => ~Passed(FirstTarget)
    BY <1>1, <1>2 DEF HandlerInv, WaitInv
  <2>2. CASE ActFirst
    BY <2>2 DEF ActFirst
  <2>3. CASE SkipFirst
    BY <2>1, <2>3 DEF SkipFirst, Goto, handlerVars
  <2>4. CASE ~first_done /\ GiveUp(FirstTarget, "act")
    BY <2>1, <2>4 DEF GiveUp
  <2>5. CASE ActRestart
    BY <1>4, <2>5 DEF ActRestart, Goto
  <2>6. CASE AwaitRestart
    BY <2>1, <2>6 DEF AwaitRestart, Goto, handlerVars
  <2>7. CASE GiveUp(message.start, "act_restart")
    <3>1. message.type \in InterruptingTypes
      BY <1>4, <2>7 DEF GiveUp, Goto
    <3> QED BY <1>6, <2>1, <2>7, <3>1 DEF GiveUp, InTime, handlerVars
  <2> QED BY <2>2, <2>3, <2>4, <2>5, <2>6, <2>7 DEF Act
<1> QED BY <1>5, <1>8, <1>9 DEF HandlerInv

(* The clock goes on, no further than the next poll. *)
LEMMA TickKeeps ==
  ASSUME TypeOK, HandlerInv, Tick PROVE HandlerInv'
<1>1. UNCHANGED <<pc, message, time_now, first_done, restarted, entered, told>>
  BY DEF Tick, handlerVars
<1>2. PICK d \in Ticks : now' = now + d /\ (pc \in Polling => now + d - Total(time_now) <= MaxStall)
  BY DEF Tick
<1>3. now \in Nat /\ d \in Nat
  BY ClientAssumption DEF ClientAssumption, TypeOK
<1>4. FirstTarget' = FirstTarget
  BY <1>1 DEF FirstTarget
<1>5. PollInv'
  <2> SUFFICES ASSUME pc \in Polling
               PROVE  /\ time_now.sec \in Nat /\ time_now.ms \in 0..999
                      /\ Total(time_now) <= now' /\ now' - Total(time_now) <= MaxStall
                      /\ pc = "act_restart" => message.type \in InterruptingTypes
    BY <1>1 DEF PollInv, Total
  <2>1. /\ time_now.sec \in Nat /\ time_now.ms \in 0..999 /\ Total(time_now) <= now
        /\ pc = "act_restart" => message.type \in InterruptingTypes
    BY DEF HandlerInv, PollInv
  <2>2. Total(time_now) \in Int
    <3>1. time_now.sec \in Int /\ time_now.ms \in Int
      BY <2>1
    <3> QED BY <3>1 DEF Total
  <2> QED BY <1>2, <1>3, <2>1, <2>2
<1>6. ResumeInv' /\ WaitInv'
  BY <1>1, <1>4 DEF HandlerInv, ResumeInv, WaitInv, InTime, Room, Valid, Passed
<1> QED BY <1>5, <1>6 DEF HandlerInv

-----------------------------------------------------------------------------
LEMMA InvInit == Init => TypeOK /\ HandlerInv
<1>1. Init => HandlerInv
  BY DEF Init, HandlerInv, PollInv, ResumeInv, WaitInv, Polling
<1> QED BY <1>1, TypeInit

LEMMA InvStep == TypeOK /\ HandlerInv /\ [Next]_vars => TypeOK' /\ HandlerInv'
<1>1. ASSUME HandlerInv, UNCHANGED vars PROVE HandlerInv'
  BY <1>1, Framed DEF vars
<1> QED
  BY <1>1, TypeStep, QueueKeepsHandlers, EnterKeeps, PollKeeps, ActKeeps, TickKeeps
     DEF Next, ReceiverStep, SignalStep, MainStep

THEOREM Invariance == Spec => [](TypeOK /\ HandlerInv)
  BY InvInit, InvStep, PTL DEF Spec

(* Every variable has its type, and cv_mutex is held in the body of the    *)
(* loop and nowhere else, for any messages.                                *)
THEOREM TypeCorrect == Spec => []TypeOK
  BY Invariance, PTL

(* No handler leaves the generator interrupted, whatever its timestamps    *)
(* are, if its polls are less than the rest of the restart's second apart. *)
THEOREM GeneratorKeptGoing == Spec => []GeneratorResumed
<1>1. TypeOK /\ HandlerInv => GeneratorResumed
  BY DEF HandlerInv, ResumeInv, GeneratorResumed
<1> QED BY <1>1, Invariance, PTL

(* Every message in time is obeyed, whatever its timestamps are. *)
THEOREM HandlerObeys == Spec => []ObeyedInTime
<1>1. ASSUME HandlerInv PROVE ObeyedInTime
  <2> SUFFICES ASSUME pc = "handled", message.type \in TimedTypes, InTime
               PROVE  IF message.type \in InterruptingTypes THEN restarted ELSE first_done
    BY DEF ObeyedInTime
  <2>1. CASE first_done
    BY <1>1, <2>1 DEF HandlerInv, ResumeInv, InTime
  <2>2. CASE ~first_done
    BY <1>1, <2>2 DEF HandlerInv, WaitInv
  <2> QED BY <2>1, <2>2
<1> QED BY <1>1, Invariance, PTL

-----------------------------------------------------------------------------
(* The generator is told nothing before its time, whatever the timestamps  *)
(* and however the clock steps.                                            *)
THEOREM NothingEarly == Spec => NeverEarly
<1> DEFINE Due == Total(IF message.type \in InterruptingTypes
                             /\ told'.control = "THREAD_TRANSMISSION"
                        THEN message.start ELSE FirstTarget)
<1>1. ASSUME TypeOK, HandlerInv, Next, told' # told, message.type \in TimedTypes
      PROVE  Due < now
  <2>1. ActFirst \/ ActRestart
    BY <1>1 DEF Next, ReceiverStep, SignalStep, MainStep, Act, Receive, NotifyMain, Interrupt,
                SignalLock, SignalNotify, Start, TestActive, LockMutex, Wait, SpuriousWakeup,
                CheckActive, CheckQueue, LeaveBody, Dequeue, HandlePlain, HandleTimed, Poll,
                SkipFirst, GiveUp, AwaitRestart, HandlerReturn, Release, Tick, loopUnchanged
  <2>2. pc \in {"act", "act_restart"}
    BY <2>1 DEF ActFirst, ActRestart, Goto
  <2>3. /\ message \in Messages /\ time_now \in Timespecs /\ now \in Nat
        /\ Total(time_now) <= now
        /\ pc = "act_restart" => message.type \in InterruptingTypes
    BY <1>1, <2>2 DEF TypeOK, HandlerInv, PollInv, Polling
  <2>4. FirstTarget \in Timespecs /\ message.start \in Timespecs
    BY <2>3, FirstTargetType, MessageFields
  <2>5. \A t \in Timespecs : Valid(t) /\ Passed(t) => Total(t) < now
    <3> TAKE t \in Timespecs
    <3>1. Total(t) \in Int /\ Total(time_now) \in Int
      BY <2>3 DEF Timespecs, Total
    <3> QED BY <2>3, <3>1, PassedIsPast
  <2>6. CASE ActFirst
    <3>1. ASSUME message.type \in InterruptingTypes
          PROVE  told' \in {[told EXCEPT !.control = "THREAD_PAUSED"],
                            [told EXCEPT !.control = "THREAD_TRANSMISSION_FINISH_OBJECT"]}
      BY <2>6, <3>1 DEF ActFirst, FirstEffect, InterruptingTypes, Tell
    <3>2. message.type \in InterruptingTypes => told'.control # "THREAD_TRANSMISSION"
      BY <1>1, <3>1 DEF TypeOK
    <3> QED BY <2>4, <2>5, <2>6, <3>2 DEF ActFirst
  <2>7. CASE ActRestart
    <3>1. message.type \in InterruptingTypes
      BY <2>3, <2>7 DEF ActRestart, Goto
    <3>2. told' \in {[told EXCEPT !.control = "THREAD_TRANSMISSION"],
                     [control |-> "THREAD_TRANSMISSION", mode |-> message.mode,
                      timestamp |-> message.start]}
      BY <2>7 DEF ActRestart, RestartEffect, Tell, TellTimestamp
    <3>3. told'.control = "THREAD_TRANSMISSION"
      BY <1>1, <3>2 DEF TypeOK
    <3> QED BY <2>4, <2>5, <2>7, <3>1, <3>3 DEF ActRestart
  <2> QED BY <2>1, <2>6, <2>7
<1>2. TypeOK /\ HandlerInv /\ [Next]_vars =>
        [told' # told /\ message.type \in TimedTypes => Due < now]_vars
  BY <1>1
<1> QED BY <1>2, Invariance, PTL DEF Spec, NeverEarly
=============================================================================
