---------------------- MODULE EndnodeRefinementProofs ----------------------
(***************************************************************************)
(* The end node's program implements TimedClient, for every set of         *)
(* messages and any steps of the clock.                                    *)
(***************************************************************************)
EXTENDS EndnodeClientProofs, SequenceTheorems

(* The client's state as TimedClient sees it. *)
Waiting == IF pc = "dispatch" THEN <<message>> \o rm_client_out_queue ELSE rm_client_out_queue
Current == IF pc \in Polling THEN message ELSE NoMessage
DoneOf == IF pc \in Polling /\ first_done THEN 1 ELSE 0
LeftOf == (DoneOf + 1)..Len(EndnodeTargets(message))

(* No poll is late for a timestamp that is left: it follows one that saw   *)
(* the timestamp ahead, or it is the first.  And before the next poll      *)
(* every timestamp that is left has been looked at.                        *)
LateInv ==
    pc \in Polling =>
        \A k \in LeftOf :
            LET last == Total(time_now)
                due  == Total(EndnodeTargets(message)[k])
            IN  /\ last <= entered \/ last <= due + MaxStall
                /\ pc = "poll" \/ (pc = "act_restart" /\ k = 1) => last <= due

-----------------------------------------------------------------------------
(* Timestamps. *)

(* What a handler waits for, one after the other. *)
LEMMA TargetsOf ==
  ASSUME message \in Messages, message.type \in TimedTypes
  PROVE  EndnodeTargets(message) = IF message.type \in InterruptingTypes
                                   THEN <<FirstTarget, message.start>> ELSE <<FirstTarget>>
  BY DEF EndnodeTargets, FirstTarget, InterruptingTypes, TimedTypes

LEMMA LeftRange ==
  ASSUME message \in Messages, message.type \in TimedTypes, pc \in Polling
  PROVE  LeftOf = (IF first_done THEN {} ELSE {1})
                  \cup (IF message.type \in InterruptingTypes THEN {2} ELSE {})
<1>a. DoneOf = IF first_done THEN 1 ELSE 0
  BY DEF DoneOf
<1>1. CASE message.type \in InterruptingTypes
  <2>1. Len(EndnodeTargets(message)) = 2
    BY <1>1, TargetsOf
  <2>2. LeftOf = (DoneOf + 1)..2
    BY <2>1 DEF LeftOf
  <2> QED BY <1>1, <1>a, <2>2
<1>2. CASE message.type \notin InterruptingTypes
  <2>1. Len(EndnodeTargets(message)) = 1
    BY <1>2, TargetsOf
  <2>2. LeftOf = (DoneOf + 1)..1
    BY <2>1 DEF LeftOf
  <2> QED BY <1>2, <1>a, <2>2
<1> QED BY <1>1, <1>2

LEMMA NoTargets ==
  ASSUME message \in Messages, message.type \notin TimedTypes
  PROVE  EndnodeTargets(message) = <<>>
  BY DEF EndnodeTargets, Messages, TimedTypes, PlainTypes, LoggedTypes, UnknownTypes

LEMMA TargetStamps ==
  ASSUME message \in Messages
  PROVE  FirstTarget \in Stamps /\ message.start \in Stamps
  BY DEF FirstTarget, Messages

LEMMA TotalType ==
  ASSUME NEW t \in Timespecs PROVE Total(t) \in Int
  BY DEF Timespecs, Total

(* A timestamp that has not passed at a poll lies after it. *)
LEMMA AheadOfPoll ==
  ASSUME NEW t \in Stamps, time_now.sec \in Nat, time_now.ms \in 0..999, ~Passed(t)
  PROVE  Total(time_now) <= Total(t)
<1>1. /\ t.sec \in Int /\ t.ms \in Int /\ t.ms >= 0 /\ time_now.sec \in Int
      /\ time_now.ms \in Int /\ time_now.ms <= 999
  BY DEF Stamps
<1>2. time_now.sec < t.sec \/ (time_now.sec = t.sec /\ time_now.ms <= t.ms)
  BY <1>1 DEF Passed
<1>3. CASE time_now.sec < t.sec
  BY <1>1, <1>3 DEF Total
<1>4. CASE time_now.sec = t.sec /\ time_now.ms <= t.ms
  BY <1>1, <1>4 DEF Total
<1> QED BY <1>2, <1>3, <1>4

(* What is done after a poll that accepts a timestamp is done in time, and *)
(* what a poll does not accept has expired.                                *)
LEMMA PassedIsDue ==
  ASSUME NEW t \in Stamps, time_now.sec \in Nat, time_now.ms \in 0..999, now \in Nat,
         MaxStall \in Nat, Total(time_now) <= now, now - Total(time_now) <= MaxStall,
         Valid(t), Passed(t)
  PROVE  t.sec # 0 /\ Total(t) < now /\ now < 1000 * (t.sec + 1) + MaxStall
<1>1. /\ t.sec \in Int /\ t.ms \in Int /\ time_now.sec \in Int
      /\ time_now.ms \in Int /\ time_now.ms <= 999
  BY SMTT(30) DEF Stamps
<1>2. t.sec # 0 /\ t.sec = time_now.sec /\ time_now.ms > t.ms
  BY <1>1 DEF Valid, Passed
<1> QED BY <1>1, <1>2 DEF Total

LEMMA InvalidIsExpired ==
  ASSUME NEW t \in Stamps, time_now.sec \in Nat, time_now.ms \in 0..999, now \in Nat,
         Total(time_now) <= now, ~Valid(t)
  PROVE  t.sec = 0 \/ 1000 * (t.sec + 1) <= now
<1>1. t.sec \in Int
  BY DEF Stamps
<1>2. t.sec = 0 \/ t.sec + 1 <= time_now.sec
  BY <1>1 DEF Valid
<1> QED BY <1>1, <1>2, SMTT(30) DEF Total

-----------------------------------------------------------------------------
(* No poll is late. *)

LEMMA LateElsewhere ==
  ASSUME pc' \notin Polling PROVE LateInv'
  BY DEF LateInv, Polling

LEMMA LateFramed ==
  ASSUME LateInv, UNCHANGED <<pc, message, time_now, first_done, entered>> PROVE LateInv'
  BY DEF LateInv, LeftOf, DoneOf, Total

(* A handler starts, or polls again. *)
LEMMA LatePoll ==
  ASSUME TypeOK, HandlerInv, LateInv, HandleTimed \/ Poll PROVE LateInv'
<1>1. CASE HandleTimed
  <2>1. now \in Nat /\ pc' = "act" /\ entered' = now /\ time_now' = ClockGettime(now)
    BY <1>1 DEF HandleTimed, Goto, TypeOK
  <2>2. Total(time_now)' = now
    BY <2>1, ClockReading DEF Total
  <2> QED BY <2>1, <2>2 DEF LateInv
<1>2. CASE Poll
  <2>1. /\ now \in Nat /\ pc = "poll" /\ pc' = "act" /\ time_now' = ClockGettime(now)
        /\ UNCHANGED <<message, first_done, entered>>
    BY <1>2 DEF Poll, Goto, handlerUnchanged, TypeOK
  <2>2. Total(time_now)' = now
    BY <2>1, ClockReading DEF Total
  <2>3. /\ message \in Messages /\ message.type \in TimedTypes /\ MaxStall \in Nat
        /\ now - Total(time_now) <= MaxStall /\ time_now \in Timespecs
    BY <2>1, ClientAssumption DEF ClientAssumption, HandlerInv, PollInv, TypeOK, Polling
  <2>4. DoneOf' = DoneOf /\ LeftOf' = LeftOf /\ EndnodeTargets(message)' = EndnodeTargets(message)
    BY <2>1 DEF DoneOf, LeftOf, Polling
  <2>5. ASSUME NEW k \in LeftOf PROVE now <= Total(EndnodeTargets(message)[k]) + MaxStall
    <3>1. Total(time_now) <= Total(EndnodeTargets(message)[k])
      BY <2>1 DEF LateInv, Polling
    <3>2. k = 1 \/ (k = 2 /\ message.type \in InterruptingTypes)
      BY <2>1, <2>3, LeftRange DEF Polling
    <3>3. EndnodeTargets(message)[k] \in Timespecs
      BY <2>3, <3>2, TargetsOf, FirstTargetType, MessageFields
    <3>4. Total(EndnodeTargets(message)[k]) \in Int /\ Total(time_now) \in Int
      BY <2>3, <3>3, TotalType
    <3> QED BY <2>1, <2>3, <3>1, <3>4
  <2> QED BY <2>1, <2>2, <2>4, <2>5 DEF LateInv
<1> QED BY <1>1, <1>2

(* A look at the poll: what is left and was looked at lies ahead of it. *)
LEMMA LateAct ==
  ASSUME TypeOK, HandlerInv, LateInv, Act PROVE LateInv'
<1>1. UNCHANGED <<message, time_now, entered>> /\ pc \in {"act", "act_restart"}
  BY DEF Act, ActFirst, SkipFirst, GiveUp, ActRestart, AwaitRestart, Goto, handlerUnchanged,
         handlerVars
<1>2. /\ message \in Messages /\ message.type \in TimedTypes
      /\ time_now.sec \in Nat /\ time_now.ms \in 0..999
      /\ pc = "act_restart" => message.type \in InterruptingTypes
  BY <1>1 DEF TypeOK, HandlerInv, PollInv, Polling
<1>3. /\ EndnodeTargets(message)' = EndnodeTargets(message)
      /\ EndnodeTargets(message)[1] = FirstTarget
      /\ message.type \in InterruptingTypes =>
            Len(EndnodeTargets(message)) = 2 /\ EndnodeTargets(message)[2] = message.start
      /\ message.type \notin InterruptingTypes => Len(EndnodeTargets(message)) = 1
  BY <1>1, <1>2, TargetsOf
<1>4. FirstTarget \in Stamps /\ message.start \in Stamps
  BY <1>2, TargetStamps
<1>5. \A t \in {FirstTarget, message.start} : ~Passed(t) => Total(time_now) <= Total(t)
  BY <1>2, <1>4, AheadOfPoll
<1>6. LeftOf \subseteq 1..2 /\ (first_done => 1 \notin LeftOf)
  BY <1>1, <1>2, LeftRange DEF Polling
<1>7. ASSUME pc' = "handled" PROVE LateInv'
  <2>1. pc' \notin Polling
    BY <1>7 DEF Polling
  <2> QED BY <2>1, LateElsewhere
<1>8. CASE ActFirst
  <2>1. CASE message.type \in InterruptingTypes
    <3>1. pc' = "act_restart" /\ first_done' /\ ~first_done /\ pc = "act"
      BY <1>8, <2>1 DEF ActFirst, Goto
    <3>2. LeftOf' \subseteq LeftOf /\ 1 \notin LeftOf'
      BY <1>1, <1>3, <3>1 DEF LeftOf, DoneOf, Polling
    <3> QED BY <1>1, <1>3, <3>1, <3>2 DEF LateInv, Polling, Total
  <2>2. CASE message.type \notin InterruptingTypes
    BY <1>7, <1>8, <2>2 DEF ActFirst, Goto
  <2> QED BY <2>1, <2>2
<1>9. CASE SkipFirst
  <2>1. /\ pc = "act" /\ first_done' = first_done
        /\ pc' = IF message.type \in InterruptingTypes THEN "act_restart" ELSE "poll"
        /\ first_done \/ ~Passed(FirstTarget)
    BY <1>9 DEF SkipFirst, Goto, handlerVars
  <2>2. LeftOf' = LeftOf
    BY <1>1, <2>1 DEF LeftOf, DoneOf, Polling
  <2>3. 1 \in LeftOf => Total(time_now) <= Total(EndnodeTargets(message)[1])
    BY <1>3, <1>5, <1>6, <2>1
  <2>4. message.type \notin InterruptingTypes => LeftOf \subseteq {1}
    BY <1>1, <1>2, LeftRange DEF Polling
  <2> QED BY <1>1, <1>3, <2>1, <2>2, <2>3, <2>4 DEF LateInv, Polling, Total
<1>10. CASE AwaitRestart
  <2>1. /\ pc = "act_restart" /\ pc' = "poll" /\ first_done' = first_done
        /\ ~Passed(message.start)
    BY <1>10 DEF AwaitRestart, Goto, handlerVars
  <2>2. LeftOf' = LeftOf
    BY <1>1, <2>1 DEF LeftOf, DoneOf, Polling
  <2>3. \A k \in LeftOf : Total(time_now) <= Total(EndnodeTargets(message)[k])
    <3>1. 1 \in LeftOf => Total(time_now) <= Total(EndnodeTargets(message)[1])
      BY <2>1 DEF LateInv, Polling
    <3>2. Total(time_now) <= Total(EndnodeTargets(message)[2])
      BY <1>2, <1>3, <1>5, <2>1
    <3> QED BY <1>6, <3>1, <3>2
  <2> QED BY <1>1, <1>3, <2>1, <2>2, <2>3 DEF LateInv, Polling, Total
<1>11. CASE ActRestart \/ GiveUp(FirstTarget, "act") \/ GiveUp(message.start, "act_restart")
  BY <1>7, <1>11 DEF ActRestart, GiveUp, Goto
<1> QED BY <1>8, <1>9, <1>10, <1>11 DEF Act

LEMMA LateStep ==
  ASSUME TypeOK, HandlerInv, LateInv, [Next]_vars PROVE LateInv'
<1>1. CASE HandleTimed \/ Poll
  BY <1>1, LatePoll
<1>2. CASE Act
  BY <1>2, LateAct
<1>3. CASE UNCHANGED vars \/ Tick \/ SignalLock \/ \E m \in Inbox : Receive(m)
  <2>1. UNCHANGED <<pc, message, time_now, first_done, entered>>
    BY <1>3 DEF vars, handlerVars, Tick, SignalLock, Receive
  <2> QED BY <2>1, LateFramed
<1>4. CASE NotifyMain \/ SignalNotify \/ Interrupt
  <2>1. \/ UNCHANGED <<pc, message, time_now, first_done, entered>>
        \/ pc' \in {"woken", "exited"}
    BY <1>4 DEF NotifyMain, SignalNotify, Interrupt, WakeMain, handlerVars
  <2>2. CASE pc' \in {"woken", "exited"}
    <3>1. pc' \notin Polling
      BY <2>2 DEF Polling
    <3> QED BY <3>1, LateElsewhere
  <2> QED BY <2>1, <2>2, LateFramed
<1>5. CASE \/ Start \/ TestActive \/ LockMutex \/ Wait \/ SpuriousWakeup \/ CheckActive
           \/ CheckQueue \/ Dequeue \/ HandlePlain \/ HandlerReturn \/ Release
  <2>1. pc' \notin Polling
    BY <1>5 DEF Start, TestActive, LockMutex, Wait, SpuriousWakeup, CheckActive, CheckQueue,
                LeaveBody, Dequeue, HandlePlain, Release, HandlerReturn, Goto, Polling
  <2> QED BY <2>1, LateElsewhere
<1> QED BY <1>1, <1>2, <1>3, <1>4, <1>5 DEF Next, ReceiverStep, SignalStep, MainStep

-----------------------------------------------------------------------------
(* The steps of TimedClient, in terms of the client's state. *)

LEMMA OfOne ==
  ASSUME NEW v, NEW w
  PROVE  Of(v)[Endnode] = v /\ [Of(v) EXCEPT ![Endnode] = w] = Of(w)
  BY DEF Of

LEMMA SideStutter ==
  ASSUME UNCHANGED <<Waiting, Current, DoneOf, entered, told, now>>
  PROVE  UNCHANGED Side!vars
  BY DEF Side!vars, Waiting, Current, DoneOf, Of

LEMMA SideArrive ==
  ASSUME NEW m \in Inbox, Waiting' = Append(Waiting, m),
         UNCHANGED <<Current, DoneOf, entered, told, now>>
  PROVE  Side!Next
<1>1. Side!Arrive(Endnode, m)
  BY OfOne DEF Side!Arrive, Waiting, Current, DoneOf, Of
<1> QED BY <1>1 DEF Side!Next

LEMMA SideHandleAtOnce ==
  ASSUME Current = NoMessage, Waiting # <<>>, EndnodeTargets(Head(Waiting)) = <<>>,
         Waiting' = Tail(Waiting), told' = Effect(Endnode, Head(Waiting), 0, told, now),
         UNCHANGED <<Current, DoneOf, entered, now>>
  PROVE  Side!Next
<1>1. Side!HandleAtOnce(Endnode)
  BY OfOne DEF Side!HandleAtOnce, Side!Idle, Side!Oldest, Targets, Waiting, Current, DoneOf, Of
<1> QED BY <1>1 DEF Side!Next, Side!ClientStep

LEMMA SideBegin ==
  ASSUME Current = NoMessage, Waiting # <<>>, EndnodeTargets(Head(Waiting)) # <<>>,
         Waiting' = Tail(Waiting), Current' = Head(Waiting), entered' = now,
         UNCHANGED <<DoneOf, told, now>>
  PROVE  Side!Next
<1>1. Side!Begin(Endnode)
  BY OfOne DEF Side!Begin, Side!Idle, Side!Oldest, Targets, Waiting, Current, DoneOf, Of
<1> QED BY <1>1 DEF Side!Next, Side!ClientStep

LEMMA SideAct ==
  ASSUME Current # NoMessage,
         NEW k \in (DoneOf + 1)..Len(EndnodeTargets(Current)),
         LET t == EndnodeTargets(Current)[k]
         IN  t.sec # 0 /\ Total(t) < now /\ now < 1000 * (t.sec + 1) + MaxStall,
         told' = Effect(Endnode, Current, k, told, now),
         IF k = Len(EndnodeTargets(Current)) THEN Current' = NoMessage /\ DoneOf' = 0
                                             ELSE Current' = Current /\ DoneOf' = k,
         UNCHANGED <<Waiting, entered, now>>
  PROVE  Side!Next
<1>1. Of(Current)[Endnode] = Current /\ Of(DoneOf)[Endnode] = DoneOf /\ Of(told)[Endnode] = told
  BY OfOne
<1>2. k \in Side!Left(Endnode) /\ Side!Target(Endnode, k) = EndnodeTargets(Current)[k]
  BY <1>1 DEF Side!Left, Side!Target, Targets, Current, DoneOf
<1>3. Side!Due(Side!Target(Endnode, k))
  BY <1>2 DEF Side!Due, Side!Total, Total
<1>4. Of(told)' = [Of(told) EXCEPT ![Endnode] = Effect(Endnode, Of(Current)[Endnode], k, @, now)]
  BY <1>1 DEF Of
<1>5. IF k = Len(Targets(Endnode, Of(Current)[Endnode]))
      THEN /\ Of(Current)' = [Of(Current) EXCEPT ![Endnode] = NoMessage]
           /\ Of(DoneOf)' = [Of(DoneOf) EXCEPT ![Endnode] = 0]
      ELSE /\ Of(DoneOf)' = [Of(DoneOf) EXCEPT ![Endnode] = k]
           /\ UNCHANGED Of(Current)
  BY <1>1 DEF Of, Targets
<1>6. UNCHANGED <<Of(Waiting), Of(entered), now>>
  BY DEF Of
<1>7. Side!Act(Endnode, k)
  BY <1>2, <1>3, <1>4, <1>5, <1>6 DEF Side!Act, Waiting, Current, DoneOf
<1>8. Of(IF pc \in Polling THEN message ELSE NoMessage)[Endnode] # NoMessage
  BY <1>1 DEF Current
<1> QED BY <1>2, <1>7, <1>8 DEF Side!Next, Side!ClientStep

LEMMA SideAbandon ==
  ASSUME Current # NoMessage,
         NEW k \in (DoneOf + 1)..Len(EndnodeTargets(Current)),
         LET t == EndnodeTargets(Current)[k] IN t.sec = 0 \/ 1000 * (t.sec + 1) <= now,
         Current' = NoMessage, DoneOf' = 0,
         UNCHANGED <<Waiting, entered, told, now>>
  PROVE  Side!Next
<1>1. Of(Current)[Endnode] = Current /\ Of(DoneOf)[Endnode] = DoneOf
  BY OfOne
<1>2. k \in Side!Left(Endnode) /\ Side!Target(Endnode, k) = EndnodeTargets(Current)[k]
  BY <1>1 DEF Side!Left, Side!Target, Targets, Current, DoneOf
<1>3. Side!Expired(Side!Target(Endnode, k))
  BY <1>2 DEF Side!Expired
<1>4. /\ Of(Current)' = [Of(Current) EXCEPT ![Endnode] = NoMessage]
      /\ Of(DoneOf)' = [Of(DoneOf) EXCEPT ![Endnode] = 0]
      /\ UNCHANGED <<Of(Waiting), Of(entered), Of(told), now>>
  BY DEF Of
<1>5. Side!Abandon(Endnode)
  BY <1>1, <1>2, <1>3, <1>4 DEF Side!Abandon, Waiting, Current, DoneOf
<1> QED BY <1>5 DEF Side!Next, Side!ClientStep

LEMMA SideTick ==
  ASSUME now' > now, now' \in Nat,
         Current # NoMessage => \A k \in (DoneOf + 1)..Len(EndnodeTargets(Current)) :
             \/ now' <= entered + 2 * MaxStall
             \/ now' <= Total(EndnodeTargets(Current)[k]) + 2 * MaxStall,
         UNCHANGED <<Waiting, Current, DoneOf, entered, told>>
  PROVE  Side!Next
<1>1. Side!InTime(Endnode, now')
  BY OfOne DEF Side!InTime, Side!Left, Side!Target, Targets, Side!Total, Total, Current, DoneOf
<1>2. Side!Tick(now')
  BY <1>1 DEF Side!Tick, Waiting, Current, DoneOf, Of
<1> QED BY <1>2 DEF Side!Next

-----------------------------------------------------------------------------
(* Every step of the client is one of TimedClient, or none. *)

LEMMA ArriveMaps ==
  ASSUME TypeOK, NEW m \in Inbox, Receive(m) PROVE Side!Next
<1>1. /\ rm_client_out_queue' = Append(rm_client_out_queue, m)
      /\ UNCHANGED <<pc, message, first_done, entered, told, now>>
  BY DEF Receive, handlerVars
<1>2. Waiting' = Append(Waiting, m)
  <2>1. CASE pc = "dispatch"
    <3>1. rm_client_out_queue \in Seq(Messages) /\ message \in Messages /\ m \in Messages
      BY <2>1, ClientAssumption DEF ClientAssumption, TypeOK
    <3>2. <<message>> \o Append(rm_client_out_queue, m)
            = Append(<<message>> \o rm_client_out_queue, m)
      BY <3>1
    <3> QED BY <1>1, <2>1, <3>2 DEF Waiting
  <2>2. CASE pc # "dispatch"
    BY <1>1, <2>2 DEF Waiting
  <2> QED BY <2>1, <2>2
<1>3. UNCHANGED <<Current, DoneOf>>
  BY <1>1 DEF Current, DoneOf
<1> QED BY <1>1, <1>2, <1>3, SideArrive

(* What does not touch the queue, a handler, the generator or the clock. *)
LEMMA QuietMaps ==
  ASSUME \/ NotifyMain \/ Interrupt \/ SignalLock \/ SignalNotify \/ Start \/ TestActive
         \/ LockMutex \/ Wait \/ SpuriousWakeup \/ CheckActive \/ CheckQueue
         \/ HandlerReturn \/ Release \/ UNCHANGED vars
  PROVE  UNCHANGED Side!vars
<1> USE DEF Goto, loopUnchanged, handlerUnchanged, handlerVars, Polling
<1>1. UNCHANGED <<rm_client_out_queue, message, first_done, entered, told, now>>
  BY DEF NotifyMain, Interrupt, SignalLock, SignalNotify, Start, TestActive, LockMutex, Wait,
         SpuriousWakeup, CheckActive, CheckQueue, LeaveBody, HandlerReturn, Release, vars
<1>2. \/ pc' = pc
      \/ {pc, pc'} \cap (Polling \cup {"dispatch"}) = {}
  BY DEF NotifyMain, Interrupt, SignalLock, SignalNotify, WakeMain, Start, TestActive,
         LockMutex, Wait, SpuriousWakeup, CheckActive, CheckQueue, LeaveBody, HandlerReturn,
         Release, vars
<1>3. UNCHANGED <<Waiting, Current, DoneOf>>
  BY <1>1, <1>2 DEF Waiting, Current, DoneOf
<1> QED BY <1>1, <1>3, SideStutter

LEMMA DequeueMaps ==
  ASSUME TypeOK, Dequeue PROVE UNCHANGED Side!vars
<1>1. /\ pc = "dequeue" /\ pc' = "dispatch" /\ rm_client_out_queue # <<>>
      /\ message' = Head(rm_client_out_queue)
      /\ rm_client_out_queue' = Tail(rm_client_out_queue)
      /\ UNCHANGED <<first_done, entered, told, now>>
  BY DEF Dequeue, Goto, handlerVars
<1>2. rm_client_out_queue \in Seq(Messages)
  BY DEF TypeOK
<1>3. <<Head(rm_client_out_queue)>> \o Tail(rm_client_out_queue) = rm_client_out_queue
  BY <1>1, <1>2
<1>4. UNCHANGED <<Waiting, Current, DoneOf>>
  BY <1>1, <1>3 DEF Waiting, Current, DoneOf, Polling
<1> QED BY <1>1, <1>4, SideStutter

(* The message taken is the oldest. *)
LEMMA Dispatched ==
  ASSUME TypeOK, pc = "dispatch"
  PROVE  /\ message \in Messages /\ Waiting # <<>> /\ Head(Waiting) = message
         /\ Tail(Waiting) = rm_client_out_queue
         /\ Current = NoMessage /\ DoneOf = 0
<1>1. message \in Messages /\ rm_client_out_queue \in Seq(Messages)
  BY DEF TypeOK
<1>2. Waiting = <<message>> \o rm_client_out_queue
  BY DEF Waiting
<1> QED BY <1>1, <1>2 DEF Current, DoneOf, Polling

LEMMA HandlePlainMaps ==
  ASSUME TypeOK, HandlePlain PROVE Side!Next
<1>1. /\ pc = "dispatch" /\ pc' = "handled" /\ message.type \notin TimedTypes
      /\ UNCHANGED <<rm_client_out_queue, message, first_done, entered, now>>
  BY DEF HandlePlain, Goto, handlerUnchanged, handlerVars
<1>2. message \in Messages /\ EndnodeTargets(message) = <<>>
  BY <1>1, Dispatched, NoTargets
<1>3. told' = Effect(Endnode, message, 0, told, now)
  BY <1>1, <1>2 DEF HandlePlain, Effect, Tell, TellMode, TellTimestamp, Messages, PlainTypes,
                    TimedTypes, LoggedTypes, UnknownTypes
<1>4. Waiting' = rm_client_out_queue /\ Current' = NoMessage /\ DoneOf' = 0
  BY <1>1 DEF Waiting, Current, DoneOf, Polling
<1> QED BY <1>1, <1>2, <1>3, <1>4, Dispatched, SideHandleAtOnce

LEMMA HandleTimedMaps ==
  ASSUME TypeOK, HandleTimed PROVE Side!Next
<1>1. /\ pc = "dispatch" /\ pc' = "act" /\ message.type \in TimedTypes
      /\ first_done' = FALSE /\ entered' = now
      /\ UNCHANGED <<rm_client_out_queue, message, told, now>>
  BY DEF HandleTimed, Goto, handlerUnchanged
<1>2. message \in Messages /\ EndnodeTargets(message) # <<>>
  <2>1. message \in Messages
    BY <1>1, Dispatched
  <2>2. EndnodeTargets(message) \in {<<FirstTarget, message.start>>, <<FirstTarget>>}
    BY <1>1, <2>1, TargetsOf
  <2> QED BY <2>1, <2>2
<1>3. Waiting' = rm_client_out_queue /\ Current' = message /\ DoneOf' = 0
  BY <1>1 DEF Waiting, Current, DoneOf, Polling
<1> QED BY <1>1, <1>2, <1>3, Dispatched, SideBegin

(* What a handler at work knows. *)
LEMMA AtWork ==
  ASSUME TypeOK, HandlerInv, pc \in Polling
  PROVE  /\ message \in Messages /\ message.type \in TimedTypes
         /\ Current = message /\ message # NoMessage
         /\ Waiting = rm_client_out_queue
         /\ time_now.sec \in Nat /\ time_now.ms \in 0..999 /\ now \in Nat /\ MaxStall \in Nat
         /\ Total(time_now) <= now /\ now - Total(time_now) <= MaxStall
         /\ pc = "act_restart" => message.type \in InterruptingTypes
         /\ FirstTarget \in Stamps /\ message.start \in Stamps
         /\ LeftOf = (DoneOf + 1)..Len(EndnodeTargets(Current))
<1>1. message \in Messages /\ message.type \in TimedTypes /\ message # NoMessage /\ now \in Nat
  BY DEF TypeOK, Polling
<1>2. Current = message /\ Waiting = rm_client_out_queue
  BY DEF Current, Waiting, Polling
<1> QED
  BY <1>1, <1>2, TargetStamps, ClientAssumption DEF ClientAssumption, HandlerInv, PollInv, LeftOf

LEMMA ActFirstMaps ==
  ASSUME TypeOK, HandlerInv, ActFirst PROVE Side!Next
<1>1. /\ pc = "act" /\ ~first_done /\ Valid(FirstTarget) /\ Passed(FirstTarget) /\ FirstEffect
      /\ pc' = IF message.type \in InterruptingTypes THEN "act_restart" ELSE "handled"
      /\ first_done' = TRUE
      /\ UNCHANGED <<rm_client_out_queue, message, entered, now>>
  BY DEF ActFirst, Goto, handlerUnchanged
<1>2. pc \in Polling
  BY <1>1 DEF Polling
<1>3. /\ EndnodeTargets(message)[1] = FirstTarget
      /\ Len(EndnodeTargets(message)) = IF message.type \in InterruptingTypes THEN 2 ELSE 1
  BY <1>2, AtWork, TargetsOf
<1>4. 1 \in LeftOf
  BY <1>1, <1>2, AtWork, LeftRange
<1>5. /\ FirstTarget.sec # 0 /\ Total(FirstTarget) < now
      /\ now < 1000 * (FirstTarget.sec + 1) + MaxStall
  BY <1>1, <1>2, AtWork, PassedIsDue
<1>6. told' = Effect(Endnode, message, 1, told, now)
  BY <1>1, <1>2, AtWork DEF FirstEffect, Effect, Tell, TellMode, TellTimestamp, TimedTypes
<1>7. Current = message /\ Current # NoMessage
  BY <1>2, AtWork
<1>8. IF 1 = Len(EndnodeTargets(Current)) THEN Current' = NoMessage /\ DoneOf' = 0
                                          ELSE Current' = Current /\ DoneOf' = 1
  <2>1. CASE message.type \in InterruptingTypes
    BY <1>1, <1>3, <1>7, <2>1 DEF Current, DoneOf, Polling
  <2>2. CASE message.type \notin InterruptingTypes
    BY <1>1, <1>3, <1>7, <2>2 DEF Current, DoneOf, Polling
  <2> QED BY <2>1, <2>2
<1>9. Waiting' = Waiting
  BY <1>1 DEF Waiting
<1>10. 1 \in (DoneOf + 1)..Len(EndnodeTargets(Current))
  BY <1>2, <1>4, AtWork
<1> QED BY <1>1, <1>3, <1>5, <1>6, <1>7, <1>8, <1>9, <1>10, SideAct

LEMMA ActRestartMaps ==
  ASSUME TypeOK, HandlerInv, ActRestart PROVE Side!Next
<1>1. /\ pc = "act_restart" /\ pc' = "handled" /\ RestartEffect
      /\ Valid(message.start) /\ Passed(message.start)
      /\ UNCHANGED <<rm_client_out_queue, message, first_done, entered, now>>
  BY DEF ActRestart, Goto, handlerUnchanged
<1>2. pc \in Polling
  BY <1>1 DEF Polling
<1>3. message.type \in InterruptingTypes
  BY <1>1, <1>2, AtWork
<1>4. EndnodeTargets(message)[2] = message.start /\ Len(EndnodeTargets(message)) = 2
  BY <1>2, <1>3, AtWork, TargetsOf
<1>5. 2 \in LeftOf
  BY <1>2, <1>3, AtWork, LeftRange
<1>6. /\ message.start.sec # 0 /\ Total(message.start) < now
      /\ now < 1000 * (message.start.sec + 1) + MaxStall
  BY <1>1, <1>2, AtWork, PassedIsDue
<1>7. told' = Effect(Endnode, message, 2, told, now)
  BY <1>1, <1>3 DEF RestartEffect, Effect, Tell, TellTimestamp, InterruptingTypes
<1>8. Current' = NoMessage /\ DoneOf' = 0 /\ Waiting' = Waiting
  BY <1>1 DEF Current, DoneOf, Waiting, Polling
<1> QED BY <1>1, <1>2, <1>4, <1>5, <1>6, <1>7, <1>8, AtWork, SideAct

LEMMA GiveUpMaps ==
  ASSUME TypeOK, HandlerInv,
         \/ ~first_done /\ GiveUp(FirstTarget, "act")
         \/ GiveUp(message.start, "act_restart")
  PROVE  Side!Next
<1>1. /\ pc \in Polling /\ pc' = "handled"
      /\ UNCHANGED <<rm_client_out_queue, message, entered, told, now>>
  BY DEF GiveUp, Goto, Polling, handlerUnchanged, handlerVars
<1>2. Current' = NoMessage /\ DoneOf' = 0 /\ Waiting' = Waiting
  BY <1>1 DEF Current, DoneOf, Waiting, Polling
<1>3. ASSUME NEW t \in Stamps, ~Valid(t) PROVE t.sec = 0 \/ 1000 * (t.sec + 1) <= now
  BY <1>1, <1>3, AtWork, InvalidIsExpired
<1>4. CASE ~first_done /\ GiveUp(FirstTarget, "act")
  <2>1. 1 \in LeftOf
    BY <1>1, <1>4, AtWork, LeftRange
  <2>2. EndnodeTargets(message)[1] = FirstTarget /\ ~Valid(FirstTarget)
    BY <1>1, <1>4, AtWork, TargetsOf DEF GiveUp
  <2>3. FirstTarget.sec = 0 \/ 1000 * (FirstTarget.sec + 1) <= now
    BY <1>1, <1>3, <2>2, AtWork
  <2> QED BY <1>1, <1>2, <2>1, <2>2, <2>3, AtWork, SideAbandon
<1>5. CASE GiveUp(message.start, "act_restart")
  <2>1. ~Valid(message.start) /\ message.type \in InterruptingTypes
    BY <1>1, <1>5, AtWork DEF GiveUp, Goto
  <2>2. 2 \in LeftOf
    BY <1>1, <2>1, AtWork, LeftRange
  <2>3. EndnodeTargets(message)[2] = message.start
    BY <1>1, <2>1, AtWork, TargetsOf
  <2>4. message.start.sec = 0 \/ 1000 * (message.start.sec + 1) <= now
    BY <1>1, <1>3, <2>1, AtWork
  <2> QED BY <1>1, <1>2, <2>2, <2>3, <2>4, AtWork, SideAbandon
<1> QED BY <1>4, <1>5

(* A poll, and a look at a timestamp still ahead. *)
LEMMA LookMaps ==
  ASSUME Poll \/ SkipFirst \/ AwaitRestart PROVE UNCHANGED Side!vars
<1>1. /\ pc \in Polling /\ pc' \in Polling
      /\ UNCHANGED <<rm_client_out_queue, message, first_done, entered, told, now>>
  BY DEF Poll, SkipFirst, AwaitRestart, Goto, Polling, handlerUnchanged, handlerVars
<1>2. UNCHANGED <<Waiting, Current, DoneOf>>
  BY <1>1 DEF Waiting, Current, DoneOf, Polling
<1> QED BY <1>1, <1>2, SideStutter

LEMMA TickMaps ==
  ASSUME TypeOK, HandlerInv, LateInv, Tick PROVE Side!Next
<1>1. UNCHANGED <<rm_client_out_queue, pc, message, first_done, entered, told>>
  BY DEF Tick, handlerVars
<1>2. PICK d \in Ticks :
        now' = now + d /\ (pc \in Polling => now + d - Total(time_now) <= MaxStall)
  BY DEF Tick
<1>3. now \in Nat /\ d \in Nat \ {0} /\ MaxStall \in Nat /\ entered \in Nat
  BY ClientAssumption DEF ClientAssumption, TypeOK
<1>4. UNCHANGED <<Waiting, Current, DoneOf>>
  BY <1>1 DEF Waiting, Current, DoneOf
<1>5. ASSUME Current # NoMessage, NEW k \in (DoneOf + 1)..Len(EndnodeTargets(Current))
      PROVE  \/ now' <= entered + 2 * MaxStall
             \/ now' <= Total(EndnodeTargets(Current)[k]) + 2 * MaxStall
  <2>1. pc \in Polling
    BY <1>5 DEF Current
  <2>2. Current = message /\ k \in LeftOf
    BY <2>1, AtWork
  <2>3. \/ Total(time_now) <= entered
        \/ Total(time_now) <= Total(EndnodeTargets(message)[k]) + MaxStall
    BY <2>1, <2>2 DEF LateInv
  <2>4. k = 1 \/ (k = 2 /\ message.type \in InterruptingTypes)
    BY <2>1, <2>2, AtWork, LeftRange
  <2>5. EndnodeTargets(message)[k] \in Timespecs
    BY <2>1, <2>4, AtWork, TargetsOf, FirstTargetType, MessageFields
  <2>6. Total(EndnodeTargets(message)[k]) \in Int /\ Total(time_now) \in Int
    BY <2>5, TotalType DEF TypeOK
  <2>7. now' - Total(time_now) <= MaxStall
    BY <1>2, <1>3, <2>1, <2>6
  <2> QED BY <1>2, <1>3, <2>2, <2>3, <2>6, <2>7
<1>6. now' > now /\ now' \in Nat
  BY <1>2, <1>3
<1> QED BY <1>1, <1>4, <1>5, <1>6, SideTick

LEMMA StepMaps ==
  ASSUME TypeOK, HandlerInv, LateInv, [Next]_vars PROVE [Side!Next]_(Side!vars)
  BY ArriveMaps, QuietMaps, DequeueMaps, HandlePlainMaps, HandleTimedMaps, ActFirstMaps,
     ActRestartMaps, GiveUpMaps, LookMaps, TickMaps
     DEF Next, ReceiverStep, SignalStep, MainStep, Act

LEMMA InitMaps == Init => Side!Init
<1> SUFFICES ASSUME Init PROVE Side!Init
  OBVIOUS
<1>1. now \in Nat
  BY ClientAssumption DEF Init, ClientAssumption
<1> QED BY <1>1 DEF Init, Side!Init, Of, Polling

-----------------------------------------------------------------------------
(* The end node's program is a TimedClient, whatever the messages, their   *)
(* timestamps and the steps of the clock are: it handles the messages in   *)
(* their order, each step in time or not at all, and gives a message up    *)
(* only for a second that is over.                                         *)
THEOREM EndnodeIsTimedClient == Spec => ImplementsTimedClient
<1>1. Init => LateInv
  BY DEF Init, LateInv, Polling
<1>2. TypeOK /\ HandlerInv /\ LateInv /\ [Next]_vars => LateInv'
  BY LateStep
<1>3. TypeOK /\ HandlerInv /\ LateInv /\ [Next]_vars => [Side!Next]_(Side!vars)
  BY StepMaps
<1> QED
  BY <1>1, <1>2, <1>3, InitMaps, Invariance, PTL DEF Spec, ImplementsTimedClient, Side!Spec
=============================================================================
