-------------------------- MODULE NetLayerRMProofs --------------------------
(***************************************************************************)
(* What holds of the resource manager for every set of services and        *)
(* clients, every configuration and however late the timers are.           *)
(***************************************************************************)
EXTENDS NetLayerRM, TLAPS

USE TimespecAssumption DEF TimespecAssumption

(* The constants that are durations or ranges. *)
LEMMA Durations ==
  /\ ClientInitTime \in Nat /\ BeginOffset \in Nat /\ EndOffset \in Nat
  /\ DistributionPhase \in Nat /\ ReconfigOffset \in Nat /\ StartOffset \in Nat
  /\ GapMin \in Nat /\ GapMax \in Nat
  /\ Delays \subseteq Nat
  /\ Iterations \in Nat /\ IterationMod \in Nat \ {0}
  /\ ReconfigurationOrder \in Seq(Nat) /\ ReconfigurationOrder # <<>>
  BY ManagerAssumption DEF ManagerAssumption

(* What requests, and their insertion, leave as it is. *)
LEMMA RequestsLeave ==
  ASSUME \/ \E s \in Services, c \in Clients : ReceiveMessage(s, c)
         \/ HandlerStep
         \/ UNCHANGED vars
  PROVE  UNCHANGED <<pc, iterator, position, cursor, now, rm_active_timestamp_last, target,
                     grid, sent, present>>
<1> USE DEF roundVars, timeVars
<1>1. CASE \E s \in Services, c \in Clients : ReceiveMessage(s, c)
  BY <1>1 DEF ReceiveMessage
<1>2. CASE HandleMessage
  BY <1>2 DEF HandleMessage
<1>3. CASE InsertService
  BY <1>3 DEF InsertService
<1>4. CASE UNCHANGED vars
  BY <1>4 DEF vars
<1> QED BY <1>1, <1>2, <1>3, <1>4 DEF HandlerStep

-----------------------------------------------------------------------------
(* Timestamps stay timestamps. *)

LEMMA TimespecFields ==
  ASSUME NEW t \in Timespecs PROVE t.sec \in Int /\ t.ms \in Int
  BY DEF Timespecs

LEMMA ClockType == ASSUME NEW t \in Int PROVE ClockGettime(t) \in Timespecs
  BY DEF ClockGettime, Timespecs

LEMMA AddType ==
  ASSUME NEW t \in Timespecs, NEW d \in Int
  PROVE  PrepareTimestampAdd(t, d) \in Timespecs
  BY DEF PrepareTimestampAdd, Timespecs

LEMMA SubType ==
  ASSUME NEW t \in Timespecs, NEW d \in Int
  PROVE  PrepareTimestampSub(t, d) \in Timespecs
  BY ClockType DEF PrepareTimestampSub, Total, Timespecs

LEMMA RoundType ==
  ASSUME NEW t \in Timespecs PROVE GetRoundTimestamp(t) \in Timespecs
  BY DEF GetRoundTimestamp, Timespecs

LEMMA DivideType ==
  ASSUME NEW a \in Int, NEW b \in Nat \ {0}
  PROVE  DivideTowardsZero(a, b) \in Int
  BY DEF DivideTowardsZero

LEMMA TargetType ==
  ASSUME NEW t \in Timespecs, NEW last \in Timespecs, NEW d \in Int
  PROVE  TargetHyperperiod(t, last, d) \in Timespecs
<1>1. Total(SubtractTimespec(t, last)) \in Int
  BY DEF Total, SubtractTimespec, Timespecs
<1>2. NumberHyperperiods(t, last, d) \in Int
  BY <1>1, DivideType, SMTT(30) DEF NumberHyperperiods
<1> QED BY <1>2 DEF TargetHyperperiod, Timespecs

LEMMA TargetRest ==
  ASSUME NEW time \in Nat, NEW last \in Timespecs, NEW d \in Int
  PROVE  TargetHyperperiod(ClockGettime(time), last, d).ms \in Int
  BY ClockType, TargetType, TimespecFields

-----------------------------------------------------------------------------
(* Messages are messages. *)

LEMMA SlotType == ASSUME NEW s, NEW m PROVE Slot(s, m) \in Nat
  BY ManagerAssumption DEF ManagerAssumption, Slot

LEMMA MessageType ==
  ASSUME TypeOK, NEW s \in Listed, NEW type \in MessageTypes, NEW mode \in Nat,
         NEW stop \in Timespecs, NEW reconfig \in Timespecs, NEW start \in Timespecs
  PROVE  Message(type, s, mode, stop, reconfig, start) \in Messages
<1>1. ClientAddress(service_list[s]) \in Clients \cup {Loopback}
  BY DEF TypeOK, ClientAddress
<1>2. iterator \in Nat
  BY ManagerAssumption DEF TypeOK, ManagerAssumption
<1>3. s \in Services
  BY DEF TypeOK
<1> QED BY <1>1, <1>2, <1>3 DEF Message, Messages

LEMMA SweepMessageType ==
  ASSUME TypeOK, NEW s \in Listed, HasMode(pc, s)
  PROVE  SweepMessage(s) \in Messages
<1>1. /\ Zero \in Timespecs
      /\ target \in Timespecs
      /\ ReconfigOffset \in Int /\ StartOffset \in Int /\ StartOffset + ReconfigOffset \in Int
  <2>1. Zero \in Timespecs
    BY DEF Zero, Timespecs
  <2>2. target \in Timespecs
    BY DEF TypeOK
  <2>3. ReconfigOffset \in Nat /\ StartOffset \in Nat
    BY ManagerAssumption DEF ManagerAssumption
  <2> QED BY <2>1, <2>2, <2>3
<1>2. \A d \in Int : PrepareTimestampAdd(target, d) \in Timespecs
  BY <1>1, AddType
<1>3. CASE pc = "start"
  <2>1. StartupMode[service_list[s]] \in Nat
    BY <1>3, ManagerAssumption DEF HasMode, ManagerAssumption
  <2>2. StartMessage(s) \in Messages
    BY <1>1, <1>2, <2>1, SlotType, MessageType DEF StartMessage, MessageTypes
  <2> QED BY <1>3, <2>2 DEF SweepMessage
<1>4. CASE pc = "round"
  <2> DEFINE mode == ReconfigurationMap[NetworkMode][service_list[s]]
  <2>1. mode \in Nat
    BY <1>4, ManagerAssumption DEF HasMode, ManagerAssumption
  <2>2. HyperperiodMessage(s, mode) \in Messages
    <3>1. PrepareTimestampAdd(target, Slot(s, mode)) \in Timespecs
      BY <1>2, SlotType
    <3>2. PrepareTimestampSub(PrepareTimestampAdd(target, Slot(s, mode)), ReconfigOffset)
             \in Timespecs
      BY <3>1, <1>1, SubType
    <3> QED BY <1>1, <2>1, <3>1, <3>2, MessageType DEF HyperperiodMessage, MessageTypes
  <2>3. TimestampMessage(s, mode) \in Messages
    BY <1>1, <1>2, <2>1, MessageType DEF TimestampMessage, MessageTypes
  <2>4. PlainMessage(s, mode) \in Messages
    BY <1>1, <2>1, MessageType DEF PlainMessage, MessageTypes
  <2>5. RoundMessage(s) \in Messages
    BY <2>2, <2>3, <2>4 DEF RoundMessage
  <2> QED BY <1>4, <2>5 DEF SweepMessage
<1>5. CASE pc \notin {"start", "round"}
  <2>1. StopMessage(s) \in Messages
    BY <1>1, <1>2, MessageType DEF StopMessage, MessageTypes
  <2> QED BY <1>5, <2>1 DEF SweepMessage
<1> QED BY <1>3, <1>4, <1>5

-----------------------------------------------------------------------------
(* Where iterators lead. *)

LEMMA SuccessorsType ==
  ASSUME TypeOK, NEW s PROVE Successors(s) \subseteq Listed \cup {End}
  BY DEF Successors

LEMMA AfterType ==
  ASSUME TypeOK, NEW s PROVE After(s) \subseteq Services \cup {End}
  BY SuccessorsType DEF TypeOK, After, Requested

-----------------------------------------------------------------------------
(* The manager's initial states, and its steps, are of their types. *)
LEMMA TypeInit == Init => TypeOK
<1> SUFFICES ASSUME Init PROVE TypeOK
  OBVIOUS
<1>1. Zero \in Timespecs
  BY DEF Zero, Timespecs
<1>2. now \in Nat /\ Listed = {} /\ service_list \in [Listed -> Clients]
  BY ManagerAssumption DEF Init, ManagerAssumption, Listed
<1>3. position \in 1..Len(ReconfigurationOrder) /\ iterator \in 0..(IterationMod - 1)
  BY ManagerAssumption DEF Init, ManagerAssumption
<1> QED
  BY <1>1, <1>2, <1>3, ManagerAssumption DEF Init, TypeOK, ManagerAssumption, Rests, End

LEMMA TypeStep == TypeOK /\ [Next]_vars => TypeOK'
<1> SUFFICES ASSUME TypeOK, [Next]_vars PROVE TypeOK'
  OBVIOUS
<1> USE DEF handlerVars, roundVars, timeVars
<1>0. ASSUME NEW duration \in Nat, Passes(duration) PROVE now' \in Nat
  <2>1. PICK d \in Delays : now' = now + duration + d
    BY <1>0 DEF Passes
  <2> QED BY <2>1, Durations DEF TypeOK
<1>1. ASSUME NEW sweep \in Sweeps, BeginSweep(sweep), UNCHANGED service_list
      PROVE  /\ pc' \in Sweeps \cup Rests
             /\ cursor' \in Services \cup {End}
             /\ sent' \in Seq(Messages)
             /\ present' \subseteq Services
  BY <1>1, SuccessorsType DEF BeginSweep, TypeOK
<1>2. ASSUME NEW s \in Services, NEW c \in Clients, ReceiveMessage(s, c) PROVE TypeOK'
  <2>1. nRM_in_handle_queue' \in Seq(Requested) /\ requests' \in 0..Requests
    BY <1>2, ManagerAssumption, SMTT(30) DEF ReceiveMessage, TypeOK, Requested, ManagerAssumption
  <2> QED BY <1>2, <2>1 DEF ReceiveMessage, TypeOK, Listed
<1>3. CASE HandleMessage
  <2>1. /\ nRM_in_handle_queue' \in Seq(Requested)
        /\ inserting' \in Requested \cup {NoService}
    BY <1>3 DEF HandleMessage, TypeOK
  <2> QED BY <1>3, <2>1 DEF HandleMessage, TypeOK, Listed
<1>4. CASE InsertService
  <2>1. /\ DOMAIN service_list' \subseteq Services
        /\ service_list' \in [DOMAIN service_list' -> Clients]
    BY <1>4 DEF InsertService, TypeOK, Requested
  <2> QED BY <1>4, <2>1 DEF InsertService, TypeOK, Listed
<1>5. CASE InitialStart
  <2>1. now' \in Nat
    BY <1>5, <1>0, ManagerAssumption DEF InitialStart, ManagerAssumption
  <2>2. {target', rm_active_timestamp_last', grid'} \subseteq Timespecs
    <3>1. PrepareTimestampAdd(GetRoundTimestamp(ClockGettime(now')), DistributionPhase)
             \in Timespecs
      BY <2>1, ClockType, RoundType, AddType, Durations
    <3> QED BY <1>5, <3>1 DEF InitialStart, TypeOK
  <2> QED BY <1>5, <1>1, <2>1, <2>2 DEF InitialStart, TypeOK, Listed, Sweeps
<1>6. CASE Serve
  <2>1. cursor' \in Services \cup {End}
    BY <1>6, AfterType DEF Serve
  <2>2. HasMode(pc, cursor) => SweepMessage(cursor) \in Messages
    BY <1>6, SweepMessageType DEF Serve
  <2>3. sent' \in Seq(Messages) /\ rm_active_timestamp_last' \in Timespecs
    <3>1. HasMode(pc, cursor) => SweepMessage(cursor).start \in Timespecs
      BY <2>2 DEF Messages
    <3> QED BY <1>6, <2>2, <3>1, SMTT(30) DEF Serve, TypeOK
  <2> QED BY <1>6, <2>1, <2>3 DEF Serve, TypeOK, Listed
<1>7. CASE EndSweep
  BY <1>7 DEF EndSweep, AfterSweep, TypeOK, Listed, Sweeps, Rests
<1>8. CASE ExperimentSelection
  <2>1. now' \in Nat
    BY <1>8, <1>0, ManagerAssumption DEF ExperimentSelection, ManagerAssumption
  <2>2. position' \in 1..Len(ReconfigurationOrder) /\ iterator' \in 0..(IterationMod - 1)
    BY <1>8, ManagerAssumption DEF ExperimentSelection, ManagerAssumption
  <2> QED BY <1>8, <2>1, <2>2 DEF ExperimentSelection, TypeOK, Listed, Rests
<1>9. CASE PlanRound
  <2>1. {target', rm_active_timestamp_last'} \subseteq Timespecs
    <3>1. ClockGettime(now) \in Timespecs /\ DistributionPhase \in Int
      BY ClockType, ManagerAssumption DEF TypeOK, ManagerAssumption
    <3>2. [ClockGettime(now) EXCEPT !.sec = @ + DistributionPhase \div 1000] \in Timespecs
      BY <3>1 DEF Timespecs
    <3>3. target \in Timespecs /\ rm_active_timestamp_last \in Timespecs
      BY DEF TypeOK
    <3>4. TargetHyperperiod(ClockGettime(now), rm_active_timestamp_last, DistributionPhase)
            \in Timespecs
      BY <3>1, <3>3, TargetType
    <3> QED BY <1>9, <3>2, <3>3, <3>4 DEF PlanRound
  <2> QED BY <1>9, <1>1, <2>1 DEF PlanRound, TypeOK, Listed, Sweeps
<1>10. CASE Gap
  <2>1. now' \in Nat
    BY <1>10, <1>0, ManagerAssumption, SMTT(30) DEF Gap, ManagerAssumption
  <2>2. position' \in 1..Len(ReconfigurationOrder) /\ iterator' \in 0..(IterationMod - 1)
    <3>1. Len(ReconfigurationOrder) \in Nat /\ (iterator + 1) % IterationMod \in 0..(IterationMod - 1)
      BY Durations DEF TypeOK
    <3> QED BY <1>10, <3>1, Durations, SMTT(30) DEF Gap, TypeOK
  <2> QED BY <1>10, <2>1, <2>2, SMTT(30) DEF Gap, TypeOK, Listed, Rests
<1>11. CASE EndExperiment
  BY <1>11 DEF EndExperiment, TypeOK, Listed, Rests
<1>12. CASE StoppingExperiment
  <2>1. now' \in Nat
    BY <1>12, <1>0, ManagerAssumption DEF StoppingExperiment, ManagerAssumption
  <2>2. target' \in Timespecs
    <3>1. PrepareTimestampAdd(GetRoundTimestamp(ClockGettime(now')), DistributionPhase)
             \in Timespecs
      BY <2>1, ClockType, RoundType, AddType, Durations
    <3> QED BY <1>12, <3>1 DEF StoppingExperiment, TypeOK
  <2> QED BY <1>12, <1>1, <2>1, <2>2 DEF StoppingExperiment, TypeOK, Listed, Sweeps
<1>13. CASE UNCHANGED vars
  BY <1>13 DEF vars, TypeOK, Listed, Requested, Sweeps, Rests
<1> QED
  BY <1>2, <1>3, <1>4, <1>5, <1>6, <1>7, <1>8, <1>9, <1>10, <1>11, <1>12, <1>13
     DEF Next, HandlerStep, TimerStep

(* The variables hold values of their types; the loop counter and the index*)
(* of the order stay in their ranges.                                      *)
THEOREM TypeCorrect == Spec => []TypeOK
  BY TypeInit, TypeStep, PTL DEF Spec

-----------------------------------------------------------------------------
(* The handler inserts only what is not listed. *)
InsertsNew == inserting # NoService => inserting.service \notin Listed

LEMMA InsertsNewInvariant == Spec => []InsertsNew
<1>1. Init => InsertsNew
  BY DEF Init, InsertsNew
<1>2. TypeOK /\ InsertsNew /\ [Next]_vars => InsertsNew'
  <2> SUFFICES ASSUME TypeOK, InsertsNew, [Next]_vars PROVE InsertsNew'
    OBVIOUS
  <2>1. CASE HandleMessage
    BY <2>1 DEF HandleMessage, InsertsNew, Listed
  <2>2. CASE InsertService
    BY <2>2 DEF InsertService, InsertsNew
  <2>3. CASE UNCHANGED handlerVars
    BY <2>3 DEF handlerVars, InsertsNew, Listed
  <2>4. CASE \E s \in Services, c \in Clients : ReceiveMessage(s, c)
    BY <2>4 DEF ReceiveMessage, InsertsNew, Listed
  <2> QED
    BY <2>1, <2>2, <2>3, <2>4
       DEF Next, HandlerStep, TimerStep, InitialStart, Serve, EndSweep, ExperimentSelection,
           PlanRound, Gap, EndExperiment, StoppingExperiment, vars
<1> QED BY <1>1, <1>2, TypeCorrect, PTL DEF Spec

(* The first request for a service decides who it belongs to: no later     *)
(* step of any thread drops or changes an entry of the list.               *)
THEOREM FirstRegistrationKept == Spec => FirstRegistrationWins
<1>1. InsertsNew /\ [Next]_vars =>
         [\A s \in Listed : s \in DOMAIN service_list' /\ service_list'[s] = service_list[s]]_vars
  <2> SUFFICES ASSUME InsertsNew, [Next]_vars, NEW s \in Listed
               PROVE  s \in DOMAIN service_list' /\ service_list'[s] = service_list[s]
    OBVIOUS
  <2>1. CASE InsertService
    BY <2>1 DEF InsertService, InsertsNew
  <2>2. CASE UNCHANGED service_list
    BY <2>2 DEF Listed
  <2>3. CASE HandleMessage \/ \E t \in Services, c \in Clients : ReceiveMessage(t, c)
    BY <2>2, <2>3 DEF HandleMessage, ReceiveMessage
  <2>4. CASE TimerStep
    <3>1. UNCHANGED service_list
      BY <2>4 DEF TimerStep, InitialStart, Serve, EndSweep, ExperimentSelection, PlanRound,
                  Gap, EndExperiment, StoppingExperiment, handlerVars
    <3> QED BY <2>2, <3>1
  <2>5. CASE UNCHANGED vars
    BY <2>2, <2>5 DEF vars, handlerVars
  <2> QED BY <2>1, <2>3, <2>4, <2>5 DEF Next, HandlerStep
<1> QED BY <1>1, InsertsNewInvariant, PTL DEF Spec, FirstRegistrationWins

-----------------------------------------------------------------------------
(* Every start of a sweep is its slot after the seconds of the target: the *)
(* rest of the target, which prepare_timestamp_add drops, is never seen.   *)

LEMMA SlotBase ==
  ASSUME NEW t \in Timespecs, NEW slot \in Nat
  PROVE  /\ Total(PrepareTimestampAdd(t, slot)) = 1000 * t.sec + slot
         /\ Total(PrepareTimestampAdd(t, slot)) - slot = 1000 * t.sec
  BY DEF PrepareTimestampAdd, Total, Timespecs

BasedOnTarget ==
    OnHyperperiods /\ pc \notin {"stop", "stopped", "exited"} =>
        \A i \in DOMAIN sent : Base(sent[i]) = 1000 * target.sec

LEMMA SweepMessageBase ==
  ASSUME TypeOK, OnHyperperiods, pc \in {"start", "round"}, NEW s \in Listed
  PROVE  Base(SweepMessage(s)) = 1000 * target.sec
<1>1. target \in Timespecs
  BY DEF TypeOK
<1>2. \A mode : Total(PrepareTimestampAdd(target, Slot(s, mode))) - Slot(s, mode)
                  = 1000 * target.sec
  BY <1>1, SlotType, SlotBase
<1>3. CASE pc = "start"
  <2>1. SynchronousStart
    BY ManagerAssumption DEF ManagerAssumption, OnHyperperiods
  <2> QED BY <1>2, <1>3, <2>1 DEF SweepMessage, StartMessage, Message, Base
<1>4. CASE pc = "round"
  <2> DEFINE mode == ReconfigurationMap[NetworkMode][service_list[s]]
  <2>1. SweepMessage(s) = HyperperiodMessage(s, mode)
    BY <1>4 DEF SweepMessage, RoundMessage, OnHyperperiods, HyperperiodExperiments,
                TimestampExperiments
  <2>2. Base(HyperperiodMessage(s, mode)) = 1000 * target.sec
    BY <1>2 DEF HyperperiodMessage, Message, Base
  <2> QED BY <2>1, <2>2
<1> QED BY <1>3, <1>4

LEMMA BasedOnTargetInvariant == Spec => []BasedOnTarget
<1>1. Init => BasedOnTarget
  BY DEF Init, BasedOnTarget
<1>2. TypeOK /\ BasedOnTarget /\ [Next]_vars => BasedOnTarget'
  <2> SUFFICES ASSUME TypeOK, BasedOnTarget, [Next]_vars, OnHyperperiods,
                      pc' \notin {"stop", "stopped", "exited"}
               PROVE  \A i \in DOMAIN sent' : Base(sent[i])' = 1000 * target'.sec
    BY DEF BasedOnTarget, OnHyperperiods
  <2> USE DEF handlerVars, roundVars, timeVars
  <2>1. CASE Serve
    <3>1. CASE HasMode(pc, cursor)
      <4>1. pc \in {"start", "round"} /\ cursor \in Listed
        BY <2>1 DEF Serve, Sweeps
      <4>2. sent' = Append(sent, SweepMessage(cursor)) /\ target' = target
        BY <2>1, <3>1 DEF Serve
      <4>3. sent \in Seq(Messages) /\ SweepMessage(cursor) \in Messages
        BY <3>1, <4>1, SweepMessageType DEF TypeOK
      <4>4. TAKE i \in DOMAIN sent'
      <4>5. sent'[i] \in {sent[j] : j \in DOMAIN sent} \cup {SweepMessage(cursor)}
        BY <4>2, <4>3, <4>4
      <4>6. \A j \in DOMAIN sent : Base(sent[j]) = 1000 * target.sec
        BY <4>1 DEF BasedOnTarget
      <4>7. Base(SweepMessage(cursor)) = 1000 * target.sec
        BY <4>1, SweepMessageBase
      <4> QED BY <4>2, <4>5, <4>6, <4>7 DEF Base
    <3>2. CASE ~HasMode(pc, cursor)
      BY <2>1, <3>2 DEF Serve, BasedOnTarget, Base
    <3> QED BY <3>1, <3>2
  <2>2. CASE InitialStart \/ PlanRound \/ StoppingExperiment
    BY <2>2 DEF InitialStart, PlanRound, StoppingExperiment, BeginSweep
  <2>3. CASE UNCHANGED <<sent, target>> /\ pc \notin {"stop", "stopped", "exited"}
    BY <2>3 DEF BasedOnTarget, Base
  <2>4. CASE EndSweep
    BY <2>3, <2>4 DEF EndSweep, AfterSweep, Sweeps
  <2>5. CASE (\E s \in Services, c \in Clients : ReceiveMessage(s, c)) \/ HandlerStep
    BY <2>3, <2>5, RequestsLeave
  <2>6. CASE ExperimentSelection \/ Gap \/ EndExperiment \/ UNCHANGED vars
    BY <2>3, <2>6 DEF ExperimentSelection, Gap, EndExperiment, vars
  <2> QED
    BY <2>1, <2>2, <2>4, <2>5, <2>6 DEF Next, TimerStep
<1> QED BY <1>1, <1>2, TypeCorrect, PTL DEF Spec

(* All services of a round restart in one hyperperiod, apart by their      *)
(* slots only: the reference moves once a round and the rest of the target *)
(* that prepare_timestamp_add drops is the same for every service.         *)
THEOREM OneHyperperiod == Spec => []SharedHyperperiod
<1>1. BasedOnTarget => SharedHyperperiod
  BY DEF BasedOnTarget, SharedHyperperiod, Starts
<1> QED BY <1>1, BasedOnTargetInvariant, PTL

-----------------------------------------------------------------------------
(* The grid of the synchronous start lies on the distribution phase's rest.*)
GridInv == OnHyperperiods /\ pc # "init" => grid.ms = DistributionPhase % 1000

LEMMA GridInvariant == Spec => []GridInv
<1>1. Init => GridInv
  BY DEF Init, GridInv
<1>2. TypeOK /\ GridInv /\ [Next]_vars => GridInv'
  <2> SUFFICES ASSUME GridInv, [Next]_vars PROVE GridInv'
    OBVIOUS
  <2> USE DEF handlerVars, roundVars, timeVars
  <2>1. CASE InitialStart
    <3>1. OnHyperperiods => SynchronousStart
      BY ManagerAssumption DEF ManagerAssumption, OnHyperperiods
    <3> QED BY <2>1, <3>1 DEF InitialStart, GridInv, PrepareTimestampAdd, OnHyperperiods
  <2>2. CASE UNCHANGED grid /\ (pc = "init" => pc' = "init")
    BY <2>2 DEF GridInv, OnHyperperiods
  <2>3. CASE (\E s \in Services, c \in Clients : ReceiveMessage(s, c)) \/ HandlerStep
    BY <2>2, <2>3 DEF HandlerStep, ReceiveMessage, HandleMessage, InsertService
  <2>4. CASE Serve \/ EndSweep \/ ExperimentSelection \/ PlanRound
    BY <2>2, <2>4 DEF Serve, EndSweep, ExperimentSelection, PlanRound, Sweeps
  <2>5. CASE Gap \/ EndExperiment \/ StoppingExperiment \/ UNCHANGED vars
    BY <2>2, <2>5 DEF Gap, EndExperiment, StoppingExperiment, vars
  <2> QED BY <2>1, <2>3, <2>4, <2>5 DEF Next, TimerStep
<1> QED BY <1>1, <1>2, TypeCorrect, PTL DEF Spec

(* Whole seconds lie on the grid laid in the rest of a distribution phase. *)
LEMMA SecondsOnGrid ==
  ASSUME DistributionPhase % 100 = 0, NEW sec \in Int, NEW t \in Timespecs,
         t.ms = DistributionPhase % 1000
  PROVE  (1000 * sec - Total(t)) % 100 = 0
<1> DEFINE q == DistributionPhase \div 100
           r == DistributionPhase \div 1000
<1>1. q \in Int /\ DistributionPhase = 100 * q
  BY Durations
<1>2. r \in Int /\ DistributionPhase % 1000 = DistributionPhase - 1000 * r
  BY Durations
<1>3. t.sec \in Int
  BY DEF Timespecs
<1> HIDE DEF q, r
<1>4. 1000 * sec - Total(t) = 100 * (10 * (sec - t.sec) + 10 * r - q)
  BY <1>1, <1>2, <1>3 DEF Total
<1>5. \A k \in Int : (100 * k) % 100 = 0
  OBVIOUS
<1>6. 10 * (sec - t.sec) + 10 * r - q \in Int
  BY <1>1, <1>2, <1>3
<1> QED BY <1>4, <1>5, <1>6

(* When the configured hyperperiod is the 100 ms of the code, and the      *)
(* distribution phase a multiple of it, every restart of every round lies  *)
(* on the grid of the synchronous start.                                   *)
THEOREM GridKept ==
  ASSUME HyperperiodDuration = 100, DistributionPhase % 100 = 0
  PROVE  Spec => []OnGrid
<1>1. TypeOK /\ BasedOnTarget /\ GridInv => OnGrid
  <2> SUFFICES ASSUME TypeOK, BasedOnTarget, GridInv, OnHyperperiods, pc \in {"round", "gap"},
                      NEW i \in Starts
               PROVE  (Base(sent[i]) - Total(grid)) % HyperperiodDuration = 0
    BY DEF OnGrid
  <2>1. Base(sent[i]) = 1000 * target.sec
    BY DEF BasedOnTarget, Starts
  <2>2. grid.ms = DistributionPhase % 1000 /\ grid \in Timespecs
    BY DEF GridInv, TypeOK
  <2>3. target.sec \in Int
    BY DEF TypeOK, Timespecs
  <2> QED BY <2>1, <2>2, <2>3, SecondsOnGrid
<1> QED BY <1>1, TypeCorrect, BasedOnTargetInvariant, GridInvariant, PTL

-----------------------------------------------------------------------------
(* A sweep reaches everybody.  Without late registrations the list is at   *)
(* rest once the start has begun, and the cursor separates the services    *)
(* that have been served from those that have not.                         *)

ListAtRest ==
    pc # "init" => /\ inserting = NoService /\ nRM_in_handle_queue = <<>>
                   /\ present = Listed

Behind(s) == cursor = End \/ s < cursor
Served(s) == \E i \in DOMAIN sent : sent[i].service = s

SweepInv ==
    /\ ListAtRest
    /\ pc \in Sweeps =>
          /\ cursor \in Listed \cup {End}
          /\ \A i \in DOMAIN sent : sent[i].service \in Listed /\ Behind(sent[i].service)
          /\ \A s \in Listed : HasMode(pc, s) /\ Behind(s) => Served(s)
          /\ \A i, j \in DOMAIN sent : sent[i].service = sent[j].service => i = j
    /\ SweepComplete

LEMMA SweepMessageService ==
  ASSUME NEW s PROVE SweepMessage(s).service = s
  BY DEF SweepMessage, StartMessage, RoundMessage, StopMessage, HyperperiodMessage,
         TimestampMessage, PlainMessage, Message

(* The first key lies behind nothing, the next one behind the current one  *)
(* and all that precede it.                                                *)
LEMMA FirstSuccessor ==
  ASSUME TypeOK, NEW c \in Successors(0), NEW s \in Listed
  PROVE  c # End /\ c <= s
<1>1. Listed \subseteq Nat \ {0}
  BY ManagerAssumption DEF TypeOK, ManagerAssumption
<1> DEFINE above == {t \in Listed : t > 0}
<1>2. s \in above
  BY <1>1
<1>3. c \in above /\ \A t \in above : c <= t
  BY <1>2 DEF Successors
<1> QED BY <1>1, <1>2, <1>3 DEF End

LEMMA NextSuccessor ==
  ASSUME TypeOK, cursor \in Listed, NEW c \in Successors(cursor)
  PROVE  \A s \in Listed : (c = End \/ s < c) <=> (s < cursor \/ s = cursor)
<1>1. Listed \subseteq Nat \ {0}
  BY ManagerAssumption DEF TypeOK, ManagerAssumption
<1> DEFINE above == {t \in Listed : t > cursor}
<1>2. CASE above = {}
  <2>1. c = End
    BY <1>2 DEF Successors
  <2>2. \A s \in Listed : ~(s > cursor)
    BY <1>2
  <2> QED BY <1>1, <2>1, <2>2
<1>3. CASE above # {}
  <2>1. c \in above /\ \A t \in above : c <= t
    BY <1>3 DEF Successors
  <2> QED BY <1>1, <2>1 DEF End
<1> QED BY <1>2, <1>3

LEMMA SweepServe ==
  ASSUME TypeOK, SweepInv, Serve PROVE SweepInv'
<1> USE DEF handlerVars, roundVars, timeVars
<1>1. /\ pc \in Sweeps /\ pc' = pc /\ cursor \in Listed /\ Listed' = Listed
      /\ cursor' \in Successors(cursor)
      /\ UNCHANGED <<inserting, nRM_in_handle_queue, present, service_list, position>>
  <2>1. inserting = NoService
    BY DEF Serve, SweepInv, ListAtRest, Sweeps
  <2> QED BY <2>1 DEF Serve, After, Listed
<1>2. cursor # End /\ cursor \in Nat /\ \A s \in Listed : s \in Nat /\ s # End
  BY <1>1, ManagerAssumption DEF TypeOK, ManagerAssumption, End
<1>3. \A s \in Listed : Behind(s)' <=> (Behind(s) \/ s = cursor)
  BY <1>1, <1>2, NextSuccessor DEF Behind
<1>4. ~Behind(cursor)
  BY <1>1, <1>2 DEF Behind
<1>5. \A s \in Listed : HasMode(pc, s)' <=> HasMode(pc, s)
  BY <1>1 DEF HasMode, NetworkMode
<1>6. ListAtRest' /\ cursor' \in Listed' \cup {End}
  BY <1>1, SuccessorsType DEF SweepInv, ListAtRest
<1>7. SweepComplete'
  BY <1>1 DEF SweepComplete, SweepOver, Sweeps
<1>8. sent \in Seq(Messages)
  BY DEF TypeOK
<1>9. CASE HasMode(pc, cursor)
  <2>1. SweepMessage(cursor) \in Messages /\ SweepMessage(cursor).service = cursor
    BY <1>1, <1>9, SweepMessageType, SweepMessageService
  <2>2. sent' = Append(sent, SweepMessage(cursor))
    BY <1>9 DEF Serve
  <2> DEFINE n == Len(sent)
  <2>3. /\ n \in Nat /\ DOMAIN sent = 1..n /\ DOMAIN sent' = 1..(n + 1)
        /\ \A i \in 1..n : sent'[i] = sent[i]
        /\ sent'[n + 1] = SweepMessage(cursor)
    BY <1>8, <2>1, <2>2
  <2> HIDE DEF n
  <2>4. \A i \in 1..n : sent[i].service \in Listed /\ Behind(sent[i].service)
    BY <1>1, <2>3 DEF SweepInv
  <2>5. \A i \in DOMAIN sent' : sent'[i].service \in Listed' /\ (cursor' = End \/ sent'[i].service < cursor')
    <3>1. TAKE i \in DOMAIN sent'
    <3>2. sent'[i].service \in Listed
          /\ (sent'[i].service < cursor \/ sent'[i].service = cursor)
      BY <1>1, <1>2, <2>1, <2>3, <2>4 DEF Behind
    <3> QED BY <1>1, <1>3, <3>2 DEF Behind
  <2>6. \A s \in Listed' : (HasMode(pc, s) /\ Behind(s) => Served(s))'
    <3>1. SUFFICES ASSUME NEW s \in Listed, HasMode(pc, s), Behind(s) \/ s = cursor
                   PROVE  Served(s)'
      BY <1>1, <1>3, <1>5
    <3>2. CASE s = cursor
      BY <2>1, <2>3, <3>2 DEF Served
    <3>3. CASE Behind(s)
      <4>1. PICK i \in 1..n : sent[i].service = s
        BY <1>1, <2>3, <3>1, <3>3 DEF SweepInv, Served
      <4> QED BY <2>3, <4>1 DEF Served
    <3> QED BY <3>1, <3>2, <3>3
  <2>7. \A i, j \in DOMAIN sent' : sent'[i].service = sent'[j].service => i = j
    <3>1. \A i, j \in 1..n : sent[i].service = sent[j].service => i = j
      BY <1>1, <2>3 DEF SweepInv
    <3>2. \A i \in 1..n : sent[i].service # cursor
      BY <1>4, <2>4
    <3> QED BY <2>1, <2>3, <3>1, <3>2
  <2> QED BY <1>1, <1>6, <1>7, <2>5, <2>6, <2>7 DEF SweepInv, Behind
<1>10. CASE ~HasMode(pc, cursor)
  <2>1. sent' = sent
    BY <1>10 DEF Serve
  <2>2. \A i \in DOMAIN sent' : sent'[i].service \in Listed' /\ (cursor' = End \/ sent'[i].service < cursor')
    <3>1. \A i \in DOMAIN sent : sent[i].service \in Listed /\ Behind(sent[i].service)
      BY <1>1 DEF SweepInv
    <3> QED BY <1>1, <1>3, <2>1, <3>1 DEF Behind
  <2>3. \A s \in Listed' : (HasMode(pc, s) /\ Behind(s) => Served(s))'
    <3>1. \A s \in Listed : HasMode(pc, s) /\ Behind(s) => Served(s)
      BY <1>1 DEF SweepInv
    <3> QED BY <1>1, <1>3, <1>5, <1>10, <2>1, <3>1 DEF Served
  <2> QED BY <1>1, <1>6, <1>7, <2>1, <2>2, <2>3 DEF SweepInv, Behind
<1> QED BY <1>9, <1>10

LEMMA SweepBegin ==
  ASSUME TypeOK, NEW sweep \in Sweeps, BeginSweep(sweep),
         UNCHANGED <<service_list, inserting, nRM_in_handle_queue>>, nRM_in_handle_queue = <<>>
  PROVE  SweepInv'
<1>1. /\ inserting = NoService /\ pc' = sweep /\ sent' = <<>> /\ present' = Listed
      /\ Listed' = Listed /\ cursor' \in Successors(0)
  BY DEF BeginSweep, Listed
<1>2. ListAtRest'
  BY <1>1 DEF ListAtRest
<1>3. cursor' \in Listed \cup {End}
  BY <1>1, SuccessorsType
<1>4. \A s \in Listed : ~(cursor' = End \/ s < cursor')
  <2>1. Listed \subseteq Nat
    BY ManagerAssumption DEF TypeOK, ManagerAssumption
  <2> QED BY <1>1, <1>3, <2>1, FirstSuccessor DEF End
<1>5. SweepComplete'
  BY <1>1 DEF SweepComplete, SweepOver, Sweeps
<1>6. /\ \A i \in DOMAIN sent' : FALSE
      /\ \A s \in Listed' : ~Behind(s)'
  BY <1>1, <1>4 DEF Behind
<1> QED BY <1>1, <1>2, <1>3, <1>5, <1>6 DEF SweepInv

LEMMA SweepEnd ==
  ASSUME TypeOK, SweepInv, EndSweep PROVE SweepInv'
<1> USE DEF handlerVars, roundVars, timeVars
<1>1. /\ pc \in Sweeps /\ cursor = End /\ pc' = AfterSweep /\ pc' \notin Sweeps
      /\ UNCHANGED <<service_list, inserting, nRM_in_handle_queue, sent, present, position>>
  BY DEF EndSweep, AfterSweep, Sweeps
<1>2. ListAtRest' /\ present = Listed
  BY <1>1 DEF SweepInv, ListAtRest, Listed, Sweeps
<1>3. LastSweep' = pc
  BY <1>1 DEF LastSweep, AfterSweep, Sweeps
<1>4. \A s \in Listed : HasMode(LastSweep, s)' => HasMode(pc, s)
  BY <1>1, <1>3 DEF HasMode, NetworkMode
<1>5. /\ \A s \in Listed : HasMode(pc, s) => \E i \in DOMAIN sent : sent[i].service = s
      /\ \A i, j \in DOMAIN sent : sent[i].service = sent[j].service => i = j
  BY <1>1 DEF SweepInv, Behind, Served
<1>6. SweepComplete'
  BY <1>1, <1>2, <1>4, <1>5 DEF SweepComplete
<1> QED BY <1>1, <1>2, <1>6 DEF SweepInv

(* Without late registrations every sweep (start, round or stop) sends each*)
(* listed service whose client has a mode exactly one message.             *)
THEOREM SweepsReachEveryone ==
  ASSUME LateRegistration = FALSE
  PROVE  Spec => []SweepComplete
<1>1. Init => SweepInv
  BY DEF Init, SweepInv, ListAtRest, SweepComplete, SweepOver, Sweeps
<1>2. TypeOK /\ SweepInv /\ [Next]_vars => SweepInv'
  <2> SUFFICES ASSUME TypeOK, SweepInv, [Next]_vars PROVE SweepInv'
    OBVIOUS
  <2> USE DEF handlerVars, roundVars, timeVars
  <2>1. CASE Serve
    BY <2>1, SweepServe
  <2>2. CASE EndSweep
    BY <2>2, SweepEnd
  <2>3. CASE InitialStart
    BY <2>3, SweepBegin DEF InitialStart, Sweeps
  <2>4. CASE PlanRound \/ StoppingExperiment
    <3>1. nRM_in_handle_queue = <<>>
      BY <2>4 DEF PlanRound, StoppingExperiment, SweepInv, ListAtRest
    <3> QED BY <2>4, <3>1, SweepBegin DEF PlanRound, StoppingExperiment, Sweeps
  <2>5. CASE ExperimentSelection \/ Gap \/ EndExperiment
    <3>1. /\ pc # "init" /\ pc' \in Rests \ {"init", "began", "gap", "stopped", "exited"}
          /\ UNCHANGED <<service_list, inserting, nRM_in_handle_queue, sent, present>>
      BY <2>5 DEF ExperimentSelection, Gap, EndExperiment, Rests
    <3>2. ListAtRest'
      BY <3>1 DEF SweepInv, ListAtRest, Listed
    <3> QED BY <3>1, <3>2 DEF SweepInv, SweepComplete, SweepOver, Sweeps, Rests
  <2>6. CASE (\E s \in Services, c \in Clients : ReceiveMessage(s, c)) \/ HandlerStep
    <3>1. pc = "init" /\ pc' = "init"
      BY <2>6 DEF HandlerStep, ReceiveMessage, HandleMessage, InsertService, SweepInv, ListAtRest
    <3> QED BY <3>1 DEF SweepInv, ListAtRest, SweepComplete, SweepOver, Sweeps
  <2>7. CASE UNCHANGED vars
    BY <2>7
       DEF vars, SweepInv, ListAtRest, SweepComplete, SweepOver, LastSweep, HasMode, Behind,
           Served, Listed, NetworkMode
  <2> QED BY <2>1, <2>2, <2>3, <2>4, <2>5, <2>6, <2>7 DEF Next, TimerStep
<1>3. SweepInv => SweepComplete
  BY DEF SweepInv
<1> QED BY <1>1, <1>2, <1>3, TypeCorrect, PTL DEF Spec

-----------------------------------------------------------------------------
(* The hyperperiod reference stays ahead of the clock. *)

LEMMA ClockTotal == ASSUME NEW time \in Nat PROVE Total(ClockGettime(time)) = time
  BY DEF ClockGettime, Total

LEMMA SubtractTotal ==
  ASSUME NEW end \in Timespecs, NEW start \in Timespecs
  PROVE  Total(SubtractTimespec(end, start)) = Total(end) - Total(start)
  BY DEF SubtractTimespec, Total, Timespecs

(* Rounding a quotient by 100 towards zero misses by less than one. *)
LEMMA DivideBounds ==
  ASSUME NEW a \in Int
  PROVE  /\ DivideTowardsZero(a, 100) \in Int
         /\ a >= 0 => /\ 100 * DivideTowardsZero(a, 100) <= a
                      /\ a < 100 * DivideTowardsZero(a, 100) + 100
         /\ a < 0 => /\ 100 * DivideTowardsZero(a, 100) >= a
                     /\ 100 * DivideTowardsZero(a, 100) < a + 100
  BY DEF DivideTowardsZero

(* The width of a uint32_t, and a span of 11 days, in milliseconds. *)
Uint32Values == 256 * 256 * 256 * 256
LongSpan == 1000 * 1000 * 1000

LEMMA Spans ==
  /\ LongSpan \in Nat /\ LongSpan > 5000
  /\ Uint32Values \in Nat /\ 2 * LongSpan < Uint32Values
  BY SMT DEF LongSpan, Uint32Values

LEMMA WrapAround ==
  ASSUME NEW a \in Int, NEW b \in Int, a + b >= 0, a + b <= LongSpan, a <= LongSpan,
         a >= -LongSpan
  PROVE  ((a % Uint32Values) + b) % Uint32Values = a + b
  BY SMT DEF LongSpan, Uint32Values

LEMMA NoWrap ==
  ASSUME NEW a \in Nat, a <= 2 * LongSpan PROVE a % Uint32Values = a
  BY SMT DEF LongSpan, Uint32Values

(* The target hyperperiod is more than the distribution phase, and at most *)
(* three hyperperiods more, after the clock, whether the reference lies in *)
(* the past or up to a distribution phase in the future, when the count of *)
(* past hyperperiods is negative and wraps around.                         *)
LEMMA TargetWindow ==
  ASSUME HyperperiodDuration = 100, UintMod = Uint32Values,
         NEW time \in Nat, NEW last \in Timespecs, NEW d \in Nat, d <= LongSpan,
         Total(last) < time + d, time + d < Total(last) + LongSpan
  PROVE  /\ Total(TargetHyperperiod(ClockGettime(time), last, d)) > time + d
         /\ Total(TargetHyperperiod(ClockGettime(time), last, d)) <= time + d + 300
         /\ TargetHyperperiod(ClockGettime(time), last, d).ms <= last.ms + 900
<1> DEFINE diff == time - Total(last)
<1> DEFINE past == DivideTowardsZero(diff, 100) + 1
<1> DEFINE distribute == d \div 100 + 1
<1>1. ClockGettime(time) \in Timespecs /\ Total(ClockGettime(time)) = time
  BY ClockTotal, ClockType
<1>2. diff \in Int /\ Total(SubtractTimespec(ClockGettime(time), last)) = diff
  BY <1>1, SubtractTotal DEF Total, Timespecs
<1>3. /\ past \in Int
      /\ diff >= 0 => 100 * past > diff /\ 100 * past <= diff + 100
      /\ diff < 0 => 100 * past >= diff + 100 /\ 100 * past < diff + 200
  BY <1>2, DivideBounds
<1>4. /\ distribute \in Int
      /\ 100 * distribute > d /\ 100 * distribute <= d + 100
  OBVIOUS
<1>5. -d < diff /\ diff < LongSpan - d
  BY <1>2, Spans DEF Total, Timespecs
<1> HIDE DEF diff, past, distribute
<1>6. /\ past + distribute > 0
      /\ 100 * (past + distribute) <= LongSpan + 200
      /\ past + distribute <= LongSpan /\ past >= -LongSpan /\ past <= LongSpan
  BY <1>2, <1>3, <1>4, <1>5, Spans
<1>7. NumberHyperperiods(ClockGettime(time), last, d) = past + distribute
  <2>1. NumberHyperperiods(ClockGettime(time), last, d)
          = ((past % Uint32Values) + distribute) % Uint32Values
    BY <1>2 DEF NumberHyperperiods, past, distribute
  <2>2. /\ past \in Int /\ distribute \in Int
        /\ past + distribute >= 0 /\ past + distribute <= LongSpan
        /\ past <= LongSpan /\ past >= -LongSpan
    BY <1>3, <1>4, <1>6
  <2> QED BY <2>1, <2>2, WrapAround
<1> DEFINE advance == (past + distribute) * 100
<1>8. advance % Uint32Values = advance /\ advance \in Nat
  BY <1>3, <1>4, <1>6, Spans, NoWrap
<1> HIDE DEF advance
<1>9. TargetHyperperiod(ClockGettime(time), last, d)
        = [sec |-> last.sec + advance \div 1000, ms |-> last.ms + (advance % 1000)]
  BY <1>7, <1>8 DEF TargetHyperperiod, advance
<1>10. Total(TargetHyperperiod(ClockGettime(time), last, d)) = Total(last) + advance
  BY <1>8, <1>9 DEF Total, Timespecs
<1>11. TargetHyperperiod(ClockGettime(time), last, d).ms <= last.ms + 900
  <2>1. advance % 1000 <= 900
    BY <1>3, <1>4, <1>6 DEF advance
  <2> QED BY <1>8, <1>9, <2>1 DEF Timespecs
<1>12. Total(last) = time - diff /\ Total(last) \in Int
  BY DEF diff, Total, Timespecs
<1> QED BY <1>2, <1>3, <1>4, <1>10, <1>11, <1>12 DEF advance

(* Where the reference is, seen from the clock: about a distribution phase *)
(* ahead after the start, less before a round is planned, more after.      *)
ReferenceInv ==
    OnHyperperiods =>
        /\ pc \in {"start", "began"} =>
              /\ Total(rm_active_timestamp_last) > now + DistributionPhase - 1000
              /\ Total(rm_active_timestamp_last) < now + DistributionPhase + BeginOffset
        /\ pc = "start" =>
              /\ 1000 * target.sec > now + DistributionPhase - 1000
              /\ 1000 * target.sec < now + DistributionPhase + 1000
        /\ pc = "plan" =>
              /\ Total(rm_active_timestamp_last) < now + DistributionPhase
              /\ now + DistributionPhase < Total(rm_active_timestamp_last) + LongSpan
        /\ pc \in {"round", "gap"} =>
              /\ Total(rm_active_timestamp_last) > now + DistributionPhase
              /\ Total(rm_active_timestamp_last) <= now + DistributionPhase + 300
              /\ target = rm_active_timestamp_last

(* A timestamp t lies a delay d and less than a second after the clock.    *)
JustAfter(t, time, d) ==
    /\ t \in Timespecs /\ Total(t) \in Int
    /\ 1000 * t.sec > time + d - 1000 /\ 1000 * t.sec < time + d + 1000
    /\ Total(t) >= time + d /\ Total(t) < time + d + 1000

LEMMA StartTarget ==
  ASSUME NEW time \in Nat, NEW d \in Nat
  PROVE  JustAfter(PrepareTimestampAdd(GetRoundTimestamp(ClockGettime(time)), d), time, d)
<1> DEFINE t == PrepareTimestampAdd(GetRoundTimestamp(ClockGettime(time)), d)
<1> DEFINE r == GetRoundTimestamp(ClockGettime(time))
<1>1. r.sec \in Int /\ 1000 * r.sec >= time /\ 1000 * r.sec < time + 1000
  BY DEF GetRoundTimestamp, ClockGettime
<1>2. t = [sec |-> r.sec + d \div 1000, ms |-> d % 1000]
  BY DEF PrepareTimestampAdd
<1> HIDE DEF r, t
<1>3. d \div 1000 \in Int /\ d = 1000 * (d \div 1000) + (d % 1000) /\ d % 1000 \in 0..999
  OBVIOUS
<1>4. Total(t) = 1000 * r.sec + d /\ 1000 * t.sec = 1000 * r.sec + d - (d % 1000)
  BY <1>1, <1>2, <1>3 DEF Total
<1>5. t \in Timespecs
  BY <1>1, <1>2, <1>3 DEF Timespecs
<1>6. JustAfter(t, time, d)
  BY <1>1, <1>3, <1>4, <1>5 DEF JustAfter
<1> QED BY <1>6 DEF t

(* The reference stays there as long as the hypotheses of                  *)
(* ReferenceStaysAhead hold: the start sets it, the rounds advance it.     *)
LEMMA ReferenceInvariant ==
  ASSUME HyperperiodDuration = 100, UintMod = Uint32Values,
         \A s, m : Slot(s, m) + 1000 < BeginOffset,
         GapMin >= 1000,
         NEW late \in Nat, \A d \in Delays : d <= late,
         DistributionPhase + BeginOffset + GapMax + late + 1000 < LongSpan
  PROVE  Spec => []ReferenceInv
<1>1. Init => ReferenceInv
  BY DEF Init, ReferenceInv
<1>2. TypeOK /\ ReferenceInv /\ [Next]_vars => ReferenceInv'
  <2> SUFFICES ASSUME TypeOK, ReferenceInv, [Next]_vars, OnHyperperiods PROVE ReferenceInv'
    BY DEF ReferenceInv, OnHyperperiods
  <2> USE DEF handlerVars, roundVars, timeVars
  <2>0. /\ now \in Nat /\ target \in Timespecs /\ rm_active_timestamp_last \in Timespecs
        /\ Total(rm_active_timestamp_last) \in Int
    BY DEF TypeOK, Total, Timespecs
  <2>1. CASE InitialStart
    <3>1. SynchronousStart
      BY ManagerAssumption DEF ManagerAssumption, OnHyperperiods
    <3>2. PICK d \in Delays : now' = now + ClientInitTime + d
      BY <2>1 DEF InitialStart, Passes
    <3>3. now' \in Nat
      BY <2>0, <3>2, Durations
    <3>4. /\ pc' = "start"
          /\ target' = PrepareTimestampAdd(GetRoundTimestamp(ClockGettime(now')),
                                           DistributionPhase)
          /\ rm_active_timestamp_last' = target'
      BY <2>1, <3>1 DEF InitialStart, BeginSweep
    <3>5. /\ 1000 * target'.sec > now' + DistributionPhase - 1000
          /\ 1000 * target'.sec < now' + DistributionPhase + 1000
          /\ Total(target') >= now' + DistributionPhase
          /\ Total(target') < now' + DistributionPhase + 1000
          /\ Total(target') \in Int
      <4>1. DistributionPhase \in Nat
        BY Durations
      <4>2. target' = PrepareTimestampAdd(GetRoundTimestamp(ClockGettime(now')),
                                          DistributionPhase)
        BY <3>4
      <4>3. JustAfter(target', now', DistributionPhase)
        BY <3>3, <4>1, <4>2, StartTarget
      <4> QED BY <4>3 DEF JustAfter
    <3>6. BeginOffset > 1000
      BY SlotType, Durations
    <3> QED BY <3>3, <3>4, <3>5, <3>6, Durations, SMTT(30) DEF ReferenceInv
  <2>2. CASE Serve
    <3>1. CASE pc = "start" /\ HasMode(pc, cursor)
      <4> DEFINE slot == Slot(cursor, StartupMode[service_list[cursor]])
      <4>1. rm_active_timestamp_last' = PrepareTimestampAdd(target, slot)
        <5>1. SynchronousStart
          BY ManagerAssumption DEF ManagerAssumption, OnHyperperiods
        <5>2. SweepMessage(cursor).start = PrepareTimestampAdd(target, slot)
          BY <3>1, <5>1 DEF SweepMessage, StartMessage, Message
        <5> QED BY <2>2, <3>1, <5>1, <5>2 DEF Serve
      <4>2. slot \in Nat /\ slot + 1000 < BeginOffset
        BY SlotType
      <4> HIDE DEF slot
      <4>3. Total(rm_active_timestamp_last)' = 1000 * target.sec + slot
        BY <2>0, <4>1, <4>2, SlotBase DEF Total
      <4>4. /\ 1000 * target.sec > now + DistributionPhase - 1000
            /\ 1000 * target.sec < now + DistributionPhase + 1000
            /\ target.sec \in Int
        BY <2>0, <3>1 DEF ReferenceInv, Timespecs
      <4>5. UNCHANGED <<pc, now, target>>
        BY <2>2 DEF Serve
      <4> QED BY <2>0, <3>1, <4>2, <4>3, <4>4, <4>5, Durations DEF ReferenceInv
    <3>2. CASE ~(pc = "start" /\ HasMode(pc, cursor))
      <4>1. UNCHANGED <<pc, now, target, rm_active_timestamp_last>>
        BY <2>2, <3>2 DEF Serve
      <4> QED BY <4>1 DEF ReferenceInv, Total, OnHyperperiods
    <3> QED BY <3>1, <3>2
  <2>3. CASE EndSweep
    <3>1. UNCHANGED <<now, target, rm_active_timestamp_last>>
      BY <2>3 DEF EndSweep
    <3>2. \/ pc = "start" /\ pc' = "began"
          \/ pc = "round" /\ pc' = "gap"
          \/ pc' \in {"stopped", "exited"}
      BY <2>3 DEF EndSweep, AfterSweep, Sweeps
    <3> QED BY <3>1, <3>2 DEF ReferenceInv, Total, OnHyperperiods
  <2>4. CASE ExperimentSelection
    <3>1. PICK d \in Delays : now' = now + BeginOffset + d
      BY <2>4 DEF ExperimentSelection, Passes
    <3>2. d \in Nat /\ d <= late
      BY Durations
    <3>3. /\ pc = "began" /\ pc' \in {"plan", "invalid"}
          /\ UNCHANGED <<target, rm_active_timestamp_last>>
      BY <2>4 DEF ExperimentSelection
    <3>4. Total(rm_active_timestamp_last)' = Total(rm_active_timestamp_last)
      BY <3>3 DEF Total
    <3> QED BY <2>0, <3>1, <3>2, <3>3, <3>4, Durations, Spans DEF ReferenceInv
  <2>5. CASE PlanRound
    <3>1. /\ pc = "plan" /\ pc' = "round" /\ now' = now
          /\ target' = TargetHyperperiod(ClockGettime(now), rm_active_timestamp_last,
                                         DistributionPhase)
          /\ rm_active_timestamp_last' = target'
      BY <2>5 DEF PlanRound, BeginSweep, OnHyperperiods
    <3>2. /\ Total(target') > now + DistributionPhase
          /\ Total(target') <= now + DistributionPhase + 300
      <4>1. /\ Total(rm_active_timestamp_last) < now + DistributionPhase
            /\ now + DistributionPhase < Total(rm_active_timestamp_last) + LongSpan
        BY <3>1 DEF ReferenceInv
      <4>2. DistributionPhase \in Nat /\ DistributionPhase <= LongSpan
        BY Durations, Spans
      <4> QED BY <2>0, <3>1, <4>1, <4>2, TargetWindow
    <3> QED BY <3>1, <3>2 DEF ReferenceInv
  <2>6. CASE Gap
    <3>1. PICK gap \in (GapMin \div 1000)..(GapMax \div 1000) : Passes(1000 * gap)
      BY <2>6 DEF Gap
    <3>2. PICK d \in Delays : now' = now + 1000 * gap + d
      BY <3>1 DEF Passes
    <3>3. d \in Nat /\ d <= late /\ gap \in Int /\ 1000 * gap >= 1000 /\ 1000 * gap <= GapMax
      BY <3>1, Durations
    <3>4. /\ pc = "gap" /\ pc' = "plan"
          /\ UNCHANGED <<target, rm_active_timestamp_last>>
      BY <2>6 DEF Gap
    <3>5. Total(rm_active_timestamp_last)' = Total(rm_active_timestamp_last)
      BY <3>4 DEF Total
    <3> QED BY <2>0, <3>2, <3>3, <3>4, <3>5, Durations, Spans DEF ReferenceInv
  <2>7. CASE EndExperiment \/ StoppingExperiment
    BY <2>7 DEF EndExperiment, StoppingExperiment, BeginSweep, ReferenceInv
  <2>8. CASE (\E s \in Services, c \in Clients : ReceiveMessage(s, c)) \/ HandlerStep
             \/ UNCHANGED vars
    <3>1. UNCHANGED <<pc, now, target, rm_active_timestamp_last>>
      BY <2>8, RequestsLeave
    <3> QED BY <3>1 DEF ReferenceInv, Total, OnHyperperiods
  <2> QED BY <2>1, <2>2, <2>3, <2>4, <2>5, <2>6, <2>7, <2>8 DEF Next, TimerStep
<1> QED BY <1>1, <1>2, TypeCorrect, PTL DEF Spec

(* The reference of every round is ahead of the clock by more than the     *)
(* distribution phase and by at most three hyperperiods more, as long as   *)
(* the configured hyperperiod is the 100 ms of the code, the services'     *)
(* slots and a second fit into the time before the first round, rounds are *)
(* a second apart, and the waits together stay below eleven days.          *)
THEOREM ReferenceStaysAhead ==
  ASSUME HyperperiodDuration = 100, UintMod = Uint32Values,
         \A s, m : Slot(s, m) + 1000 < BeginOffset,
         GapMin >= 1000,
         NEW late \in Nat, \A d \in Delays : d <= late,
         DistributionPhase + BeginOffset + GapMax + late + 1000 < LongSpan
  PROVE  Spec => []ReferenceAhead
<1>1. Spec => []ReferenceInv
  BY ReferenceInvariant
<1>2. ReferenceInv => ReferenceAhead
  BY DEF ReferenceInv, ReferenceAhead
<1> QED BY <1>1, <1>2, PTL

-----------------------------------------------------------------------------
(* No timestamp is in the past when it is handed out.  Between the         *)
(* reference and the messages stands the rest of the reference: it is never*)
(* carried into the seconds, and every message drops it.                   *)

(* The rounds of the iterations that are over. *)
Rounds == iterator * Len(ReconfigurationOrder)

(* The rest grows by less than a second in each round. *)
RestInv(rest) ==
    OnHyperperiods =>
        /\ pc \in {"start", "began"} => rm_active_timestamp_last.ms <= rest
        /\ pc = "start" => target.ms <= rest
        /\ pc = "plan" => rm_active_timestamp_last.ms <= rest + 900 * (Rounds + position - 1)
        /\ pc \in {"round", "gap"} =>
              /\ rm_active_timestamp_last.ms <= rest + 900 * (Rounds + position)
              /\ iterator < Iterations

LEMMA RoundsType == ASSUME TypeOK PROVE Rounds \in Nat /\ position \in Nat
<1>1. iterator \in Nat /\ position \in Nat /\ Len(ReconfigurationOrder) \in Nat
  BY Durations DEF TypeOK
<1> QED BY <1>1 DEF Rounds

LEMMA NextIteration ==
  ASSUME NEW i \in Nat, NEW n \in Nat PROVE (i + 1) * n = i * n + n
  OBVIOUS

LEMMA RoundsBounded ==
  ASSUME NEW i \in Nat, NEW n \in Nat, NEW k \in Nat, NEW p \in Nat, i < k, p <= n
  PROVE  i * n + p <= k * n
<1>1. i + 1 <= k /\ (i + 1) * n <= k * n
  OBVIOUS
<1> QED BY <1>1, NextIteration

LEMMA RestInvariant ==
  ASSUME HyperperiodDuration = 100, UintMod = Uint32Values,
         \A s, m : Slot(s, m) + 1000 < BeginOffset,
         GapMin >= 1000,
         NEW late \in Nat, \A d \in Delays : d <= late,
         DistributionPhase + BeginOffset + GapMax + late + 1000 < LongSpan,
         Iterations < IterationMod,
         NEW rest \in Nat, DistributionPhase % 1000 <= rest, \A s, m : Slot(s, m) <= rest
  PROVE  Spec => []RestInv(rest)
<1>1. Init => RestInv(rest)
  BY DEF Init, RestInv
<1>2. TypeOK /\ ReferenceInv /\ RestInv(rest) /\ [Next]_vars => RestInv(rest)'
  <2> SUFFICES ASSUME TypeOK, ReferenceInv, RestInv(rest), [Next]_vars, OnHyperperiods
               PROVE  RestInv(rest)'
    BY DEF RestInv, OnHyperperiods
  <2> USE DEF handlerVars, roundVars, timeVars
  <2>0. /\ rm_active_timestamp_last \in Timespecs /\ target \in Timespecs /\ now \in Nat
        /\ Rounds \in Nat /\ position \in Nat
        /\ rm_active_timestamp_last.ms \in Int
    BY RoundsType DEF TypeOK, Timespecs
  <2>1. CASE InitialStart
    <3>1. SynchronousStart
      BY ManagerAssumption DEF ManagerAssumption, OnHyperperiods
    <3>2. /\ pc' = "start" /\ rm_active_timestamp_last' = target'
          /\ target'.ms = DistributionPhase % 1000
      BY <2>1, <3>1 DEF InitialStart, BeginSweep, PrepareTimestampAdd
    <3> QED BY <3>2 DEF RestInv
  <2>2. CASE Serve
    <3>1. UNCHANGED <<pc, target, iterator, position>>
      BY <2>2 DEF Serve
    <3>2. CASE UNCHANGED rm_active_timestamp_last
      BY <3>1, <3>2 DEF RestInv, OnHyperperiods, Rounds
    <3>3. CASE rm_active_timestamp_last' # rm_active_timestamp_last
      <4> DEFINE slot == Slot(cursor, StartupMode[service_list[cursor]])
      <4>1. pc = "start" /\ SynchronousStart
        BY <2>2, <3>3 DEF Serve
      <4>2. rm_active_timestamp_last' = PrepareTimestampAdd(target, slot)
        BY <2>2, <3>3, <4>1 DEF Serve, SweepMessage, StartMessage, Message
      <4>3. slot \in Nat /\ slot <= rest /\ slot % 1000 <= slot
        BY SlotType
      <4>4. rm_active_timestamp_last'.ms <= rest
        BY <4>2, <4>3 DEF PrepareTimestampAdd
      <4> QED BY <3>1, <4>1, <4>4 DEF RestInv
    <3> QED BY <3>2, <3>3
  <2>3. CASE EndSweep
    <3>1. /\ UNCHANGED <<rm_active_timestamp_last, iterator, position>>
          /\ \/ pc = "start" /\ pc' = "began"
             \/ pc = "round" /\ pc' = "gap"
             \/ pc' \in {"stopped", "exited"}
      BY <2>3 DEF EndSweep, AfterSweep, Sweeps
    <3> QED BY <3>1 DEF RestInv, Rounds
  <2>4. CASE ExperimentSelection
    <3>1. /\ pc = "began" /\ pc' \in {"plan", "invalid"}
          /\ UNCHANGED rm_active_timestamp_last
          /\ iterator' = 0 /\ position' = 1
      BY <2>4 DEF ExperimentSelection
    <3>2. Rounds' = 0
      BY <3>1, Durations DEF Rounds
    <3> QED BY <2>0, <3>1, <3>2 DEF RestInv
  <2>5. CASE PlanRound
    <3>1. /\ pc = "plan" /\ pc' = "round" /\ iterator < Iterations
          /\ UNCHANGED <<iterator, position>>
          /\ rm_active_timestamp_last' =
                TargetHyperperiod(ClockGettime(now), rm_active_timestamp_last, DistributionPhase)
      BY <2>5 DEF PlanRound, MoreIterations, BeginSweep, OnHyperperiods
    <3>2. rm_active_timestamp_last'.ms <= rm_active_timestamp_last.ms + 900
      <4>1. /\ Total(rm_active_timestamp_last) < now + DistributionPhase
            /\ now + DistributionPhase < Total(rm_active_timestamp_last) + LongSpan
        BY <3>1 DEF ReferenceInv
      <4>2. DistributionPhase \in Nat /\ DistributionPhase <= LongSpan
        BY Durations, Spans
      <4> QED BY <2>0, <3>1, <4>1, <4>2, TargetWindow
    <3>3. rm_active_timestamp_last'.ms \in Int
      BY <2>0, <3>1, Durations, TargetRest
    <3>4. rm_active_timestamp_last.ms <= rest + 900 * (Rounds + position - 1)
      BY <3>1 DEF RestInv
    <3>5. rm_active_timestamp_last'.ms <= rest + 900 * (Rounds + position)
      BY <2>0, <3>2, <3>3, <3>4
    <3> QED BY <3>1, <3>5 DEF RestInv, Rounds
  <2>6. CASE Gap
    <3> DEFINE n == Len(ReconfigurationOrder)
    <3>1. /\ pc = "gap" /\ pc' = "plan" /\ UNCHANGED rm_active_timestamp_last
          /\ iterator < Iterations
          /\ rm_active_timestamp_last.ms <= rest + 900 * (Rounds + position)
      BY <2>6 DEF Gap, RestInv
    <3>2. CASE position = n
      <4>1. position' = 1 /\ iterator' = iterator + 1
        <5>1. iterator \in Nat /\ iterator + 1 < IterationMod /\ IterationMod \in Nat
          BY <3>1, Durations DEF TypeOK
        <5>2. (iterator + 1) % IterationMod = iterator + 1
          BY <5>1
        <5> QED BY <2>6, <3>2, <5>2 DEF Gap
      <4>2. Rounds' = Rounds + position
        <5>1. iterator \in Nat /\ n \in Nat
          BY Durations DEF TypeOK
        <5> QED BY <3>2, <4>1, <5>1, NextIteration DEF Rounds
      <4> QED BY <2>0, <3>1, <4>1, <4>2 DEF RestInv
    <3>3. CASE position # n
      <4>1. position' = position + 1 /\ UNCHANGED iterator
        BY <2>6, <3>3 DEF Gap
      <4> QED BY <2>0, <3>1, <4>1 DEF RestInv, Rounds
    <3> QED BY <3>2, <3>3
  <2>7. CASE EndExperiment \/ StoppingExperiment
    BY <2>7 DEF EndExperiment, StoppingExperiment, BeginSweep, RestInv
  <2>8. CASE (\E s \in Services, c \in Clients : ReceiveMessage(s, c)) \/ HandlerStep
             \/ UNCHANGED vars
    <3>1. UNCHANGED <<pc, target, rm_active_timestamp_last, iterator, position>>
      BY <2>8, RequestsLeave
    <3> QED BY <3>1 DEF RestInv, OnHyperperiods, Rounds
  <2> QED BY <2>1, <2>2, <2>3, <2>4, <2>5, <2>6, <2>7, <2>8 DEF Next, TimerStep
<1>3. Spec => []ReferenceInv
  BY ReferenceInvariant
<1> QED BY <1>1, <1>2, <1>3, TypeCorrect, PTL DEF Spec

(* How far the clock may be in each phase of an experiment that began at   *)
(* epoch: what lies ahead of the timer thread is not spent yet.            *)
ScheduleInv(epoch) ==
    /\ pc = "init" => now <= epoch
    /\ pc \in {"start", "began"} =>
          now + BeginOffset + EndOffset + 2 * LatestTimer <= epoch + Duration(0)
    /\ pc = "invalid" => now <= epoch + Duration(0)
    /\ pc \in {"plan", "round", "gap"} =>
          now + EndOffset + LatestTimer <= epoch + Duration(Rounds + position - 1)
    /\ pc = "plan" => iterator <= Iterations /\ (iterator = Iterations => position = 1)
    /\ pc \in {"round", "gap"} => iterator < Iterations
    /\ pc = "ending" =>
          now + EndOffset + LatestTimer
             <= epoch + Duration(Iterations * Len(ReconfigurationOrder))
    /\ pc \in {"stop", "stopped", "exited"} =>
          now <= epoch + Duration(Iterations * Len(ReconfigurationOrder))

LEMMA Latest ==
  ASSUME NEW late \in Delays, \A d \in Delays : d <= late
  PROVE  LatestTimer \in Nat /\ \A d \in Delays : d \in Nat /\ d <= LatestTimer
  BY Durations DEF LatestTimer

(* A round more takes a gap more. *)
LEMMA DurationGrows ==
  ASSUME LatestTimer \in Nat, NEW n \in Nat
  PROVE  /\ Duration(n) \in Nat
         /\ Duration(n + 1) = Duration(n) + GapMax + LatestTimer
         /\ \A k \in Nat : n <= k => Duration(n) <= Duration(k)
<1> DEFINE g == GapMax + LatestTimer
<1>1. /\ g \in Nat /\ GapMax \in Nat
      /\ ClientInitTime + BeginOffset + EndOffset + 3 * LatestTimer \in Nat
  BY Durations
<1>2. /\ n * g \in Nat /\ (n + 1) * g = n * g + g
      /\ \A k \in Nat : k * g \in Nat /\ (n <= k => n * g <= k * g)
  <2> HIDE DEF g
  <2> QED BY <1>1, NextIteration
<1> QED BY <1>1, <1>2 DEF Duration

(* The rounds before the one that is planned are not more than all. *)
LEMMA RoundsSpent ==
  ASSUME TypeOK, iterator <= Iterations, iterator = Iterations => position = 1
  PROVE  /\ Rounds + position - 1 \in Nat
         /\ Rounds + position - 1 <= Iterations * Len(ReconfigurationOrder)
         /\ Iterations * Len(ReconfigurationOrder) \in Nat
<1> DEFINE n == Len(ReconfigurationOrder)
<1>1. /\ iterator \in Nat /\ position \in Nat /\ 1 <= position /\ position <= n
      /\ n \in Nat /\ Iterations \in Nat /\ Rounds \in Nat
  BY RoundsType, Durations DEF TypeOK
<1>2. Rounds = iterator * n
  BY DEF Rounds
<1>3. Iterations * n \in Nat
  BY <1>1
<1>4. CASE iterator = Iterations
  BY <1>1, <1>2, <1>3, <1>4
<1>5. CASE iterator < Iterations
  <2>1. Rounds + position <= Iterations * n
    BY <1>1, <1>2, <1>5, RoundsBounded
  <2> QED BY <1>1, <1>3, <2>1
<1> QED BY <1>1, <1>4, <1>5

(* A timer or a sleep takes its duration and the latest timer's delay.     *)
LEMMA PassesBy ==
  ASSUME LatestTimer \in Nat, \A d \in Delays : d \in Nat /\ d <= LatestTimer,
         now \in Nat, NEW duration \in Nat, Passes(duration)
  PROVE  now' \in Nat /\ now' <= now + duration + LatestTimer
  BY DEF Passes

LEMMA ScheduleStep ==
  ASSUME LatestTimer \in Nat, \A d \in Delays : d \in Nat /\ d <= LatestTimer,
         Iterations < IterationMod,
         TypeOK, NEW epoch \in Nat, ScheduleInv(epoch), [Next]_vars
  PROVE  ScheduleInv(epoch)'
<1> USE DEF handlerVars, roundVars, timeVars
<1> DEFINE n == Len(ReconfigurationOrder)
<1>0. /\ now \in Nat /\ Rounds \in Nat /\ position \in Nat /\ position >= 1
      /\ iterator \in Nat /\ n \in Nat
      /\ ClientInitTime \in Nat /\ BeginOffset \in Nat /\ EndOffset \in Nat
      /\ GapMax \in Nat /\ Iterations \in Nat
  BY RoundsType, Durations DEF TypeOK
<1>1. CASE InitialStart
  <2>1. /\ pc = "init" /\ pc' = "start"
        /\ now' \in Nat /\ now' <= now + ClientInitTime + LatestTimer
    BY <1>0, <1>1, PassesBy DEF InitialStart, BeginSweep
  <2>2. Duration(0) = ClientInitTime + BeginOffset + EndOffset + 3 * LatestTimer
    BY <1>0 DEF Duration
  <2> QED BY <1>0, <2>1, <2>2 DEF ScheduleInv
<1>2. CASE Serve
  <2>1. UNCHANGED <<pc, now, iterator, position>>
    BY <1>2 DEF Serve
  <2> QED BY <2>1 DEF ScheduleInv, Rounds
<1>3. CASE EndSweep
  <2>1. /\ UNCHANGED <<now, iterator, position>>
        /\ \/ pc = "start" /\ pc' = "began"
           \/ pc = "round" /\ pc' = "gap"
           \/ pc = "stop" /\ pc' \in {"stopped", "exited"}
    BY <1>3 DEF EndSweep, AfterSweep, Sweeps
  <2> QED BY <2>1 DEF ScheduleInv, Rounds
<1>4. CASE ExperimentSelection
  <2>1. /\ pc = "began" /\ pc' \in {"plan", "invalid"}
        /\ iterator' = 0 /\ position' = 1
        /\ now' \in Nat /\ now' <= now + BeginOffset + LatestTimer
    BY <1>0, <1>4, PassesBy DEF ExperimentSelection
  <2>2. Rounds' + position' - 1 = 0
    BY <1>0, <2>1 DEF Rounds
  <2>3. Duration(0) \in Nat
    BY DurationGrows
  <2>4. now' + EndOffset + LatestTimer <= epoch + Duration(0)
    BY <1>0, <2>1, <2>3 DEF ScheduleInv
  <2> QED BY <1>0, <2>1, <2>2, <2>3, <2>4 DEF ScheduleInv
<1>5. CASE PlanRound
  <2>1. /\ pc = "plan" /\ pc' = "round" /\ iterator < Iterations
        /\ UNCHANGED <<now, iterator, position>>
    BY <1>5 DEF PlanRound, MoreIterations, BeginSweep
  <2> QED BY <2>1 DEF ScheduleInv, Rounds
<1>6. CASE Gap
  <2>1. /\ pc = "gap" /\ pc' = "plan" /\ iterator < Iterations
        /\ now' \in Nat /\ now' <= now + GapMax + LatestTimer
    <3>1. PICK gap \in (GapMin \div 1000)..(GapMax \div 1000) : Passes(1000 * gap)
      BY <1>6 DEF Gap
    <3>2. 1000 * gap \in Nat /\ 1000 * gap <= GapMax
      BY <1>0, Durations
    <3>3. now' \in Nat /\ now' <= now + 1000 * gap + LatestTimer
      BY <1>0, <3>1, <3>2, PassesBy
    <3>4. now' <= now + GapMax + LatestTimer
      BY <1>0, <3>2, <3>3
    <3> QED BY <1>6, <3>3, <3>4 DEF Gap, ScheduleInv
  <2>2. Rounds' + position' - 1 = (Rounds + position - 1) + 1 /\ iterator' <= Iterations
        /\ (iterator' = Iterations => position' = 1)
    <3>1. CASE position = n
      <4>1. position' = 1 /\ iterator' = iterator + 1
        <5>1. iterator + 1 < IterationMod /\ IterationMod \in Nat
          BY <1>0, <2>1, Durations
        <5>2. (iterator + 1) % IterationMod = iterator + 1
          BY <1>0, <5>1
        <5> QED BY <1>6, <3>1, <5>2 DEF Gap
      <4>2. Rounds' = Rounds + position
        BY <1>0, <3>1, <4>1, NextIteration DEF Rounds
      <4> QED BY <1>0, <2>1, <4>1, <4>2
    <3>2. CASE position # n
      <4>1. position' = position + 1 /\ UNCHANGED iterator
        BY <1>6, <3>2 DEF Gap
      <4>2. UNCHANGED Rounds
        BY <4>1 DEF Rounds
      <4> QED BY <1>0, <2>1, <4>1, <4>2
    <3> QED BY <3>1, <3>2
  <2> DEFINE spent == Rounds + position - 1
  <2>3. spent \in Nat
    BY <1>0
  <2>4. /\ Duration(spent) \in Nat
        /\ Duration(spent + 1) = Duration(spent) + GapMax + LatestTimer
    <3> HIDE DEF spent
    <3> QED BY <2>3, DurationGrows
  <2>5. now + EndOffset + LatestTimer <= epoch + Duration(spent)
    BY <2>1 DEF ScheduleInv
  <2>6. now' + EndOffset + LatestTimer <= epoch + Duration(spent + 1)
    <3>1. /\ EndOffset \in Nat /\ GapMax \in Nat /\ now \in Nat /\ now' \in Nat
          /\ now' <= now + GapMax + LatestTimer
      BY <1>0, <2>1
    <3> HIDE DEF spent
    <3> QED BY <2>4, <2>5, <3>1
  <2>7. (Duration(Rounds + position - 1))' = Duration(spent + 1)
    BY <2>2 DEF Duration, LatestTimer
  <2> QED BY <2>1, <2>2, <2>6, <2>7 DEF ScheduleInv
<1>7. CASE EndExperiment
  <2>1. pc = "plan" /\ pc' = "ending" /\ UNCHANGED now /\ ~(iterator < Iterations)
    BY <1>7 DEF EndExperiment, MoreIterations
  <2>2. iterator = Iterations /\ position = 1
    BY <1>0, <2>1 DEF ScheduleInv
  <2>3. Rounds + position - 1 = Iterations * n
    BY <1>0, <2>2 DEF Rounds
  <2> QED BY <2>1, <2>3 DEF ScheduleInv
<1>8. CASE StoppingExperiment
  <2>1. /\ pc = "ending" /\ pc' = "stop"
        /\ now' \in Nat /\ now' <= now + EndOffset + LatestTimer
    BY <1>0, <1>8, PassesBy DEF StoppingExperiment, BeginSweep
  <2>2. Iterations * n \in Nat
    BY <1>0
  <2>3. Duration(Iterations * n) \in Nat
    <3> HIDE DEF n
    <3> QED BY <2>2, DurationGrows
  <2>4. now' <= epoch + Duration(Iterations * n)
    BY <1>0, <2>1, <2>3 DEF ScheduleInv
  <2> QED BY <2>1, <2>4 DEF ScheduleInv
<1>9. CASE (\E s \in Services, c \in Clients : ReceiveMessage(s, c)) \/ HandlerStep
           \/ UNCHANGED vars
  <2>1. UNCHANGED <<pc, now, iterator, position>>
    BY <1>9, RequestsLeave
  <2> QED BY <2>1 DEF ScheduleInv, Rounds
<1> QED BY <1>1, <1>2, <1>3, <1>4, <1>5, <1>6, <1>7, <1>8, <1>9 DEF Next, TimerStep

(* An experiment of fewer iterations than its counter has values takes no  *)
(* longer than its configuration says.  The counter has 8 bits, the        *)
(* configured number 32.                                                   *)
THEOREM ExperimentOnSchedule ==
  ASSUME NEW late \in Delays, \A d \in Delays : d <= late,
         Iterations < IterationMod
  PROVE  Spec => []OnSchedule
<1> DEFINE Inv == \E epoch \in EpochStarts : ScheduleInv(epoch)
<1>1. LatestTimer \in Nat /\ \A d \in Delays : d \in Nat /\ d <= LatestTimer
  BY Latest
<1>2. EpochStarts \subseteq Nat
  BY ManagerAssumption DEF ManagerAssumption
<1>3. Init => Inv
  <2> SUFFICES ASSUME Init PROVE ScheduleInv(now) /\ now \in EpochStarts
    OBVIOUS
  <2>1. pc = "init" /\ now \in EpochStarts /\ now \in Nat
    BY <1>2 DEF Init
  <2> QED BY <2>1 DEF ScheduleInv
<1>4. TypeOK /\ Inv /\ [Next]_vars => Inv'
  BY <1>1, <1>2, ScheduleStep
<1>5. TypeOK /\ Inv => OnSchedule
  <2> SUFFICES ASSUME TypeOK, NEW epoch \in EpochStarts, ScheduleInv(epoch)
               PROVE  now <= epoch + Duration(Iterations * Len(ReconfigurationOrder))
    BY DEF OnSchedule
  <2> DEFINE all == Iterations * Len(ReconfigurationOrder)
  <2> SUFFICES now <= epoch + Duration(all)
    OBVIOUS
  <2>1. /\ now \in Nat /\ epoch \in Nat /\ iterator \in Nat /\ Iterations \in Nat
        /\ BeginOffset \in Nat /\ EndOffset \in Nat /\ ClientInitTime \in Nat
    BY <1>2, Durations DEF TypeOK
  <2>2. all \in Nat /\ Duration(all) \in Nat /\ Duration(0) \in Nat
        /\ Duration(0) <= Duration(all)
    <3>1. all \in Nat
      BY Durations
    <3> HIDE DEF all
    <3> QED BY <1>1, <3>1, DurationGrows
  <2>3. CASE pc \in {"plan", "round", "gap"}
    <3> DEFINE spent == Rounds + position - 1
    <3>1. iterator <= Iterations /\ (iterator = Iterations => position = 1)
      BY <2>1, <2>3 DEF ScheduleInv
    <3>2. spent \in Nat /\ spent <= all
      BY <3>1, RoundsSpent
    <3>3. Duration(spent) \in Nat /\ Duration(spent) <= Duration(all)
      <4> HIDE DEF spent, all
      <4> QED BY <1>1, <2>2, <3>2, DurationGrows
    <3>4. now + EndOffset + LatestTimer <= epoch + Duration(spent)
      BY <2>3 DEF ScheduleInv
    <3> HIDE DEF spent, all
    <3> QED BY <1>1, <2>1, <2>2, <3>3, <3>4
  <2>4. CASE pc \in {"init", "start", "began", "invalid"}
    <3>1. now <= epoch + Duration(0)
      BY <1>1, <2>1, <2>2, <2>4 DEF ScheduleInv
    <3> HIDE DEF all
    <3> QED BY <2>1, <2>2, <3>1
  <2>5. CASE pc \in {"ending", "stop", "stopped", "exited"}
    <3>1. pc # "ending" => now <= epoch + Duration(all)
      BY <2>5 DEF ScheduleInv
    <3>2. pc = "ending" => now + EndOffset + LatestTimer <= epoch + Duration(all)
      BY DEF ScheduleInv
    <3> HIDE DEF all
    <3> QED BY <1>1, <2>1, <2>2, <3>1, <3>2
  <2> QED BY <2>3, <2>4, <2>5 DEF TypeOK, Sweeps, Rests
<1> QED BY <1>3, <1>4, <1>5, TypeCorrect, PTL DEF Spec

(* The seconds of the target, to which a sweep adds its delays. *)
SecondsAhead ==
    LET seconds == 1000 * target.sec
    IN  /\ pc = "start" /\ SynchronousStart => seconds > now + DistributionPhase - 1000
        /\ pc = "round" /\ ExperimentNumber \in TimestampExperiments =>
              /\ seconds > now + 1000 * (DistributionPhase \div 1000) - 1000
              /\ target.ms >= 0
        /\ pc = "stop" /\ ExperimentNumber \notin TimestampExperiments =>
              seconds > now + DistributionPhase - 1000

Ahead(message) ==
    \A t \in {message.stop, message.reconfig, message.start} \ {Zero} : Total(t) > now

(* A target so far ahead that no delay can take a timestamp into the past. *)
LEMMA AddAhead ==
  ASSUME NEW t \in Timespecs, NEW delay \in Nat, NEW time \in Nat, 1000 * t.sec > time
  PROVE  Total(PrepareTimestampAdd(t, delay)) > time
<1>1. t.sec \in Int
  BY DEF Timespecs
<1> QED BY <1>1, SlotBase

LEMMA SubAhead ==
  ASSUME NEW t \in Timespecs, NEW delay \in Nat, NEW time \in Nat, Total(t) > time + delay
  PROVE  Total(PrepareTimestampSub(t, delay)) > time
<1>1. Total(t) \in Int
  BY DEF Timespecs, Total
<1>2. PrepareTimestampSub(t, delay) = ClockGettime(Total(t) - delay)
  BY <1>1 DEF PrepareTimestampSub
<1>3. Total(t) - delay \in Nat
  BY <1>1
<1>4. Total(ClockGettime(Total(t) - delay)) = Total(t) - delay
  BY <1>3, ClockTotal
<1> QED BY <1>1, <1>2, <1>4

(* The hyperperiod's seconds are ahead by what is subtracted from them. *)
LEMMA HyperperiodSeconds ==
  ASSUME TypeOK, ReferenceInv, OnHyperperiods, pc = "round",
         NEW rest \in Nat, RestInv(rest),
         rest + 900 * (Iterations * Len(ReconfigurationOrder)) + ReconfigOffset
            <= DistributionPhase
  PROVE  1000 * target.sec > now + ReconfigOffset
<1>1. /\ target \in Timespecs /\ target.sec \in Int /\ target.ms \in Int /\ now \in Nat
      /\ iterator \in Nat /\ position \in Nat /\ position <= Len(ReconfigurationOrder)
      /\ Len(ReconfigurationOrder) \in Nat /\ Iterations \in Nat
      /\ ReconfigOffset \in Nat /\ DistributionPhase \in Nat
  BY Durations DEF TypeOK, Timespecs
<1>2. /\ target.ms <= rest + 900 * (Rounds + position) /\ iterator < Iterations
      /\ Total(target) > now + DistributionPhase
  BY DEF RestInv, ReferenceInv
<1>3. Rounds + position <= Iterations * Len(ReconfigurationOrder)
  BY <1>1, <1>2, RoundsBounded, SMTT(30) DEF Rounds
<1>4. Rounds \in Nat /\ Iterations * Len(ReconfigurationOrder) \in Nat
  BY <1>1 DEF Rounds
<1>5. target.ms <= rest + 900 * (Iterations * Len(ReconfigurationOrder))
  BY <1>1, <1>2, <1>3, <1>4
<1> QED BY <1>1, <1>2, <1>4, <1>5, SMTT(30) DEF Total

LEMMA SweepMessageAhead ==
  ASSUME TypeOK, ReferenceInv, SecondsAhead, pc \in Sweeps, DistributionPhase >= 1000,
         NEW rest \in Nat, RestInv(rest),
         rest + 900 * (Iterations * Len(ReconfigurationOrder)) + ReconfigOffset
            <= DistributionPhase,
         NEW s \in Listed
  PROVE  Ahead(SweepMessage(s))
<1>1. /\ target \in Timespecs /\ now \in Nat /\ target.sec \in Int /\ target.ms \in Int
      /\ DistributionPhase \in Nat /\ 1000 * (DistributionPhase \div 1000) >= 1000
      /\ ReconfigOffset \in Nat /\ StartOffset + ReconfigOffset \in Nat
  BY Durations DEF TypeOK, Timespecs
<1>2. CASE pc = "start"
  <2>1. ASSUME SynchronousStart
        PROVE  \A mode : Total(PrepareTimestampAdd(target, Slot(s, mode))) > now
    BY <1>1, <1>2, <2>1, SlotType, AddAhead DEF SecondsAhead
  <2> QED BY <1>2, <2>1 DEF SweepMessage, StartMessage, Message, Ahead
<1>3. CASE pc = "round"
  <2> DEFINE mode == ReconfigurationMap[NetworkMode][service_list[s]]
  <2>1. CASE OnHyperperiods
    <3> DEFINE start == PrepareTimestampAdd(target, Slot(s, mode))
    <3>1. 1000 * target.sec > now + ReconfigOffset
      BY <1>3, <2>1, HyperperiodSeconds
    <3>2. start \in Timespecs /\ Total(start) > now + ReconfigOffset /\ Total(start) \in Int
      <4>1. Slot(s, mode) \in Nat /\ now + ReconfigOffset \in Nat
        BY <1>1, SlotType
      <4>2. start \in Timespecs
        BY <1>1, <4>1, AddType
      <4>3. Total(start) > now + ReconfigOffset
        BY <1>1, <3>1, <4>1, AddAhead
      <4> QED BY <4>2, <4>3 DEF Total, Timespecs
    <3>3. Total(PrepareTimestampSub(start, ReconfigOffset)) > now
      BY <1>1, <3>2, SubAhead
    <3>4. Ahead(HyperperiodMessage(s, mode))
      BY <1>1, <3>2, <3>3 DEF HyperperiodMessage, Message, Ahead
    <3>5. SweepMessage(s) = RoundMessage(s)
      BY <1>3 DEF SweepMessage
    <3>6. RoundMessage(s) = HyperperiodMessage(s, mode)
      BY <2>1 DEF RoundMessage, OnHyperperiods, HyperperiodExperiments, TimestampExperiments
    <3> QED BY <3>4, <3>5, <3>6
  <2>2. CASE ~OnHyperperiods /\ ExperimentNumber \in TimestampExperiments
    <3>1. 1000 * target.sec > now /\ target.ms >= 0
      BY <1>1, <1>3, <2>2 DEF SecondsAhead
    <3>2. Total(target) > now
      BY <1>1, <3>1 DEF Total
    <3>3. \A delay \in Nat : Total(PrepareTimestampAdd(target, delay)) > now
      BY <1>1, <3>1, AddAhead
    <3>4. Ahead(TimestampMessage(s, mode))
      BY <1>1, <3>2, <3>3 DEF TimestampMessage, Message, Ahead
    <3>5. SweepMessage(s) = TimestampMessage(s, mode)
      BY <1>3, <2>2 DEF SweepMessage, RoundMessage, OnHyperperiods
    <3> QED BY <3>4, <3>5
  <2>3. CASE ~OnHyperperiods /\ ExperimentNumber \notin TimestampExperiments
    <3>1. SweepMessage(s) = PlainMessage(s, mode)
      BY <1>3, <2>3 DEF SweepMessage, RoundMessage, OnHyperperiods
    <3> QED BY <3>1 DEF PlainMessage, Message, Ahead
  <2> QED BY <2>1, <2>2, <2>3
<1>4. CASE pc = "stop"
  <2>1. ASSUME ExperimentNumber \notin TimestampExperiments
        PROVE  \A delay \in Nat : Total(PrepareTimestampAdd(target, delay)) > now
    BY <1>1, <1>4, <2>1, AddAhead DEF SecondsAhead
  <2> QED BY <1>4, <2>1 DEF SweepMessage, StopMessage, Message, Ahead
<1> QED BY <1>2, <1>3, <1>4 DEF Sweeps

(* No client is handed a timestamp that has passed, if the distribution    *)
(* phase lasts longer than the rest of the reference can grow in all the   *)
(* rounds of the experiment, 900 ms in each.  The experiments configured in*)
(* config/ have ten rounds and a phase of ten seconds.                     *)
THEOREM StampsStayAhead ==
  ASSUME HyperperiodDuration = 100, UintMod = Uint32Values,
         \A s, m : Slot(s, m) + 1000 < BeginOffset,
         GapMin >= 1000,
         NEW late \in Nat, \A d \in Delays : d <= late,
         DistributionPhase + BeginOffset + GapMax + late + 1000 < LongSpan,
         DistributionPhase >= 1000,
         Iterations < IterationMod,
         NEW rest \in Nat, DistributionPhase % 1000 <= rest, \A s, m : Slot(s, m) <= rest,
         rest + 900 * (Iterations * Len(ReconfigurationOrder)) + ReconfigOffset
            <= DistributionPhase
  PROVE  Spec => []StampsAhead
<1> DEFINE SentAhead == pc \in Sweeps => \A i \in DOMAIN sent : Ahead(sent[i])
<1>1. Init => SecondsAhead /\ SentAhead
  BY DEF Init, SecondsAhead, Sweeps
<1>2. TypeOK /\ ReferenceInv /\ RestInv(rest) /\ SecondsAhead /\ SentAhead /\ [Next]_vars
        => SecondsAhead' /\ SentAhead'
  <2> SUFFICES ASSUME TypeOK, ReferenceInv, RestInv(rest), SecondsAhead, SentAhead,
                      [Next]_vars
               PROVE  SecondsAhead' /\ SentAhead'
    OBVIOUS
  <2> USE DEF handlerVars, roundVars, timeVars
  <2>0. now \in Nat /\ DistributionPhase \in Nat
    BY Durations DEF TypeOK
  <2>1. CASE InitialStart
    <3>1. PICK d \in Delays : now' = now + ClientInitTime + d
      BY <2>1 DEF InitialStart, Passes
    <3>2. now' \in Nat
      BY <2>0, <3>1, Durations
    <3>3. SynchronousStart =>
            target' = PrepareTimestampAdd(GetRoundTimestamp(ClockGettime(now')),
                                          DistributionPhase)
      BY <2>1 DEF InitialStart
    <3>4. SynchronousStart => JustAfter(target', now', DistributionPhase)
      BY <2>0, <3>2, <3>3, StartTarget
    <3>5. pc' = "start" /\ sent' = <<>>
      BY <2>1 DEF InitialStart, BeginSweep
    <3> QED BY <3>4, <3>5 DEF SecondsAhead, JustAfter
  <2>2. CASE Serve
    <3>1. UNCHANGED <<pc, now, target>> /\ pc \in Sweeps
      BY <2>2 DEF Serve
    <3>2. SecondsAhead'
      BY <3>1 DEF SecondsAhead
    <3>3. ASSUME NEW i \in DOMAIN sent' PROVE Ahead(sent'[i])
      <4>1. sent \in Seq(Messages)
        BY DEF TypeOK
      <4>2. \/ UNCHANGED sent
            \/ HasMode(pc, cursor) /\ sent' = Append(sent, SweepMessage(cursor))
        BY <2>2 DEF Serve
      <4>3. CASE i \in DOMAIN sent /\ sent'[i] = sent[i]
        BY <3>1, <4>3
      <4>4. CASE sent'[i] = SweepMessage(cursor)
        BY <2>2, <3>1, <4>4, SweepMessageAhead DEF Serve
      <4>5. HasMode(pc, cursor) => SweepMessage(cursor) \in Messages
        BY <2>2, SweepMessageType DEF Serve
      <4> QED BY <4>1, <4>2, <4>3, <4>4, <4>5
    <3> QED BY <3>1, <3>2, <3>3 DEF Ahead
  <2>3. CASE PlanRound
    <3>1. pc' = "round" /\ sent' = <<>> /\ now' = now
      BY <2>3 DEF PlanRound, BeginSweep
    <3>2. ASSUME ExperimentNumber \in TimestampExperiments
          PROVE  /\ 1000 * target'.sec > now + 1000 * (DistributionPhase \div 1000) - 1000
                 /\ target'.ms >= 0
      <4>1. ExperimentNumber \notin HyperperiodExperiments
        BY <3>2 DEF TimestampExperiments, HyperperiodExperiments
      <4>2. /\ target'.sec = (now \div 1000) + (DistributionPhase \div 1000)
            /\ target'.ms = now % 1000
        BY <2>3, <3>2, <4>1 DEF PlanRound, ClockGettime
      <4> QED BY <2>0, <4>2
    <3> QED BY <3>1, <3>2 DEF SecondsAhead
  <2>4. CASE StoppingExperiment
    <3>1. PICK d \in Delays : now' = now + EndOffset + d
      BY <2>4 DEF StoppingExperiment, Passes
    <3>2. now' \in Nat
      BY <2>0, <3>1, Durations
    <3>3. ExperimentNumber \notin TimestampExperiments =>
            target' = PrepareTimestampAdd(GetRoundTimestamp(ClockGettime(now')),
                                          DistributionPhase)
      BY <2>4 DEF StoppingExperiment
    <3>4. ExperimentNumber \notin TimestampExperiments =>
            JustAfter(target', now', DistributionPhase)
      BY <2>0, <3>2, <3>3, StartTarget
    <3>5. pc' = "stop" /\ sent' = <<>>
      BY <2>4 DEF StoppingExperiment, BeginSweep
    <3> QED BY <3>4, <3>5 DEF SecondsAhead, JustAfter
  <2>5. CASE EndSweep \/ ExperimentSelection \/ Gap \/ EndExperiment
    <3>1. pc' \notin Sweeps
      BY <2>5 DEF EndSweep, AfterSweep, ExperimentSelection, Gap, EndExperiment, Sweeps
    <3> QED BY <3>1 DEF SecondsAhead, Sweeps
  <2>6. CASE (\E s \in Services, c \in Clients : ReceiveMessage(s, c)) \/ HandlerStep
             \/ UNCHANGED vars
    <3>1. UNCHANGED <<pc, now, target, sent>>
      BY <2>6, RequestsLeave
    <3> QED BY <3>1 DEF SecondsAhead, Ahead
  <2> QED BY <2>1, <2>2, <2>3, <2>4, <2>5, <2>6 DEF Next, TimerStep
<1>3. SentAhead => StampsAhead
  BY DEF StampsAhead, Ahead
<1>4. Spec => []ReferenceInv
  BY ReferenceInvariant
<1>5. Spec => []RestInv(rest)
  BY RestInvariant
<1> QED BY <1>1, <1>2, <1>3, <1>4, <1>5, TypeCorrect, PTL DEF Spec
-----------------------------------------------------------------------------
(* The sweeps that send timestamps follow one another at a distance.  The  *)
(* seconds of the target say where the timestamps of a sweep are: whatever *)
(* the rest of the target, every message drops it.                         *)

(* The sweeps that send timestamps. *)
StampedSweep ==
    \/ pc = "start" /\ SynchronousStart
    \/ pc = "round" /\ ExperimentNumber \in HyperperiodExperiments \cup TimestampExperiments
    \/ pc = "stop" /\ ExperimentNumber \notin TimestampExperiments

StampsOf(message) == {message.stop, message.reconfig, message.start} \ {Zero}

(* The target is a distribution phase and a second ahead of the clock at   *)
(* most, and less by a pause before the next is planned.                   *)
PaceInv(pause) ==
    /\ target.ms >= 0 /\ target.sec >= 0
    /\ ~OnHyperperiods => target.ms <= 999
    /\ pc = "round" /\ StampedSweep => target.sec >= 1
    /\ OnHyperperiods /\ pc \in {"start", "began", "round", "gap", "plan"} =>
          /\ rm_active_timestamp_last.ms >= 0
          /\ rm_active_timestamp_last.ms <= target.ms + 999
    /\ pc \in {"init", "start", "began", "round", "gap"} =>
          Total(target) <= now + DistributionPhase + 1000
    /\ pc \in {"plan", "ending"} =>
          Total(target) + pause <= now + DistributionPhase + 1000

LEMMA AddRest ==
  ASSUME NEW t \in Timespecs, NEW d \in Nat
  PROVE  /\ PrepareTimestampAdd(t, d) \in Timespecs
         /\ PrepareTimestampAdd(t, d).ms >= 0 /\ PrepareTimestampAdd(t, d).ms <= 999
         /\ PrepareTimestampAdd(t, d).sec >= t.sec
         /\ 1000 * PrepareTimestampAdd(t, d).sec <= 1000 * t.sec + d
  BY DEF PrepareTimestampAdd, Timespecs

LEMMA RoundedStart ==
  ASSUME NEW time \in Nat, NEW d \in Nat
  PROVE  LET t == PrepareTimestampAdd(GetRoundTimestamp(ClockGettime(time)), d)
         IN  t.sec >= 0 /\ t.ms >= 0 /\ t.ms <= 999
<1>0. ClockGettime(time) \in Timespecs /\ ClockGettime(time).sec >= 0
  BY DEF ClockGettime, Timespecs
<1>1. GetRoundTimestamp(ClockGettime(time)) \in Timespecs
      /\ GetRoundTimestamp(ClockGettime(time)).sec >= 0
  BY <1>0 DEF GetRoundTimestamp, Timespecs
<1> DEFINE r == GetRoundTimestamp(ClockGettime(time))
<1>2. r \in Timespecs /\ r.sec \in Int /\ r.sec >= 0
  BY <1>1 DEF Timespecs
<1> HIDE DEF r
<1> DEFINE t == PrepareTimestampAdd(r, d)
<1>3. t \in Timespecs /\ t.sec >= r.sec /\ t.ms >= 0 /\ t.ms <= 999
  BY <1>2 DEF PrepareTimestampAdd, Timespecs
<1>4. t.sec \in Int
  BY <1>3 DEF Timespecs
<1> HIDE DEF t
<1>5. t.sec >= 0
  BY <1>2, <1>3, <1>4
<1> QED BY <1>3, <1>5 DEF r, t

(* A round's target is planned later than the last one by the pause, but   *)
(* for what is lost in seconds and rests.                                  *)
LEMMA NextRoundTarget ==
  ASSUME HyperperiodDuration = 100, UintMod = Uint32Values,
         DistributionPhase <= LongSpan,
         TypeOK, ReferenceInv, NEW pause \in Nat, PaceInv(pause), PlanRound,
         ExperimentNumber \in HyperperiodExperiments \cup TimestampExperiments
  PROVE  /\ 1000 * target'.sec + 3000 >= 1000 * target.sec + pause
         /\ target'.ms >= 0
         /\ ~OnHyperperiods => target'.ms <= 999
         /\ Total(target') <= now + DistributionPhase + 1000
<1> USE DEF timeVars
<1>1. /\ now \in Nat /\ target \in Timespecs /\ rm_active_timestamp_last \in Timespecs
      /\ DistributionPhase \in Nat /\ pc = "plan"
      /\ target.sec \in Int /\ target.ms \in Int /\ rm_active_timestamp_last.ms \in Int
  BY Durations DEF TypeOK, PlanRound, Timespecs
<1>2. /\ target.ms >= 0 /\ 1000 * target.sec + target.ms + pause <= now + DistributionPhase + 1000
  BY <1>1 DEF PaceInv, Total
<1>3. CASE OnHyperperiods
  <2>1. target' = TargetHyperperiod(ClockGettime(now), rm_active_timestamp_last,
                                    DistributionPhase)
    BY <1>3 DEF PlanRound, OnHyperperiods
  <2>2. /\ Total(rm_active_timestamp_last) < now + DistributionPhase
        /\ now + DistributionPhase < Total(rm_active_timestamp_last) + LongSpan
    BY <1>1, <1>3 DEF ReferenceInv
  <2>3. /\ Total(target') > now + DistributionPhase
        /\ Total(target') <= now + DistributionPhase + 300
        /\ target'.ms <= rm_active_timestamp_last.ms + 900
    BY <1>1, <2>1, <2>2, TargetWindow
  <2>4. /\ rm_active_timestamp_last.ms >= 0
        /\ rm_active_timestamp_last.ms <= target.ms + 999
    BY <1>1, <1>3 DEF PaceInv
  <2>5. target' \in Timespecs
    BY <1>1, <2>1, ClockType, TargetType
  <2>6. target'.ms >= 0
    <3>1. \E advance \in Int : target'.ms = rm_active_timestamp_last.ms + (advance % 1000)
      <4> DEFINE count == NumberHyperperiods(ClockGettime(now), rm_active_timestamp_last,
                                             DistributionPhase)
      <4>1. count \in Int
        <5>1. Total(SubtractTimespec(ClockGettime(now), rm_active_timestamp_last)) \in Int
          BY <1>1, ClockType DEF Total, SubtractTimespec, Timespecs
        <5>2. DivideTowardsZero(Total(SubtractTimespec(ClockGettime(now),
                                        rm_active_timestamp_last)), 100) \in Int
          BY <5>1, DivideBounds
        <5> QED BY <1>1, <5>2 DEF NumberHyperperiods
      <4>2. target'.ms = rm_active_timestamp_last.ms + (((count * 100) % UintMod) % 1000)
        BY <2>1 DEF TargetHyperperiod
      <4> HIDE DEF count
      <4>3. (count * 100) % UintMod \in Int
        BY <4>1
      <4> QED BY <4>2, <4>3
    <3> QED BY <1>1, <2>4, <3>1
  <2>7. target'.sec \in Int /\ target'.ms \in Int /\ Total(target') = 1000 * target'.sec + target'.ms
    BY <2>5 DEF Timespecs, Total
  <2> QED BY <1>1, <1>2, <1>3, <2>3, <2>4, <2>6, <2>7
<1>4. CASE ~OnHyperperiods
  <2>1. /\ target'.sec = (now \div 1000) + (DistributionPhase \div 1000)
        /\ target'.ms = now % 1000
    BY <1>4 DEF PlanRound, ClockGettime, OnHyperperiods
  <2>2. Total(target') = 1000 * target'.sec + target'.ms
    BY DEF Total
  <2> QED BY <1>1, <1>2, <1>4, <2>1, <2>2
<1> QED BY <1>3, <1>4

(* The stop's target is later than the last one in the same way. *)
LEMMA StopTarget ==
  ASSUME TypeOK, NEW pause \in Nat, PaceInv(pause), StoppingExperiment,
         ExperimentNumber \notin TimestampExperiments
  PROVE  /\ 1000 * target'.sec + 3000 >= 1000 * target.sec + pause
         /\ target'.sec >= 0 /\ target'.ms >= 0 /\ target'.ms <= 999
<1>1. PICK d \in Delays : now' = now + EndOffset + d
  BY DEF StoppingExperiment, Passes
<1>2. now \in Nat /\ now' \in Nat /\ now' >= now /\ target.sec \in Int /\ target.ms \in Int
      /\ DistributionPhase \in Nat
  BY <1>1, Durations DEF TypeOK, Timespecs
<1>3. target.ms >= 0 /\ 1000 * target.sec + target.ms + pause <= now + DistributionPhase + 1000
  BY DEF PaceInv, Total, StoppingExperiment
<1>4. target' = PrepareTimestampAdd(GetRoundTimestamp(ClockGettime(now')), DistributionPhase)
  BY DEF StoppingExperiment
<1>5. JustAfter(target', now', DistributionPhase)
  BY <1>2, <1>4, StartTarget
<1>6. 1000 * target'.sec > now' + DistributionPhase - 1000 /\ target'.sec \in Int
  BY <1>5 DEF JustAfter, Timespecs
<1>7. target'.sec >= 0 /\ target'.ms >= 0 /\ target'.ms <= 999
  BY <1>2, <1>4, RoundedStart
<1> QED BY <1>2, <1>3, <1>6, <1>7

(* The pause is shorter than the gaps between two rounds, 10 to 12 s in    *)
(* config/, and than the 15 s before the first.                            *)
LEMMA PaceInvariant ==
  ASSUME HyperperiodDuration = 100, UintMod = Uint32Values,
         \A s, m : Slot(s, m) + 1000 < BeginOffset,
         GapMin >= 1000,
         NEW late \in Nat, \A d \in Delays : d <= late,
         DistributionPhase + BeginOffset + GapMax + late + 1000 < LongSpan,
         NEW pause \in Nat, pause >= 4000, pause <= BeginOffset, pause + 1000 <= GapMin
  PROVE  Spec => []PaceInv(pause)
<1>1. Init => PaceInv(pause)
  BY Durations, ManagerAssumption DEF ManagerAssumption, Init, PaceInv, Zero, Total
<1>2. TypeOK /\ ReferenceInv /\ PaceInv(pause) /\ [Next]_vars => PaceInv(pause)'
  <2> SUFFICES ASSUME TypeOK, ReferenceInv, PaceInv(pause), [Next]_vars
               PROVE  PaceInv(pause)'
    OBVIOUS
  <2> USE DEF handlerVars, roundVars, timeVars
  <2>0. /\ now \in Nat /\ target \in Timespecs /\ rm_active_timestamp_last \in Timespecs
        /\ target.sec \in Int /\ target.ms \in Int /\ Total(target) \in Int
        /\ DistributionPhase \in Nat /\ target.sec >= 0 /\ target.ms >= 0
    BY Durations DEF TypeOK, Total, Timespecs, PaceInv
  <2>1. CASE InitialStart
    <3>1. PICK d \in Delays : now' = now + ClientInitTime + d
      BY <2>1 DEF InitialStart, Passes
    <3>2. now' \in Nat /\ now' >= now /\ pc = "init" /\ pc' = "start"
      BY <2>0, <2>1, <3>1, Durations DEF InitialStart, BeginSweep
    <3>3. CASE SynchronousStart
      <4>1. /\ target' = PrepareTimestampAdd(GetRoundTimestamp(ClockGettime(now')),
                                             DistributionPhase)
            /\ rm_active_timestamp_last' = target'
        BY <2>1, <3>3 DEF InitialStart
      <4>2. JustAfter(target', now', DistributionPhase)
        BY <2>0, <3>2, <4>1, StartTarget
      <4>3. target'.sec >= 0 /\ target'.ms >= 0 /\ target'.ms <= 999
        BY <2>0, <3>2, <4>1, RoundedStart
      <4>4. Total(target') <= now' + DistributionPhase + 1000
            /\ target'.ms \in Int
        BY <2>0, <3>2, <4>2 DEF JustAfter, Timespecs
      <4> QED BY <3>2, <4>1, <4>3, <4>4 DEF PaceInv, Total
    <3>4. CASE ~SynchronousStart
      <4>1. UNCHANGED target /\ ~OnHyperperiods
        BY <2>1, <3>4, ManagerAssumption DEF InitialStart, ManagerAssumption, OnHyperperiods
      <4> QED BY <2>0, <3>2, <4>1 DEF PaceInv, Total, OnHyperperiods
    <3> QED BY <3>3, <3>4
  <2>2. CASE Serve
    <3>1. UNCHANGED <<pc, now, target>>
      BY <2>2 DEF Serve
    <3>2. CASE UNCHANGED rm_active_timestamp_last
      BY <3>1, <3>2 DEF PaceInv, Total, StampedSweep, OnHyperperiods
    <3>3. CASE rm_active_timestamp_last' # rm_active_timestamp_last
      <4>1. rm_active_timestamp_last' = PrepareTimestampAdd(target,
                Slot(cursor, StartupMode[service_list[cursor]]))
        BY <2>2, <3>3 DEF Serve, SweepMessage, StartMessage, Message
      <4>2. Slot(cursor, StartupMode[service_list[cursor]]) \in Nat
        BY SlotType
      <4>3. /\ rm_active_timestamp_last'.ms >= 0 /\ rm_active_timestamp_last'.ms <= 999
            /\ rm_active_timestamp_last'.ms \in Int
        BY <2>0, <4>1, <4>2, AddRest DEF Timespecs
      <4>4. rm_active_timestamp_last'.ms <= target.ms + 999
        BY <2>0, <4>3
      <4> QED BY <3>1, <4>3, <4>4 DEF PaceInv, Total, StampedSweep, OnHyperperiods
    <3> QED BY <3>2, <3>3
  <2>3. CASE EndSweep
    <3>1. UNCHANGED <<now, target, rm_active_timestamp_last>>
      BY <2>3 DEF EndSweep
    <3>2. \/ pc = "start" /\ pc' = "began"
          \/ pc = "round" /\ pc' = "gap"
          \/ pc' \in {"stopped", "exited"}
      BY <2>3 DEF EndSweep, AfterSweep, Sweeps
    <3> QED BY <3>1, <3>2 DEF PaceInv, Total, OnHyperperiods
  <2>4. CASE ExperimentSelection
    <3>1. PICK d \in Delays : now' = now + BeginOffset + d
      BY <2>4 DEF ExperimentSelection, Passes
    <3>2. pc = "began" /\ pc' \in {"plan", "invalid"} /\ UNCHANGED <<target, rm_active_timestamp_last>>
      BY <2>4 DEF ExperimentSelection
    <3>3. now' \in Nat /\ now' >= now + pause
      BY <2>0, <3>1, Durations
    <3>4. Total(target') + pause <= now' + DistributionPhase + 1000
      BY <2>0, <3>2, <3>3 DEF PaceInv, Total
    <3> QED BY <3>2, <3>4 DEF PaceInv, OnHyperperiods
  <2>5. CASE PlanRound
    <3>1. pc = "plan" /\ pc' = "round" /\ now' = now
      BY <2>5 DEF PlanRound, BeginSweep
    <3>2. CASE ExperimentNumber \in HyperperiodExperiments \cup TimestampExperiments
      <4>1. DistributionPhase <= LongSpan
        BY <2>0, Durations, Spans
      <4>2. /\ 1000 * target'.sec + 3000 >= 1000 * target.sec + pause
            /\ target'.ms >= 0
            /\ ~OnHyperperiods => target'.ms <= 999
            /\ Total(target') <= now + DistributionPhase + 1000
        BY <2>5, <3>2, <4>1, NextRoundTarget
      <4>3. target' \in Timespecs
        BY <2>5, TypeStep DEF TypeOK
      <4>4. target'.sec \in Int /\ target'.ms \in Int
        BY <4>3 DEF Timespecs
      <4>5. target'.sec >= 1
        BY <2>0, <4>2, <4>4
      <4>6. OnHyperperiods => rm_active_timestamp_last' = target'
        BY <2>5 DEF PlanRound, OnHyperperiods
      <4> QED BY <3>1, <4>2, <4>4, <4>5, <4>6 DEF PaceInv, Total, OnHyperperiods
    <3>3. CASE ExperimentNumber \notin HyperperiodExperiments \cup TimestampExperiments
      <4>1. UNCHANGED target /\ ~OnHyperperiods
        BY <2>5, <3>3 DEF PlanRound, OnHyperperiods
      <4>2. Total(target) + pause <= now + DistributionPhase + 1000
        BY <3>1 DEF PaceInv
      <4>3. Total(target) <= now + DistributionPhase + 1000
        BY <2>0, <4>2
      <4> QED BY <3>1, <3>3, <4>1, <4>3 DEF PaceInv, Total, StampedSweep, OnHyperperiods
    <3> QED BY <3>2, <3>3
  <2>6. CASE Gap
    <3>1. PICK gap \in (GapMin \div 1000)..(GapMax \div 1000) : Passes(1000 * gap)
      BY <2>6 DEF Gap
    <3>2. PICK d \in Delays : now' = now + 1000 * gap + d
      BY <3>1 DEF Passes
    <3>3. gap \in Int /\ 1000 * gap >= pause /\ d \in Nat
      BY <3>1, Durations
    <3>4. now' \in Nat /\ now' >= now + pause
      BY <2>0, <3>2, <3>3
    <3>5. pc = "gap" /\ pc' = "plan" /\ UNCHANGED <<target, rm_active_timestamp_last>>
      BY <2>6 DEF Gap
    <3>6. Total(target') + pause <= now' + DistributionPhase + 1000
      BY <2>0, <3>4, <3>5 DEF PaceInv, Total
    <3> QED BY <3>5, <3>6 DEF PaceInv, OnHyperperiods
  <2>7. CASE EndExperiment
    BY <2>7 DEF EndExperiment, PaceInv, Total, OnHyperperiods
  <2>8. CASE StoppingExperiment
    <3>1. pc' = "stop"
      BY <2>8 DEF StoppingExperiment, BeginSweep
    <3>2. CASE ExperimentNumber \in TimestampExperiments
      <4>1. UNCHANGED target
        BY <2>8, <3>2 DEF StoppingExperiment
      <4> QED BY <3>1, <4>1 DEF PaceInv, OnHyperperiods
    <3>3. CASE ExperimentNumber \notin TimestampExperiments
      <4>1. target'.sec >= 0 /\ target'.ms >= 0 /\ target'.ms <= 999
        BY <2>8, <3>3, StopTarget
      <4> QED BY <3>1, <4>1 DEF PaceInv
    <3> QED BY <3>2, <3>3
  <2>9. CASE (\E s \in Services, c \in Clients : ReceiveMessage(s, c)) \/ HandlerStep
             \/ UNCHANGED vars
    <3>1. UNCHANGED <<pc, now, target, rm_active_timestamp_last>>
      BY <2>9, RequestsLeave
    <3> QED BY <3>1 DEF PaceInv, Total, StampedSweep, OnHyperperiods
  <2> QED BY <2>1, <2>2, <2>3, <2>4, <2>5, <2>6, <2>7, <2>8, <2>9 DEF Next, TimerStep
<1>3. Spec => []ReferenceInv
  BY ReferenceInvariant
<1> QED BY <1>1, <1>2, <1>3, TypeCorrect, PTL DEF Spec

(* A timestamp near the target's seconds: at most what a reconfiguration   *)
(* is planned ahead of the restart before them, its second over a span     *)
(* after them.                                                             *)
Near(t, span) ==
    /\ t \in Timespecs /\ t.ms >= 0 /\ t.ms <= 999
    /\ Total(t) + ReconfigOffset >= 1000 * target.sec
    /\ 1000 * (t.sec + 1) <= 1000 * target.sec + span

SpanFits(span) ==
    /\ \A s, m : Slot(s, m) + 1000 <= span
    /\ StartOffset + ReconfigOffset + 1000 <= span
    /\ 1020 <= span

LEMMA AddNear ==
  ASSUME NEW span \in Nat, NEW d \in Nat, d + 1000 <= span, target \in Timespecs
  PROVE  Near(PrepareTimestampAdd(target, d), span)
<1> DEFINE t == PrepareTimestampAdd(target, d)
<1>1. /\ t \in Timespecs /\ t.ms >= 0 /\ t.ms <= 999 /\ 1000 * t.sec <= 1000 * target.sec + d
      /\ Total(t) = 1000 * target.sec + d
  BY AddRest, SlotBase
<1>2. t.sec \in Int /\ target.sec \in Int
  BY <1>1 DEF Timespecs
<1> HIDE DEF t
<1>3. ReconfigOffset \in Nat
  BY Durations
<1>4. Total(t) + ReconfigOffset >= 1000 * target.sec
  BY <1>1, <1>2, <1>3
<1>5. 1000 * (t.sec + 1) <= 1000 * target.sec + span
  BY <1>1, <1>2
<1>6. Near(t, span)
  BY <1>1, <1>4, <1>5 DEF Near
<1> QED BY <1>6 DEF t

LEMMA SubNear ==
  ASSUME NEW span \in Nat, NEW d \in Nat, d + 1000 <= span, target \in Timespecs,
         target.sec >= 0,
         PrepareTimestampSub(PrepareTimestampAdd(target, d), ReconfigOffset) # Zero
  PROVE  Near(PrepareTimestampSub(PrepareTimestampAdd(target, d), ReconfigOffset), span)
<1> DEFINE total == 1000 * target.sec + d
           t == PrepareTimestampSub(PrepareTimestampAdd(target, d), ReconfigOffset)
<1>1. target.sec \in Int /\ total \in Nat /\ ReconfigOffset \in Nat
  BY Durations DEF Timespecs
<1>2. Total(PrepareTimestampAdd(target, d)) = total
  BY SlotBase
<1> HIDE DEF total
<1>3. t = ClockGettime(IF total < ReconfigOffset THEN 0 ELSE total - ReconfigOffset)
  BY <1>2 DEF PrepareTimestampSub
<1>4. ClockGettime(0) = Zero
  BY DEF ClockGettime, Zero
<1>5. total >= ReconfigOffset
  BY <1>1, <1>3, <1>4
<1> DEFINE time == total - ReconfigOffset
<1>6. time \in Nat /\ t = ClockGettime(time)
  BY <1>1, <1>3, <1>5
<1> HIDE DEF time, t
<1>7. /\ Total(t) = time /\ t \in Timespecs /\ t.ms >= 0 /\ t.ms <= 999
      /\ 1000 * t.sec <= time
  BY <1>6, ClockTotal, ClockType DEF ClockGettime
<1>8. t.sec \in Int
  BY <1>7 DEF Timespecs
<1>9. Near(t, span)
  BY <1>1, <1>6, <1>7, <1>8 DEF Near, time, total
<1> QED BY <1>9 DEF t

(* All timestamps of a sweep are near its target's seconds.                *)
LEMMA SweepMessageNear ==
  ASSUME TypeOK, NEW pause, PaceInv(pause), NEW span \in Nat, SpanFits(span),
         pc \in Sweeps, NEW s \in Listed
  PROVE  /\ \A t \in StampsOf(SweepMessage(s)) : Near(t, span)
         /\ ~StampedSweep => StampsOf(SweepMessage(s)) = {}
<1>1. /\ target \in Timespecs /\ target.sec \in Int /\ target.ms \in Int
      /\ target.sec >= 0 /\ target.ms >= 0
  BY DEF TypeOK, Timespecs, PaceInv
<1>2. /\ ReconfigOffset \in Nat /\ StartOffset + ReconfigOffset \in Nat
      /\ ReconfigOffset + 1000 <= span /\ 1020 <= span
      /\ StartOffset + ReconfigOffset + 1000 <= span
  BY Durations DEF SpanFits
<1>3. \A service, mode : /\ Slot(service, mode) \in Nat /\ Slot(service, mode) + 1000 <= span
  BY SlotType DEF SpanFits
<1>4. CASE pc = "start"
  <2> DEFINE start == PrepareTimestampAdd(target, Slot(s, StartupMode[service_list[s]]))
  <2>1. /\ StampsOf(SweepMessage(s)) \subseteq {start}
        /\ ~SynchronousStart => StampsOf(SweepMessage(s)) = {}
    BY <1>4 DEF SweepMessage, StartMessage, Message, StampsOf
  <2>2. Near(start, span)
    BY <1>1, <1>3, AddNear
  <2> HIDE DEF start
  <2>3. \A t \in StampsOf(SweepMessage(s)) : Near(t, span)
    BY <2>1, <2>2
  <2>4. ~StampedSweep => ~SynchronousStart
    BY <1>4 DEF StampedSweep
  <2> QED BY <2>1, <2>3, <2>4
<1>5. CASE pc = "round"
  <2> DEFINE mode == ReconfigurationMap[NetworkMode][service_list[s]]
  <2>1. CASE OnHyperperiods
    <3> DEFINE start == PrepareTimestampAdd(target, Slot(s, mode))
               reconfig == PrepareTimestampSub(start, ReconfigOffset)
    <3>0. SweepMessage(s) = RoundMessage(s)
      BY <1>5 DEF SweepMessage
    <3>1. SweepMessage(s) = HyperperiodMessage(s, mode)
      BY <2>1, <3>0 DEF RoundMessage, OnHyperperiods, HyperperiodExperiments,
                        TimestampExperiments
    <3>2. StampsOf(HyperperiodMessage(s, mode)) \subseteq {start, reconfig} \ {Zero}
      BY DEF HyperperiodMessage, Message, StampsOf
    <3>3. Near(start, span)
      BY <1>1, <1>3, AddNear
    <3>4. reconfig # Zero => Near(reconfig, span)
      BY <1>1, <1>3, SubNear
    <3> QED BY <1>5, <2>1, <3>1, <3>2, <3>3, <3>4 DEF StampedSweep, OnHyperperiods
  <2>2. CASE ~OnHyperperiods /\ ExperimentNumber \in TimestampExperiments
    <3> DEFINE a == PrepareTimestampAdd(target, ReconfigOffset)
               b == PrepareTimestampAdd(target, StartOffset + ReconfigOffset)
    <3>1. SweepMessage(s) = TimestampMessage(s, mode)
      BY <1>5, <2>2 DEF SweepMessage, RoundMessage, OnHyperperiods
    <3>2. StampsOf(TimestampMessage(s, mode)) \subseteq {target, a, b}
      BY DEF TimestampMessage, Message, StampsOf
    <3>3. Near(a, span) /\ Near(b, span)
      BY <1>1, <1>2, AddNear
    <3>4. Near(target, span)
      BY <1>1, <1>2, <2>2 DEF Near, PaceInv, Total
    <3> HIDE DEF a, b
    <3> QED BY <1>5, <2>2, <3>1, <3>2, <3>3, <3>4 DEF StampedSweep
  <2>3. CASE ~OnHyperperiods /\ ExperimentNumber \notin TimestampExperiments
    <3>1. SweepMessage(s) = PlainMessage(s, mode)
      BY <1>5, <2>3 DEF SweepMessage, RoundMessage, OnHyperperiods
    <3> QED BY <3>1 DEF PlainMessage, Message, StampsOf
  <2> QED BY <2>1, <2>2, <2>3
<1>6. CASE pc = "stop"
  <2> DEFINE a == PrepareTimestampAdd(target, 10)
             b == PrepareTimestampAdd(target, 20)
  <2>1. /\ StampsOf(SweepMessage(s)) \subseteq {a, b}
        /\ ExperimentNumber \in TimestampExperiments => StampsOf(SweepMessage(s)) = {}
    BY <1>6 DEF SweepMessage, StopMessage, Message, StampsOf
  <2>2. Near(a, span) /\ Near(b, span)
    BY <1>1, <1>2, AddNear
  <2> HIDE DEF a, b
  <2> QED BY <1>6, <2>1, <2>2 DEF StampedSweep
<1> QED BY <1>4, <1>5, <1>6 DEF Sweeps

(* A message with a stop or a reconfiguration before its restart has one.  *)
RestartTypes ==
    {"RM_CLIENT_SYNC_TIMESTAMP_RECONFIGURE_HW",
     "RM_CLIENT_SYNC_TIMESTAMP_RECONFIGURE_SYNC_OBJECT_SW"}

LEMMA SweepMessageRestarts ==
  ASSUME TypeOK, NEW pause, PaceInv(pause), pc \in Sweeps, NEW s \in Listed,
         SweepMessage(s).type \in RestartTypes
  PROVE  SweepMessage(s).start # Zero
<1>1. target \in Timespecs /\ target.sec \in Int
  BY DEF TypeOK, Timespecs
<1>2. pc = "round"
  BY DEF SweepMessage, StartMessage, StopMessage, Message, RestartTypes, Sweeps
<1> DEFINE mode == ReconfigurationMap[NetworkMode][service_list[s]]
<1>3. \E d \in Nat : SweepMessage(s).start = PrepareTimestampAdd(target, d)
  <2>1. CASE ExperimentNumber \in HyperperiodExperiments
    <3>0. SweepMessage(s) = RoundMessage(s)
      BY <1>2 DEF SweepMessage
    <3>1. SweepMessage(s) = HyperperiodMessage(s, mode)
      BY <2>1, <3>0 DEF RoundMessage, HyperperiodExperiments, TimestampExperiments
    <3> QED BY <3>1, SlotType DEF HyperperiodMessage, Message
  <2>2. CASE ExperimentNumber \notin HyperperiodExperiments
    <3>1. CASE ExperimentNumber \in TimestampExperiments
      <4>1. SweepMessage(s) = TimestampMessage(s, mode)
        BY <1>2, <2>2, <3>1 DEF SweepMessage, RoundMessage
      <4>2. SweepMessage(s).start = PrepareTimestampAdd(target, StartOffset + ReconfigOffset)
        BY <4>1 DEF TimestampMessage, Message, RestartTypes
      <4>3. StartOffset + ReconfigOffset \in Nat
        BY Durations
      <4> QED BY <4>2, <4>3
    <3>2. CASE ExperimentNumber \notin TimestampExperiments
      BY <1>2, <2>2, <3>2 DEF SweepMessage, RoundMessage, PlainMessage, Message, RestartTypes
    <3> QED BY <3>1, <3>2
  <2> QED BY <2>1, <2>2
<1>4. ExperimentNumber \in HyperperiodExperiments \cup TimestampExperiments
  BY <1>2 DEF SweepMessage, RoundMessage, PlainMessage, Message, RestartTypes
<1>5. target.sec >= 1
  BY <1>2, <1>4 DEF PaceInv, StampedSweep
<1>6. PICK d \in Nat : SweepMessage(s).start = PrepareTimestampAdd(target, d)
  BY <1>3
<1> DEFINE t == PrepareTimestampAdd(target, d)
<1>7. t \in Timespecs /\ t.sec >= target.sec
  BY <1>1, AddRest
<1>8. t.sec \in Int
  BY <1>7 DEF Timespecs
<1> HIDE DEF t
<1>9. t # Zero
  BY <1>1, <1>5, <1>7, <1>8 DEF Zero
<1> QED BY <1>6, <1>9 DEF t

=============================================================================
